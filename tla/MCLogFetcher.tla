---------------------------- MODULE MCLogFetcher ----------------------------
(* Three windows: one the clamp cuts, an empty one and a shorter one, so   *)
(* that a roll in mid-loop can leave the loop out of range.                *)
EXTENDS LogFetcher

MCPagesOf == [w \in Windows |-> CASE w = 0 -> 3 [] w = 1 -> 0 [] OTHER -> 1]
=============================================================================
