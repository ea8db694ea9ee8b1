----------------------------- MODULE MCPipeline -----------------------------
(* The windows of the runs of Pipeline: two, of one page each, so that a   *)
(* roll in mid-cycle leaves rows of either window.                         *)
EXTENDS Pipeline

MCOneEach == [w \in Windows |-> 1]
=============================================================================
