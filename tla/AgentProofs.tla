----------------------------- MODULE AgentProofs -----------------------------
(***************************************************************************)
(* Proofs about Agent, for every length of the history that is sent, every *)
(* number of iterations, tools and failures, and every conversation.       *)
(***************************************************************************)
EXTENDS Agent, SequenceTheorems, FiniteSetTheorems, TLAPS

Statuses == {"pending", "sent", "dropped"}
DraftEntries == [source : Nat, status : Statuses]
CallEntries == [tool : Tools, started : BOOLEAN, result : {"ok", "error", "skipped"}]
OutcomeEntries == [tool : Tools, result : {"ok", "error"}]

-----------------------------------------------------------------------------
(* The operators of the model.                                             *)

LEMMA DraftGoes ==
    ASSUME NEW r \in DraftEntries, NEW s \in Statuses
    PROVE  /\ [r EXCEPT !.status = s] \in DraftEntries
           /\ [r EXCEPT !.status = s].status = s
           /\ [r EXCEPT !.status = s].source = r.source
BY DEF DraftEntries

\* The drafts keep their places when the pending ones are dropped.
LEMMA ObsoleteDraftsAreDropped ==
    ASSUME NEW ds \in Seq(DraftEntries)
    PROVE  /\ ObsoleteDrafts(ds) \in Seq(DraftEntries)
           /\ Len(ObsoleteDrafts(ds)) = Len(ds)
           /\ \A d \in 1 .. Len(ds) :
                 /\ ObsoleteDrafts(ds)[d].status # "pending"
                 /\ ObsoleteDrafts(ds)[d].status = "sent" => ds[d].status = "sent"
<1> DEFINE After(d) == IF ds[d].status = "pending"
                       THEN [ds[d] EXCEPT !.status = "dropped"] ELSE ds[d]
<1>1. \A d \in 1 .. Len(ds) : ds[d] \in DraftEntries
    BY ElementOfSeq
<1>2. \A d \in 1 .. Len(ds) :
         /\ After(d) \in DraftEntries
         /\ After(d).status # "pending"
         /\ After(d).status = "sent" => ds[d].status = "sent"
    BY <1>1, DraftGoes DEF Statuses
<1>3. DOMAIN ds = 1 .. Len(ds) /\ Len(ds) \in Nat
    BY LenProperties
<1>4. ObsoleteDrafts(ds) = [d \in 1 .. Len(ds) |-> After(d)]
    BY <1>3 DEF ObsoleteDrafts
<1> HIDE DEF After
<1>5. ObsoleteDrafts(ds) \in Seq(DraftEntries)
    BY <1>2, <1>3, <1>4, IsASeq
<1>6. Len(ObsoleteDrafts(ds)) = Len(ds)
    BY <1>3, <1>4, <1>5, LenProperties
<1>7. QED
    BY <1>2, <1>4, <1>5, <1>6

\* A mark changes one draft's status.
LEMMA MarkedOne ==
    ASSUME NEW d \in 1 .. Len(drafts), drafts \in Seq(DraftEntries),
           NEW s \in Statuses, Marked(d, s)
    PROVE  /\ drafts' \in Seq(DraftEntries)
           /\ Len(drafts') = Len(drafts)
           /\ \A e \in 1 .. Len(drafts) :
                 /\ drafts'[e].source = drafts[e].source
                 /\ drafts'[e].status = IF e = d THEN s ELSE drafts[e].status
<1> DEFINE r == [drafts[d] EXCEPT !.status = s]
<1>1. drafts[d] \in DraftEntries
    BY ElementOfSeq
<1>2. r \in DraftEntries /\ r.status = s /\ r.source = drafts[d].source
    BY <1>1, DraftGoes
<1>3. drafts' = [drafts EXCEPT ![d] = r]
    BY DEF Marked
<1> HIDE DEF r
<1>4. /\ drafts' \in Seq(DraftEntries)
      /\ Len(drafts') = Len(drafts)
      /\ \A e \in 1 .. Len(drafts) : drafts'[e] = IF e = d THEN r ELSE drafts[e]
    BY <1>2, <1>3, ExceptSeq
<1>5. QED
    BY <1>2, <1>4

LEMMA CallGoes ==
    ASSUME NEW r \in CallEntries, NEW why \in {"error", "skipped"}
    PROVE  /\ [r EXCEPT !.result = why] \in CallEntries
           /\ [r EXCEPT !.result = why].tool = r.tool
           /\ [r EXCEPT !.result = why].started = r.started
           /\ [r EXCEPT !.result = why].result = why
BY DEF CallEntries

\* The last entry is the tool's: it is marked as failed.
LastIs(tool) == calls # << >> /\ calls[Len(calls)].tool = tool

LEMMA ShowFailedMarks ==
    ASSUME calls \in Seq(CallEntries), NEW tool \in Tools, NEW why \in {"error", "skipped"},
           LastIs(tool)
    PROVE  /\ ShowFailed(tool, why) \in Seq(CallEntries)
           /\ Len(ShowFailed(tool, why)) = Len(calls)
           /\ \A k \in 1 .. Len(calls) :
                 /\ ShowFailed(tool, why)[k].tool = calls[k].tool
                 /\ ShowFailed(tool, why)[k].started = calls[k].started
                 /\ ShowFailed(tool, why)[k].result =
                       IF k = Len(calls) THEN why ELSE calls[k].result
<1> DEFINE n == Len(calls)
           r == [calls[n] EXCEPT !.result = why]
<1>1. n \in 1 .. Len(calls)
    BY EmptySeq DEF LastIs
<1>2. calls[n] \in CallEntries
    BY <1>1, ElementOfSeq
<1>3. /\ r \in CallEntries /\ r.tool = calls[n].tool
      /\ r.started = calls[n].started /\ r.result = why
    BY <1>2, CallGoes
<1>4. ShowFailed(tool, why) = [calls EXCEPT ![n] = r]
    BY DEF LastIs, ShowFailed
<1> HIDE DEF r
<1>5. /\ [calls EXCEPT ![n] = r] \in Seq(CallEntries)
      /\ Len([calls EXCEPT ![n] = r]) = Len(calls)
      /\ \A k \in 1 .. Len(calls) : [calls EXCEPT ![n] = r][k] = IF k = n THEN r ELSE calls[k]
    BY <1>1, <1>3, ExceptSeq
<1>6. QED
    BY <1>3, <1>4, <1>5

\* It is not: the failure gets an entry of its own, of a tool that was not started.
LEMMA ShowFailedAppends ==
    ASSUME calls \in Seq(CallEntries), NEW tool \in Tools, NEW why \in {"error", "skipped"},
           ~LastIs(tool)
    PROVE  LET entry == [tool |-> tool, started |-> FALSE, result |-> why]
           IN  entry \in CallEntries /\ ShowFailed(tool, why) = Append(calls, entry)
BY DEF LastIs, ShowFailed, CallEntries

-----------------------------------------------------------------------------
(* Types, and what belongs to a turn.                                      *)

InTurn == pc \in {"asking", "dispatch", "tool"}

\* A tool runs for a block, and nothing of a turn is kept outside it.
TurnInv ==
    /\ pc = "tool" => blocks # << >>
    /\ ~InTurn => /\ msgs = << >> /\ iteration = 0 /\ blocks = << >> /\ sqlFailures = 0
                  /\ preview = FALSE /\ calls = << >> /\ outcomes = << >>

\* The draft that is posted is a pending one that was approved.
PostInv ==
    /\ pc = "posting" => /\ posting \in 1 .. Len(drafts)
                         /\ drafts[posting].status = "pending"
                         /\ posting \in approved
    /\ pc # "posting" => posting = 0

\* TypeOK, with names for the sets of entries.
Types ==
    /\ pc \in {"ready", "asking", "dispatch", "tool", "posting"}
    /\ history \in Seq(Kinds)
    /\ chat \in Seq({"user", "assistant"})
    /\ drafts \in Seq(DraftEntries)
    /\ msgs \in Seq(Kinds)
    /\ iteration \in 0 .. (MaxIterations - 1)
    /\ blocks \in Seq(Tools)
    /\ sqlFailures \in Nat
    /\ preview \in BOOLEAN
    /\ calls \in Seq(CallEntries)
    /\ outcomes \in Seq(OutcomeEntries)
    /\ posting \in Nat
    /\ disturbed \in BOOLEAN
    /\ approved \subseteq Nat
    /\ delivered \subseteq approved

TypeInv == Types /\ TurnInv /\ PostInv

LEMMA TypeInvInit == Init => TypeInv
<1> SUFFICES ASSUME Init PROVE TypeInv
    OBVIOUS
<1>1. 0 \in 0 .. (MaxIterations - 1)
    BY AgentAssumption
<1>2. /\ history \in Seq(Kinds) /\ msgs \in Seq(Kinds) /\ chat \in Seq({"user", "assistant"})
      /\ drafts \in Seq(DraftEntries) /\ blocks \in Seq(Tools)
      /\ calls \in Seq(CallEntries) /\ outcomes \in Seq(OutcomeEntries)
    BY EmptySeq DEF Init
<1>3. QED
    BY <1>1, <1>2 DEF Init, TypeInv, Types, TurnInv, PostInv, InTurn

\* What a turn leaves behind.
LEMMA FinishTurnOK ==
    ASSUME TypeInv, NEW draft \in BOOLEAN, FinishTurn(draft), InTurn,
           history' \in Seq(Kinds), disturbed' \in BOOLEAN, UNCHANGED alertVars
    PROVE  TypeInv'
<1> DEFINE entry == [source |-> Len(chat) + 1, status |-> "pending"]
<1>1. Types
    BY DEF TypeInv
<1>2. Len(chat) \in Nat
    BY <1>1, LenProperties DEF Types
<1>3. entry \in DraftEntries
    BY <1>2 DEF DraftEntries, Statuses
<1>4. drafts' \in Seq(DraftEntries)
  <2>1. Append(drafts, entry) \in Seq(DraftEntries)
      BY <1>1, <1>3, AppendProperties DEF Types
  <2>2. QED
      BY <1>1, <2>1 DEF FinishTurn, Types
<1>5. chat' \in Seq({"user", "assistant"})
    BY <1>1, AppendProperties DEF FinishTurn, Types
<1>6. /\ msgs' \in Seq(Kinds) /\ blocks' \in Seq(Tools) /\ calls' \in Seq(CallEntries)
      /\ outcomes' \in Seq(OutcomeEntries)
    BY EmptySeq DEF FinishTurn, NoTurn
<1>7. iteration' \in 0 .. (MaxIterations - 1) /\ sqlFailures' \in Nat /\ preview' \in BOOLEAN
  <2>1. iteration' = 0 /\ sqlFailures' = 0 /\ preview' = FALSE
      BY DEF FinishTurn, NoTurn
  <2>2. 0 \in 0 .. (MaxIterations - 1)
      BY AgentAssumption
  <2>3. QED
      BY <2>1, <2>2
<1>8. UNCHANGED <<posting, approved, delivered>> /\ pc' = "ready"
    BY DEF FinishTurn, alertVars
<1>9. /\ pc' \in {"ready", "asking", "dispatch", "tool", "posting"}
      /\ posting' \in Nat /\ approved' \subseteq Nat /\ delivered' \subseteq approved'
    BY <1>1, <1>8 DEF Types
<1>10. Types'
    BY <1>4, <1>5, <1>6, <1>7, <1>9 DEF Types
<1>11. TurnInv' /\ PostInv'
    BY <1>8 DEF FinishTurn, NoTurn, TypeInv, TurnInv, PostInv, InTurn
<1>12. QED
    BY <1>10, <1>11 DEF TypeInv

LEMMA SubmitOK ==
    ASSUME TypeInv, SubmitUserTurn
    PROVE  TypeInv'
<1> USE DEF TypeInv
<1>1. drafts' \in Seq(DraftEntries)
    BY ObsoleteDraftsAreDropped DEF SubmitUserTurn, Types
<1>2. chat' \in Seq({"user", "assistant"}) /\ msgs' \in Seq(Kinds)
    BY AppendProperties DEF SubmitUserTurn, Types, Kinds
<1>3. Types'
    BY <1>1, <1>2 DEF SubmitUserTurn, Types, alertVars
<1>4. TurnInv' /\ PostInv'
    BY DEF SubmitUserTurn, alertVars, TurnInv, PostInv, InTurn
<1>5. QED
    BY <1>3, <1>4

LEMMA ApiOK ==
    ASSUME TypeInv, ApiStep
    PROVE  TypeInv'
<1> USE DEF TypeInv
<1>1. CASE ApiFails
    BY <1>1, FinishTurnOK DEF ApiFails, InTurn, Types
<1>2. CASE ApiSays
  <2>1. history' \in Seq(Kinds)
      BY <1>2, AppendProperties DEF ApiSays, Types, Kinds
  <2>2. QED
      BY <1>2, <2>1, FinishTurnOK DEF ApiSays, InTurn, Types
<1>3. ASSUME NEW n \in 1 .. MaxBlocks, NEW tools \in [1 .. n -> Tools], ApiCalls(tools)
      PROVE  TypeInv'
  <2>1. tools \in Seq(Tools)
      BY <1>3, AgentAssumption
  <2>2. msgs' \in Seq(Kinds)
      BY <1>3, AppendProperties DEF ApiCalls, Types, Kinds
  <2>3. Types'
      BY <1>3, <2>1, <2>2 DEF ApiCalls, Types, alertVars
  <2>4. TurnInv' /\ PostInv'
      BY <1>3 DEF ApiCalls, alertVars, TurnInv, PostInv, InTurn
  <2>5. QED
      BY <2>3, <2>4
<1>4. QED
    BY <1>1, <1>2, <1>3 DEF ApiStep

\* The page's reaction to a failure keeps its entries' type.
LEMMA ShowFailedOK ==
    ASSUME calls \in Seq(CallEntries), NEW tool \in Tools, NEW why \in {"error", "skipped"}
    PROVE  ShowFailed(tool, why) \in Seq(CallEntries)
<1>1. CASE LastIs(tool)
    BY <1>1, ShowFailedMarks
<1>2. CASE ~LastIs(tool)
    BY <1>2, ShowFailedAppends, AppendProperties
<1>3. QED
    BY <1>1, <1>2

LEMMA ReturnedOK ==
    ASSUME TypeInv, pc = "tool", NEW result \in {"ok", "error"},
           Returned(Head(blocks), result),
           sqlFailures' \in Nat, preview' \in BOOLEAN, calls' \in Seq(CallEntries)
    PROVE  TypeInv'
<1> USE DEF TypeInv
<1>1. Head(blocks) \in Tools /\ Tail(blocks) \in Seq(Tools)
    BY HeadTailProperties DEF Types, TurnInv
<1>2. [tool |-> Head(blocks), result |-> result] \in OutcomeEntries
    BY <1>1 DEF OutcomeEntries
<1>3. outcomes' \in Seq(OutcomeEntries) /\ blocks' \in Seq(Tools)
    BY <1>1, <1>2, AppendProperties DEF Returned, Types
<1>4. Types'
    BY <1>3 DEF Returned, Types, alertVars
<1>5. TurnInv' /\ PostInv'
    BY DEF Returned, alertVars, TurnInv, PostInv, InTurn
<1>6. QED
    BY <1>4, <1>5

LEMMA ToolStepOK ==
    ASSUME TypeInv, ToolStep
    PROVE  TypeInv'
<1> USE DEF TypeInv
<1>1. blocks # << >> => Head(blocks) \in Tools /\ Tail(blocks) \in Seq(Tools)
    BY HeadTailProperties DEF Types
<1>2. CASE StartTool
  <2>1. calls' \in Seq(CallEntries)
    <3>1. [tool |-> Head(blocks), started |-> TRUE, result |-> "ok"] \in CallEntries
        BY <1>1, <1>2 DEF StartTool, CallEntries
    <3>2. QED
        BY <1>2, <3>1, AppendProperties DEF StartTool, ShowStarted, Types
  <2>2. Types'
      BY <1>2, <2>1 DEF StartTool, Types, alertVars
  <2>3. TurnInv' /\ PostInv'
      BY <1>2 DEF StartTool, alertVars, TurnInv, PostInv, InTurn
  <2>4. QED
      BY <2>2, <2>3
<1>3. CASE SkipTool
  <2>1. calls' \in Seq(CallEntries)
      BY <1>3, ShowFailedOK DEF SkipTool, Types, Tools
  <2>2. Types'
      BY <1>1, <1>3, <2>1 DEF SkipTool, Types, alertVars
  <2>3. TurnInv' /\ PostInv'
      BY <1>3 DEF SkipTool, alertVars, TurnInv, PostInv, InTurn
  <2>4. QED
      BY <2>2, <2>3
<1>4. CASE ToolFailed
  <2>1. Head(blocks) \in Tools
      BY <1>1, <1>4 DEF ToolFailed, TurnInv
  <2>2. calls' \in Seq(CallEntries)
      BY <1>4, <2>1, ShowFailedOK DEF ToolFailed, Types
  <2>3. sqlFailures' \in Nat /\ preview' \in BOOLEAN
      BY <1>4 DEF ToolFailed, Types
  <2>4. QED
      BY <1>4, <2>2, <2>3, ReturnedOK DEF ToolFailed
<1>5. CASE ToolFinished
  <2>1. calls' \in Seq(CallEntries) /\ sqlFailures' \in Nat
      BY <1>5 DEF ToolFinished, Types
  <2>2. preview' \in BOOLEAN
      BY <1>5 DEF ToolFinished, Types
  <2>3. QED
      BY <1>5, <2>1, <2>2, ReturnedOK DEF ToolFinished
<1>6. QED
    BY <1>2, <1>3, <1>4, <1>5 DEF ToolStep

LEMMA RoundOK ==
    ASSUME TypeInv, RoundStep
    PROVE  TypeInv'
<1> USE DEF TypeInv
<1>1. Append(msgs, "results") \in Seq(Kinds)
    BY AppendProperties DEF Types, Kinds
<1>2. CASE NextIteration
  <2>1. iteration' \in 0 .. (MaxIterations - 1)
      BY <1>2, AgentAssumption DEF NextIteration, Types
  <2>2. Types'
      BY <1>1, <1>2, <2>1 DEF NextIteration, Types, alertVars
  <2>3. TurnInv' /\ PostInv'
      BY <1>2 DEF NextIteration, alertVars, TurnInv, PostInv, InTurn
  <2>4. QED
      BY <2>2, <2>3
<1>3. CASE Exhausted
    BY <1>1, <1>3, FinishTurnOK DEF Exhausted, InTurn, Types
<1>4. QED
    BY <1>2, <1>3 DEF RoundStep

\* A post that is over leaves the drafts, or one of them marked.
LEMMA PostOverOK ==
    ASSUME TypeInv, pc = "posting", PostOver,
           delivered' \in {delivered, delivered \cup {posting}},
           Marked(posting, "sent") \/ UNCHANGED drafts,
           history' \in Seq(Kinds), disturbed' \in BOOLEAN
    PROVE  TypeInv'
<1> USE DEF TypeInv
<1>1. drafts' \in Seq(DraftEntries)
    BY MarkedOne DEF Types, PostInv, Statuses
<1>2. /\ posting \in approved
      /\ delivered' \subseteq approved
      /\ posting' = 0 /\ pc' = "ready" /\ approved' = approved
    BY DEF PostOver, PostInv, Types
<1>3. Types'
    BY <1>1, <1>2 DEF PostOver, Types, turnVars
<1>4. TurnInv' /\ PostInv'
    BY <1>2 DEF PostOver, turnVars, TurnInv, PostInv, InTurn
<1>5. QED
    BY <1>3, <1>4

LEMMA PostStepsOK ==
    ASSUME TypeInv, PostStep \/ PostInterrupted
    PROVE  TypeInv'
<1> USE DEF TypeInv
<1>1. CASE PostOk
  <2>1. history' \in Seq(Kinds)
      BY <1>1, AppendProperties DEF PostOk, Types, Kinds
  <2>2. QED
      BY <1>1, <2>1, PostOverOK DEF PostOk
<1>2. CASE PostFails \/ PostInterrupted
    BY <1>2, PostOverOK DEF PostFails, PostInterrupted, Types
<1>3. QED
    BY <1>1, <1>2 DEF PostStep

LEMMA SessionOK ==
    ASSUME TypeInv,
           \/ TurnInterrupted \/ Clear \/ UNCHANGED agentVars
           \/ \E d \in DOMAIN drafts : Approve(d) \/ Discard(d)
    PROVE  TypeInv'
<1> USE DEF TypeInv
<1>1. DOMAIN drafts = 1 .. Len(drafts) /\ Len(drafts) \in Nat
    BY LenProperties DEF Types
<1>2. CASE TurnInterrupted
  <2>1. 0 \in 0 .. (MaxIterations - 1)
      BY AgentAssumption
  <2>2. /\ msgs' \in Seq(Kinds) /\ blocks' \in Seq(Tools) /\ calls' \in Seq(CallEntries)
        /\ outcomes' \in Seq(OutcomeEntries)
      BY <1>2, EmptySeq DEF TurnInterrupted, NoTurn
  <2>3. /\ iteration' = 0 /\ sqlFailures' = 0 /\ preview' = FALSE
      BY <1>2 DEF TurnInterrupted, NoTurn
  <2>4. /\ UNCHANGED <<history, chat, drafts, posting, approved, delivered, disturbed>>
        /\ pc' = "ready"
      BY <1>2 DEF TurnInterrupted, alertVars
  <2>5. Types'
      BY <2>1, <2>2, <2>3, <2>4 DEF Types
  <2>6. TurnInv' /\ PostInv'
      BY <1>2, <2>4 DEF TurnInterrupted, NoTurn, TurnInv, PostInv, InTurn
  <2>7. QED
      BY <2>5, <2>6
<1>3. CASE Clear
  <2>1. /\ history' \in Seq(Kinds) /\ chat' \in Seq({"user", "assistant"})
        /\ drafts' \in Seq(DraftEntries)
      BY <1>3, EmptySeq DEF Clear
  <2>2. Types'
      BY <1>3, <2>1 DEF Clear, Types, turnVars
  <2>3. TurnInv' /\ PostInv'
      BY <1>3 DEF Clear, turnVars, TurnInv, PostInv, InTurn
  <2>4. QED
      BY <2>2, <2>3
<1>4. CASE UNCHANGED agentVars
    BY <1>4 DEF agentVars, turnVars, alertVars, Types, TurnInv, PostInv, InTurn
<1>5. ASSUME NEW d \in 1 .. Len(drafts), Approve(d)
      PROVE  TypeInv'
  <2>1. posting' \in Nat /\ approved' \subseteq Nat /\ delivered' \subseteq approved'
    <3>1. d \in Nat
        BY <1>1
    <3>2. posting' = d /\ approved' = approved \cup {d} /\ delivered' = delivered
        BY <1>5 DEF Approve
    <3>3. approved \subseteq Nat /\ delivered \subseteq approved
        BY DEF Types
    <3>4. QED
        BY <3>1, <3>2, <3>3
  <2>2. Types'
      BY <1>5, <2>1 DEF Approve, Types, turnVars
  <2>3. TurnInv' /\ PostInv'
      BY <1>5 DEF Approve, turnVars, TurnInv, PostInv, InTurn
  <2>4. QED
      BY <2>2, <2>3
<1>6. ASSUME NEW d \in 1 .. Len(drafts), Discard(d)
      PROVE  TypeInv'
  <2>1. drafts' \in Seq(DraftEntries)
      BY <1>6, MarkedOne DEF Discard, Types, Statuses
  <2>2. Types'
      BY <1>6, <2>1 DEF Discard, Types, turnVars, alertVars
  <2>3. TurnInv' /\ PostInv'
      BY <1>6 DEF Discard, turnVars, alertVars, TurnInv, PostInv, InTurn
  <2>4. QED
      BY <2>2, <2>3
<1>7. QED
    BY <1>1, <1>2, <1>3, <1>4, <1>5, <1>6

LEMMA TypeInvariant == Spec => []TypeInv
<1>1. TypeInv /\ [Next]_agentVars => TypeInv'
    BY SubmitOK, ApiOK, ToolStepOK, RoundOK, PostStepsOK, SessionOK DEF Next
<1>2. QED
    BY TypeInvInit, <1>1, PTL DEF Spec

\* The session's and the turn's state keep their types: a tool always has its block,
\* a turn never takes more than its iterations, and no draft is delivered that was
\* not approved.
THEOREM AgentTypeCorrect == Spec => []TypeOK
<1>1. TypeInv => TypeOK
    BY DEF TypeInv, Types, TypeOK, DraftEntries, Statuses, CallEntries, OutcomeEntries
<1>2. QED
    BY <1>1, TypeInvariant, PTL

-----------------------------------------------------------------------------
(* The drafts.                                                             *)

\* A draft waits only between two turns, and it is the last turn's; what is shown
\* as sent was delivered.
DraftInv ==
    \A d \in 1 .. Len(drafts) :
        /\ drafts[d].status = "pending" =>
              ~InTurn /\ d = Len(drafts) /\ drafts[d].source = Len(chat)
        /\ drafts[d].status = "sent" => d \in delivered

\* The turn that ends leaves its own draft as the only one that waits.
LEMMA FinishTurnKeepsDrafts ==
    ASSUME TypeInv, DraftInv, InTurn, NEW draft \in BOOLEAN, FinishTurn(draft),
           UNCHANGED alertVars
    PROVE  DraftInv'
<1> DEFINE entry == [source |-> Len(chat) + 1, status |-> "pending"]
<1>1. /\ chat \in Seq({"user", "assistant"}) /\ drafts \in Seq(DraftEntries)
      /\ Len(chat) \in Nat /\ Len(drafts) \in Nat
    BY LenProperties DEF TypeInv, Types
<1>2. Len(chat') = Len(chat) + 1 /\ pc' = "ready" /\ delivered' = delivered
    BY <1>1, AppendProperties DEF FinishTurn, alertVars
<1>3. \A d \in 1 .. Len(drafts) : drafts[d].status # "pending"
    BY DEF DraftInv
<1>4. CASE draft
  <2>1. entry \in DraftEntries
      BY <1>1 DEF DraftEntries, Statuses
  <2>2. drafts' = Append(drafts, entry)
      BY <1>4 DEF FinishTurn
  <2>3. entry.source = Len(chat) + 1 /\ entry.status = "pending"
      OBVIOUS
  <2> HIDE DEF entry
  <2>4. /\ Len(drafts') = Len(drafts) + 1
        /\ \A d \in 1 .. Len(drafts) : drafts'[d] = drafts[d]
        /\ drafts'[Len(drafts) + 1] = entry
      BY <1>1, <2>1, <2>2, AppendProperties
  <2>5. ASSUME NEW d \in 1 .. Len(drafts')
        PROVE  d \in 1 .. Len(drafts) \/ d = Len(drafts) + 1
      BY <1>1, <2>4
  <2>6. ~InTurn'
      BY <1>2 DEF InTurn
  <2>7. QED
      BY <1>2, <1>3, <2>3, <2>4, <2>5, <2>6 DEF DraftInv
<1>5. CASE ~draft
    BY <1>2, <1>3, <1>5 DEF FinishTurn, DraftInv
<1>6. QED
    BY <1>4, <1>5

\* Whoever marks a draft ends its waiting.
LEMMA MarkKeepsDrafts ==
    ASSUME TypeInv, DraftInv, NEW d \in 1 .. Len(drafts), NEW s \in {"sent", "dropped"},
           Marked(d, s), s = "sent" => d \in delivered', delivered \subseteq delivered',
           ~InTurn, ~InTurn', UNCHANGED chat
    PROVE  DraftInv'
<1>1. /\ Len(drafts') = Len(drafts)
      /\ \A e \in 1 .. Len(drafts) :
            /\ drafts'[e].source = drafts[e].source
            /\ drafts'[e].status = IF e = d THEN s ELSE drafts[e].status
    BY MarkedOne DEF TypeInv, Types, Statuses
<1>2. QED
    BY <1>1 DEF DraftInv

LEMMA DraftStep ==
    ASSUME TypeInv, DraftInv, [Next]_agentVars
    PROVE  DraftInv'
<1>1. CASE SubmitUserTurn
  <2>1. /\ Len(drafts') = Len(drafts)
        /\ \A d \in 1 .. Len(drafts) :
              /\ drafts'[d].status # "pending"
              /\ drafts'[d].status = "sent" => drafts[d].status = "sent"
      BY <1>1, ObsoleteDraftsAreDropped DEF SubmitUserTurn, TypeInv, Types
  <2>2. QED
      BY <1>1, <2>1 DEF SubmitUserTurn, DraftInv, alertVars
<1>2. CASE ApiFails \/ ApiSays \/ Exhausted
  <2>1. InTurn /\ UNCHANGED alertVars
      BY <1>2 DEF ApiFails, ApiSays, Exhausted, InTurn
  <2>2. PICK draft \in BOOLEAN : FinishTurn(draft)
      BY <1>2 DEF ApiFails, ApiSays, Exhausted, TypeInv, Types
  <2>3. QED
      BY <2>1, <2>2, FinishTurnKeepsDrafts
<1>3. CASE \/ \E tools \in UNION {[1 .. n -> Tools] : n \in 1 .. MaxBlocks} : ApiCalls(tools)
           \/ ToolStep \/ NextIteration \/ TurnInterrupted
  <2>1. InTurn /\ UNCHANGED <<drafts, chat, delivered>>
      BY <1>3 DEF ApiCalls, ToolStep, StartTool, SkipTool, ToolFailed, ToolFinished, Returned,
                  NextIteration, TurnInterrupted, InTurn, alertVars
  <2>2. QED
      BY <2>1 DEF DraftInv
<1>4. CASE PostOk \/ PostInterrupted
  <2>1. posting \in 1 .. Len(drafts) /\ ~InTurn
      BY <1>4 DEF PostOk, PostInterrupted, TypeInv, PostInv, InTurn
  <2>2. /\ delivered' = delivered \cup {posting} /\ UNCHANGED chat /\ ~InTurn'
        /\ Marked(posting, "sent") \/ UNCHANGED drafts
      BY <1>4 DEF PostOk, PostInterrupted, PostOver, InTurn
  <2>3. CASE Marked(posting, "sent")
      BY <2>1, <2>2, <2>3, MarkKeepsDrafts
  <2>4. CASE UNCHANGED drafts
      BY <2>1, <2>2, <2>4 DEF DraftInv
  <2>5. QED
      BY <2>2, <2>3, <2>4
<1>5. CASE PostFails
    BY <1>5 DEF PostFails, PostOver, DraftInv, InTurn
<1>6. ASSUME NEW d \in DOMAIN drafts, Approve(d) \/ Discard(d)
      PROVE  DraftInv'
  <2>1. d \in 1 .. Len(drafts)
      BY LenProperties DEF TypeInv, Types
  <2>2. CASE Approve(d)
      BY <2>2 DEF Approve, DraftInv, InTurn
  <2>3. CASE Discard(d)
      BY <2>1, <2>3, MarkKeepsDrafts DEF Discard, alertVars, InTurn
  <2>4. QED
      BY <1>6, <2>2, <2>3
<1>7. CASE Clear
    BY <1>7, EmptySeq DEF Clear, DraftInv
<1>8. CASE UNCHANGED agentVars
    BY <1>8 DEF agentVars, turnVars, alertVars, DraftInv, InTurn
<1>9. QED
    BY <1>1, <1>2, <1>3, <1>4, <1>5, <1>6, <1>7, <1>8
    DEF Next, ApiStep, RoundStep, PostStep

\* The only draft that can be approved is the newest, shown with the last answer of
\* the conversation; and what is shown as sent was approved and accepted, whatever
\* was interrupted in between.
THEOREM DraftsStayCurrent == Spec => []DraftsAreCurrent
<1>1. Init => DraftInv
    BY EmptySeq DEF Init, DraftInv
<1>2. TypeInv /\ DraftInv /\ [Next]_agentVars => DraftInv'
    BY DraftStep
<1>3. TypeInv /\ DraftInv => DraftsAreCurrent
  <2> SUFFICES ASSUME TypeInv, DraftInv PROVE DraftsAreCurrent
      OBVIOUS
  <2>1. DOMAIN drafts = 1 .. Len(drafts)
      BY LenProperties DEF TypeInv, Types
  <2>2. posting # 0 => drafts[posting].status = "pending"
      BY DEF TypeInv, PostInv
  <2>3. QED
      BY <2>1, <2>2 DEF DraftInv, DraftsAreCurrent
<1>4. QED
    BY <1>1, <1>2, <1>3, TypeInvariant, PTL DEF Spec

-----------------------------------------------------------------------------
(* The messages.                                                           *)

Odd(n) == n % 2 = 1

LEMMA Parity ==
    ASSUME NEW n \in Nat
    PROVE  Odd(n + 1) <=> ~Odd(n)
BY DEF Odd

LEMMA CutIsEven ==
    ASSUME NEW n \in Nat, Odd(n), NEW k \in Nat
    PROVE  ~Odd(n - 2 * k + 1)
BY DEF Odd

\* The analyst's side and the model's take turns, the analyst's first; every call but
\* a last one is answered, and every result answers one.
Alternates(m) ==
    \A i \in 1 .. Len(m) :
        IF Odd(i) THEN m[i] \in {"ask", "results"} ELSE m[i] \in {"say", "call"}

Answered(m) ==
    \A i \in 1 .. Len(m) :
        /\ m[i] = "results" => i > 1 /\ m[i - 1] = "call"
        /\ m[i] = "call" => i = Len(m) \/ m[i + 1] = "results"

InOrder(m) == Alternates(m) /\ Answered(m)

LEMMA AppendInOrder ==
    ASSUME NEW m \in Seq(Kinds), InOrder(m), NEW kind \in {"ask", "say", "call", "results"},
           kind \in {"ask", "results"} <=> ~Odd(Len(m)),
           kind = "results" <=> Len(m) > 0 /\ m[Len(m)] = "call"
    PROVE  /\ InOrder(Append(m, kind))
           /\ Len(Append(m, kind)) = Len(m) + 1
           /\ Append(m, kind)[Len(m) + 1] = kind
           /\ Append(m, kind) \in Seq(Kinds)
<1> DEFINE n == Len(m)
           a == Append(m, kind)
<1>1. /\ a \in Seq(Kinds) /\ Len(a) = n + 1
      /\ \A i \in 1 .. n : a[i] = m[i]
      /\ a[n + 1] = kind
      /\ n \in Nat
    BY AppendProperties, LenProperties DEF Kinds
<1> HIDE DEF a, n
<1>2. n = Len(m) /\ Odd(n + 1) <=> ~Odd(n)
    BY <1>1, Parity DEF n
<1>3. Alternates(a)
  <2>1. ASSUME NEW i \in 1 .. n
        PROVE  IF Odd(i) THEN a[i] \in {"ask", "results"} ELSE a[i] \in {"say", "call"}
      BY <1>1 DEF InOrder, Alternates, n
  <2>2. IF Odd(n + 1) THEN a[n + 1] \in {"ask", "results"} ELSE a[n + 1] \in {"say", "call"}
      BY <1>1, <1>2 DEF n
  <2>3. \A i \in 1 .. n + 1 : i \in 1 .. n \/ i = n + 1
      BY <1>1
  <2>4. QED
      BY <1>1, <2>1, <2>2, <2>3 DEF Alternates
<1>4. Answered(a)
  <2>1. ASSUME NEW i \in 1 .. n
        PROVE  /\ a[i] = "results" => i > 1 /\ a[i - 1] = "call"
               /\ a[i] = "call" => a[i + 1] = "results"
    <3>1. a[i] = "results" => i > 1 /\ a[i - 1] = "call"
        BY <1>1 DEF InOrder, Answered, n
    <3>2. CASE i = n
        BY <1>1, <3>1, <3>2 DEF n
    <3>3. CASE i < n
        BY <1>1, <3>3 DEF InOrder, Answered, n
    <3>4. QED
        BY <1>1, <3>1, <3>2, <3>3
  <2>2. a[n + 1] = "results" => n + 1 > 1 /\ a[n + 1 - 1] = "call"
      BY <1>1 DEF n
  <2>3. \A i \in 1 .. n + 1 : i \in 1 .. n \/ i = n + 1
      BY <1>1
  <2>4. QED
      BY <1>1, <2>1, <2>2, <2>3 DEF Answered
<1>5. QED
    BY <1>1, <1>3, <1>4 DEF InOrder, a, n

\* What remains of an odd number of messages after cutting all but an even number
\* begins with one of the model's, so that it begins with no result.
LEMMA TrimmedIsPaired ==
    ASSUME NEW m \in Seq(Kinds), InOrder(m), Odd(Len(m))
    PROVE  Paired(Trimmed(m))
<1> DEFINE cap == 2 * MAX_HISTORY_ROUNDS
           first == IF Len(m) <= cap THEN 1 ELSE Len(m) - cap + 1
           t == Trimmed(m)
<1>1. Len(m) \in Nat \ {0} /\ cap \in Nat /\ cap >= 2
    BY LenProperties, AgentAssumption DEF Odd
<1>2. first \in 1 .. Len(m)
    BY <1>1
<1>3. first = 1 \/ ~Odd(first)
    BY <1>1, CutIsEven, AgentAssumption
<1>4. t = SubSeq(m, first, Len(m))
    BY DEF Trimmed
<1>5. /\ Len(t) = Len(m) - first + 1
      /\ \A i \in 1 .. Len(t) : t[i] = m[first + i - 1]
    BY <1>2, <1>4, SubSeqProperties, ElementOfSeq
<1> HIDE DEF first, t
<1>6. m[Len(m)] # "call"
    BY <1>1 DEF InOrder, Alternates
<1>7. m[first] # "results"
  <2>1. CASE first = 1
      BY <1>2, <2>1 DEF InOrder, Answered
  <2>2. CASE ~Odd(first)
      BY <1>2, <2>2 DEF InOrder, Alternates
  <2>3. QED
      BY <1>3, <2>1, <2>2
<1>8. ASSUME NEW i \in 1 .. Len(t)
      PROVE  /\ t[i] = "results" => i > 1 /\ t[i - 1] = "call"
             /\ t[i] = "call" => i < Len(t) /\ t[i + 1] = "results"
  <2>1. first + i - 1 \in 1 .. Len(m) /\ t[i] = m[first + i - 1]
      BY <1>2, <1>5
  <2>2. ASSUME t[i] = "results"
        PROVE  i > 1 /\ t[i - 1] = "call"
    <3>1. i # 1
      <4>1. first + 1 - 1 = first
          BY <1>2
      <4>2. QED
          BY <1>7, <2>1, <2>2, <4>1
    <3>2. i - 1 \in 1 .. Len(t) /\ first + (i - 1) - 1 = (first + i - 1) - 1
        BY <1>1, <1>2, <1>5, <3>1
    <3>3. t[i - 1] = m[(first + i - 1) - 1]
        BY <1>5, <3>2
    <3>4. m[(first + i - 1) - 1] = "call"
        BY <2>1, <2>2 DEF InOrder, Answered
    <3>5. QED
        BY <3>1, <3>3, <3>4
  <2>3. ASSUME t[i] = "call"
        PROVE  i < Len(t) /\ t[i + 1] = "results"
    <3>1. first + i - 1 # Len(m)
        BY <1>6, <2>1, <2>3
    <3>2. i < Len(t) /\ i + 1 \in 1 .. Len(t) /\ first + (i + 1) - 1 = (first + i - 1) + 1
        BY <1>1, <1>2, <1>5, <3>1
    <3>3. t[i + 1] = m[(first + i - 1) + 1]
        BY <1>5, <3>2
    <3>4. m[(first + i - 1) + 1] = "results"
        BY <2>1, <2>3, <3>1 DEF InOrder, Answered
    <3>5. QED
        BY <3>2, <3>3, <3>4
  <2>4. QED
      BY <2>2, <2>3
<1>9. QED
    BY <1>8 DEF Paired, t

\* Rounds are closed in the history; a turn asks with an odd number of messages, and
\* runs tools when the last one calls them.
Asks(m) == InOrder(m) /\ Odd(Len(m))
Calls(m) == InOrder(m) /\ ~Odd(Len(m)) /\ Len(m) > 0 /\ m[Len(m)] = "call"
Rests(m) == InOrder(m) /\ ~Odd(Len(m)) /\ (Len(m) > 0 => m[Len(m)] = "say")

PairInv ==
    ~disturbed =>
        /\ Rests(history)
        /\ pc = "asking" => Asks(msgs)
        /\ pc \in {"dispatch", "tool"} => Calls(msgs)

LEMMA EmptyRests == Rests(<< >>)
BY EmptySeq DEF Rests, InOrder, Alternates, Answered, Odd

LEMMA RestsThenAsks ==
    ASSUME NEW m \in Seq(Kinds), Rests(m)
    PROVE  Asks(Append(m, "ask"))
BY AppendInOrder, LenProperties, Parity DEF Rests, Asks

LEMMA CallsThenAsks ==
    ASSUME NEW m \in Seq(Kinds), Calls(m)
    PROVE  Asks(Append(m, "results"))
BY AppendInOrder, LenProperties, Parity DEF Calls, Asks

LEMMA AsksThenEnds ==
    ASSUME NEW m \in Seq(Kinds), Asks(m)
    PROVE  Rests(Append(m, "say")) /\ Calls(Append(m, "call"))
<1>1. Len(m) \in Nat
    BY LenProperties
<1>2. ~(Len(m) > 0 /\ m[Len(m)] = "call")
    BY <1>1 DEF Asks, InOrder, Alternates
<1>3. ~Odd(Len(m) + 1) /\ Len(m) + 1 > 0
    BY <1>1, Parity DEF Asks
<1>4. Rests(Append(m, "say"))
    BY <1>2, <1>3, AppendInOrder DEF Asks, Rests
<1>5. Calls(Append(m, "call"))
    BY <1>2, <1>3, AppendInOrder DEF Asks, Calls
<1>6. QED
    BY <1>4, <1>5

LEMMA PairStep ==
    ASSUME TypeInv, PairInv, [Next]_agentVars
    PROVE  PairInv'
<1> USE DEF PairInv
<1>1. history \in Seq(Kinds) /\ msgs \in Seq(Kinds)
    BY DEF TypeInv, Types
<1>2. CASE SubmitUserTurn
    BY <1>1, <1>2, RestsThenAsks DEF SubmitUserTurn
<1>3. CASE ApiFails
    BY <1>3 DEF ApiFails, FinishTurn
<1>4. CASE ApiSays
    BY <1>1, <1>4, AsksThenEnds DEF ApiSays, FinishTurn
<1>5. CASE \E tools \in UNION {[1 .. n -> Tools] : n \in 1 .. MaxBlocks} : ApiCalls(tools)
    BY <1>1, <1>5, AsksThenEnds DEF ApiCalls
<1>6. CASE ToolStep
  <2>1. /\ pc \in {"dispatch", "tool"} /\ pc' \in {"dispatch", "tool"}
        /\ UNCHANGED <<history, msgs, disturbed>>
      BY <1>6 DEF ToolStep, StartTool, SkipTool, ToolFailed, ToolFinished, Returned
  <2>2. QED
      BY <2>1
<1>7. CASE NextIteration
    BY <1>1, <1>7, CallsThenAsks DEF NextIteration
<1>8. CASE Exhausted \/ PostOk
    BY <1>8 DEF Exhausted, PostOk
<1>9. CASE PostFails \/ PostInterrupted \/ TurnInterrupted
    BY <1>9 DEF PostFails, PostInterrupted, PostOver, TurnInterrupted
<1>10. CASE \E d \in DOMAIN drafts : Approve(d) \/ Discard(d)
    BY <1>10 DEF Approve, Discard, turnVars
<1>11. CASE Clear
    BY <1>11, EmptyRests DEF Clear
<1>12. CASE UNCHANGED agentVars
    BY <1>12 DEF agentVars, turnVars
<1>13. QED
    BY <1>2, <1>3, <1>4, <1>5, <1>6, <1>7, <1>8, <1>9, <1>10, <1>11, <1>12
    DEF Next, ApiStep, RoundStep, PostStep

\* However long the conversation and the history that is sent, trimming never parts a
\* tool call from its results, so that the API takes the request, as long as no turn
\* ran out of iterations and no note was added.
THEOREM RequestsStayPaired == Spec => []RequestIsPairedUnlessDisturbed
<1>1. Init => PairInv
    BY EmptyRests DEF Init, PairInv
<1>2. TypeInv /\ PairInv /\ [Next]_agentVars => PairInv'
    BY PairStep
<1>3. TypeInv /\ PairInv => RequestIsPairedUnlessDisturbed
    BY TrimmedIsPaired DEF TypeInv, Types, PairInv, Asks, RequestIsPairedUnlessDisturbed
<1>4. QED
    BY <1>1, <1>2, <1>3, TypeInvariant, PTL DEF Spec

-----------------------------------------------------------------------------
(* The trail of tools.                                                     *)

\* Started, of any sequence of entries.
StartedIn(s, k) == Cardinality({j \in 1 .. k : s[j].started})

LEMMA StartedIsNat ==
    ASSUME NEW s, NEW k \in Nat
    PROVE  StartedIn(s, k) \in Nat
<1>1. IsFiniteSet(1 .. k)
    BY FS_Interval
<1>2. IsFiniteSet({j \in 1 .. k : s[j].started})
    BY <1>1, FS_Subset
<1>3. QED
    BY <1>2, FS_CardinalityType DEF StartedIn

\* Each entry adds one if its tool was started.
LEMMA StartedNext ==
    ASSUME NEW s, NEW k \in Nat
    PROVE  StartedIn(s, k + 1) = StartedIn(s, k) + (IF s[k + 1].started THEN 1 ELSE 0)
<1> DEFINE S(m) == {j \in 1 .. m : s[j].started}
<1>1. IsFiniteSet(1 .. k)
    BY FS_Interval
<1>2. IsFiniteSet(S(k))
    BY <1>1, FS_Subset
<1>3. \A j \in 1 .. (k + 1) : j \in 1 .. k \/ j = k + 1
    OBVIOUS
<1>4. k + 1 \in 1 .. (k + 1) /\ k + 1 \notin 1 .. k /\ 1 .. k \subseteq 1 .. (k + 1)
    OBVIOUS
<1>5. StartedIn(s, k) = Cardinality(S(k)) /\ StartedIn(s, k + 1) = Cardinality(S(k + 1))
    BY DEF StartedIn
<1>6. StartedIn(s, k) \in Nat
    BY StartedIsNat
<1>7. CASE s[k + 1].started
  <2>1. S(k + 1) = S(k) \cup {k + 1}
      BY <1>3, <1>4, <1>7
  <2>2. Cardinality(S(k + 1)) = Cardinality(S(k)) + 1
      BY <1>2, <1>4, <2>1, FS_AddElement
  <2>3. QED
      BY <1>5, <1>7, <2>2
<1>8. CASE ~s[k + 1].started
  <2>1. S(k + 1) = S(k)
      BY <1>3, <1>4, <1>8
  <2>2. StartedIn(s, k + 1) = StartedIn(s, k)
      BY <1>5, <2>1
  <2>3. QED
      BY <1>6, <1>8, <2>2
<1>9. QED
    BY <1>7, <1>8

LEMMA StartedGrows ==
    ASSUME NEW s, NEW k \in Nat, NEW j \in 0 .. k
    PROVE  StartedIn(s, j) <= StartedIn(s, k)
<1>1. IsFiniteSet(1 .. k)
    BY FS_Interval
<1>2. IsFiniteSet({i \in 1 .. k : s[i].started})
    BY <1>1, FS_Subset
<1>3. {i \in 1 .. j : s[i].started} \subseteq {i \in 1 .. k : s[i].started}
    OBVIOUS
<1>4. QED
    BY <1>2, <1>3, FS_Subset DEF StartedIn

LEMMA StartedSame ==
    ASSUME NEW s, NEW t, NEW k \in Nat, \A j \in 1 .. k : s[j].started = t[j].started
    PROVE  StartedIn(s, k) = StartedIn(t, k)
<1>1. {j \in 1 .. k : s[j].started} = {j \in 1 .. k : t[j].started}
    OBVIOUS
<1>2. QED
    BY <1>1 DEF StartedIn

\* The entry of a tool that was started counts itself.
LEMMA StartedBefore ==
    ASSUME NEW s, NEW k \in Nat, NEW j \in 1 .. k, s[k].started, j # k
    PROVE  StartedIn(s, j) < StartedIn(s, k)
<1>1. k - 1 \in Nat /\ j \in 0 .. (k - 1) /\ (k - 1) + 1 = k
    OBVIOUS
<1>2. StartedIn(s, k) = StartedIn(s, k - 1) + 1
    BY <1>1, StartedNext
<1>3. StartedIn(s, j) <= StartedIn(s, k - 1)
    BY <1>1, StartedGrows
<1>4. StartedIn(s, k - 1) \in Nat /\ StartedIn(s, j) \in Nat
    BY <1>1, StartedIsNat
<1>5. QED
    BY <1>2, <1>3, <1>4

LEMMA NothingStarted == \A s : StartedIn(s, 0) = 0
<1> SUFFICES ASSUME NEW s PROVE StartedIn(s, 0) = 0
    OBVIOUS
<1>1. {j \in 1 .. 0 : s[j].started} = {}
    OBVIOUS
<1>2. QED
    BY <1>1, FS_EmptySet DEF StartedIn

LEMMA StartedCounts ==
    ASSUME NEW s, NEW k \in Nat \ {0}, s[k].started
    PROVE  StartedIn(s, k) \in Nat \ {0}
<1>1. k - 1 \in Nat /\ (k - 1) + 1 = k
    OBVIOUS
<1>2. StartedIn(s, k) = StartedIn(s, k - 1) + 1
    BY <1>1, StartedNext
<1>3. StartedIn(s, k - 1) \in Nat
    BY <1>1, StartedIsNat
<1>4. QED
    BY <1>2, <1>3

\* A new entry leaves the earlier ones where they were counted.
LEMMA NewEntry ==
    ASSUME NEW cs \in Seq(CallEntries), NEW e \in CallEntries
    PROVE  LET t == Append(cs, e)
           IN  /\ Len(t) = Len(cs) + 1 /\ Len(cs) \in Nat
               /\ t[Len(cs) + 1] = e
               /\ StartedIn(t, Len(cs) + 1) =
                     StartedIn(cs, Len(cs)) + (IF e.started THEN 1 ELSE 0)
               /\ \A j \in 1 .. Len(cs) : t[j] = cs[j] /\ StartedIn(t, j) = StartedIn(cs, j)
<1> DEFINE t == Append(cs, e)
           n == Len(cs)
<1>1. n \in Nat /\ Len(t) = n + 1 /\ t[n + 1] = e /\ \A j \in 1 .. n : t[j] = cs[j]
    BY LenProperties, AppendProperties
<1> HIDE DEF t
<1>2. \A j \in 0 .. n : StartedIn(t, j) = StartedIn(cs, j)
  <2> SUFFICES ASSUME NEW j \in 0 .. n PROVE StartedIn(t, j) = StartedIn(cs, j)
      OBVIOUS
  <2>1. j \in Nat /\ \A i \in 1 .. j : t[i].started = cs[i].started
      BY <1>1
  <2>2. QED
      BY <2>1, StartedSame
<1>3. StartedIn(t, n + 1) = StartedIn(t, n) + (IF e.started THEN 1 ELSE 0)
    BY <1>1, StartedNext
<1>4. QED
    BY <1>1, <1>2, <1>3 DEF t

\* The failed queries among the outcomes.
FailedIn(os) == Cardinality({i \in 1 .. Len(os) : os[i] = FailedQuery})

LEMMA NewOutcome ==
    ASSUME NEW os \in Seq(OutcomeEntries), NEW o \in OutcomeEntries
    PROVE  FailedIn(Append(os, o)) = FailedIn(os) + (IF o = FailedQuery THEN 1 ELSE 0)
<1> DEFINE t == Append(os, o)
           k == Len(os)
           S == {i \in 1 .. k : os[i] = FailedQuery}
           T == {i \in 1 .. (k + 1) : t[i] = FailedQuery}
<1>1. k \in Nat /\ Len(t) = k + 1 /\ t[k + 1] = o /\ \A i \in 1 .. k : t[i] = os[i]
    BY LenProperties, AppendProperties
<1> HIDE DEF t, k
<1>2. \A i \in 1 .. (k + 1) : i \in 1 .. k \/ i = k + 1
    BY <1>1
<1>3. k + 1 \in 1 .. (k + 1) /\ k + 1 \notin 1 .. k /\ 1 .. k \subseteq 1 .. (k + 1)
    BY <1>1
<1>4. IsFiniteSet(1 .. k)
    BY <1>1, FS_Interval
<1>5. IsFiniteSet(S)
    BY <1>4, FS_Subset
<1>6. FailedIn(os) = Cardinality(S) /\ FailedIn(t) = Cardinality(T)
    BY <1>1 DEF FailedIn, k
<1>7. FailedIn(os) \in Nat
    BY <1>5, <1>6, FS_CardinalityType
<1>8. CASE o = FailedQuery
  <2>1. T = S \cup {k + 1}
      BY <1>1, <1>2, <1>3, <1>8
  <2>2. Cardinality(T) = Cardinality(S) + 1
      BY <1>3, <1>5, <2>1, FS_AddElement
  <2>3. QED
      BY <1>6, <1>8, <2>2 DEF t
<1>9. CASE o # FailedQuery
  <2>1. T = S
      BY <1>1, <1>2, <1>3, <1>9
  <2>2. FailedIn(t) = FailedIn(os)
      BY <1>6, <2>1
  <2>3. QED
      BY <1>7, <1>9, <2>2 DEF t
<1>10. QED
    BY <1>8, <1>9

\* What TrailIsTrue says of the entries, for any entries and outcomes.
Truthful(cs, os) ==
    \A j \in 1 .. Len(cs) :
       cs[j].started /\ StartedIn(cs, j) <= Len(os) =>
          /\ cs[j].tool = os[StartedIn(cs, j)].tool
          /\ (cs[j].result = "ok") = (os[StartedIn(cs, j)].result = "ok")

\* A new entry is not told apart by any outcome yet.
LEMMA NewEntryIsTruthful ==
    ASSUME NEW cs \in Seq(CallEntries), NEW e \in CallEntries, NEW os,
           Len(os) \in Nat, Truthful(cs, os),
           ~e.started \/ StartedIn(cs, Len(cs)) = Len(os)
    PROVE  Truthful(Append(cs, e), os)
<1> DEFINE t == Append(cs, e)
           n == Len(cs)
<1>1. /\ Len(t) = n + 1 /\ n \in Nat /\ t[n + 1] = e
      /\ StartedIn(t, n + 1) = StartedIn(cs, n) + (IF e.started THEN 1 ELSE 0)
      /\ \A j \in 1 .. n : t[j] = cs[j] /\ StartedIn(t, j) = StartedIn(cs, j)
    BY NewEntry
<1> HIDE DEF t
<1>2. SUFFICES ASSUME NEW j \in 1 .. (n + 1), t[j].started, StartedIn(t, j) <= Len(os)
               PROVE  /\ t[j].tool = os[StartedIn(t, j)].tool
                      /\ (t[j].result = "ok") = (os[StartedIn(t, j)].result = "ok")
    BY <1>1 DEF Truthful, t
<1>3. CASE j \in 1 .. n
    BY <1>1, <1>2, <1>3 DEF Truthful
<1>4. CASE j = n + 1
  <2>1. e.started /\ StartedIn(t, j) = StartedIn(cs, n) + 1
      BY <1>1, <1>2, <1>4
  <2>2. StartedIn(t, j) = Len(os) + 1
      BY <2>1
  <2>3. QED
      BY <1>2, <2>2
<1>5. QED
    BY <1>1, <1>3, <1>4

\* The outcome of the tool that runs is the one its entry, the last, then shows.
LEMMA NewOutcomeIsTruthful ==
    ASSUME NEW cs \in Seq(CallEntries), NEW ds \in Seq(CallEntries),
           NEW os \in Seq(OutcomeEntries), NEW o \in OutcomeEntries,
           cs # << >>, Truthful(cs, os),
           StartedIn(cs, Len(cs)) = Len(os) + 1,
           cs[Len(cs)].started, cs[Len(cs)].tool = o.tool,
           Len(ds) = Len(cs),
           \A j \in 1 .. Len(cs) : /\ ds[j].tool = cs[j].tool
                                   /\ ds[j].started = cs[j].started
                                   /\ j # Len(cs) => ds[j].result = cs[j].result,
           (ds[Len(cs)].result = "ok") = (o.result = "ok")
    PROVE  /\ Truthful(ds, Append(os, o))
           /\ StartedIn(ds, Len(ds)) = Len(Append(os, o))
<1> DEFINE t == Append(os, o)
           n == Len(cs)
           k == Len(os)
<1>1. n \in Nat /\ n \in 1 .. n
    BY EmptySeq, LenProperties
<1>2. k \in Nat /\ Len(t) = k + 1 /\ t[k + 1] = o /\ \A i \in 1 .. k : t[i] = os[i]
    BY LenProperties, AppendProperties
<1> HIDE DEF t
<1>3. ASSUME NEW j \in 1 .. n PROVE StartedIn(ds, j) = StartedIn(cs, j)
  <2>1. j \in Nat /\ \A i \in 1 .. j : ds[i].started = cs[i].started
      BY <1>1
  <2>2. QED
      BY <2>1, StartedSame
<1>4. StartedIn(ds, Len(ds)) = Len(t)
    BY <1>1, <1>2, <1>3
<1>5. ASSUME NEW j \in 1 .. n, ds[j].started
      PROVE  /\ ds[j].tool = t[StartedIn(ds, j)].tool
             /\ (ds[j].result = "ok") = (t[StartedIn(ds, j)].result = "ok")
  <2>1. CASE j = n
    <3>1. StartedIn(ds, j) = k + 1
        BY <1>3, <2>1
    <3>2. t[StartedIn(ds, j)] = o
        BY <1>2, <3>1
    <3>3. QED
        BY <1>1, <2>1, <3>2
  <2>2. CASE j # n
    <3>1. cs[j].started /\ j \in Nat \ {0}
        BY <1>1, <1>5
    <3>2. StartedIn(cs, j) < k + 1
        BY <1>1, <2>2, StartedBefore
    <3>3. StartedIn(cs, j) \in Nat \ {0}
        BY <3>1, StartedCounts
    <3>4. StartedIn(cs, j) \in 1 .. k
        BY <1>2, <3>2, <3>3
    <3>5. /\ cs[j].tool = os[StartedIn(cs, j)].tool
          /\ (cs[j].result = "ok") = (os[StartedIn(cs, j)].result = "ok")
        BY <3>1, <3>4 DEF Truthful
    <3>6. t[StartedIn(ds, j)] = os[StartedIn(cs, j)]
        BY <1>2, <1>3, <3>4
    <3>7. ds[j].tool = cs[j].tool /\ ds[j].result = cs[j].result
        BY <2>2
    <3>8. QED
        BY <3>5, <3>6, <3>7
  <2>3. QED
      BY <2>1, <2>2
<1>6. Truthful(ds, t)
    BY <1>5 DEF Truthful
<1>7. QED
    BY <1>4, <1>6 DEF t

\* A tool that runs has the last entry; the breaker, once open, was opened by the last
\* query that returned, so that the entry it marks as skipped, the last one, if it is a
\* query's, is already shown as failed.
TrailInv ==
    /\ StartedIn(calls, Len(calls)) = Len(outcomes) + (IF pc = "tool" THEN 1 ELSE 0)
    /\ Truthful(calls, outcomes)
    /\ sqlFailures = FailedIn(outcomes)
    /\ sqlFailures <= SQL_FAILURE_LIMIT
    /\ pc = "tool" =>
          /\ calls # << >>
          /\ calls[Len(calls)] = [tool |-> Head(blocks), started |-> TRUE, result |-> "ok"]
          /\ ~(Tripped /\ Head(blocks) = "run_custom_query")
    /\ Tripped /\ Len(outcomes) # 0 /\ outcomes[Len(outcomes)].tool = "run_custom_query"
          => outcomes[Len(outcomes)].result = "error"

\* There is nothing to show when no turn is in progress.
LEMMA EmptyTrail ==
    pc # "tool" /\ calls = << >> /\ outcomes = << >> /\ sqlFailures = 0 => TrailInv
<1> SUFFICES ASSUME pc # "tool", calls = << >>, outcomes = << >>, sqlFailures = 0
             PROVE  TrailInv
    OBVIOUS
<1>1. Len(calls) = 0 /\ Len(outcomes) = 0
    BY EmptySeq
<1>2. StartedIn(calls, 0) = 0
    BY NothingStarted
<1>3. {i \in 1 .. Len(outcomes) : outcomes[i] = FailedQuery} = {}
    BY <1>1
<1>4. FailedIn(outcomes) = 0
    BY <1>3, FS_EmptySet DEF FailedIn
<1>5. Truthful(calls, outcomes)
    BY <1>1 DEF Truthful
<1>6. QED
    BY <1>1, <1>2, <1>4, <1>5, AgentAssumption DEF TrailInv

LEMMA StartKeepsTrail ==
    ASSUME TypeInv, TrailInv, StartTool
    PROVE  TrailInv'
<1> DEFINE e == [tool |-> Head(blocks), started |-> TRUE, result |-> "ok"]
           n == Len(calls)
<1>1. calls \in Seq(CallEntries) /\ Len(outcomes) \in Nat
    BY LenProperties DEF TypeInv, Types
<1>2. Head(blocks) \in Tools
    BY HeadTailProperties DEF TypeInv, Types, StartTool
<1>3. e \in CallEntries /\ e.started = TRUE
    BY <1>2 DEF CallEntries
<1>4. calls' = Append(calls, e)
    BY DEF StartTool, ShowStarted
<1>5. /\ pc = "dispatch" /\ pc' = "tool" /\ UNCHANGED <<blocks, sqlFailures, outcomes>>
      /\ ~(Tripped /\ Head(blocks) = "run_custom_query")
    BY DEF StartTool
<1>6. StartedIn(calls, n) = Len(outcomes)
    BY <1>1, <1>5 DEF TrailInv
<1> HIDE DEF e
<1>7. /\ Len(calls') = n + 1 /\ n \in Nat /\ calls'[n + 1] = e
      /\ StartedIn(calls', n + 1) = StartedIn(calls, n) + 1
    BY <1>1, <1>3, <1>4, NewEntry
<1>8. Truthful(calls', outcomes')
    BY <1>1, <1>3, <1>4, <1>5, <1>6, NewEntryIsTruthful DEF TrailInv
<1>9. calls' # << >>
    BY <1>1, <1>4, <1>3, AppendProperties
<1>10. calls'[Len(calls')] = [tool |-> Head(blocks), started |-> TRUE, result |-> "ok"]
    BY <1>7 DEF e
<1>11. StartedIn(calls', Len(calls')) = Len(outcomes) + 1
    BY <1>6, <1>7
<1>12. Tripped' = Tripped
    BY <1>5 DEF Tripped
<1>13. QED
    BY <1>5, <1>8, <1>9, <1>10, <1>11, <1>12 DEF TrailInv

\* The entry that the breaker marks is shown as failed already.
LEMMA SkippedIsTruthful ==
    ASSUME TypeInv, TrailInv, SkipTool, LastIs("run_custom_query")
    PROVE  /\ Truthful(calls', outcomes)
           /\ StartedIn(calls', Len(calls')) = StartedIn(calls, Len(calls))
<1> DEFINE n == Len(calls)
           k == Len(outcomes)
<1>1. calls \in Seq(CallEntries) /\ k \in Nat
    BY LenProperties DEF TypeInv, Types
<1>2. n \in 1 .. n /\ n \in Nat \ {0}
    BY <1>1, EmptySeq, LenProperties DEF LastIs
<1>3. /\ Len(calls') = n
      /\ \A j \in 1 .. n : /\ calls'[j].tool = calls[j].tool
                           /\ calls'[j].started = calls[j].started
                           /\ calls'[j].result = IF j = n THEN "skipped" ELSE calls[j].result
    BY <1>1, ShowFailedMarks DEF SkipTool, Tools
<1>4. ASSUME NEW j \in 1 .. n PROVE StartedIn(calls', j) = StartedIn(calls, j)
  <2>1. j \in Nat /\ \A i \in 1 .. j : calls'[i].started = calls[i].started
      BY <1>2, <1>3
  <2>2. QED
      BY <2>1, StartedSame
<1>5. pc = "dispatch" /\ Tripped
    BY DEF SkipTool
<1>6. ASSUME calls[n].started
      PROVE  calls[n].result # "ok" /\ outcomes[StartedIn(calls, n)].result # "ok"
             /\ calls[n].tool = outcomes[StartedIn(calls, n)].tool
  <2>1. StartedIn(calls, n) = k
      BY <1>1, <1>5 DEF TrailInv
  <2>2. k # 0
      BY <1>2, <1>6, <2>1, StartedCounts
  <2>3. /\ calls[n].tool = outcomes[k].tool
        /\ (calls[n].result = "ok") = (outcomes[k].result = "ok")
      BY <1>1, <1>2, <1>6, <2>1 DEF TrailInv, Truthful
  <2>4. outcomes[k].tool = "run_custom_query"
      BY <2>3 DEF LastIs
  <2>5. outcomes[k].result = "error"
      BY <1>5, <2>2, <2>4 DEF TrailInv
  <2>6. calls[n].result # "ok"
      BY <2>3, <2>5
  <2>7. QED
      BY <2>1, <2>3, <2>5, <2>6
<1>7. ASSUME NEW j \in 1 .. n, calls'[j].started, StartedIn(calls', j) <= k
      PROVE  /\ calls'[j].tool = outcomes[StartedIn(calls', j)].tool
             /\ (calls'[j].result = "ok") = (outcomes[StartedIn(calls', j)].result = "ok")
  <2>1. CASE j = n
      BY <1>3, <1>4, <1>6, <1>7, <2>1
  <2>2. CASE j # n
    <3>1. /\ calls[j].tool = outcomes[StartedIn(calls, j)].tool
          /\ (calls[j].result = "ok") = (outcomes[StartedIn(calls, j)].result = "ok")
        BY <1>3, <1>4, <1>7 DEF TrailInv, Truthful
    <3>2. QED
        BY <1>3, <1>4, <2>2, <3>1
  <2>3. QED
      BY <2>1, <2>2
<1>8. QED
    BY <1>2, <1>3, <1>4, <1>7 DEF Truthful

LEMMA SkipKeepsTrail ==
    ASSUME TypeInv, TrailInv, SkipTool
    PROVE  TrailInv'
<1>1. calls \in Seq(CallEntries) /\ Len(outcomes) \in Nat
    BY LenProperties DEF TypeInv, Types
<1>2. /\ pc = "dispatch" /\ pc' = "dispatch" /\ UNCHANGED <<sqlFailures, outcomes>>
      /\ calls' = ShowFailed("run_custom_query", "skipped")
    BY DEF SkipTool
<1>3. /\ Truthful(calls', outcomes)
      /\ StartedIn(calls', Len(calls')) = StartedIn(calls, Len(calls))
  <2>1. CASE LastIs("run_custom_query")
      BY <2>1, SkippedIsTruthful
  <2>2. CASE ~LastIs("run_custom_query")
    <3> DEFINE e == [tool |-> "run_custom_query", started |-> FALSE, result |-> "skipped"]
    <3>1. e \in CallEntries /\ calls' = Append(calls, e)
        BY <1>1, <1>2, <2>2, ShowFailedAppends DEF Tools
    <3>2. ~e.started
        OBVIOUS
    <3> HIDE DEF e
    <3>3. Truthful(calls', outcomes)
        BY <1>1, <3>1, <3>2, NewEntryIsTruthful DEF TrailInv
    <3>4. Len(calls') = Len(calls) + 1
          /\ StartedIn(calls', Len(calls) + 1) = StartedIn(calls, Len(calls)) + 0
        BY <1>1, <3>1, <3>2, NewEntry
    <3>5. StartedIn(calls, Len(calls)) \in Nat
        BY <1>1, StartedIsNat, LenProperties
    <3>6. QED
        BY <3>3, <3>4, <3>5
  <2>3. QED
      BY <2>1, <2>2
<1>4. Tripped' = Tripped
    BY <1>2 DEF Tripped
<1>5. QED
    BY <1>2, <1>3, <1>4 DEF TrailInv

\* A tool's outcome, whatever it is, is the one its entry shows.
LEMMA ReturnKeepsTrail ==
    ASSUME TypeInv, TrailInv, pc = "tool", NEW result \in {"ok", "error"},
           Returned(Head(blocks), result), calls' \in Seq(CallEntries),
           Len(calls') = Len(calls),
           \A j \in 1 .. Len(calls) :
              /\ calls'[j].tool = calls[j].tool
              /\ calls'[j].started = calls[j].started
              /\ j # Len(calls) => calls'[j].result = calls[j].result,
           (calls'[Len(calls)].result = "ok") = (result = "ok"),
           sqlFailures' = sqlFailures + (IF /\ Head(blocks) = "run_custom_query"
                                            /\ result = "error" THEN 1 ELSE 0)
    PROVE  TrailInv'
<1> DEFINE o == [tool |-> Head(blocks), result |-> result]
           k == Len(outcomes)
<1>1. /\ calls \in Seq(CallEntries) /\ outcomes \in Seq(OutcomeEntries) /\ k \in Nat
      /\ sqlFailures \in Nat /\ SQL_FAILURE_LIMIT \in Nat
    BY LenProperties, AgentAssumption DEF TypeInv, Types
<1>2. Head(blocks) \in Tools
    BY HeadTailProperties DEF TypeInv, Types, TurnInv
<1>3. o \in OutcomeEntries /\ o.tool = Head(blocks) /\ o.result = result
    BY <1>2 DEF OutcomeEntries
<1>4. o = FailedQuery <=> Head(blocks) = "run_custom_query" /\ result = "error"
    BY DEF FailedQuery
<1>5. outcomes' = Append(outcomes, o) /\ pc' = "dispatch"
    BY DEF Returned
<1>6. /\ calls # << >> /\ calls[Len(calls)].tool = o.tool /\ calls[Len(calls)].started
      /\ StartedIn(calls, Len(calls)) = k + 1
      /\ ~(Tripped /\ Head(blocks) = "run_custom_query")
    BY DEF TrailInv
<1> HIDE DEF o
<1>7. /\ Truthful(calls', outcomes')
      /\ StartedIn(calls', Len(calls')) = Len(outcomes')
    BY <1>1, <1>3, <1>5, <1>6, NewOutcomeIsTruthful DEF TrailInv
<1>8. sqlFailures' = FailedIn(outcomes')
    BY <1>1, <1>3, <1>4, <1>5, NewOutcome DEF TrailInv
<1>9. sqlFailures' <= SQL_FAILURE_LIMIT
  <2>1. sqlFailures <= SQL_FAILURE_LIMIT
      BY DEF TrailInv
  <2>2. Head(blocks) = "run_custom_query" => sqlFailures < SQL_FAILURE_LIMIT
      BY <1>1, <1>6 DEF Tripped
  <2>3. QED
      BY <1>1, <2>1, <2>2
<1>10. Len(outcomes') = k + 1 /\ outcomes'[Len(outcomes')] = o
    BY <1>1, <1>3, <1>5, AppendProperties
<1>11. Tripped' /\ o.tool = "run_custom_query" => o.result = "error"
  <2>1. SUFFICES ASSUME o.tool = "run_custom_query", result = "ok" PROVE ~Tripped'
      BY <1>3
  <2>2. ~Tripped /\ sqlFailures' = sqlFailures
      BY <1>1, <1>3, <1>6, <2>1
  <2>3. QED
      BY <2>2 DEF Tripped
<1>12. StartedIn(calls', Len(calls')) = Len(outcomes') + 0
    BY <1>1, <1>7, <1>10
<1>13. QED
    BY <1>5, <1>7, <1>8, <1>9, <1>10, <1>11, <1>12 DEF TrailInv

LEMMA OutcomeKeepsTrail ==
    ASSUME TypeInv, TrailInv, ToolFailed \/ ToolFinished
    PROVE  TrailInv'
<1> DEFINE tool == Head(blocks)
           last == [tool |-> tool, started |-> TRUE, result |-> "ok"]
<1>1. calls \in Seq(CallEntries) /\ sqlFailures \in Nat
    BY DEF TypeInv, Types
<1>2. pc = "tool" /\ tool \in Tools
    BY HeadTailProperties DEF ToolFailed, ToolFinished, TypeInv, Types, TurnInv
<1>3. calls # << >> /\ calls[Len(calls)] = last
    BY <1>2 DEF TrailInv
<1>4. Len(calls) \in 1 .. Len(calls)
    BY <1>1, <1>3, EmptySeq, LenProperties
<1>5. CASE ToolFailed
  <2>1. calls' = ShowFailed(tool, "error") /\ Returned(tool, "error")
      BY <1>5 DEF ToolFailed
  <2>2. sqlFailures' = sqlFailures + (IF tool = "run_custom_query" /\ "error" = "error"
                                      THEN 1 ELSE 0)
      BY <1>1, <1>5 DEF ToolFailed
  <2>3. LastIs(tool)
      BY <1>3 DEF LastIs
  <2>4. /\ calls' \in Seq(CallEntries) /\ Len(calls') = Len(calls)
        /\ \A j \in 1 .. Len(calls) :
              /\ calls'[j].tool = calls[j].tool
              /\ calls'[j].started = calls[j].started
              /\ calls'[j].result = IF j = Len(calls) THEN "error" ELSE calls[j].result
      BY <1>1, <1>2, <2>1, <2>3, ShowFailedMarks
  <2>5. calls'[Len(calls)].result # "ok"
      BY <1>4, <2>4
  <2>6. QED
      BY <1>2, <2>1, <2>2, <2>4, <2>5, ReturnKeepsTrail
<1>6. CASE ToolFinished
  <2>1. UNCHANGED <<calls, sqlFailures>> /\ Returned(tool, "ok")
      BY <1>6 DEF ToolFinished
  <2>2. sqlFailures' = sqlFailures + (IF tool = "run_custom_query" /\ "ok" = "error"
                                      THEN 1 ELSE 0)
      BY <1>1, <2>1
  <2>3. calls'[Len(calls)].result = "ok"
      BY <1>3, <2>1
  <2>4. QED
      BY <1>1, <1>2, <2>1, <2>2, <2>3, ReturnKeepsTrail
<1>7. QED
    BY <1>5, <1>6

LEMMA TrailStep ==
    ASSUME TypeInv, TypeInv', TrailInv, [Next]_agentVars
    PROVE  TrailInv'
<1>1. CASE ~InTurn'
  <2>1. (pc # "tool" /\ calls = << >> /\ outcomes = << >> /\ sqlFailures = 0)'
      BY <1>1 DEF TypeInv, TurnInv, InTurn
  <2>2. (pc # "tool" /\ calls = << >> /\ outcomes = << >> /\ sqlFailures = 0)'
           => TrailInv'
      BY EmptyTrail, PTL
  <2>3. QED
      BY <2>1, <2>2
<1>2. CASE ToolStep
    BY <1>2, StartKeepsTrail, SkipKeepsTrail, OutcomeKeepsTrail DEF ToolStep
<1>3. CASE /\ UNCHANGED <<calls, outcomes, sqlFailures>>
           /\ pc # "tool" /\ pc' # "tool"
    BY <1>3 DEF TrailInv, Tripped
<1>4. CASE UNCHANGED agentVars
    BY <1>4 DEF agentVars, turnVars, TrailInv, Tripped
<1>5. ASSUME NEW tools, ApiCalls(tools)
      PROVE  UNCHANGED <<calls, outcomes, sqlFailures>> /\ pc # "tool" /\ pc' # "tool"
    BY <1>5 DEF ApiCalls
<1>6. SubmitUserTurn \/ NextIteration
         => UNCHANGED <<calls, outcomes, sqlFailures>> /\ pc # "tool" /\ pc' # "tool"
    BY DEF SubmitUserTurn, NextIteration
<1>7. ApiFails \/ ApiSays \/ Exhausted \/ PostStep \/ PostInterrupted \/ TurnInterrupted
         => ~InTurn'
    BY DEF ApiFails, ApiSays, Exhausted, FinishTurn, PostStep, PostOk, PostFails,
           PostInterrupted, PostOver, TurnInterrupted, InTurn
<1>8. (\E d \in DOMAIN drafts : Approve(d) \/ Discard(d)) \/ Clear => ~InTurn'
    BY DEF Approve, Discard, Clear, InTurn
<1>9. QED
    BY <1>1, <1>2, <1>3, <1>4, <1>5, <1>6, <1>7, <1>8 DEF Next, ApiStep, RoundStep

\* The page shows every tool of the turn that was really run, in order, and as failed
\* exactly when it failed, however the answers spread them over blocks and iterations
\* and whatever the breaker skips; and no more queries fail than the breaker allows.
THEOREM TrailStaysTrue == Spec => []TrailIsTrue
<1>1. Init => TrailInv
    BY EmptyTrail DEF Init
<1>2. TypeInv /\ TypeInv' /\ TrailInv /\ [Next]_agentVars => TrailInv'
    BY TrailStep
<1>3. TypeInv /\ TrailInv => TrailIsTrue
  <2> SUFFICES ASSUME TypeInv, TrailInv PROVE TrailIsTrue
      OBVIOUS
  <2>1. /\ DOMAIN calls = 1 .. Len(calls) /\ DOMAIN outcomes = 1 .. Len(outcomes)
        /\ \A k : Started(k) = StartedIn(calls, k)
      BY LenProperties DEF TypeInv, Types, Started, StartedIn
  <2>2. Cardinality({i \in DOMAIN outcomes : outcomes[i] = FailedQuery})
           <= SQL_FAILURE_LIMIT
      BY <2>1 DEF TrailInv, FailedIn
  <2>3. QED
      BY <2>1, <2>2 DEF TrailInv, Truthful, TrailIsTrue
<1>4. QED
    BY <1>1, <1>2, <1>3, TypeInvariant, PTL DEF Spec
=============================================================================
