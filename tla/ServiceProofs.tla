----------------------------- MODULE ServiceProofs -----------------------------
(***************************************************************************)
(* Proofs about Service, for every largest exponent of the back-off.       *)
(*                                                                         *)
(* A clean stop rests on the order of the lifespan (LifespanOrder): the    *)
(* loop runs only while the connections are open, and the connections are  *)
(* closed only after the loop is over, which it stays.  A retrain may      *)
(* outlive all that; it is the one that has a connection then.             *)
(***************************************************************************)
EXTENDS Service, TLAPS

LifespanOrder ==
    /\ phase = "starting" => loop = "none" /\ bootstrap = "none" /\ helpers = "none"
    /\ phase \in {"closing", "stopped"} =>
          /\ loop \in {"ended", "cancelled"}
          /\ bootstrap # "running" /\ helpers # "running"
    /\ phase \in {"serving", "stopping", "closing"} \/ retrain = "registering" => opened

\* The exponent of the back-off is at most MAX_EXPONENT whenever the loop goes on.
BackoffInRange == loop # "failed" => errors <= MAX_EXPONENT

ServiceInv == TypeOK /\ LifespanOrder /\ BackoffInRange /\ (phase = "aborted" => loop = "failed")

LEMMA ServiceInvInit == Init => ServiceInv
<1> SUFFICES ASSUME Init PROVE ServiceInv
    OBVIOUS
<1>1. errors \in 0 .. MAX_EXPONENT + 1 /\ BackoffInRange
    BY ServiceAssumption DEF Init, BackoffInRange
<1>2. /\ phase = "starting" /\ loop = "none" /\ bootstrap = "none" /\ helpers = "none"
      /\ retrain = "none" /\ stop \in BOOLEAN /\ cancel \in BOOLEAN /\ model \in BOOLEAN /\ opened \in BOOLEAN
    BY Zenon DEF Init
<1>3. TypeOK
    BY <1>1, <1>2, Zenon DEF TypeOK
<1>4. LifespanOrder /\ (phase = "aborted" => loop = "failed")
    BY <1>2 DEF LifespanOrder
<1>5. QED
    BY <1>1, <1>3, <1>4, Zenon DEF ServiceInv

\* The steps of the lifespan and of the tasks it started.
LEMMA LifespanStep ==
    ASSUME ServiceInv,
           \/ Startup \/ BeginShutdown \/ JoinStep \/ CloseAll \/ Signal
           \/ \E trained \in BOOLEAN : BootstrapEnds(trained)
    PROVE  ServiceInv'
<1> USE ServiceAssumption DEF ServiceInv, TypeOK, LifespanOrder, BackoffInRange
<1>1. CASE Startup
    BY <1>1 DEF Startup
<1>2. CASE BeginShutdown
    BY <1>2 DEF BeginShutdown
<1>5. CASE Signal
    BY <1>5 DEF Signal
<1>3. CASE JoinStep \/ CloseAll
    BY <1>3 DEF JoinStep, PipelineJoined, PipelineJoinRaises, CloseAll
<1>4. ASSUME NEW trained \in BOOLEAN, BootstrapEnds(trained) PROVE ServiceInv'
    BY <1>4 DEF BootstrapEnds
<1>6. QED
    BY <1>1, <1>2, <1>3, <1>4, <1>5, Zenon

\* The steps of run_forever.
LEMMA LoopStepKeepsInv ==
    ASSUME ServiceInv, LoopStep
    PROVE  ServiceInv'
<1> USE ServiceAssumption DEF ServiceInv, TypeOK, LifespanOrder, BackoffInRange, Loop
<1>1. CASE EnterCycle \/ LeaveLoop \/ Wake \/ Cancelled
    BY <1>1 DEF EnterCycle, LeaveLoop, Wake, Cancelled
<1>2. ASSUME NEW scored \in BOOLEAN, CycleOk(scored) PROVE ServiceInv'
    BY <1>2 DEF CycleOk
<1>3. CASE CycleRaises \/ BackoffOverflows
    BY <1>3 DEF CycleRaises, BackoffOverflows
<1>4. QED
    BY <1>1, <1>2, <1>3, Zenon DEF LoopStep, LoopMoves, CycleEnds

\* The steps of the retrain task, which borrows only what is open.
LEMMA RetrainStepKeepsInv ==
    ASSUME ServiceInv, RetrainStep
    PROVE  ServiceInv'
<1> USE DEF ServiceInv, TypeOK, LifespanOrder, BackoffInRange, Retrain
<1>1. CASE Borrow
    BY <1>1 DEF Borrow
<1>2. ASSUME NEW where \in {"waiting", "none"}, Trained(where) \/ Registered(where)
      PROVE  ServiceInv'
    BY <1>2 DEF Trained, Registered
<1>3. QED
    BY <1>1, <1>2, Zenon DEF RetrainStep

LEMMA ServiceInvariance == Spec => []ServiceInv
<1>1. ServiceInv /\ [Next]_serviceVars => ServiceInv'
  <2>1. ServiceInv /\ UNCHANGED serviceVars => ServiceInv'
      BY DEF serviceVars, ServiceInv, TypeOK, LifespanOrder, BackoffInRange
  <2>2. QED
      BY <2>1, LifespanStep, LoopStepKeepsInv, RetrainStepKeepsInv, Zenon DEF Next
<1>2. QED
    BY <1>1, ServiceInvInit, PTL DEF Spec

\* Type correctness of the lifespan and the loop; the exponent of the back-off is at
\* most one above the largest that is a float.
THEOREM ServiceTypeCorrect == Spec => []TypeOK
<1>1. ServiceInv => TypeOK
    BY DEF ServiceInv
<1>2. QED
    BY <1>1, ServiceInvariance, PTL

\* A shutdown that ran to its end leaves none of the tasks running that the lifespan
\* started, and neither the pipeline nor a retrain ever uses a closed connection.
THEOREM ShutdownIsClean == Spec => []StoppedCleanly
<1>1. ServiceInv => StoppedCleanly
    BY DEF ServiceInv, TypeOK, LifespanOrder, StoppedCleanly, TaskAlive, LoopOver
<1>2. QED
    BY <1>1, ServiceInvariance, PTL
=============================================================================
