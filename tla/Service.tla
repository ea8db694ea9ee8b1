------------------------------- MODULE Service -------------------------------
(***************************************************************************)
(* src/api/main.py: the lifespan that starts and tears down the process's  *)
(* background tasks, and the liveness probe; src/pipeline.py: run_forever, *)
(* the loop around run_once, with its back-off.                            *)
(*                                                                         *)
(* A cycle is its outcome only (Pipeline models what happens inside), and  *)
(* the retrain task it may leave behind.  The SAP model is present or not: *)
(* its bootstrap task may train it, and a cycle that has rows to score     *)
(* cannot succeed without one.  The back-off is a float power of           *)
(* BACKOFF_BASE: past MAX_EXPONENT Python raises.                          *)
(***************************************************************************)
EXTENDS Naturals

CONSTANTS
    MAX_EXPONENT    \* largest n for which 2.0 ** n is a float

ASSUME ServiceAssumption == MAX_EXPONENT \in Nat

VARIABLES
    phase,      \* lifespan: "starting", "serving", "stopping", "closing", "stopped"
                \* or "aborted"
    loop,       \* run_forever: "none", "check", "cycle", "interval", "backoff", and
                \* then "ended", "cancelled" or "failed"
    stop,       \* Pipeline._stop
    cancel,     \* the lifespan has cancelled the task
    errors,     \* _consecutive_errors
    model,      \* registry.current_version() is not None
    bootstrap,  \* the model-bootstrap task: "none", "running", "done", "cancelled"
    helpers,    \* keep-alive and LLM bootstrap tasks: "none", "running", "cancelled"
    retrain,    \* _retrain_task: "none", "training", "waiting" for a connection or
                \* "registering" with one
    opened      \* the fetcher's HTTP client or a connection of the HANA pool is open

serviceVars ==
    <<phase, loop, stop, cancel, errors, model, bootstrap, helpers, retrain, opened>>

Init ==
    /\ phase = "starting"
    /\ loop = "none"
    /\ stop = FALSE
    /\ cancel = FALSE
    /\ errors = 0
    /\ model \in BOOLEAN
    /\ bootstrap = "none"
    /\ helpers = "none"
    /\ retrain = "none"
    /\ opened = FALSE

LoopOver == loop \in {"ended", "cancelled", "failed"}

-----------------------------------------------------------------------------
(* Lifespan.                                                               *)

\* Pool and schema (their failure is only logged), then the tasks.
Startup ==
    /\ phase = "starting"
    /\ phase' = "serving"
    /\ opened' = TRUE
    /\ bootstrap' = IF model THEN "none" ELSE "running"
    /\ loop' = "check"
    /\ helpers' = "running"
    /\ UNCHANGED <<stop, cancel, errors, model, retrain>>

\* The model-bootstrap task trains a model, or finds no data or fails; its thread
\* cannot be stopped, but a cancelled task is not waited for.
BootstrapEnds(trained) ==
    /\ bootstrap = "running"
    /\ bootstrap' = "done"
    /\ model' = (model \/ trained)
    /\ UNCHANGED <<phase, loop, stop, cancel, errors, helpers, retrain, opened>>

\* Mutant: the pipeline task is awaited without being told to stop.
BeginShutdownQuietly ==
    /\ phase = "serving"
    /\ phase' = "stopping"
    /\ UNCHANGED <<loop, stop, cancel, errors, model, bootstrap, helpers, retrain, opened>>

\* After the yield: request_stop and cancel, up to the await of the pipeline task.
BeginShutdown ==
    /\ phase = "serving"
    /\ phase' = "stopping"
    /\ stop' = TRUE
    /\ cancel' = TRUE
    /\ UNCHANGED <<loop, errors, model, bootstrap, helpers, retrain, opened>>

\* Mutant: the pipeline task is cancelled but not awaited.
PipelineNotJoined ==
    /\ phase = "stopping"
    /\ phase' = "closing"
    /\ bootstrap' = IF bootstrap = "running" THEN "cancelled" ELSE bootstrap
    /\ helpers' = "cancelled"
    /\ UNCHANGED <<loop, stop, cancel, errors, model, retrain, opened>>

\* The await returns: the loop ended, or its CancelledError is suppressed.  The
\* other tasks are cancelled.
PipelineJoined ==
    /\ phase = "stopping"
    /\ loop \in {"ended", "cancelled"}
    /\ phase' = "closing"
    /\ bootstrap' = IF bootstrap = "running" THEN "cancelled" ELSE bootstrap
    /\ helpers' = "cancelled"
    /\ UNCHANGED <<loop, stop, cancel, errors, model, retrain, opened>>

\* The await raises what the loop died of: the rest of the shutdown is skipped.
PipelineJoinRaises ==
    /\ phase = "stopping"
    /\ loop = "failed"
    /\ phase' = "aborted"
    /\ UNCHANGED <<loop, stop, cancel, errors, model, bootstrap, helpers, retrain, opened>>

\* close_fetcher_client and pool.close, which closes what is in its queue: not the
\* connection that a retrain has borrowed.
CloseAll ==
    /\ phase = "closing"
    /\ phase' = "stopped"
    /\ opened' = (retrain = "registering")
    /\ UNCHANGED <<loop, stop, cancel, errors, model, bootstrap, helpers, retrain>>

\* The handler run_forever installs for SIGTERM and SIGINT sets the stop event.
Signal ==
    /\ loop # "none"
    /\ ~stop
    /\ stop' = TRUE
    /\ UNCHANGED <<phase, loop, cancel, errors, model, bootstrap, helpers, retrain, opened>>

-----------------------------------------------------------------------------
(* run_forever.                                                            *)

Loop(where) ==
    /\ loop' = where
    /\ UNCHANGED <<phase, stop, cancel, model, bootstrap, helpers, opened>>

\* Mutant: while True
EnterCycleAnyway ==
    /\ loop = "check"
    /\ Loop("cycle")
    /\ UNCHANGED <<errors, retrain>>

EnterCycle ==
    /\ loop = "check"
    /\ ~stop
    /\ Loop("cycle")
    /\ UNCHANGED <<errors, retrain>>

LeaveLoop ==
    /\ loop = "check"
    /\ stop
    /\ Loop("ended")
    /\ UNCHANGED <<errors, retrain>>

\* run_once returns: rows were scored, which takes a model and may be time for a
\* retrain, or there was nothing to do.
CycleOk(scored) ==
    /\ loop = "cycle"
    /\ scored => model
    /\ errors' = 0
    /\ retrain' \in {retrain} \cup (IF scored /\ retrain = "none" THEN {"training"} ELSE {})
    /\ Loop("interval")

\* Mutant: the exponent is checked one too late.
CycleRaisesOnceMore ==
    /\ loop = "cycle"
    /\ errors <= MAX_EXPONENT
    /\ errors' = errors + 1
    /\ Loop("backoff")
    /\ UNCHANGED retrain

\* run_once raises: the delay is computed, logged and slept.
CycleRaises ==
    /\ loop = "cycle"
    /\ errors < MAX_EXPONENT
    /\ errors' = errors + 1
    /\ Loop("backoff")
    /\ UNCHANGED retrain

\* BACKOFF_BASE ** errors raises OverflowError inside the except clause.
BackoffOverflows ==
    /\ loop = "cycle"
    /\ errors >= MAX_EXPONENT
    /\ errors' = errors + 1
    /\ Loop("failed")
    /\ UNCHANGED retrain

\* _interruptible_sleep: the delay is over, or the stop event cut it short.
Wake ==
    /\ loop \in {"interval", "backoff"}
    /\ Loop("check")
    /\ UNCHANGED <<errors, retrain>>

\* The cancellation reaches the await the loop is suspended in, also one that waits
\* for a thread inside hdbcli: it is the thread that cannot be stopped.
Cancelled ==
    /\ cancel
    /\ loop \in {"cycle", "interval", "backoff"}
    /\ Loop("cancelled")
    /\ UNCHANGED <<errors, retrain>>

-----------------------------------------------------------------------------
(* The retrain task: nobody stops it, cancels it or waits for it.          *)

Retrain(where) ==
    /\ retrain' = where
    /\ UNCHANGED <<phase, loop, stop, cancel, errors, model, bootstrap, helpers, opened>>

\* Training succeeds, or raises.
Trained(where) ==
    /\ retrain = "training"
    /\ where \in {"waiting", "none"}
    /\ Retrain(where)

\* register borrows a connection: after pool.close there is one only if a retrain
\* had it then.
Borrow ==
    /\ retrain = "waiting"
    /\ opened
    /\ Retrain("registering")

\* The connection goes back; there may be another report to register.
Registered(where) ==
    /\ retrain = "registering"
    /\ where \in {"waiting", "none"}
    /\ Retrain(where)

RetrainStep ==
    \/ Borrow
    \/ \E where \in {"waiting", "none"} : Trained(where) \/ Registered(where)

-----------------------------------------------------------------------------

CycleEnds == CycleRaises \/ BackoffOverflows \/ \E scored \in BOOLEAN : CycleOk(scored)

\* What run_forever does as soon as the event loop runs its task, or its time is up.
LoopMoves == EnterCycle \/ LeaveLoop \/ Wake \/ Cancelled

LoopStep == LoopMoves \/ CycleEnds

JoinStep == PipelineJoined \/ PipelineJoinRaises

Next ==
    \/ Startup
    \/ \E trained \in BOOLEAN : BootstrapEnds(trained)
    \/ BeginShutdown
    \/ JoinStep
    \/ CloseAll
    \/ Signal
    \/ LoopStep
    \/ RetrainStep

Spec == Init /\ [][Next]_serviceVars

\* The event loop runs every task that can move, and a sleep ends when its time is up.
\* The start need not, nor a cycle, a retrain or the closing of a connection: the
\* connections of the pool have no time-out.  A signal or a shutdown need not come.
FairSpec ==
    Spec /\ WF_serviceVars(LoopMoves) /\ WF_serviceVars(JoinStep)

-----------------------------------------------------------------------------
(* The probe.                                                              *)

IsRunning == phase # "starting" /\ ~stop
TaskAlive == loop # "none" /\ ~LoopOver

\* Mutant: /health looks at the stop event only.
SchedulerNotStopped == IsRunning

SchedulerRunning == IsRunning /\ TaskAlive      \* GET /health

-----------------------------------------------------------------------------
(* Properties.                                                             *)

\* Types of the lifespan's and the loop's state.
TypeOK ==
    /\ phase \in {"starting", "serving", "stopping", "closing", "stopped", "aborted"}
    /\ loop \in {"none", "check", "cycle", "interval", "backoff",
                 "ended", "cancelled", "failed"}
    /\ stop \in BOOLEAN
    /\ cancel \in BOOLEAN
    /\ errors \in 0 .. MAX_EXPONENT + 1
    /\ model \in BOOLEAN
    /\ bootstrap \in {"none", "running", "done", "cancelled"}
    /\ helpers \in {"none", "running", "cancelled"}
    /\ retrain \in {"none", "training", "waiting", "registering"}
    /\ opened \in BOOLEAN

\* A shutdown that ran to its end left none of the tasks running that the lifespan
\* started.  (A retrain, which the pipeline started, may run on.)  No connection is
\* closed under a task that uses it: not the pipeline's, nor the one a retrain holds,
\* which may therefore stay open after the shutdown.
StoppedCleanly ==
    /\ phase = "stopped" => LoopOver /\ bootstrap # "running" /\ helpers # "running"
    /\ TaskAlive \/ retrain = "registering" => opened

\* When /health says the scheduler runs, it does: another cycle follows, unless
\* the process is told to stop meanwhile.
HealthMeansCycles == SchedulerRunning ~> loop = "cycle" \/ stop

\* The lifespan's shutdown ends the loop whatever await it is in, be it a call that
\* never returns; a signal alone, which only sets the event, ends it however long the
\* back-off it sleeps, as long as no cycle lasts for ever.
StopEndsLoop ==
    /\ cancel ~> LoopOver
    /\ []<>(loop # "cycle") => (stop ~> LoopOver)

\* A shutdown always gets past the pipeline task, even one that never returns from a
\* call or that died before: to the closing of the connections, or out.
ShutdownEnds == phase = "stopping" ~> phase # "stopping"

\* pipeline.py: run_forever loops with back-off on transient errors: no run of
\* failing cycles ends the loop.
ErrorsNeverEndLoop == loop # "failed"
=============================================================================
