------------------------------- MODULE Retrain -------------------------------
(***************************************************************************)
(* src/pipeline.py: the tail of a successful Pipeline.run_once, which      *)
(* buffers the batch and every N cycles starts the background task         *)
(* _retrain, and that task.                                                *)
(*                                                                         *)
(* A buffered frame is its number of rows.  The cycle counter only ever    *)
(* meets "% RETRAIN_EVERY", so cyclePhase keeps it modulo that.  What      *)
(* training does to the model registry is in ModelLifecycle.               *)
(***************************************************************************)
EXTENDS Naturals, Sequences, Functions

CONSTANTS
    RETRAIN_LOG_BUFFER_MAX_ROWS,
    RETRAIN_EVERY               \* settings.retrain_every_n_cycles; 0: disabled

ASSUME RetrainAssumption ==
    /\ RETRAIN_LOG_BUFFER_MAX_ROWS \in Nat
    /\ RETRAIN_EVERY \in Nat

VARIABLES
    buffer,         \* _log_buffer
    cyclePhase,     \* _cycle_count % RETRAIN_EVERY
    retraining,     \* _retraining
    training,       \* tasks inside asyncio.to_thread(_do_train)
    registering     \* tasks writing their reports to MODEL_VERSIONS

retrainVars == <<buffer, cyclePhase, retraining, training, registering>>

RetrainInit ==
    /\ buffer = << >>
    /\ cyclePhase = 0
    /\ retraining = FALSE
    /\ training = 0
    /\ registering = 0

-----------------------------------------------------------------------------

\* Mutant: a buffer that is exactly full is trimmed.
TrimmedBelowCap(frames) ==
    LET Fits(i) == \/ i = Len(frames)
                   \/ SumFunction(SubSeq(frames, i, Len(frames)))
                        < RETRAIN_LOG_BUFFER_MAX_ROWS
        first == CHOOSE i \in 1 .. Len(frames) :
                    Fits(i) /\ \A j \in 1 .. (i - 1) : ~Fits(j)
    IN  SubSeq(frames, first, Len(frames))

\* The trimming loop: frames are dropped from the front while the buffer holds
\* more rows than the cap and more than one frame.
Trimmed(frames) ==
    LET Fits(i) == \/ i = Len(frames)
                   \/ SumFunction(SubSeq(frames, i, Len(frames)))
                        <= RETRAIN_LOG_BUFFER_MAX_ROWS
        first == CHOOSE i \in 1 .. Len(frames) :
                    Fits(i) /\ \A j \in 1 .. (i - 1) : ~Fits(j)
    IN  SubSeq(frames, first, Len(frames))

\* Mutant: the counter is never taken modulo.
NextCount == cyclePhase + 1

NextPhase == IF RETRAIN_EVERY = 0 THEN 0 ELSE (cyclePhase + 1) % RETRAIN_EVERY

\* Mutant: a retrain starts while another runs.
RetrainDueAnyway == RETRAIN_EVERY > 0 /\ NextPhase = 0

RetrainDue == RETRAIN_EVERY > 0 /\ NextPhase = 0 /\ ~retraining

\* The tail of run_once.  The task it creates runs up to its first await, the
\* training thread, before the loop comes back to run_forever.
EndCycle(rows) ==
    /\ buffer' = Trimmed(Append(buffer, rows))
    /\ cyclePhase' = NextPhase
    /\ IF RetrainDue
       THEN retraining' = TRUE /\ training' = training + 1
       ELSE UNCHANGED <<retraining, training>>
    /\ UNCHANGED registering

-----------------------------------------------------------------------------
(* _retrain after the training thread.                                     *)

\* reset_active_model, then MODEL_VERSIONS gets the reports.
Trained ==
    /\ training > 0
    /\ training' = training - 1
    /\ registering' = registering + 1
    /\ UNCHANGED <<buffer, cyclePhase, retraining>>

\* The reports are registered, or HANA fails half-way: logged, not raised.
Registered ==
    /\ registering > 0
    /\ registering' = registering - 1
    /\ retraining' = FALSE
    /\ UNCHANGED <<buffer, cyclePhase, training>>

\* Mutant: the flag is reset on success only.
TrainingFailedBusy ==
    /\ training > 0
    /\ training' = training - 1
    /\ UNCHANGED <<buffer, cyclePhase, retraining, registering>>

\* Training raised: logged, not raised.
TrainingFailed ==
    /\ training > 0
    /\ training' = training - 1
    /\ retraining' = FALSE
    /\ UNCHANGED <<buffer, cyclePhase, registering>>

RetrainTaskStep == Trained \/ Registered \/ TrainingFailed

\* The process restarts: buffer, counter and task are gone.
RetrainRestart ==
    /\ buffer' = << >>
    /\ cyclePhase' = 0
    /\ retraining' = FALSE
    /\ training' = 0
    /\ registering' = 0

-----------------------------------------------------------------------------
(* Properties.                                                             *)

\* Types of Pipeline's retraining state.
RetrainTypeOK ==
    /\ buffer \in Seq(Nat)
    /\ cyclePhase \in 0 .. RETRAIN_EVERY
    /\ retraining \in BOOLEAN
    /\ training \in Nat
    /\ registering \in Nat

\* At most one _retrain task is alive, and the flag says exactly whether one is:
\* a cycle that ends while the task trains or registers starts no second one.
OneRetrainAtATime ==
    training + registering = IF retraining THEN 1 ELSE 0
=============================================================================
