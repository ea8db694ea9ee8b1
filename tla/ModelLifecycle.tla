--------------------------- MODULE ModelLifecycle ---------------------------
(***************************************************************************)
(* The SAP models of a running service: the bootstrap of src/api/main.py   *)
(* trains the first, every cycle of src/pipeline.py predicts with the      *)
(* active pair, and its tail starts the retrain task, whose thread runs    *)
(* train_split of src/model/train.py.  It composes Retrain, the tail and   *)
(* its task, with ModelRegistry, the disk and the active pair.             *)
(*                                                                         *)
(* On Cloud Foundry the disk goes with the process; elsewhere the next     *)
(* process finds it as the last one left it, in the middle of a save too.  *)
(***************************************************************************)
EXTENDS Retrain, ModelRegistry

CONSTANTS
    BatchSizes,     \* bound: rows of a batch, at least one
    MaxCycles       \* bound: completed cycles

ASSUME LifecycleAssumption == BatchSizes \subseteq Nat \ {0} /\ MaxCycles \in Nat

VARIABLES
    cycle,          \* where the cycle is between its fetch and its tail
    splits,         \* feature sets the retrain thread still has to train
    frames,         \* history: the rows of every batch since the process started
    served,         \* history: a cycle of this process has had its pair
    fresh,          \* history: the bundles saved by the retrain thread so far
    finished        \* history: the newest bundles of the retrains that finished

lifecycleVars == <<retrainVars, registryVars, cycle, splits, frames, served, fresh, finished>>

Init ==
    /\ RetrainInit
    /\ RegistryInit
    /\ cycle = "no"
    /\ splits = {}
    /\ frames = << >>
    /\ served = FALSE
    /\ fresh = [f \in FeatureSets |-> 0]
    /\ finished = [f \in FeatureSets |-> 0]

-----------------------------------------------------------------------------
(* _model_bootstrap: a single modern bundle, or nothing to train on.       *)

\* lifespan starts it when no version is found.
AtStartup == [s \in Savers |->
    IF s = "bootstrap" /\ CurrentVersion # NoModel
    THEN [NotSaving EXCEPT !.at = "skipped"]
    ELSE NotSaving]

Bootstrap ==
    /\ save["bootstrap"].at = "no"
    /\ BeginSave("bootstrap", "modern")
    /\ UNCHANGED <<retrainVars, cycle, splits, frames, served, fresh, finished>>

\* HANA does not answer or has no rows: logged, and tried again at a restart.
NoBootstrap ==
    /\ save["bootstrap"].at = "no"
    /\ Goes("bootstrap", "failed")
    /\ UNCHANGED <<retrainVars, diskVars, active>>
    /\ UNCHANGED <<cycle, splits, frames, served, fresh, finished>>

BootstrapStep ==
    /\ SaveStep("bootstrap") \/ SaveFailed("bootstrap")
    /\ UNCHANGED <<retrainVars, cycle, splits, frames, served, fresh, finished>>

-----------------------------------------------------------------------------
(* A cycle: predict on the event loop, then the tail.                      *)

LoadLegacy ==
    /\ cycle = "no"
    /\ LoadSlot("legacy")
    /\ cycle' = IF active'["legacy"] = NoModel THEN "no" ELSE "legacy loaded"
    /\ UNCHANGED <<retrainVars, splits, frames, served, fresh, finished>>

\* Not found: the cycle fails, the legacy slot stays loaded.
LoadModern ==
    /\ cycle = "legacy loaded"
    /\ LoadSlot("modern")
    /\ LET found == active'["modern"] # NoModel
       IN  /\ cycle' = IF found THEN "predicted" ELSE "no"
           /\ served' = (served \/ found)
    /\ UNCHANGED <<retrainVars, splits, frames, fresh, finished>>

\* A retrain starts many cycles after the bootstrap's manifest was written, and
\* long after its last pointer was.
CycleTail(rows) ==
    /\ cycle = "predicted"
    /\ Len(frames) < MaxCycles
    /\ RetrainDue => /\ tags + 2 <= MaxTags
                     /\ save["bootstrap"].at \in {"skipped", "saved", "failed"}
    /\ EndCycle(rows)
    /\ splits' \in IF RetrainDue THEN (SUBSET FeatureSets) \ {{}} ELSE {splits}
    /\ frames' = Append(frames, rows)
    /\ cycle' = "no"
    /\ UNCHANGED <<registryVars, served, fresh, finished>>

-----------------------------------------------------------------------------
(* _retrain and train_split.                                               *)

\* Legacy first.
TrainNext ==
    /\ training > 0
    /\ save["retrain"].at \in {"no", "saved"}
    /\ splits # {}
    /\ LET f == IF "legacy" \in splits THEN "legacy" ELSE "modern"
       IN  /\ BeginSave("retrain", f)
           /\ splits' = splits \ {f}
    /\ UNCHANGED <<retrainVars, cycle, frames, served, fresh, finished>>

TrainStep ==
    /\ training > 0
    /\ SaveStep("retrain")
    /\ fresh' = IF save'["retrain"].at = "saved"
                THEN [fresh EXCEPT ![save["retrain"].set] = save["retrain"].tag]
                ELSE fresh
    /\ UNCHANGED <<retrainVars, cycle, splits, frames, served, finished>>

TrainFault ==
    /\ training > 0
    /\ SaveFailed("retrain")
    /\ UNCHANGED <<retrainVars, cycle, splits, frames, served, fresh, finished>>

ThreadGone == [save EXCEPT !["retrain"] = NotSaving]

\* The thread returns: reset_active_model, between two steps of the event loop.
Swap ==
    /\ cycle # "legacy loaded"
    /\ save["retrain"].at = "saved"
    /\ splits = {}
    /\ Trained
    /\ ResetActiveModel
    /\ save' = ThreadGone
    /\ finished' = [f \in FeatureSets |-> IF fresh[f] = 0 THEN finished[f] ELSE fresh[f]]
    /\ fresh' = [f \in FeatureSets |-> 0]
    /\ UNCHANGED <<diskVars, cycle, splits, frames, served>>

Register ==
    /\ Registered
    /\ UNCHANGED <<registryVars, cycle, splits, frames, served, fresh, finished>>

\* Training raises, or a save does, perhaps after another was complete: no reset.
GiveUp ==
    /\ save["retrain"].at \in {"no", "failed"}
    /\ TrainingFailed
    /\ save' = ThreadGone
    /\ splits' = {}
    /\ fresh' = [f \in FeatureSets |-> 0]
    /\ UNCHANGED <<diskVars, active, cycle, frames, served, finished>>

\* The process dies, in the middle of whatever it does, and another starts.
NewProcess ==
    /\ RetrainRestart
    /\ save' = AtStartup'
    /\ active' = [f \in FeatureSets |-> NoModel]
    /\ cycle' = "no"
    /\ splits' = {}
    /\ frames' = << >>
    /\ served' = FALSE
    /\ fresh' = [f \in FeatureSets |-> 0]

\* On an empty disk.
Redeploy ==
    /\ bundles' = {}
    /\ manifests' = {}
    /\ pointer' = [p \in Pointers |-> Absent]
    /\ tags' = 0
    /\ finished' = [f \in FeatureSets |-> 0]
    /\ NewProcess

\* On the disk that the last one left.
Restart ==
    /\ UNCHANGED <<diskVars, finished>>
    /\ NewProcess

-----------------------------------------------------------------------------

RetrainStep == TrainNext \/ TrainStep \/ Swap \/ Register \/ GiveUp

Next ==
    \/ Bootstrap
    \/ NoBootstrap
    \/ BootstrapStep
    \/ LoadLegacy
    \/ LoadModern
    \/ \E rows \in BatchSizes : CycleTail(rows)
    \/ RetrainStep
    \/ TrainFault
    \/ Redeploy
    \/ Restart

\* A thread's writes return or raise, training ends and the loop resumes a task
\* whose await is over.  Register assumes that HANA answers or fails: a connection
\* of the pool has no time-out of its own.
Spec ==
    /\ Init
    /\ [][Next]_lifecycleVars
    /\ WF_lifecycleVars(RetrainStep)
    /\ WF_lifecycleVars(LoadModern)

-----------------------------------------------------------------------------
(* Properties.                                                             *)

\* Types of the composed state.
LifecycleTypeOK ==
    /\ RetrainTypeOK
    /\ RegistryTypeOK
    /\ cycle \in {"no", "legacy loaded", "predicted"}
    /\ splits \subseteq FeatureSets
    /\ frames \in Seq(BatchSizes)
    /\ served \in BOOLEAN
    /\ {fresh, finished} \subseteq [FeatureSets -> 0 .. MaxTags]

\* The trimming loop, run once per cycle, keeps the longest run of newest batches
\* that fits the cap (the newest alone when it does not fit), whatever the sizes
\* and the frames dropped in earlier cycles.
BufferIsLongestSuffix ==
    LET n == Len(frames)
        Rows(i) == SumFunction(SubSeq(frames, i, n))
    IN  n > 0 =>
        \E i \in 1 .. n :
            /\ buffer = SubSeq(frames, i, n)
            /\ i < n => Rows(i) <= RETRAIN_LOG_BUFFER_MAX_ROWS
            /\ i > 1 => Rows(i - 1) > RETRAIN_LOG_BUFFER_MAX_ROWS

\* Once a cycle of the process has had its pair of models, every slot keeps its
\* model or finds one, whatever saves are under way, raised half-way, died with an
\* earlier process or left a version without its manifest.  The one exception is a
\* feature set without a pointer while latest.txt is empty: between the two steps
\* of writing it, or for good when the second one failed.
ModelsStayServed ==
    served => \A f \in FeatureSets :
                 \/ active[f] # NoModel
                 \/ LoadForFeatureSet(f) # NoModel
                 \/ pointer["latest"] = Empty /\ pointer[f] \in {Absent, Empty}

\* After a finished retrain no cycle predicts with a model that it replaced, also
\* when a cycle loaded one of the two slots while the thread was saving.
RetrainedModelsAreUsed ==
    \A f \in FeatureSets : active[f] # NoModel => active[f] >= finished[f]

\* A retrain that was started ends, so the flag never blocks later ones for good:
\* as long as HANA answers or fails, which no time-out of the pool enforces.
RetrainEnds == retraining ~> ~retraining
=============================================================================
