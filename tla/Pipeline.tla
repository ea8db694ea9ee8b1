------------------------------ MODULE Pipeline ------------------------------
(***************************************************************************)
(* src/pipeline.py: Pipeline.run_once, one cycle of OBSERVE, ANALYZE,      *)
(* DETECT and RESPOND, called again and again.  It composes                *)
(*   LogFetcher     fetch_all_logs and reset_window_start,                 *)
(*   AlertDelivery  send_alert with its dedup cache,                       *)
(*   Retrain        the tail of the cycle and the _retrain task,           *)
(* with the two HANA tables the cycle writes, SECURITY_LOGS and ANOMALIES, *)
(* through the repositories of src/storage/repositories.py.                *)
(*                                                                         *)
(* Only the process can fail or restart between any two awaits; the server *)
(* may roll its window, and time may pass, at any point.  `faults` counts  *)
(* what goes wrong in the environment, restarts included, up to MaxFaults. *)
(***************************************************************************)
EXTENDS LogFetcher, AlertDelivery, Retrain

CONSTANTS
    HighKeys,       \* the keys whose threat level is "high"
    MaxFaults       \* bound: faults of network, HANA, disk and model, and restarts

ASSUME PipelineAssumption ==
    /\ HighKeys \subseteq Keys
    /\ MaxFaults \in Nat

VARIABLES
    ppc,            \* where run_once is
    todo,           \* anomalies of the batch not yet responded to
    detectedAt,     \* detected_at of the batch's anomalies
    webhookSent,    \* anomaly_dict["webhook_sent"]
    logs,           \* SECURITY_LOGS
    anomalies,      \* ANOMALIES: [id |-> ALERT_ID, sent |-> WEBHOOK_SENT]
    dropped,        \* history: rows that insert_logs skipped or HANA rejected
    found,          \* history: the ALERT_IDs predict found in this cycle
    faults

cycleVars == <<ppc, todo, detectedAt, webhookSent, found>>
tableVars == <<logs, anomalies, dropped>>
pipelineVars == <<fetchVars, alertVars, retrainVars, cycleVars, tableVars, faults>>

\* build_alert_id hashes detector, entity, level and the minute of detected_at.
AlertIds == Keys \X Time
Recorded == {a.id : a \in anomalies}

PipelineInit ==
    /\ FetchInit
    /\ AlertInit
    /\ RetrainInit
    /\ ppc = "idle"
    /\ todo = {}
    /\ detectedAt = 0
    /\ webhookSent = FALSE
    /\ found = {}
    /\ logs = {}
    /\ anomalies = {}
    /\ dropped = {}
    /\ faults = 0

Fault ==
    /\ faults < MaxFaults
    /\ faults' = faults + 1

\* run_once returns or raises: its locals are gone.
Leave ==
    /\ ppc' = "idle"
    /\ todo' = {}
    /\ detectedAt' = 0
    /\ webhookSent' = FALSE

\* Mutant: the exception leaves run_once without reset_window_start.
FailCycleAcknowledged ==
    /\ UNCHANGED fetchVars
    /\ Leave
    /\ UNCHANGED <<retrainVars, found>>

\* except Exception: reset_window_start(); raise
FailCycle ==
    /\ ResetWindowStart
    /\ Leave
    /\ UNCHANGED <<retrainVars, found>>

-----------------------------------------------------------------------------
(* OBSERVE: outside the try block.                                         *)

Observe ==
    /\ ppc = "idle"
    /\ FetchAllLogs
    /\ ppc' = "fetching"
    /\ found' = {}
    /\ UNCHANGED <<alertVars, retrainVars, tableVars, faults,
                   todo, detectedAt, webhookSent>>

Fetching ==
    /\ ppc = "fetching"
    /\ FetchStep
    /\ UNCHANGED <<alertVars, retrainVars, cycleVars, tableVars, faults>>

FetchingFault ==
    /\ ppc = "fetching"
    /\ FetchFault
    /\ Fault
    /\ UNCHANGED <<alertVars, retrainVars, cycleVars, tableVars>>

\* An empty frame ends the cycle with "no_data", an exception leaves run_once;
\* neither touches the acknowledged window.  Rows go on to insert_logs.
Fetched ==
    /\ ppc = "fetching"
    /\ TakeResult
    /\ ppc' = IF collected = {} THEN "idle" ELSE "insert"
    /\ UNCHANGED <<alertVars, retrainVars, tableVars, faults,
                   todo, detectedAt, webhookSent, found>>

-----------------------------------------------------------------------------
(* LogRepository.insert_logs.                                              *)

\* Rows without a source_ip are skipped; HANA stores the others, finds them
\* duplicate by LOG_ID, or rejects them one by one.  Not all may be rejected.
InsertLogs(skipped, rejected) ==
    /\ ppc = "insert"
    /\ skipped \cap rejected = {}
    /\ rejected \cap logs = {}
    /\ collected \ skipped = {} \/ collected \ skipped # rejected
    /\ logs' = logs \cup (collected \ (skipped \cup rejected))
    /\ dropped' = dropped \cup skipped \cup rejected
    /\ ppc' = "detect"
    /\ UNCHANGED <<fetchVars, alertVars, retrainVars, faults, anomalies,
                   todo, detectedAt, webhookSent, found>>

\* A structural error, no connection, a failed commit or every row rejected: the
\* call raises, with some of the rows stored or none.
InsertLogsFailed(stored) ==
    /\ ppc = "insert"
    /\ logs' = logs \cup stored
    /\ FailCycle
    /\ Fault
    /\ UNCHANGED <<alertVars, anomalies, dropped>>

-----------------------------------------------------------------------------
(* ANALYZE and DETECT.                                                     *)

\* extract_features is empty: the cycle ends, without its tail.
NoFeatures ==
    /\ ppc = "detect"
    /\ Leave
    /\ UNCHANGED <<fetchVars, alertVars, retrainVars, tableVars, faults, found>>

\* The two detectors find the anomalies `keys`; a failing LLM detector only
\* finds none.
Predict(keys) ==
    /\ ppc = "detect"
    /\ todo' = keys
    /\ detectedAt' = now
    /\ found' = keys \X {now}
    /\ ppc' = "respond"
    /\ UNCHANGED <<fetchVars, alertVars, retrainVars, tableVars, faults,
                   webhookSent>>

\* No trained model, or the SAP detector raises.
PredictFailed ==
    /\ ppc = "detect"
    /\ FailCycle
    /\ Fault
    /\ UNCHANGED <<alertVars, tableVars>>

-----------------------------------------------------------------------------
(* RESPOND: for every anomaly report, alert, record.                       *)

\* The report is written, then send_alert runs to its first await.
Respond(k) ==
    /\ ppc = "respond"
    /\ k \in todo
    /\ todo' = todo \ {k}
    /\ SendAlert(k)
    /\ ppc' = "send"
    /\ UNCHANGED <<fetchVars, retrainVars, tableVars, faults,
                   detectedAt, webhookSent, found>>

\* write_report cannot write.
ReportFailed ==
    /\ ppc = "respond"
    /\ todo \cap HighKeys # {}
    /\ FailCycle
    /\ Fault
    /\ UNCHANGED <<alertVars, tableVars>>

Sending ==
    /\ ppc = "send"
    /\ PostAnswered
    /\ UNCHANGED <<fetchVars, retrainVars, cycleVars, tableVars, faults>>

SendingFault ==
    /\ ppc = "send"
    /\ AlertFault
    /\ Fault
    /\ UNCHANGED <<fetchVars, retrainVars, cycleVars, tableVars>>

\* Mutant: webhook_sent = sent
SentOrSuppressed ==
    /\ ppc = "send"
    /\ result # "raised"
    /\ TakeAlertResult
    /\ webhookSent' = (result \in {"sent", "suppressed"})
    /\ ppc' = "record"
    /\ UNCHANGED <<fetchVars, retrainVars, tableVars, faults,
                   todo, detectedAt, found>>

\* webhook_sent = sent and not suppressed
Sent ==
    /\ ppc = "send"
    /\ result # "raised"
    /\ TakeAlertResult
    /\ webhookSent' = (result = "sent")
    /\ ppc' = "record"
    /\ UNCHANGED <<fetchVars, retrainVars, tableVars, faults,
                   todo, detectedAt, found>>

SendRaised ==
    /\ ppc = "send"
    /\ result = "raised"
    /\ TakeAlertResult
    /\ FailCycle
    /\ UNCHANGED <<tableVars, faults>>

\* Mutant: an upsert: the second row with the ALERT_ID replaces the first.
UpsertRow(a) == anomalies' = {b \in anomalies : b.id # a.id} \cup {a}

\* INSERT INTO ANOMALIES: a second row with the ALERT_ID is a silent no-op.
InsertRow(a) ==
    anomalies' = IF a.id \in Recorded THEN anomalies ELSE anomalies \cup {a}

CurrentRow == [id |-> <<key, detectedAt>>, sent |-> webhookSent]

InsertAnomaly ==
    /\ ppc = "record"
    /\ InsertRow(CurrentRow)
    /\ ppc' = "respond"
    /\ UNCHANGED <<fetchVars, alertVars, retrainVars, faults, logs, dropped,
                   todo, detectedAt, webhookSent, found>>

\* Mutant: insert_anomaly logs what HANA raises and the cycle goes on.
InsertAnomalyLogged ==
    /\ ppc = "record"
    /\ InsertRow(CurrentRow) \/ UNCHANGED anomalies
    /\ ppc' = "respond"
    /\ Fault
    /\ UNCHANGED <<fetchVars, alertVars, retrainVars, logs, dropped,
                   todo, detectedAt, webhookSent, found>>

\* HANA raises, before the row was committed or after.
InsertAnomalyFailed ==
    /\ ppc = "record"
    /\ InsertRow(CurrentRow) \/ UNCHANGED anomalies
    /\ FailCycle
    /\ Fault
    /\ UNCHANGED <<alertVars, logs, dropped>>

\* Every anomaly is responded to: the tail of the cycle.
Done ==
    /\ ppc = "respond"
    /\ todo = {}
    /\ EndCycle(Cardinality(collected))
    /\ Leave
    /\ UNCHANGED <<fetchVars, alertVars, tableVars, faults, found>>

-----------------------------------------------------------------------------
(* What happens beside the cycle.                                          *)

WindowRolls ==
    Roll /\ UNCHANGED <<alertVars, retrainVars, cycleVars, tableVars, faults>>

TimePasses ==
    Tick /\ UNCHANGED <<fetchVars, retrainVars, cycleVars, tableVars, faults>>

RetrainRuns ==
    /\ RetrainTaskStep
    /\ UNCHANGED <<fetchVars, alertVars, cycleVars, tableVars, faults>>

\* The platform restarts the process between two awaits: HANA keeps its tables,
\* and everything the process held in memory is gone.
Restart ==
    /\ Fault
    /\ FetchRestart
    /\ AlertRestart
    /\ RetrainRestart
    /\ Leave
    /\ found' = {}
    /\ UNCHANGED tableVars

-----------------------------------------------------------------------------

\* The cycle when nothing goes wrong.
CycleStep ==
    \/ Observe
    \/ Fetching
    \/ Fetched
    \/ \E skipped, rejected \in SUBSET collected : InsertLogs(skipped, rejected)
    \/ NoFeatures
    \/ \E keys \in SUBSET Keys : Predict(keys)
    \/ \E k \in Keys : Respond(k)
    \/ Sending
    \/ Sent
    \/ SendRaised
    \/ InsertAnomaly
    \/ Done

CycleFault ==
    \/ FetchingFault
    \/ \E stored \in SUBSET collected : InsertLogsFailed(stored)
    \/ PredictFailed
    \/ ReportFailed
    \/ SendingFault
    \/ InsertAnomalyFailed

PipelineNext ==
    \/ CycleStep
    \/ CycleFault
    \/ WindowRolls
    \/ TimePasses
    \/ RetrainRuns
    \/ Restart

PipelineSpec == PipelineInit /\ [][PipelineNext]_pipelineVars

\* run_forever calls run_once again after every cycle and awaits every call it
\* makes; each of them ends in an answer, an error or a time-out.  The faults are
\* not fair: they may but need not happen.
FairPipelineSpec == PipelineSpec /\ WF_pipelineVars(CycleStep)

-----------------------------------------------------------------------------
(* Properties.                                                             *)

\* Types of the composed state.
PipelineTypeOK ==
    /\ FetchTypeOK
    /\ AlertTypeOK
    /\ RetrainTypeOK
    /\ ppc \in {"idle", "fetching", "insert", "detect", "respond", "send", "record"}
    /\ todo \subseteq Keys
    /\ detectedAt \in Time
    /\ webhookSent \in BOOLEAN
    /\ logs \subseteq Rows
    /\ anomalies \subseteq [id : AlertIds, sent : BOOLEAN]
    /\ dropped \subseteq Rows
    /\ found \subseteq AlertIds
    /\ faults \in 0 .. MaxFaults

\* Between cycles, an acknowledged window means that every row of the frame just
\* processed is in SECURITY_LOGS or was refused there on its own account, whatever
\* failed on the way: a cycle that could not store its rows left the window open.
AcknowledgedRowsAreStored ==
    ppc = "idle" /\ lastWindow # NoWindow => collected \subseteq logs \cup dropped

\* Between cycles, an acknowledged window means that every anomaly found in the
\* frame just processed has its row in ANOMALIES: a cycle interrupted after some
\* of its anomalies left the window open.
AcknowledgedAnomaliesAreRecorded ==
    ppc = "idle" /\ lastWindow # NoWindow => found \subseteq Recorded

\* A row with WEBHOOK_SENT was really accepted by the SAP endpoint, by a firing no
\* earlier than the detection, however many attempts, cycles, duplicate ALERT_IDs
\* and restarts there were.
RecordedSentWasAccepted ==
    \A a \in anomalies :
        a.sent => \E t \in Time : t >= a.id[2] /\ <<a.id[1], t>> \in accepted

\* Once faults, restarts and rolls stop, the pipeline ends up with the current
\* window acknowledged and stays there: no failure leaves it behind for good.
EventuallyCaughtUp == <>[](lastWindow = apiWindow)

\* The pipeline implements WindowLedger: a settled window is one its last cycle
\* left behind complete, and the tables only ever grow, while it is not settled.
Ledger == INSTANCE WindowLedger WITH
            window <- IF ppc = "idle" THEN lastWindow ELSE NoWindow,
            shown <- collected,
            alertIds <- found,
            stored <- logs,
            refused <- dropped,
            recorded <- anomalies

KeepsLedger == Ledger!LedgerSpec

\* semantic_model.yaml: WEBHOOK_SENT is true after the webhook accepted the
\* payload.  So when the webhook answered 2xx for an anomaly's alert, and a cycle
\* that found the anomaly has completed, a row of it says so.
AnsweredAlertHasSentRow ==
    ppc = "idle" /\ lastWindow # NoWindow =>
    \A f \in answered :
        (\E id \in found : id[1] = f[1] /\ id[2] >= f[2])
        => \E a \in anomalies : a.id[1] = f[1] /\ a.sent
=============================================================================
