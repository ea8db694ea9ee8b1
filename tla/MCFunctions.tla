---------------------------- MODULE MCFunctions ----------------------------
(***************************************************************************)
(* The modules without a state of their own, over every input up to a      *)
(* bound: an input grows element by element, of the kind its area takes,   *)
(* and every prefix is checked.                                            *)
(***************************************************************************)
EXTENDS SapDetector, LlmDetector, AgentTools, LogParser, Metrics, AlertText

CONSTANTS MaxInput, MaxBatches      \* bounds on the length of an input

VARIABLES area, input
vars == <<area, input>>

-----------------------------------------------------------------------------
(* Elements.                                                               *)

\* Rows of two addresses in two windows, and the three kinds that are left out.
LogRow(ip, time, status) ==
    [log_type |-> "WEB", source_ip |-> ip, status |-> status, number |-> 200,
     datetime |-> time, markers |-> IF status = "DENIED" THEN {"sql", "POST"} ELSE {},
     port_service |-> ip, sap_application |-> NoValue, region_code |-> NoValue,
     http_method |-> "GET"]
LogRows ==
    {LogRow("a", 1, "OK"), LogRow("a", 12, "DENIED"), LogRow("b", 3, "OK"),
     LogRow("b", 14, "DENIED"), LogRow("c", NoValue, "OK"), LogRow("", 2, "OK"),
     [LogRow("a", 4, "OK") EXCEPT !.log_type = "LLM_ERROR"]}

\* A batch: minutes since the last one, and how many rows of a beside one of b.
BatchRows(n) == [i \in 1 .. n |-> LogRow("a", 0, "OK")]
                    \o (IF n = 0 THEN << >> ELSE <<LogRow("b", 0, "OK")>>)
Batches == [gap : {0, 1, 2}, heavy : {0, 1, 2}]
LastAt(batches) == IF batches = << >> THEN 0 ELSE batches[Len(batches)].at
NextBatch(b) ==
    [at |-> LastAt(input) + b.gap, rows |-> BatchRows(b.heavy),
     ingested_at |-> LastAt(input), min_time |-> NoValue]

\* LLM rows of two models, in a category with a forest of its own and in one without.
LlmRow(category, global, byCategory) ==
    [log_type |-> "LLM_REQUEST", model_id |-> "m", category |-> category,
     status |-> "success", prompt_tokens |-> 10, total_tokens |-> 20, cost |-> 1,
     response_time |-> 1, finish_reason |-> "stop", global |-> global,
     by_category |-> byCategory]
LlmRows ==
    {LlmRow("c", g, b) : g, b \in BOOLEAN} \cup
    {[LlmRow("c", FALSE, TRUE) EXCEPT !.prompt_tokens = 50],
     [LlmRow("c", FALSE, FALSE) EXCEPT !.log_type = "LLM_ERROR", !.status = "error"],
     [LlmRow("c", FALSE, FALSE) EXCEPT !.finish_reason = "content_filter"],
     LlmRow("d", TRUE, TRUE), [LlmRow("c", FALSE, FALSE) EXCEPT !.model_id = "n"],
     [LlmRow("c", TRUE, TRUE) EXCEPT !.model_id = NoValue]}
Corpus ==
    [i \in 1 .. 10 |->
        CASE i = 1 -> [LlmRow("c", FALSE, FALSE) EXCEPT !.log_type = "LLM_ERROR",
                                                        !.status = "error"]
          [] i = 2 -> [LlmRow("c", FALSE, FALSE) EXCEPT !.finish_reason = "content_filter"]
          [] i = 3 -> LlmRow("d", FALSE, FALSE)
          [] i > 3 -> [LlmRow("c", FALSE, FALSE) EXCEPT !.cost = i]]
Bundle == TrainLlmEnsemble(Corpus)

\* Rows to insert.  A frame has NaN for a missing LOG_ID only beside a row that has one:
\* without any it has no such column.
StoreRow(id, ip, type, accepted) ==
    [log_id |-> id, source_ip |-> ip, log_type |-> type, accepted |-> accepted]
StoreRows ==
    {StoreRow("x", "a", "WEB", TRUE), StoreRow("y", "a", "WEB", TRUE),
     StoreRow("y", "", "LLM_REQUEST", TRUE), StoreRow("", "a", "WEB", TRUE),
     StoreRow("z", "a", "WEB", FALSE), StoreRow("z", NoValue, "WEB", TRUE),
     StoreRow(NoValue, "a", "WEB", TRUE)}
IsFrame(log) ==
    (\E i \in DOMAIN log : log[i].log_id = NoValue) =>
        \E i \in DOMAIN log : log[i].log_id # NoValue

\* Rows of either table, at 0 to 2 hours before Now and at the edges.
Now == 600
ToolRow(time, ip, level) ==
    [datetime |-> time, detected_at |-> time, ingested_at |-> time, source_ip |-> ip,
     threat_level |-> level, log_type |-> "AUTH", status |-> "denied",
     pipeline_mttd_ms |-> 5, llm_total_tokens |-> IF ip = "a" THEN 3 ELSE NoValue,
     llm_cost_usd |-> 1, anomaly_score |-> 0 - 7]
ToolRows ==
    {ToolRow(Now, "a", "high"), ToolRow(Now - 60, "a", "low"), ToolRow(Now - 59, "b", "high"),
     ToolRow(Now - 119, "b", "medium"), ToolRow(Now - 120, NoValue, "high")}
Db == [SECURITY_LOGS |-> input, ANOMALIES |-> input, MODEL_VERSIONS |-> << >>]

-----------------------------------------------------------------------------
Init == area \in {"features", "context", "llm", "logs", "tools"} /\ input = << >>

Add(a, elements) ==
    /\ area = a /\ Len(input) < MaxInput
    /\ \E e \in elements : input' = Append(input, e)
    /\ UNCHANGED area

AddBatch ==
    /\ area = "context" /\ Len(input) < MaxBatches
    /\ \E b \in Batches : input' = Append(input, NextBatch(b))
    /\ UNCHANGED area

AddLogRow == Add("features", LogRows)
AddLlmRow == Add("llm", LlmRows)
AddStoreRow == Add("logs", StoreRows)
AddToolRow == Add("tools", ToolRows)

Next == AddLogRow \/ AddBatch \/ AddLlmRow \/ AddStoreRow \/ AddToolRow
Spec == Init /\ [][Next]_vars

-----------------------------------------------------------------------------
(* Properties.                                                             *)

\* Training sees each window as serving would (features.py), for windows of 10 minutes
\* and of an hour.
TrainingMatchesServing ==
    area = "features" => \A minutes \in {10, 60} : TrainingSeesServing(input, minutes)

\* The score of an address is not what this is about.
AnyScore(split, x) == 0 - 1
Columns == [legacy |-> FEATURE_COLUMNS_LEGACY, modern |-> FEATURE_COLUMNS]
Served == FoldLeft(LAMBDA s, b : Predict(s, b, Columns),
                   [context |-> << >>, out |-> << >>], input)

\* After any batches, predict's multi-bucket counts miss nothing of the current run of
\* elevated batches and hold nothing older than CONTEXT_WINDOW_MINUTES (predict.py).
ContextIsRecent ==
    area = "context" /\ input # << >> => ContextCountsRecent(input, Served.out)

\* A verdict of the LLM detector has grounds and grows with the outliers
\* (llm_predict.py).
LlmVerdictsAreGrounded ==
    area = "llm" => HighHasGrounds(input, Bundle) /\ MoreOutliersNeverCalm(input, Bundle)

\* On the rows that training took for the baselines of a category, no spike rule is
\* raised for every model of the category (llm_train.py, llm_rules.py).
CorpusIsSpared == area = "llm" => CorpusSparesSomeModel(input)

\* insert_logs stores what it acknowledges, but for rows without _id (repositories.py).
AcknowledgedLogsAreStored ==
    area = "logs" /\ IsFrame(input) => AcknowledgedBatchIsStored(input)

\* Tools that answer one question agree (helpers.py).
HelpersAgree ==
    area = "tools" => ToolsAgree(Db, Now, {1, 2}, {30, 60}, {"source_ip", "log_type"})

-----------------------------------------------------------------------------
(* What else is checked of the operators, once, over these inputs.         *)

Names == {"datetime", "timestamp", "time", "http_status_code", "status", "source", "category",
          "log_id", "other"}
ASSUME ColumnNames ==
    \A columns \in UNION {[1 .. n -> Names] : n \in 0 .. 3} :
        IsInjective(columns) => RenamingIsFaithful(columns)

ASSUME Evidence ==
    LET rows == {[source_ip |-> ip, model_id |-> m, category |-> "c", status |-> s] :
                    ip \in {"a", "b"}, m \in {"m", "n"}, s \in {"success", "error"}}
    IN  \A frame \in UNION {[1 .. n -> rows] : n \in 0 .. 2} :
            EvidenceIsItsOwn(frame, "a", "m", "c")

ASSUME Summaries ==
    \A all \in UNION {[1 .. n -> {0 - 1, 0, 4, 9}] : n \in 0 .. MTTD_SAMPLE_WINDOW + 1} :
        SummaryIsOrdered(all)

ASSUME Messages ==
    \A what, when \in {0, 1, 20, 130, 300} : \A why \in {0, 1, 20, 300} :
        /\ MessageFits(what, when, why)
        /\ LET draft == SubmitAlert(what, when, why)
           IN  "message_len" \in DOMAIN draft =>
                   PostAlertMessage(draft.message_len, TRUE).status = "sent"

Query(n) == [statements |-> 1, verb |-> "select", forbidden |-> FALSE, qualified |-> FALSE,
             tables |-> {"ANOMALIES", "cte"}, ctes |-> {"cte"}, hana |-> "ok",
             result |-> [i \in 1 .. n |-> i]]
ASSUME Truncation == \A n \in 0 .. CUSTOM_QUERY_ROW_CAP + 3 : TruncationIsTold(Query(n))

ASSUME Compaction ==
    LET blocks == [type : {"text", "tool_result"}, bytes : {1, COMPACT_THRESHOLD_BYTES + 1}]
    IN  \A n \in 0 .. 4 : \A messages \in [1 .. n -> {<<b>> : b \in blocks}] :
            \A threshold \in 1 .. 2 : CompactionKeepsBlocks(messages, threshold)

\* Migrations that stopped at a failing statement are completed by the next run.
ASSUME Migrations ==
    \A failing \in SUBSET {"t", "u", "v"} : \A there \in SUBSET {"t", "u", "v"} :
        LET first == ApplySchema(there, <<"t", "u", "v">>, failing)
        IN  ApplySchema(first.objects, <<"t", "u", "v">>, {}).objects = {"t", "u", "v"}

\* A dense line of points has its outliers below 0.
ASSUME Outlier ==
    LET model == Fit(<<1, 2, 3, 20>>, 1, 2)
    IN  DecisionFunction(model, 20) < 0 /\ DecisionFunction(model, 2) > 0

ASSUME ZScores == ZScoresAreCentred(Corpus)

-----------------------------------------------------------------------------
(* Where the code does not do what its documentation says: an input each.  *)

\* predict.py:46 and 58-59, "consecutive": elevated, not elevated, elevated counts two.
ASSUME RunsAreAddedUp ==
    LET batches == [i \in 1 .. 3 |->
                       [at |-> i, rows |-> BatchRows(IF i = 2 THEN 1 ELSE 2),
                        ingested_at |-> i, min_time |-> NoValue]]
        served == FoldLeft(LAMBDA s, b : Predict(s, b, Columns),
                           [context |-> << >>, out |-> << >>], batches)
    IN  ~CountsConsecutive(batches, served.out)

\* llm_train.py:21-22, "disagreement ... escalates severity": a cohort with a rule at
\* medium that only the forest of its category finds anomalous stays at medium.
ASSUME DisagreementIsCalm ==
    ~DisagreementRaises(<<[LlmRow("c", FALSE, TRUE) EXCEPT !.prompt_tokens = 50]>>, Bundle)

\* ARCHITECTURE.md:180, "deduplicated by source `_id`": two rows without one are taken
\* for one row, beside a row that has one.
ASSUME NamelessRowsCollide ==
    ~DeduplicatedById(<<StoreRow("y", "a", "WEB", TRUE), StoreRow(NoValue, "a", "WEB", TRUE),
                        StoreRow(NoValue, "b", "WEB", TRUE)>>)

\* helpers.py:149-150 and 161, "equal-length windows": two hours before the last one.
ASSUME WindowsDiffer ==
    LET rows == <<ToolRow(Now - 120, NoValue, "high")>>
    IN  ~ComparesEqualWindows([SECURITY_LOGS |-> rows, ANOMALIES |-> rows,
                               MODEL_VERSIONS |-> << >>], Now, {1, 2})

\* Filtering by level finds rows in memory and none in HANA.
ASSUME LevelFilter ==
    LET rows == <<ToolRow(Now, "a", "high")>>
    IN  /\ GetRecentAnomalies(rows, Now, 5, "HIGH", NoValue, TRUE).rows = rows
        /\ GetRecentAnomalies(rows, Now, 5, "HIGH", NoValue, FALSE).rows = << >>
=============================================================================
