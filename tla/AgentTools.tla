----------------------------- MODULE AgentTools -----------------------------
(***************************************************************************)
(* The tools of the conversational agent as functions of the database:     *)
(* src/agent/tools.py, src/agent/helpers.py, src/agent/truncation.py and   *)
(* src/api/agent_routes.py.                                                *)
(*                                                                         *)
(* A database is a record of three sequences of rows.  A row has a column  *)
(* per dimension and per metric and its times in minutes.  A query is      *)
(* what run_custom_query finds out about its text, with the rows it would  *)
(* return; a text is its length.  An answer is a record; one with a field  *)
(* error is an error.                                                      *)
(***************************************************************************)
EXTENDS Repositories

CONSTANTS
    CUSTOM_QUERY_ROW_CAP,
    LIST_CAP,
    STRING_CAP,
    STRING_HEAD,
    STRING_TAIL,
    COMPACT_THRESHOLD_BYTES,
    ALERT_MAX_CHARS

ASSUME AgentToolsAssumption ==
    /\ {CUSTOM_QUERY_ROW_CAP, LIST_CAP, STRING_CAP, STRING_HEAD, STRING_TAIL,
        COMPACT_THRESHOLD_BYTES, ALERT_MAX_CHARS} \subseteq Nat
    /\ STRING_HEAD + STRING_TAIL <= STRING_CAP

METRIC_TABLE ==
    [anomaly_count |-> "ANOMALIES", high_severity_count |-> "ANOMALIES",
     mttd_p50 |-> "ANOMALIES", mttd_p95 |-> "ANOMALIES",
     log_volume |-> "SECURITY_LOGS", login_failure_count |-> "SECURITY_LOGS",
     llm_token_total |-> "SECURITY_LOGS", llm_cost_total |-> "SECURITY_LOGS"]
DIMENSION_TABLE ==
    [source_ip |-> "BOTH", sap_application |-> "SECURITY_LOGS", region_code |-> "SECURITY_LOGS",
     macro_region |-> "SECURITY_LOGS", log_type |-> "SECURITY_LOGS",
     http_method |-> "SECURITY_LOGS", threat_level |-> "ANOMALIES",
     llm_prompt_category |-> "BOTH", sap_source_type |-> "SECURITY_LOGS"]
TIME_COLUMN == [SECURITY_LOGS |-> "datetime", ANOMALIES |-> "detected_at"]
ORDER_COLUMN == [SECURITY_LOGS |-> "ingested_at", ANOMALIES |-> "detected_at",
                 MODEL_VERSIONS |-> "trained_at"]
VALID_BUCKETS == {1, 5, 15, 30, 60, 240, 1440}
KNOWN_TABLES == {"SECURITY_LOGS", "ANOMALIES", "MODEL_VERSIONS"}

Error(why) == [error |-> why]
Clamp(n, low, high) == Max({low, Min({n, high})})

-----------------------------------------------------------------------------
(* Analytical helpers.                                                     *)

\* SUM and PERCENTILE_CONT over no value are NULL; COUNT is not.
SumOf(rows, column) ==
    LET clean == Where(rows, LAMBDA r : r[column] # NoValue)
    IN  IF clean = << >> THEN NoValue ELSE Total([i \in DOMAIN clean |-> clean[i][column]])

PercentileOf(rows, column, p) ==
    LET clean == Where(rows, LAMBDA r : r[column] # NoValue)
    IN  IF clean = << >> THEN NoValue
        ELSE Percentile(Sorted([i \in DOMAIN clean |-> clean[i][column]]), p)

\* SUM(CASE WHEN P THEN 1 ELSE 0 END)
CountOrNull(rows, chosen) == IF rows = << >> THEN NoValue ELSE Len(chosen)

LoginFailed(r) ==
    r.log_type = "AUTH" /\ r.status \in {"failed", "failure", "denied", "error"}

\* The expression of a metric over the rows of a group.
MetricValue(metric, rows) ==
    CASE metric \in {"anomaly_count", "log_volume"} -> Len(rows)
      [] metric = "high_severity_count" ->
            CountOrNull(rows, Where(rows, LAMBDA r : r.threat_level = "high"))
      [] metric = "login_failure_count" -> CountOrNull(rows, Where(rows, LoginFailed))
      [] metric = "mttd_p50" -> PercentileOf(rows, "pipeline_mttd_ms", 50)
      [] metric = "mttd_p95" -> PercentileOf(rows, "pipeline_mttd_ms", 95)
      [] metric = "llm_token_total" -> SumOf(rows, "llm_total_tokens")
      [] metric = "llm_cost_total" -> SumOf(rows, "llm_cost_usd")

ValidHours(hours) == hours \in 1 .. 720
ValidTopN(n) == n \in 1 .. 50
ValidDimension(dimension, table) ==
    /\ dimension \in DOMAIN DIMENSION_TABLE
    /\ DIMENSION_TABLE[dimension] \in {"BOTH", table}

\* The rows of a table that are later than `hours` ago.
Later(db, table, now, hours) ==
    LET column == TIME_COLUMN[table]
    IN  Where(db[table], LAMBDA r : r[column] # NoValue /\ r[column] > now - 60 * hours)

\* Mutant: the prior window ends now as well.
PriorToNow(db, table, now, a, b) == Later(db, table, now, a + b)

\* Those of the b hours that end a hours ago.
Prior(db, table, now, a, b) ==
    Where(Later(db, table, now, a + b),
          LAMBDA r : r[TIME_COLUMN[table]] <= now - 60 * a)

\* One answer row per group, the rows i with one key[i], by descending value, NULL last.
Groups(rows, key, metric) ==
    LET At(k) == Where([i \in DOMAIN rows |-> i], LAMBDA i : key[i] = k)
        Of(k) == [j \in DOMAIN At(k) |-> rows[At(k)[j]]]
        Answer(k) == [key |-> k, value |-> MetricValue(metric, Of(k))]
        keys == SetToSeq(Range(key))
    IN  SortedBy([i \in DOMAIN keys |-> Answer(keys[i])], LAMBDA x, y :
            x.value # NoValue /\ (y.value = NoValue \/ x.value > y.value))

BreakdownBy(db, now, metric, dimension, hours, topN) ==
    IF /\ metric \in DOMAIN METRIC_TABLE /\ ValidDimension(dimension, METRIC_TABLE[metric])
       /\ ValidHours(hours) /\ ValidTopN(topN)
    THEN LET rows == Later(db, METRIC_TABLE[metric], now, hours)
         IN  [rows |-> FirstOf(Groups(rows, [i \in DOMAIN rows |-> rows[i][dimension]], metric),
                              topN)]
    ELSE Error("validation")

\* _scalar(...) or 0
OrZero(value) == IF value = NoValue THEN 0 ELSE value

\* Each window is a query with a clock of its own: the prior one is asked at `then`,
\* after the recent one at `now`, and both are answered (after a failed query the error
\* of the first to fail is returned).  delta_pct is a fraction, NULL over a prior 0.
CompareWindows(db, now, then, metric, a, b) ==
    IF metric \in DOMAIN METRIC_TABLE /\ ValidHours(a) /\ ValidHours(b)
    THEN LET table == METRIC_TABLE[metric]
             va == OrZero(MetricValue(metric, Later(db, table, now, a)))
             vb == OrZero(MetricValue(metric, Prior(db, table, then, a, b)))
         IN  [window_a |-> va, window_b |-> vb, delta_abs |-> va - vb,
              delta_pct |-> IF vb = 0 THEN NoValue ELSE <<va - vb, vb>>]
    ELSE Error("validation")

TimeSeries(db, now, metric, hours, bucket) ==
    IF metric \in DOMAIN METRIC_TABLE /\ ValidHours(hours) /\ bucket \in VALID_BUCKETS
    THEN LET rows == Later(db, METRIC_TABLE[metric], now, hours)
             time == TIME_COLUMN[METRIC_TABLE[metric]]
             groups == Groups(rows, [i \in DOMAIN rows |-> (rows[i][time] \div bucket) * bucket],
                              metric)
         IN  [rows |-> SortedBy(groups, LAMBDA x, y : x.key < y.key)]
    ELSE Error("validation")

Correlate(db, now, dimA, dimB, hours, topN) ==
    IF /\ ValidDimension(dimA, "SECURITY_LOGS") /\ ValidDimension(dimB, "SECURITY_LOGS")
       /\ ValidHours(hours) /\ ValidTopN(topN) /\ dimA # dimB
    THEN LET rows == Later(db, "SECURITY_LOGS", now, hours)
             pairs == [i \in DOMAIN rows |-> <<rows[i][dimA], rows[i][dimB]>>]
         IN  [rows |-> FirstOf(Groups(rows, pairs, "log_volume"), topN)]
    ELSE Error("validation")

-----------------------------------------------------------------------------
(* Queries of an analyst.                                                  *)

\* _validate_query_scope
InScope(query) ==
    ~query.qualified /\ query.tables \subseteq KNOWN_TABLES \cup query.ctes

\* run_custom_query: a query that is sent has its own trailing LIMIT replaced by one
\* row more than the cap, which is how truncation is noticed.
RunCustomQuery(query, countTotal) ==
    LET fetched == FirstOf(query.result, CUSTOM_QUERY_ROW_CAP + 1)
    IN  CASE query.statements = 0 -> Error("empty_query")
          [] query.statements > 1 -> Error("multi-statement queries are not allowed")
          [] query.statements = 1 /\ query.verb \notin {"select", "with"} ->
                Error("only SELECT statements are allowed")
          [] query.statements = 1 /\ query.verb \in {"select", "with"} /\ query.forbidden ->
                Error("forbidden keyword")
          [] query.statements = 1 /\ query.verb \in {"select", "with"} /\ ~query.forbidden ->
                IF ~InScope(query) THEN Error("table is not allowed")
                ELSE IF query.hana # "ok" THEN Error(query.hana)
                ELSE IF countTotal THEN [total |-> Len(query.result)]
                ELSE [rows |-> FirstOf(fetched, CUSTOM_QUERY_ROW_CAP),
                      truncated |-> Len(fetched) > CUSTOM_QUERY_ROW_CAP]

-----------------------------------------------------------------------------
(* The other tools and their dispatch.                                     *)

\* _coerce_hours: what is no number (NoValue) is a day.
CoerceHours(hours) == IF hours = NoValue THEN 24 ELSE Clamp(hours, 1, 720)

GetAnomalyCount(anomalies, now, hours) ==
    [count |-> CountAnomaliesSince(anomalies, now, CoerceHours(hours)),
     since |-> now - 60 * CoerceHours(hours)]

GetTopSuspiciousIps(anomalies, now, limit, hours) ==
    [rows |-> TopSourceIps(anomalies, now, CoerceHours(hours), Clamp(limit, 1, 50))]

\* hours NoValue: no filter on time.
GetRecentAnomalies(anomalies, now, limit, threat, hours, mock) ==
    [rows |-> QueryAnomalies(anomalies, now, Clamp(limit, 1, 50), threat,
                  IF hours = NoValue THEN NoValue ELSE CoerceHours(hours), mock)]

GetMttdStats(anomalies, now, hours) == MttdPercentiles(anomalies, now, CoerceHours(hours))

GetLogVolume(logs, now, hours) ==
    [count |-> CountLogsSince(logs, now, CoerceHours(hours)),
     since |-> now - 60 * CoerceHours(hours)]

GetModelInfo(versions) ==
    IF versions = << >> THEN Error("no_model_registered")
    ELSE [version_tag |-> (CHOOSE v \in LatestVersions(versions) : TRUE).version_tag]

\* The newest rows of a table.
SampleTable(db, table, n) ==
    IF table \notin KNOWN_TABLES THEN Error("unknown table")
    ELSE LET column == ORDER_COLUMN[table]
         IN  [rows |-> FirstOf(SortedBy(db[table], LAMBDA x, y : x[column] > y[column]),
                               Clamp(n, 1, 10))]

GetCurrentLogsSample(page, maxRows) == [rows |-> FirstOf(page, Clamp(maxRows, 1, 10))]

\* submit_alert on texts of these lengths: "WHAT:  WHEN:  WHY: " is 19 characters, an
\* empty text gets a default, and the reason is cut to what is left.
SubmitAlert(what, when, why) ==
    LET head == 19 + (IF what = 0 THEN 7 ELSE what) + (IF when = 0 THEN 20 ELSE when)
        reason == IF why = 0 THEN 21 ELSE why
    IN  IF ALERT_MAX_CHARS - head < 1 THEN Error("what_when_too_long")
        ELSE [message_len |-> head + Min({reason, ALERT_MAX_CHARS - head})]

\* post_alert_message, called by the analyst's approval: what the endpoint says counts
\* only for a message that fits.
PostAlertMessage(length, accepted) ==
    IF length = 0 THEN [ok |-> FALSE, status |-> "empty"]
    ELSE IF length > ALERT_MAX_CHARS THEN [ok |-> FALSE, status |-> "too_long"]
    ELSE [ok |-> accepted, status |-> IF accepted THEN "sent" ELSE "failed"]

\* dispatch and its HTTP route: an exception of a tool is an error like any other.
Dispatch(known, raised, result) ==
    LET answer == IF ~known THEN Error("unknown_tool")
                  ELSE IF raised THEN Error("exception") ELSE result
    IN  [ok |-> "error" \notin DOMAIN answer, result |-> answer]

-----------------------------------------------------------------------------
(* Truncation.                                                             *)

\* truncate_for_llm of a text (its length, the marker apart) and of a list of texts.
TruncateString(length) ==
    IF length <= STRING_CAP THEN [kept |-> length, cut |-> 0]
    ELSE [kept |-> STRING_HEAD + STRING_TAIL, cut |-> length - STRING_HEAD - STRING_TAIL]

TruncateForLlm(rows) ==
    [items |-> [i \in DOMAIN FirstOf(rows, LIST_CAP) |-> TruncateString(rows[i])],
     more  |-> Max({0, Len(rows) - LIST_CAP})]

\* summarize_for_event of a result.
SummarizeForEvent(result) ==
    IF "error" \in DOMAIN result THEN result
    ELSE IF "rows" \in DOMAIN result
         THEN [rows |-> Len(result.rows)] @@
              (IF "truncated" \in DOMAIN result THEN [truncated |-> result.truncated] ELSE << >>)
         ELSE result

\* compact_old_observations: a message is a sequence of blocks; a heavy tool result
\* before the last 2 * threshold messages becomes a synopsis, the block stays.
CompactBlock(block) ==
    IF block.type = "tool_result" /\ block.bytes > COMPACT_THRESHOLD_BYTES
    THEN [block EXCEPT !.bytes = 0] ELSE block

CompactOldObservations(messages, threshold) ==
    [i \in DOMAIN messages |->
        IF threshold <= 0 \/ i > Len(messages) - 2 * threshold THEN messages[i]
        ELSE [j \in DOMAIN messages[i] |-> CompactBlock(messages[i][j])]]

-----------------------------------------------------------------------------
(* Properties.                                                             *)

\* Tools that answer the same question agree: over the last hours, the values of a
\* breakdown by any dimension and those of a time series in any bucket add up to what
\* compare_windows says of the recent window, for every metric that adds up.  Its two
\* windows of one length leave no row between them however long after the first query
\* the second one runs, and have none in common when both run at once.
ToolsAgree(db, now, spans, buckets, dimensions) ==
    LET Sum(answer) == Total([i \in DOMAIN answer.rows |-> OrZero(answer.rows[i].value)])
        WindowA(metric, t, h) == CompareWindows(db, t, t, metric, h, 1).window_a
    IN  \A metric \in DOMAIN METRIC_TABLE \ {"mttd_p50", "mttd_p95"} : \A h \in spans :
            /\ \A bucket \in buckets :
                  Sum(TimeSeries(db, now, metric, h, bucket)) = WindowA(metric, now, h)
            /\ \A d \in dimensions :
                  LET answer == BreakdownBy(db, now, metric, d, h, 50)
                  IN  "rows" \in DOMAIN answer => Sum(answer) = WindowA(metric, now, h)
            /\ \A then \in {now, now + 1} :
                  LET c == CompareWindows(db, now, then, metric, h, h)
                      both == c.window_a + c.window_b
                  IN  /\ both >= WindowA(metric, then, 2 * h)
                      /\ then = now => both = WindowA(metric, now, 2 * h)

\* helpers.py:149-150, "``window_b_h`` is the *prior* window of the same length, ending
\* where window_a started": what is compared with the last hours is as many before them.
ComparesEqualWindows(db, now, spans) ==
    \A metric \in DOMAIN METRIC_TABLE : \A a, b \in spans :
        CompareWindows(db, now, now, metric, a, b).window_b
            = CompareWindows(db, now, now, metric, a, a).window_b

\* What the model is told of a query is so: either all its rows and no truncation, or
\* the first of them up to the cap and truncation; and a list the query tool has cut is
\* not cut again on its way to the model.
TruncationIsTold(query) ==
    LET answer == RunCustomQuery(query, FALSE)
    IN  "rows" \in DOMAIN answer =>
            /\ answer.truncated <=> answer.rows # query.result
            /\ answer.rows = FirstOf(query.result, Len(answer.rows))
            /\ Len(answer.rows) <= LIST_CAP

\* Compaction keeps every block of every message, so a call keeps its result; it leaves
\* the last rounds alone, and doing it again changes nothing.
CompactionKeepsBlocks(messages, threshold) ==
    LET once == CompactOldObservations(messages, threshold)
    IN  /\ \A i \in DOMAIN messages : \A j \in DOMAIN messages[i] :
               [once[i][j] EXCEPT !.bytes = 0] = [messages[i][j] EXCEPT !.bytes = 0]
        /\ LastOf(once, 2 * threshold) = LastOf(messages, 2 * threshold)
        /\ CompactOldObservations(once, threshold) = once
=============================================================================
