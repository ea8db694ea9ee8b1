----------------------------- MODULE SapDetector -----------------------------
(***************************************************************************)
(* The SAP detector as functions of its data: src/model/features.py and    *)
(* src/model/schema.py (log rows to one feature row per source IP),        *)
(* src/model/predict.py (scored rows, levels, MTTD and the sliding         *)
(* context), src/model/dbscan_detector.py and src/model/evaluate.py.       *)
(*                                                                         *)
(* A log row is a record: its time in minutes or NoValue, its status as a  *)
(* text and the number that text parses to (0: none), the set of markers   *)
(* its description contains.  Numbers are exact: a ratio is its numerator  *)
(* (the denominator is total_requests), a z-score (x - m) / sd over n      *)
(* peers with sum S and sum of squares Q is <<n*x - S, n*Q - S^2>>, which  *)
(* stands for the first divided by the root of the second.  The fitted     *)
(* Isolation Forests stay outside: Score, in thousandths, is an argument.  *)
(***************************************************************************)
EXTENDS Stats, TLC

CONSTANTS
    ANOMALY_SCORE_THRESHOLD,        \* settings, in thousandths
    ALERT_HIGH_THRESHOLD,
    ALERT_MEDIUM_THRESHOLD,
    CONTEXT_WINDOW_MINUTES,
    Score(_, _)     \* decision_function of the loaded model of a split

ASSUME SapAssumption ==
    /\ {ANOMALY_SCORE_THRESHOLD, ALERT_HIGH_THRESHOLD, ALERT_MEDIUM_THRESHOLD} \subseteq Int
    /\ CONTEXT_WINDOW_MINUTES \in Nat

LLM_LOG_TYPES == {"LLM_REQUEST", "LLM_ERROR", "LLM_TIMEOUT"}
TEXT_STATUS_TO_CODE == ("DENIED" :> 401 @@ "BLOCKED" :> 403 @@ "ACCOUNT LOCKED" :> 423
                        @@ "DROPPED" :> 444 @@ "404 NOT FOUND" :> 404)
DENIED_STATUSES == {"DENIED", "BLOCKED", "ACCOUNT LOCKED", "DROPPED"}
DESTRUCTIVE_METHODS == {"DELETE", "PUT", "PATCH"}
FEATURE_COLUMNS_LEGACY ==
    {"total_requests", "errors", "posts", "unique_paths", "status_4xx", "status_5xx",
     "denied", "suspicious_paths", "sql_injection_hits", "port_diversity", "brute_force",
     "interarrival_std", "interarrival_mean", "request_rate_zscore"}
FEATURE_COLUMNS ==
    FEATURE_COLUMNS_LEGACY \cup {"app_diversity", "region_diversity", "destructive"}

-----------------------------------------------------------------------------
(* Features.                                                               *)

\* LLM telemetry and rows without a source IP never become features.
NetworkRows(rows) ==
    Where(rows, LAMBDA r : r.log_type \notin LLM_LOG_TYPES /\ r.source_ip \notin {NoValue, ""})

StatusCode(r) ==
    IF r.status \in DOMAIN TEXT_STATUS_TO_CODE THEN TEXT_STATUS_TO_CODE[r.status]
                                               ELSE r.number

Is4xx(r) == StatusCode(r) \in 400 .. 499
Is5xx(r) == StatusCode(r) >= 500

\* Times between successive rows of a group, in order of time.
Deltas(group) ==
    LET times == Sorted([i \in DOMAIN group |-> group[i].datetime])
    IN  [i \in 1 .. (Len(times) - 1) |-> times[i + 1] - times[i]]

Timed(rows) == Where(rows, LAMBDA r : r.datetime # NoValue)

IpFeatures(group) ==
    LET Count(P(_)) == Quantify(DOMAIN group, LAMBDA i : P(group[i]))
        Distinct(field) == Cardinality({group[i][field] : i \in DOMAIN group} \ {NoValue})
        deltas == Deltas(Timed(group))
    IN  [total_requests      |-> Len(group),
         errors              |-> Count(LAMBDA r : Is4xx(r) \/ Is5xx(r)),
         posts               |-> Count(LAMBDA r : "POST" \in r.markers),
         unique_paths        |-> Distinct("markers"),
         status_4xx          |-> Count(Is4xx),
         status_5xx          |-> Count(Is5xx),
         denied              |-> Count(LAMBDA r : r.status \in DENIED_STATUSES),
         suspicious_paths    |-> Count(LAMBDA r : "path" \in r.markers),
         sql_injection_hits  |-> Count(LAMBDA r : "sql" \in r.markers),
         port_diversity      |-> Distinct("port_service"),
         brute_force         |-> Count(LAMBDA r : "brute" \in r.markers),
         interarrival_std    |-> Spread(deltas),
         interarrival_mean   |-> <<Total(deltas), Len(deltas)>>,
         app_diversity       |-> Distinct("sap_application"),
         region_diversity    |-> Distinct("region_code"),
         destructive         |-> Count(LAMBDA r : r.http_method \in DESTRUCTIVE_METHODS)]

\* _add_global_features: the z-score of a request rate among those of the whole frame, if
\* they differ.
AddGlobalFeatures(features) ==
    LET totals == [k \in DOMAIN features |-> features[k].total_requests]
        Rate(k) == IF Spread(totals) > 0
                   THEN <<Cardinality(DOMAIN totals) * totals[k] - Total(totals), Spread(totals)>>
                   ELSE <<0, 1>>
    IN  [k \in DOMAIN features |-> ("request_rate_zscore" :> Rate(k)) @@ features[k]]

Ips(rows) == {rows[i].source_ip : i \in DOMAIN rows}

\* extract_features: what serving sees, one row per source IP.
ExtractFeatures(log) ==
    LET rows == NetworkRows(log)
        Of(ip) == IpFeatures(Where(rows, LAMBDA r : r.source_ip = ip))
    IN  AddGlobalFeatures([ip \in Ips(rows) |-> Of(ip)])

\* The rows that training takes: those that serving takes, but for rows without a time.
WindowedRows(log) ==
    Where(log, LAMBDA r : /\ r.log_type \notin LLM_LOG_TYPES
                          /\ r.source_ip \notin {NoValue, ""}
                          /\ r.datetime # NoValue)

WindowOf(r, minutes) == (r.datetime \div minutes) * minutes

Grouped(rows, minutes) ==
    [g \in {<<WindowOf(rows[i], minutes), rows[i].source_ip>> : i \in DOMAIN rows} |->
        IpFeatures(Where(rows, LAMBDA r : <<WindowOf(r, minutes), r.source_ip>> = g))]

\* _zscore of the request rate of each row among its peers, with a rule of its own for
\* rates that are all the same.
WithZScores(features, peers) ==
    [k \in DOMAIN features |->
        ("request_rate_zscore" :>
            ZScore([p \in peers[k] |-> features[p].total_requests],
                   features[k].total_requests)) @@ features[k]]

\* Mutant: the peers of a row are all rows, of whatever window.
ExtractOverAll(log, minutes) ==
    LET features == Grouped(WindowedRows(log), minutes)
    IN  WithZScores(features, [g \in DOMAIN features |-> DOMAIN features])

\* extract_features_windowed: what training sees, one row per window and IP; the
\* peers of a row are the rows of its window.
ExtractFeaturesWindowed(log, minutes) ==
    LET features == Grouped(WindowedRows(log), minutes)
    IN  WithZScores(features, [g \in DOMAIN features |->
                                  {p \in DOMAIN features : p[1] = g[1]}])

\* feature_matrix: the columns of the model, 0 where a row lacks one.
FeatureMatrix(feature, columns) ==
    [c \in columns |-> IF c \in DOMAIN feature THEN feature[c] ELSE 0]

-----------------------------------------------------------------------------
(* Prediction.                                                             *)

\* Post-expansion rows go to the modern model.
ModernMask(feature) == feature.app_diversity > 0 \/ feature.region_diversity > 0

AssignThreatLevel(score) ==
    IF score < ALERT_HIGH_THRESHOLD THEN "high"
    ELSE IF score < ALERT_MEDIUM_THRESHOLD THEN "medium" ELSE "low"

ElapsedMinutes(start, end) == IF end > start THEN end - start ELSE 0

\* Mutant: only one old entry is dropped per call.
PrunedOnce(context, cutoff) ==
    IF context # << >> /\ Head(context).at < cutoff THEN Tail(context) ELSE context

\* The entries from the first that is not older than the cutoff.
Pruned(context, cutoff) ==
    LET recent == {i \in DOMAIN context : context[i].at >= cutoff}
    IN  IF recent = {} THEN << >> ELSE SubSeq(context, Min(recent), Len(context))

\* _update_context: what one call of predict leaves in the deque.
UpdateContext(context, call) ==
    Pruned(Append(context, call), call.at - CONTEXT_WINDOW_MINUTES)

\* Its answer: in how many of the remembered calls the IP was above their mean.
Elevated(totals, ip) ==
    ip \in DOMAIN totals /\ totals[ip] * Cardinality(DOMAIN totals) > Total(totals)

MultiBucketCount(context, ip) ==
    Quantify(DOMAIN context, LAMBDA i : Elevated(context[i].totals, ip))

\* The earliest event of each IP, among the rows with both an IP and a time.
MinTimes(rows) ==
    LET timed == Timed(Where(rows, LAMBDA r : r.source_ip # NoValue))
    IN  [ip \in Ips(timed) |->
            Min({timed[i].datetime : i \in {j \in DOMAIN timed : timed[j].source_ip = ip}})]

\* e2e_mttd_ms of an IP: its own earliest event when any IP has one, otherwise the
\* earliest of the batch.
E2e(ip, rows, batchMin, detectedAt) ==
    LET first == MinTimes(rows)
    IN  IF DOMAIN first # {}
        THEN IF ip \in DOMAIN first THEN ElapsedMinutes(first[ip], detectedAt) ELSE NoValue
        ELSE IF batchMin # NoValue THEN ElapsedMinutes(batchMin, detectedAt) ELSE NoValue

\* The scored row of an IP: by the model of its split, on the columns that model
\* was trained on.
ScoredRow(ip, features, batch, columns, context) ==
    LET split == IF ModernMask(features[ip]) THEN "modern" ELSE "legacy"
        s == Score(split, FeatureMatrix(features[ip], columns[split]))
    IN  [score         |-> s,
         is_anomaly    |-> s < ANOMALY_SCORE_THRESHOLD,
         threat_level  |-> AssignThreatLevel(s),
         model         |-> split,
         pipeline_mttd |-> ElapsedMinutes(batch.ingested_at, batch.at),
         e2e_mttd      |-> E2e(ip, batch.rows, batch.min_time, batch.at),
         multi_bucket  |-> MultiBucketCount(context, ip)]

\* predict on the features of a batch.  A batch without features is answered before
\* the context is touched.
Predict(served, batch, columns) ==
    LET features == ExtractFeatures(batch.rows)
        context == UpdateContext(served.context, [at |-> batch.at,
                      totals |-> [ip \in DOMAIN features |-> features[ip].total_requests]])
    IN  IF DOMAIN features = {} THEN [served EXCEPT !.out = << >>]
        ELSE [context |-> context,
              out     |-> [ip \in DOMAIN features |->
                              ScoredRow(ip, features, batch, columns, context)]]

-----------------------------------------------------------------------------
(* DBSCAN, on points of a line, and the proxy metrics of a fitted model.   *)

Distance(x, y) == IF x > y THEN x - y ELSE y - x

CorePoints(points, eps, minSamples) ==
    {points[i] : i \in {j \in DOMAIN points :
        Quantify(DOMAIN points, LAMBDA k : Distance(points[j], points[k]) <= eps) >= minSamples}}

Nearest(x, cores) == Min({Distance(x, c) : c \in cores})

\* fit: the core points and the largest distance of a training point to them, 1
\* when that is 0 or there is no core point.
Fit(points, eps, minSamples) ==
    LET cores == CorePoints(points, eps, minSamples)
        far == IF cores = {} THEN 0
               ELSE Max({0} \cup {Nearest(points[i], cores) : i \in DOMAIN points})
    IN  [cores |-> cores, max_distance |-> IF far = 0 THEN 1 ELSE far]

\* decision_function in thousandths of max_distance: 0.1 - 0.6 * d / max_distance.
DecisionFunction(model, x) ==
    IF model.cores = {} THEN 0
    ELSE 100 * model.max_distance - 600 * Nearest(x, model.cores)

\* _train_dbscan
MinSamples(n) == Max({3, n \div 100})

Flagged(scores) == Quantify(DOMAIN scores, LAMBDA i : scores[i] < 0)

\* _decile_gap
DecileGap(scores) ==
    LET sorted == Sorted(scores)
    IN  IF Len(scores) < 2 THEN 0 ELSE Percentile(sorted, 90) - Percentile(sorted, 10)

\* evaluate, as far as it does not fit another model.
Evaluate(scores, modelType) ==
    IF scores = << >> THEN [sample_count |-> 0, flagged |-> 0]
    ELSE LET sorted == Sorted(scores)
         IN  [sample_count |-> Len(scores),
              flagged      |-> Flagged(scores),
              lowest       |-> sorted[1],
              p10          |-> Percentile(sorted, 10),
              median       |-> Percentile(sorted, 50),
              p90          |-> Percentile(sorted, 90),
              highest      |-> sorted[Len(sorted)],
              gap          |-> DecileGap(scores),
              cv           |-> modelType = "isolation_forest" /\ Len(scores) >= 25]

-----------------------------------------------------------------------------
(* Properties.                                                             *)

\* "Use this for training so aggregates resemble what inference sees per batch":
\* whatever rows a training frame mixes, the features of each of its windows are
\* exactly those that serving extracts from that window alone, with filters and z-scores
\* that the code has twice.
TrainingSeesServing(log, minutes) ==
    LET windowed == ExtractFeaturesWindowed(log, minutes)
    IN  \A w \in {WindowOf(r, minutes) : r \in Range(Timed(log))} :
            [ip \in {g[2] : g \in {h \in DOMAIN windowed : h[1] = w}} |-> windowed[<<w, ip>>]]
              = ExtractFeatures(Where(Timed(log), LAMBDA r : WindowOf(r, minutes) = w))

\* The requests of each IP in each batch, and the batches that are recent when the
\* last one is predicted.
BatchTotals(batches) ==
    [i \in DOMAIN batches |->
        LET f == ExtractFeatures(batches[i].rows)
        IN  [ip \in DOMAIN f |-> f[ip].total_requests]]

RecentBatches(batches) ==
    {i \in DOMAIN batches :
        batches[i].at >= batches[Len(batches)].at - CONTEXT_WINDOW_MINUTES}

\* After any batches in order of time, predict's count for an IP of the last one misses
\* no batch of the unbroken run of recent batches, up to the last, in which the IP was
\* above the mean, and counts no batch that is older, whatever was remembered, dropped
\* or without features in between.
ContextCountsRecent(batches, out) ==
    LET totals == BatchTotals(batches)
        recent == RecentBatches(batches)
        elevated(ip) == {i \in recent : Elevated(totals[i], ip)}
        running(ip) == {i \in recent : \A j \in i .. Len(batches) : j \in elevated(ip)}
    IN  \A ip \in DOMAIN out :
            /\ Cardinality(running(ip)) <= out[ip].multi_bucket
            /\ out[ip].multi_bucket <= Cardinality(elevated(ip))

\* predict.py:46 and 58-59, "consecutive": the count for an IP is never more than the
\* length of some stretch of recent batches in which the IP was above the mean in every
\* batch that had features.
CountsConsecutive(batches, out) ==
    LET totals == BatchTotals(batches)
    IN  \A ip \in DOMAIN out : out[ip].multi_bucket # 0 =>
            \E i, j \in RecentBatches(batches) :
                /\ out[ip].multi_bucket <= j - i + 1
                /\ \A k \in i .. j : DOMAIN totals[k] # {} => Elevated(totals[k], ip)
=============================================================================
