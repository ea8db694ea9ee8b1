---------------------------- MODULE Repositories ----------------------------
(***************************************************************************)
(* src/storage/repositories.py and src/storage/migrations.py as functions  *)
(* of the tables: what an insert leaves in them and counts, and what the   *)
(* queries answer.  A table is a sequence of rows in order of insertion.   *)
(* A row to insert says whether the database accepts it on its own         *)
(* (accepted); its other cells are what the queries and the unique indexes *)
(* look at.  Times are minutes, scores are integers.                       *)
(***************************************************************************)
EXTENDS Stats

CONSTANTS
    LOG_INSERT_BATCH_SIZE,
    LOG_MEMORY_CAP,
    ANOMALY_MEMORY_CAP,
    LLM_SOURCE_IP_PLACEHOLDER

ASSUME RepositoriesAssumption ==
    {LOG_INSERT_BATCH_SIZE, LOG_MEMORY_CAP, ANOMALY_MEMORY_CAP} \subseteq Nat \ {0}

Blank == {NoValue, ""}

\* The mock repositories keep the newest `cap` rows in memory.
MemoryInsert(memory, rows, cap) == LastOf(memory \o rows, cap)

-----------------------------------------------------------------------------
(* Inserting logs.                                                         *)

\* LLM telemetry has no address and gets the placeholder; any other row without one
\* is skipped.
StampOrSkip(kept, r) ==
    IF r.source_ip \notin Blank THEN Append(kept, r)
    ELSE IF r.log_type \in {"LLM_REQUEST", "LLM_ERROR", "LLM_TIMEOUT"}
    THEN Append(kept, [r EXCEPT !.source_ip = LLM_SOURCE_IP_PLACEHOLDER])
    ELSE kept

Insertable(log) == FoldLeft(StampOrSkip, << >>, log)

\* _row_tuple: a blank LOG_ID, or None, is NULL, which the unique index ignores.  NaN,
\* the cell of a row without _id in a frame where others have one, is text like any
\* other: in a log NoValue is that NaN, and "" the rest.
RowTuple(r) ==
    [r EXCEPT !.log_id = IF @ = "" THEN NoValue ELSE IF @ = NoValue THEN "nan" ELSE @]

\* What the database does with one row.
Outcome(table, r) ==
    IF ~r.accepted THEN "rejected"
    ELSE IF r.log_id # NoValue /\ \E i \in DOMAIN table : table[i].log_id = r.log_id
         THEN "duplicates" ELSE "persisted"

Nothing(table) ==
    [table |-> table, persisted |-> 0, duplicates |-> 0, rejected |-> 0, raised |-> FALSE]

\* One row of the fallback: counted by its outcome.
ExecuteRow(s, r) ==
    LET outcome == Outcome(s.table, r)
    IN  [s EXCEPT ![outcome] = @ + 1,
                  !.table = IF outcome = "persisted" THEN Append(@, r) ELSE @]

\* range(0, len(rows), LOG_INSERT_BATCH_SIZE): the last chunk is the last that begins
\* before the end.
Chunks(rows) ==
    LET Begins(k) == (k - 1) * LOG_INSERT_BATCH_SIZE < Len(rows)
    IN  [k \in 1 .. Max({k \in 0 .. Len(rows) : Begins(k)}) |->
            SubSeq(rows, (k - 1) * LOG_INSERT_BATCH_SIZE + 1,
                         Min({Len(rows), k * LOG_INSERT_BATCH_SIZE}))]

\* Mutant: the fallback goes on from the row after the one that failed.
FallbackFromFailure(s, chunk) ==
    FoldLeft(ExecuteRow, s, Tail(chunk))

\* The row-by-row fallback of a chunk that failed as a whole.
Fallback(s, chunk) == FoldLeft(ExecuteRow, s, chunk)

\* executemany: the whole chunk, or an error; then the rows before the failing one
\* are stored or not, as the driver will (partial), and every row is tried again.
InsertChunk(s, chunk, partial) ==
    LET tried == FoldLeft(ExecuteRow, s, chunk)
        Good(n) == \A j \in 1 .. n :
            Outcome(FoldLeft(ExecuteRow, s, SubSeq(chunk, 1, j - 1)).table, chunk[j]) = "persisted"
        before == Max({n \in 0 .. Len(chunk) : Good(n)})
        left == FoldLeft(ExecuteRow, s, SubSeq(chunk, 1, before)).table
    IN  IF before = Len(chunk) THEN tried
        ELSE Fallback(IF partial THEN [s EXCEPT !.table = left] ELSE s, chunk)

\* _bulk_insert_sync: a structural error at chunk `broken` (0: none) is raised again;
\* the chunks before it stay.
BulkInsert(table, rows, partial, broken) ==
    LET chunks == Chunks(rows)
        done == IF broken \in DOMAIN chunks THEN SubSeq(chunks, 1, broken - 1) ELSE chunks
    IN  [FoldLeft(LAMBDA s, chunk : InsertChunk(s, chunk, partial), Nothing(table), done)
            EXCEPT !.raised = broken \in DOMAIN chunks]

\* insert_logs: a batch of which every row was rejected raises.
InsertLogs(table, log, partial, broken) ==
    LET kept == Insertable(log)
        rows == [i \in DOMAIN kept |-> RowTuple(kept[i])]
        s == BulkInsert(table, rows, partial, broken)
    IN  IF rows = << >> THEN Nothing(table)
        ELSE [s EXCEPT !.raised = @ \/ s.persisted + s.duplicates = 0]

-----------------------------------------------------------------------------
(* Anomalies and model versions.                                           *)

\* _insert_sync of an anomaly: a violation of the unique ALERT_ID is silent.
InsertAnomalyRow(table, row) ==
    IF \E i \in DOMAIN table : table[i].alert_id = row.alert_id THEN table
    ELSE Append(table, [row EXCEPT !.total_requests = IF @ = NoValue THEN 0 ELSE @,
                                   !.detector = IF @ \in Blank THEN "sap" ELSE @])

\* recent_logs, recent_anomalies: the newest first.
Recent(memory, limit) == Reverse(IF limit = 0 THEN memory ELSE LastOf(memory, limit))

\* A query by a time column sees the rows of the last `minutes`.
Within(rows, time, now, minutes) ==
    Where(rows, LAMBDA r : r[time] # NoValue /\ r[time] >= now - minutes)

CountLogsSince(logs, now, hours) ==
    Len(Within(logs, "ingested_at", now, 60 * hours))

CountAnomaliesSince(anomalies, now, hours) ==
    Len(Within(anomalies, "detected_at", now, 60 * hours))

MttdSamples(anomalies, now, minutes) ==
    LET rows == Where(Within(anomalies, "detected_at", now, minutes),
                      LAMBDA r : r.pipeline_mttd_ms # NoValue)
    IN  [i \in DOMAIN rows |-> rows[i].pipeline_mttd_ms]

\* _percentiles, before the rounding.
MttdPercentiles(anomalies, now, hours) ==
    LET s == Sorted(MttdSamples(anomalies, now, 60 * hours))
    IN  IF s = << >> THEN [p50_ms |-> NoValue, p95_ms |-> NoValue, sample_count |-> 0]
        ELSE [p50_ms |-> Percentile(s, 50), p95_ms |-> Percentile(s, 95),
              sample_count |-> Len(s)]

\* top_source_ips: by count, the first seen before the later one on a tie.
TopSourceIps(anomalies, now, hours, limit) ==
    LET rows == Where(Within(anomalies, "detected_at", now, 60 * hours),
                      LAMBDA r : r.source_ip \notin Blank)
        At(ip) == {i \in DOMAIN rows : rows[i].source_ip = ip}
        scores(ip) == {rows[i].anomaly_score : i \in At(ip)} \ {NoValue}
        Before(a, b) == \/ Cardinality(At(a)) > Cardinality(At(b))
                        \/ Cardinality(At(a)) = Cardinality(At(b)) /\ Min(At(a)) < Min(At(b))
        ranked == SortedBy(SetToSeq({rows[i].source_ip : i \in DOMAIN rows}), Before)
    IN  FirstOf([k \in DOMAIN ranked |->
                    [source_ip |-> ranked[k], count |-> Cardinality(At(ranked[k])),
                     min_score |-> IF scores(ranked[k]) = {} THEN NoValue
                                   ELSE Min(scores(ranked[k]))]], limit)

UPPER == [high |-> "HIGH", medium |-> "MEDIUM", low |-> "LOW"]

\* query_anomalies: a level that is none of the three finds nothing.  In memory the
\* level is compared in upper case; HANA compares the upper-case text it is given
\* with the lower-case one the detectors store.
QueryAnomalies(anomalies, now, limit, threat, hours, mock) ==
    LET level(r) == IF mock THEN UPPER[r.threat_level] ELSE r.threat_level
        inTime(r) == hours = NoValue
                     \/ (r.detected_at # NoValue /\ r.detected_at >= now - 60 * hours)
        found == Where(Reverse(anomalies),
                       LAMBDA r : (threat = NoValue \/ level(r) = threat) /\ inTime(r))
    IN  IF threat \notin {NoValue, "HIGH", "MEDIUM", "LOW"} THEN << >>
        ELSE FirstOf(found, limit)

\* ModelVersionRepository.register: a second row with a tag raises.
RegisterVersion(versions, manifest) ==
    IF \E i \in DOMAIN versions : versions[i].version_tag = manifest.version_tag
    THEN [versions |-> versions, raised |-> TRUE]
    ELSE [versions |-> Append(versions, manifest), raised |-> FALSE]

\* ModelVersionRepository.latest: by TRAINED_AT.
LatestVersions(versions) ==
    {versions[i] : i \in {j \in DOMAIN versions :
        \A k \in DOMAIN versions : versions[k].trained_at <= versions[j].trained_at}}

-----------------------------------------------------------------------------
(* Migrations.                                                             *)

\* apply_schema: an object that exists is skipped, any other failure (the statements
\* of `failing`) is raised, and what was created before it stays.
ApplySchema(objects, statements, failing) ==
    LET bad == {i \in DOMAIN statements :
                    statements[i] \in failing /\ statements[i] \notin objects}
        done == IF bad = {} THEN Len(statements) ELSE Min(bad) - 1
    IN  [objects |-> objects \cup {statements[i] : i \in 1 .. done}, raised |-> bad # {}]

-----------------------------------------------------------------------------
(* Properties.                                                             *)

\* A batch that insert_logs acknowledges is accounted for row by row, and every row the
\* database takes, unless its LOG_ID is NaN, is in the table, whatever chunk it was in
\* and whichever rows failed beside it; insert_logs raises only over a broken schema or
\* when no row could be stored; and a window read again after it raised is completed
\* without a LOG_ID in the table twice.
AcknowledgedBatchIsStored(log) ==
    LET kept == Insertable(log)
        rows == [i \in DOMAIN kept |-> RowTuple(kept[i])]
        taken == {i \in DOMAIN rows : rows[i].accepted /\ kept[i].log_id # NoValue}
        Stored(table) == \A i \in taken :
            \E k \in DOMAIN table : \/ table[k] = rows[i]
                                    \/ rows[i].log_id # NoValue /\ table[k].log_id = rows[i].log_id
        OncePerId(table) == \A i, j \in DOMAIN table :
            i # j => table[i].log_id = NoValue \/ table[i].log_id # table[j].log_id
    IN  \A partial \in BOOLEAN : \A broken \in 0 .. Len(Chunks(rows)) :
            LET first == InsertLogs(<< >>, log, partial, broken)
                again == InsertLogs(first.table, log, partial, 0)
                attempted == first.persisted + first.duplicates + first.rejected
            IN  /\ ~first.raised => attempted = Len(rows) /\ Stored(first.table)
                /\ first.raised /\ broken = 0 => \A i \in DOMAIN rows : ~rows[i].accepted
                /\ Stored(again.table) /\ OncePerId(again.table)

\* docs/ARCHITECTURE.md:180, "deduplicated by source `_id`": rows that have none are never
\* taken for one another.
DeduplicatedById(log) ==
    LET kept == Insertable(log)
        table == InsertLogs(<< >>, log, FALSE, 0).table
        nameless == {i \in DOMAIN kept : kept[i].accepted /\ kept[i].log_id \in Blank}
    IN  Cardinality({k \in DOMAIN table : table[k].log_id \in {NoValue, "nan"}})
            = Cardinality(nameless)
=============================================================================
