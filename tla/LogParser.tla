------------------------------ MODULE LogParser ------------------------------
(***************************************************************************)
(* From a response of the SAP API to the frame a cycle works on:           *)
(* src/ingestion/log_parser.py, the schema check of src/model/schema.py,   *)
(* the times of src/common/time_utils.py, and the frame helpers of         *)
(* src/pipeline.py.  A frame is a sequence of rows; its columns are the    *)
(* sequence of names the API sent, in lower case.                          *)
(***************************************************************************)
EXTENDS Stats

REQUIRED_LOG_COLUMNS == {"datetime", "source_ip", "status", "event_description"}
OPTIONAL_LOG_COLUMNS ==
    {"log_id", "port_service", "log_type", "request_path", "sap_application", "region_code",
     "macro_region", "http_method", "sap_source_type", "sap_app_env", "llm_total_tokens",
     "llm_cost_usd", "llm_finish_reason", "llm_status", "llm_response_time_ms",
     "llm_prompt_category", "llm_error_message", "llm_model_id", "llm_prompt_tokens"}
ALL_LOG_COLUMNS == REQUIRED_LOG_COLUMNS \cup OPTIONAL_LOG_COLUMNS

\* _COLUMN_ALIASES, by what the names stand for.
ALIASES_OF ==
    [log_id            |-> {"_id"},
     datetime          |-> {"@timestamp", "timestamp", "time", "event_time", "logged_at"},
     source_ip         |-> {"client_ip", "ip", "src_ip", "remote_addr", "sourceip"},
     status            |-> {"http_status_code", "status_code", "response_status", "http_status"},
     event_description |-> {"sap_function_message", "message", "description", "event",
                            "log_message"},
     port_service      |-> {"service_id", "port", "service", "protocol"},
     log_type          |-> {"sap_function_log_type", "type", "category", "source"},
     request_path      |-> {"heathers_request_path", "headers_request_path"},
     sap_application   |-> {"sap_function_application"},
     http_method       |-> {"headers_http_request_method"}]

ENVELOPES == <<"logs", "data", "items", "records", "results">>

\* The records of a payload: a list, or an object of which the first known envelope
\* that holds a list is taken.  Anything else is an empty frame.
ParseRawResponse(payload) ==
    CASE payload.kind = "list" -> payload.records
      [] payload.kind = "dict" ->
            LET present == {i \in DOMAIN ENVELOPES : ENVELOPES[i] \in DOMAIN payload.lists}
            IN  IF present = {} THEN << >> ELSE payload.lists[ENVELOPES[Min(present)]]
      [] payload.kind \notin {"list", "dict"} -> << >>

\* An alias is renamed unless its column is already there; two aliases of one column
\* are both renamed.
Renamed(column, columns) ==
    LET targets == {c \in DOMAIN ALIASES_OF : column \in ALIASES_OF[c] /\ ~Contains(columns, c)}
    IN  IF column \in ALL_LOG_COLUMNS \/ targets = {} THEN column
        ELSE CHOOSE c \in targets : TRUE

\* normalize_columns: it raises when status or log_type are there twice.
NormalizeColumns(columns) ==
    LET named == [i \in DOMAIN columns |-> Renamed(columns[i], columns)]
        Twice(c) == Quantify(DOMAIN named, LAMBDA i : named[i] = c) > 1
    IN  [columns |-> named, raised |-> Twice("status") \/ Twice("log_type")]

\* validate_schema: what is missing of a frame with rows.
MissingColumns(rows, columns) ==
    IF rows = << >> THEN {} ELSE REQUIRED_LOG_COLUMNS \ {columns[i] : i \in DOMAIN columns}

\* parse_log_datetime: a naive time is UTC, and what is no time is None.
ParseLogDatetime(value) ==
    CASE value.kind = "aware" -> value.utc
      [] value.kind = "naive" -> value.clock
      [] value.kind \notin {"aware", "naive"} -> NoValue

ElapsedMs(start, end) == Max({end - start, 0})

StampIngestedAt(rows, at) == [i \in DOMAIN rows |-> [ingested_at |-> at] @@ rows[i]]

-----------------------------------------------------------------------------
(* Frames in a cycle.                                                      *)

EarliestLogTime(rows) ==
    LET times == {rows[i].datetime : i \in DOMAIN rows} \ {NoValue}
    IN  IF times = {} THEN NoValue ELSE Min(times)

EvidenceForIp(rows, ip) ==
    FirstOf(IF ip = "" THEN rows ELSE SelectSeq(rows, LAMBDA r : r.source_ip = ip), 10)

\* The rows of a cohort that did not succeed, if there are any.
EvidenceForCohort(rows, model, category) ==
    LET cohort == SelectSeq(rows, LAMBDA r : r.model_id = model /\ r.category = category)
        suspicious == SelectSeq(cohort, LAMBDA r : r.status \notin {"success", "ok", "200"})
    IN  FirstOf(IF suspicious = << >> THEN cohort ELSE suspicious, 10)

\* _concat_anomalies, with a failing LLM detector answering nothing.
ConcatAnomalies(sap, llm, llmFailed) == sap \o (IF llmFailed THEN << >> ELSE llm)

-----------------------------------------------------------------------------
(* Properties.                                                             *)

\* However the API spells them, and whichever of them are there already under their
\* own name, a frame keeps all its columns and no two columns of one kind are lost in
\* one, unless two aliases of one column came together.
RenamingIsFaithful(columns) ==
    LET named == NormalizeColumns(columns).columns
        Kind(c) == IF \E k \in DOMAIN ALIASES_OF : c \in ALIASES_OF[k]
                   THEN CHOOSE k \in DOMAIN ALIASES_OF : c \in ALIASES_OF[k] ELSE c
        clash == \E i, j \in DOMAIN columns : /\ i # j /\ Kind(columns[i]) = Kind(columns[j])
                                              /\ ~Contains(columns, Kind(columns[i]))
    IN  /\ \A i \in DOMAIN columns : Contains(named, Kind(columns[i]))
        /\ IsInjective(named) <=> ~clash

\* The evidence of an anomaly is of its own address or cohort, and there is some if the
\* frame has any.
EvidenceIsItsOwn(rows, ip, model, category) ==
    LET byIp == EvidenceForIp(rows, ip)
        ofCohort == EvidenceForCohort(rows, model, category)
        Has(P(_)) == \E i \in DOMAIN rows : P(rows[i])
    IN  /\ ip # "" => /\ \A i \in DOMAIN byIp : byIp[i].source_ip = ip
                      /\ Has(LAMBDA r : r.source_ip = ip) <=> byIp # << >>
        /\ \A i \in DOMAIN ofCohort : ofCohort[i].model_id = model
        /\ Has(LAMBDA r : r.model_id = model /\ r.category = category) <=> ofCohort # << >>
=============================================================================
