------------------------------ MODULE AlertText ------------------------------
(***************************************************************************)
(* What an alert and its report say and what they are called: the message  *)
(* of src/alerting/sap_webhook.py, the report of                           *)
(* src/alerting/incident_report.py, and the identities of an anomaly       *)
(* (alert id, dedup key, report file).  A text is its length; a ratio is   *)
(* in percent.                                                             *)
(***************************************************************************)
EXTENDS Stats

CONSTANTS MESSAGE_MAX_CHARS, TARGET_LABEL_MAX, MAX_EVIDENCE_ROWS
ASSUME AlertTextAssumption ==
    {MESSAGE_MAX_CHARS, TARGET_LABEL_MAX, MAX_EVIDENCE_ROWS} \subseteq Nat

-----------------------------------------------------------------------------
(* The message.                                                            *)

\* _what_clause: the strongest signal names the threat; of an LLM anomaly its first rule.
WhatKind(a) ==
    IF a.detector = "llm"
    THEN IF a.rule_ids = << >> THEN "cohort anomaly" ELSE Head(a.rule_ids)
    ELSE IF a.sql_injection_hits > 0 THEN "SQL injection attempt"
    ELSE IF a.brute_force_score >= 20 THEN "Brute-force login attempt"
    ELSE IF a.suspicious_path_ratio >= 30 THEN "Suspicious path scanning"
    ELSE "anomaly"

\* _why_clause, _llm_why_clause: the indicators it lists, in this order.
WhyParts(a) ==
    LET Listed(parts) == SelectSeq(parts, LAMBDA p : p[2])
    IN  IF a.detector = "llm"
        THEN Listed(<< <<"rules", a.rule_ids # << >> >>, <<"global_anom", TRUE>>,
                       <<"cat_anom", a.category_fraction # 0>>, <<"reqs", TRUE>>,
                       <<"score", TRUE>> >>)
        ELSE Listed(<< <<"SQLi", a.sql_injection_hits > 0>>,
                       <<"brute_score", a.brute_force_score >= 20>>,
                       <<"err_rate", a.error_rate >= 30>>, <<"denied", a.denied_ratio >= 30>>,
                       <<"reqs", a.total_requests > 0>>, <<"score", TRUE>> >>)

\* _target_label: the application, or else the address, shortened.
TargetLabel(app, ip) == Min({IF app = 0 THEN 3 + ip ELSE app, TARGET_LABEL_MAX})

\* _evidence_window: the span of at least two timed rows, in seconds or whole minutes.
EvidenceWindow(rows) ==
    LET times == {rows[i].seconds : i \in {j \in DOMAIN rows : rows[j].seconds # NoValue}}
        span == Max(times) - Min(times)
    IN  IF CountOf(rows, LAMBDA r : r.seconds # NoValue) < 2 THEN NoValue
        ELSE IF span < 60 THEN <<span, "s">> ELSE <<span \div 60, "m">>

\* format_alert_message on clauses of these lengths: how much of WHAT and WHEN, and of
\* WHY, is in it.  "WHAT:  WHEN:  WHY: " is 19 characters.
FormatAlertMessage(what, when, why) ==
    LET head == 19 + what + when
        budget == MESSAGE_MAX_CHARS - head
    IN  IF head + why <= MESSAGE_MAX_CHARS THEN [len |-> head + why, why |-> why, whole |-> TRUE]
        ELSE IF budget < 1 THEN [len |-> MESSAGE_MAX_CHARS, why |-> 0, whole |-> FALSE]
        ELSE [len |-> MESSAGE_MAX_CHARS, why |-> budget - 1, whole |-> TRUE]

-----------------------------------------------------------------------------
(* The report.                                                             *)

\* _recommendations: the numbered sections that apply, or the default one.
Recommendations(a) ==
    LET applies == << a.sql_injection_hits > 0, a.brute_force_score > 20, a.denied_ratio > 50,
                      a.suspicious_path_ratio > 20, a.multi_bucket_count >= 3 >>
        sections == {i \in DOMAIN applies : applies[i]}
    IN  IF sections = {} THEN {"review"} ELSE sections

\* _llm_recommendations: a tip per rule.
LlmRecommendations(a) == IF a.rule_ids = << >> THEN {"review"} ELSE ToSet(a.rule_ids)

\* _evidence_table, _llm_evidence_summary
EvidenceRows(rows) == FirstOf(rows, MAX_EVIDENCE_ROWS)

\* _feature_table: the features an anomaly has, in the order of the list.
FeatureTable(a, keys) == SelectSeq(keys, LAMBDA key : key \in DOMAIN a)

\* build_incident_report, before the alert is sent: its webhook line is the default.
BuildIncidentReport(a, evidence, keys) ==
    [layout   |-> a.detector,
     evidence |-> EvidenceRows(evidence),
     features |-> IF a.detector = "llm" THEN << >> ELSE FeatureTable(a, keys),
     actions  |-> IF a.detector = "llm" THEN LlmRecommendations(a) ELSE Recommendations(a),
     webhook  |-> IF "webhook_sent" \in DOMAIN a THEN a.webhook_sent ELSE TRUE]

\* write_report: a file is written over.
WriteReport(files, id, report) == (id :> report) @@ files

-----------------------------------------------------------------------------
(* Identities.  Times are in seconds.                                      *)

Entity(a) == IF a.detector = "llm" THEN <<a.llm_model_id, a.llm_prompt_category>>
                                   ELSE <<a.source_ip>>

\* build_alert_id: the same minute gives the same id.
BuildAlertId(a) == <<a.detector, Entity(a), a.threat_level, a.detected_at \div 60>>

\* AlertDeduper.key_for
KeyFor(a) == <<a.detector>> \o Entity(a) \o <<a.threat_level>>

\* _incident_id_for: the names are joined with "-"; a name is a sequence of words.
IncidentIdFor(a, now) ==
    IF a.detector = "llm" THEN <<"LLM", now>> \o a.llm_model_id \o a.llm_prompt_category
                          ELSE <<now, a.source_ip>>

\* The message fits, and gives up the reason before anything else.
MessageFits(what, when, why) ==
    LET msg == FormatAlertMessage(what, when, why)
    IN  /\ msg.len <= MESSAGE_MAX_CHARS
        /\ ~msg.whole => msg.why = 0
        /\ msg.why < why => msg.len = MESSAGE_MAX_CHARS
=============================================================================
