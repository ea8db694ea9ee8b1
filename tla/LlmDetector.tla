----------------------------- MODULE LlmDetector -----------------------------
(***************************************************************************)
(* The LLM detector as functions of its data: src/model/llm_features.py    *)
(* (cohort profiles and features), src/model/llm_train.py (what training   *)
(* learns, and its registry on disk), src/model/llm_rules.py and           *)
(* src/model/llm_predict.py (rules, severities, emitted cohorts).          *)
(*                                                                         *)
(* A row is a record; its cohort is its model and its prompt category.     *)
(* What the two Isolation Forests say of a row is part of the row, as its  *)
(* fields global and by_category; the forest of a category is asked only   *)
(* when training fitted one.  A profile keeps size, total and spread of a  *)
(* column (see Stats) and its percentiles times 100; a rate is a number of *)
(* rows over a number of rows.  The ratio of output to input tokens, which *)
(* only the forests look at, is left out.                                  *)
(***************************************************************************)
EXTENDS Stats

CONSTANTS
    TOKEN_HIGH_FLOOR,
    NEAR_TIMEOUT_THRESHOLD,
    HIGH_COST_FLOOR,
    SPIKE_MIN_BATCH_SIZE,
    MIN_COHORT_SIZE,
    MIN_CATEGORY_SIZE

ASSUME LlmAssumption ==
    {TOKEN_HIGH_FLOOR, NEAR_TIMEOUT_THRESHOLD, HIGH_COST_FLOOR, SPIKE_MIN_BATCH_SIZE,
     MIN_COHORT_SIZE, MIN_CATEGORY_SIZE} \subseteq Nat

LLM_ROW_TYPES == {"LLM_REQUEST", "LLM_ERROR", "LLM_TIMEOUT"}
PROFILE_COLS == {"prompt_tokens", "total_tokens", "cost", "response_time"}

Cohort(r) == <<r.model_id, r.category>>
CohortsOf(rows) == {Cohort(rows[i]) : i \in DOMAIN rows}
Categories(rows) == {rows[i].category : i \in DOMAIN rows}

\* num / den >= percent %, and > for the cost rule's own comparison.
AtLeast(num, den, percent) == 100 * num >= percent * den

-----------------------------------------------------------------------------
(* Features.                                                               *)

IsScorable(r) == r.log_type \in LLM_ROW_TYPES /\ r.model_id \notin {NoValue, ""}

Number(value) == IF value = NoValue THEN 0 ELSE value

ColumnStats(values) ==
    LET clean == Where(values, LAMBDA v : v # NoValue)
        sorted == Sorted(clean)
    IN  IF clean = << >> THEN [n |-> 1, total |-> 0, spread |-> 0, p10 |-> 0, p99 |-> 0]
        ELSE [n |-> Len(clean), total |-> Total(clean), spread |-> Spread(clean),
              p10 |-> Percentile(sorted, 10), p99 |-> Percentile(sorted, 99)]

StatsOf(rows) ==
    [c \in PROFILE_COLS |-> ColumnStats([i \in DOMAIN rows |-> rows[i][c]])]

\* compute_cohort_profiles: a small cohort has no profile of its own.
CohortProfiles(rows) ==
    LET Of(k) == Where(rows, LAMBDA r : Cohort(r) = k)
    IN  [cohorts |-> [k \in {j \in CohortsOf(rows) : Len(Of(j)) >= MIN_COHORT_SIZE} |->
                         StatsOf(Of(k))],
         global  |-> StatsOf(rows)]

Lookup(profiles, k) ==
    IF k \in DOMAIN profiles.cohorts THEN profiles.cohorts[k] ELSE profiles.global

\* build_llm_feature_matrix, one row: z-scores against the row's profile, 0 where it
\* has no spread, and three signals.
LlmFeatures(r, profiles) ==
    LET stats == Lookup(profiles, Cohort(r))
        Z(c) == IF stats[c].spread = 0 THEN <<0, 1>>
                ELSE <<stats[c].n * Number(r[c]) - stats[c].total, stats[c].spread>>
    IN  [z                |-> [c \in PROFILE_COLS |-> Z(c)],
         near_timeout_cap |-> Number(r.response_time) >= NEAR_TIMEOUT_THRESHOLD,
         content_filter   |-> r.finish_reason = "content_filter",
         length           |-> r.finish_reason = "length"]

-----------------------------------------------------------------------------
(* Training.                                                               *)

\* Mutant: the rates of a category are over the rows of all categories.
BaselinesOverAll(rows) ==
    LET In(c) == Where(rows, LAMBDA r : r.category = c)
    IN  [c \in Categories(rows) |->
            [n              |-> Len(rows),
             errors         |-> CountOf(In(c), LAMBDA r : r.log_type # "LLM_REQUEST"),
             content_filter |-> CountOf(In(c), LAMBDA r : r.finish_reason = "content_filter")]]

\* _compute_category_baselines, over every scorable row; errors and time-outs are
\* only ever used together.
CategoryBaselines(rows) ==
    LET In(c) == Where(rows, LAMBDA r : r.category = c)
    IN  [c \in Categories(rows) |->
            [n              |-> Len(In(c)),
             errors         |-> CountOf(In(c), LAMBDA r : r.log_type # "LLM_REQUEST"),
             content_filter |-> CountOf(In(c), LAMBDA r : r.finish_reason = "content_filter")]]

\* train_llm_ensemble raises without scorable or without successful rows.
Trainable(log) == \E i \in DOMAIN log : IsScorable(log[i]) /\ log[i].status = "success"

\* What it learns, the forests apart: the forests it fits are those of `modelled`.
TrainLlmEnsemble(log) ==
    LET scorable == Where(log, IsScorable)
        rows == Where(scorable, LAMBDA r : r.status = "success")
        Size(c) == CountOf(rows, LAMBDA r : r.category = c)
    IN  [profiles  |-> CohortProfiles(rows),
         baselines |-> CategoryBaselines(scorable),
         modelled  |-> {c \in Categories(rows) : Size(c) >= MIN_CATEGORY_SIZE}]

\* LLMModelRegistry: save writes the bundle, then the pointer; load finds what the
\* pointer names, unless its features are not the expected ones.
SaveBundle(disk, tag, bundle) ==
    [bundles |-> [t \in DOMAIN disk.bundles \cup {tag} |->
                     IF t = tag THEN bundle ELSE disk.bundles[t]],
     latest  |-> tag]

LoadBundle(disk, version, columns) ==
    LET tag == IF version = "latest" THEN disk.latest ELSE version
    IN  IF tag \in DOMAIN disk.bundles /\ disk.bundles[tag].columns = columns
        THEN disk.bundles[tag] ELSE NoValue

-----------------------------------------------------------------------------
(* Rules.                                                                  *)

SEVERITY_RANK == [low |-> 1, medium |-> 2, high |-> 3]
RULE_SEVERITY ==
    [LLM_TOKEN_HIGH           |-> "medium", LLM_NEAR_TIMEOUT |-> "low",
     LLM_HIGH_COST_OUTLIER    |-> "high",   LLM_EXFIL_SHAPE  |-> "high",
     LLM_CONTENT_FILTER_SPIKE |-> "high",   LLM_ERROR_STORM  |-> "high"]

TokenHigh(r) == Number(r.prompt_tokens) >= TOKEN_HIGH_FLOOR
NearTimeout(r) == Number(r.response_time) >= NEAR_TIMEOUT_THRESHOLD

\* z > 4 and above the floor: z = d / sd with d = (n*x - S) / n, sd^2 = spread / n^2.
HighCostOutlier(r, stats) ==
    LET s == stats["cost"]
        d == s.n * Number(r.cost) - s.total
    IN  s.spread # 0 /\ d > 0 /\ d * d > 16 * s.spread /\ Number(r.cost) > HIGH_COST_FLOOR

ExfilShape(r, stats) ==
    /\ 100 * Number(r.prompt_tokens) < stats["prompt_tokens"].p10
    /\ 100 * Number(r.total_tokens) > stats["total_tokens"].p99

\* A rate of num / n that is high in itself (floor, in percent) and `tenths` tenths
\* times the baseline rate or more.
Spike(num, n, base, baseN, tenths, floor) ==
    /\ n >= SPIKE_MIN_BATCH_SIZE
    /\ base > 0
    /\ 10 * num * baseN >= tenths * base * n
    /\ AtLeast(num, n, floor)

\* evaluate_cohort: the rules that fire on the rows of a cohort.
FiredRules(rows, k, bundle) ==
    LET stats == Lookup(bundle.profiles, k)
        n == Len(rows)
        base == IF k[2] \in DOMAIN bundle.baselines THEN bundle.baselines[k[2]]
                ELSE [n |-> 1, errors |-> 0, content_filter |-> 0]
        Some(P(_)) == \E i \in DOMAIN rows : P(rows[i])
        Fires(rule) ==
            CASE rule = "LLM_TOKEN_HIGH" -> Some(TokenHigh)
              [] rule = "LLM_NEAR_TIMEOUT" -> Some(NearTimeout)
              [] rule = "LLM_HIGH_COST_OUTLIER" -> Some(LAMBDA r : HighCostOutlier(r, stats))
              [] rule = "LLM_EXFIL_SHAPE" -> Some(LAMBDA r : ExfilShape(r, stats))
              [] rule = "LLM_CONTENT_FILTER_SPIKE" ->
                    Spike(CountOf(rows, LAMBDA r : r.finish_reason = "content_filter"), n,
                          base.content_filter, base.n, 25, 30)
              [] rule = "LLM_ERROR_STORM" ->
                    Spike(CountOf(rows, LAMBDA r : r.log_type # "LLM_REQUEST"), n,
                          base.errors, base.n, 20, 50)
    IN  {rule \in DOMAIN RULE_SEVERITY : Fires(rule)}

-----------------------------------------------------------------------------
(* Prediction.                                                             *)

\* max_severity
RuleRank(fired) == Max({1} \cup {SEVERITY_RANK[RULE_SEVERITY[rule]] : rule \in fired})

\* _severity_from_fraction
FractionRank(outliers, n) ==
    IF AtLeast(outliers, n, 60) THEN 3 ELSE IF AtLeast(outliers, n, 35) THEN 2 ELSE 1

\* Mutant: the global forest is enough for the escalation.
AgreementOfOne(global, byCategory, n) == AtLeast(global, n, 20)

Agreement(global, byCategory, n) ==
    AtLeast(global, n, 20) /\ AtLeast(byCategory, n, 20)

\* _combine_severity
CombineSeverity(ruleRank, fractionRank, agreement) ==
    LET base == Max({ruleRank, fractionRank})
    IN  IF agreement THEN Min({3, base + 1}) ELSE base

Outliers(rows) == CountOf(rows, LAMBDA r : r.global)

\* A category without a forest of its own flags nothing.
CategoryOutliers(rows, bundle) ==
    CountOf(rows, LAMBDA r : r.by_category /\ r.category \in bundle.modelled)

Emitted(rows, fired) == fired # {} \/ AtLeast(Outliers(rows), Len(rows), 15)

\* _maybe_emit_cohort_anomaly
CohortAnomaly(rows, k, bundle) ==
    LET fired == FiredRules(rows, k, bundle)
        n == Len(rows)
    IN  [rank     |-> CombineSeverity(RuleRank(fired), FractionRank(Outliers(rows), n),
                          Agreement(Outliers(rows), CategoryOutliers(rows, bundle), n)),
         rule_ids |-> fired,
         total    |-> n]

\* predict_llm: the anomalies of a batch, by cohort.
PredictLlm(log, bundle) ==
    LET scorable == Where(log, IsScorable)
        Of(k) == Where(scorable, LAMBDA r : Cohort(r) = k)
    IN  [k \in {j \in CohortsOf(scorable) : Emitted(Of(j), FiredRules(Of(j), j, bundle))} |->
            CohortAnomaly(Of(k), k, bundle)]

-----------------------------------------------------------------------------
(* Properties.                                                             *)

\* A cohort is called high only on one of three grounds: a rule of that severity, most
\* of its rows outliers, or both forests flagging a fair share of it while a rule or
\* the global forest already stands at medium (llm_predict.py:23-24 and 337-339).
HighHasGrounds(log, bundle) ==
    LET found == PredictLlm(log, bundle)
        Of(k) == Where(log, LAMBDA r : IsScorable(r) /\ Cohort(r) = k)
        Share(k, P(_), percent) == 100 * CountOf(Of(k), P) >= percent * Len(Of(k))
    IN  \A k \in DOMAIN found : found[k].rank = 3 =>
            \/ \E rule \in found[k].rule_ids : RULE_SEVERITY[rule] = "high"
            \/ Share(k, LAMBDA r : r.global, 60)
            \/ /\ k[2] \in bundle.modelled
               /\ Share(k, LAMBDA r : r.by_category, 20)
               /\ \/ Share(k, LAMBDA r : r.global, 35)
                  \/ "LLM_TOKEN_HIGH" \in found[k].rule_ids /\ Share(k, LAMBDA r : r.global, 20)

\* One outlier more, of either forest, never silences a cohort nor lowers it.
MoreOutliersNeverCalm(log, bundle) ==
    LET before == PredictLlm(log, bundle)
    IN  \A i \in DOMAIN log : \A forest \in {"global", "by_category"} :
            LET after == PredictLlm([log EXCEPT ![i][forest] = TRUE], bundle)
            IN  \A k \in DOMAIN before :
                    k \in DOMAIN after /\ after[k].rank >= before[k].rank

\* A baseline is of a category and a cohort of a model in it: when the corpus itself
\* comes back as a batch, one model may well spike against the others of its category,
\* but not every model of a category can.
CorpusSparesSomeModel(log) ==
    LET scorable == Where(log, IsScorable)
        found == PredictLlm(log, TrainLlmEnsemble(log))
        Raises(k, rule) == k \in DOMAIN found /\ rule \in found[k].rule_ids
    IN  Trainable(log) =>
        \A rule \in {"LLM_CONTENT_FILTER_SPIKE", "LLM_ERROR_STORM"} :
            \A c \in Categories(scorable) :
                \E k \in CohortsOf(scorable) : k[2] = c /\ ~Raises(k, rule)

\* llm_train.py:21-22: "The disagreement between them (one anomalous, the other not)
\* escalates severity": a cohort of which only one of its two forests flags a fair share
\* stands above what its rules and the fraction of its outliers give it.
DisagreementRaises(log, bundle) ==
    LET found == PredictLlm(log, bundle)
        Of(k) == Where(log, LAMBDA r : IsScorable(r) /\ Cohort(r) = k)
        Fair(outliers, k) == AtLeast(outliers, Len(Of(k)), 20)
        Base(k) == Max({RuleRank(found[k].rule_ids),
                        FractionRank(Outliers(Of(k)), Len(Of(k)))})
    IN  \A k \in {j \in DOMAIN found : j[2] \in bundle.modelled} :
            Fair(Outliers(Of(k)), k) # Fair(CategoryOutliers(Of(k), bundle), k) =>
                found[k].rank = Min({3, Base(k) + 1})

\* Within a profiled cohort the z-scores of the rows it was made of cancel out.
ZScoresAreCentred(log) ==
    LET rows == Where(log, LAMBDA r : IsScorable(r) /\ r.status = "success")
        profiles == CohortProfiles(rows)
    IN  \A k \in DOMAIN profiles.cohorts : \A c \in PROFILE_COLS :
            LET of == Where(rows, LAMBDA r : Cohort(r) = k /\ r[c] # NoValue)
            IN  Total([i \in DOMAIN of |-> LlmFeatures(of[i], profiles).z[c][1]]) = 0
=============================================================================
