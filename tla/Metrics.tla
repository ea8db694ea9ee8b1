------------------------------- MODULE Metrics -------------------------------
(***************************************************************************)
(* The registry of src/common/metrics.py: counters and rolling MTTD        *)
(* samples.  Every operation runs under one lock, so it is a function of   *)
(* the registry's state.                                                   *)
(***************************************************************************)
EXTENDS Stats

CONSTANT MTTD_SAMPLE_WINDOW
ASSUME MetricsAssumption == MTTD_SAMPLE_WINDOW \in Nat \ {0}

COUNTERS ==
    {"logs_processed", "anomalies_detected", "alerts_sent", "alerts_failed",
     "alerts_suppressed", "pipeline_runs", "errors"}
KINDS == {"pipeline", "e2e"}

\* MetricsRegistry.__init__, and reset.
MetricsInit == [counters |-> [c \in COUNTERS |-> 0], samples |-> [k \in KINDS |-> << >>]]

\* incr_logs_processed and the six others.
Incr(m, counter, n) == [m EXCEPT !.counters[counter] = @ + n]

\* observe_pipeline_mttd, observe_e2e_mttd: a deque of the newest samples.
Observe(m, kind, millis) ==
    [m EXCEPT !.samples[kind] = LastOf(Append(@, Max({millis, 0})), MTTD_SAMPLE_WINDOW)]

\* _percentile, times 100: the p-th of the 99 inclusive quantiles.
PercentileMs(samples, p) ==
    IF samples = << >> THEN 0
    ELSE IF Len(samples) = 1 THEN 100 * samples[1]
    ELSE Percentile(Sorted(samples), Max({1, Min({p, 99})}))

Summary(samples) ==
    [count |-> Len(samples), p50 |-> PercentileMs(samples, 50),
     p95 |-> PercentileMs(samples, 95),
     max |-> IF samples = << >> THEN 0 ELSE Max(ToSet(samples))]

Snapshot(m) == [counters |-> m.counters, mttd |-> [k \in KINDS |-> Summary(m.samples[k])]]

\* The summary is of the newest samples only and in order: the median never exceeds the
\* 95th percentile, nor that the maximum, and a sample that left the window has no part.
SummaryIsOrdered(all) ==
    LET m == FoldLeft(LAMBDA s, x : Observe(s, "pipeline", x), MetricsInit, all)
        s == Snapshot(m).mttd["pipeline"]
    IN  /\ s.p50 <= s.p95 /\ s.p95 <= 100 * s.max
        /\ s = Summary([i \in DOMAIN LastOf(all, MTTD_SAMPLE_WINDOW) |->
                           Max({0, LastOf(all, MTTD_SAMPLE_WINDOW)[i]})])
=============================================================================
