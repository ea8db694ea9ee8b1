-------------------------------- MODULE Stats --------------------------------
(***************************************************************************)
(* Exact statistics of a function of integers, for the modules that model  *)
(* what pandas, numpy and the statistics module compute.  Nothing is       *)
(* divided: the mean of f is Total(f) over the size of its domain, the     *)
(* variance is Spread(f) over the square of that size, and a percentile is *)
(* given times 100.                                                        *)
(***************************************************************************)
EXTENDS Integers, FiniteSetsExt, SequencesExt

CONSTANT NoValue                    \* None, NaN, NaT and NULL
ASSUME StatsAssumption == NoValue \notin Int

Total(f) == MapThenSumSet(LAMBDA i : f[i], DOMAIN f)

Spread(f) ==
    Cardinality(DOMAIN f) * Total([i \in DOMAIN f |-> f[i] * f[i]]) - Total(f) * Total(f)

\* (x - mean) / sd among the values of f, 0 for a deviation of 0: the first over the root
\* of the second.
ZScore(f, x) ==
    IF Spread(f) = 0 THEN <<0, 1>>
    ELSE <<Cardinality(DOMAIN f) * x - Total(f), Spread(f)>>

\* The p-th percentile of a sorted sequence, times 100, by linear interpolation: the
\* default of numpy and pandas, and "inclusive" in the statistics module.
Percentile(sorted, p) ==
    LET h == (Len(sorted) - 1) * p
        lo == h \div 100 + 1
    IN  100 * sorted[lo]
        + (IF h % 100 = 0 THEN 0 ELSE (h % 100) * (sorted[lo + 1] - sorted[lo]))

\* A Python slice s[-n:], for n > 0.
LastOf(s, n) == SubSeq(s, Max({1, Len(s) - n + 1}), Len(s))

FirstOf(s, n) == SubSeq(s, 1, Min({n, Len(s)}))

\* The elements of a sequence that are in a set, in their order.
Kept(s, set) == FoldLeft(LAMBDA kept, x : IF x \in set THEN Append(kept, x) ELSE kept, << >>, s)

\* The rows of a frame that pass a test, in their order: a boolean mask or a
\* comprehension.
Where(rows, P(_)) == Kept(rows, {r \in Range(rows) : P(r)})

\* A sequence in the order of a relation.  Elements that tie keep the order they have,
\* as in Python; a database may return them in any.
InOrderOf(before, s) ==
    LET Place(sorted, x) == {i \in DOMAIN sorted : <<x, sorted[i]>> \notin before}
    IN  FoldLeft(LAMBDA sorted, x : InsertAt(sorted, Cardinality(Place(sorted, x)) + 1, x),
                 << >>, s)

\* sorted() with a key, ORDER BY.
SortedBy(s, Before(_, _)) == InOrderOf({p \in Range(s) \X Range(s) : Before(p[1], p[2])}, s)

Sorted(s) == SortedBy(s, LAMBDA a, b : a < b)

CountOf(rows, P(_)) == Quantify(DOMAIN rows, LAMBDA i : P(rows[i]))
=============================================================================
