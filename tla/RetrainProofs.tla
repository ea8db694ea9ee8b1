----------------------------- MODULE RetrainProofs -----------------------------
(***************************************************************************)
(* Proofs about Retrain, for every cap and every retrain period: what the  *)
(* sums of rows add up to, that the trimming loop keeps the longest run of *)
(* newest frames that fits, and that the flag keeps the tasks to one.      *)
(***************************************************************************)
EXTENDS Retrain, SequenceTheorems, FiniteSetTheorems, WellFoundedInduction, TLAPS

\* A non-empty set of positions has a first one.
LEMMA FirstOfPositions ==
    ASSUME NEW T, T \subseteq Nat, T # {}
    PROVE  \E x \in T : \A y \in T : x <= y
<1>1. PICK x \in T : \A y \in T : ~(<<y, x>> \in OpToRel(<, Nat))
    BY NatLessThanWellFounded, WFMin
<1>2. \A y \in T : ~(y < x)
    BY <1>1 DEF OpToRel
<1>3. QED
    BY <1>2

-----------------------------------------------------------------------------
(* Sums.  The facts about them do not depend on the loop that FoldFacts is *)
(* instantiated with: here that of the sum itself.                         *)

AddOp(p, total, rows) == total + rows

AddInv(c, n, total) == total \in Nat

Sums == INSTANCE FoldFacts WITH Op <- AddOp, Inv <- AddInv

LEMMA SumIsTabled ==
    ASSUME NEW f
    PROVE  SumFunction(f) = Sums!SumOver(f)
BY DEF SumFunction, SumFunctionOnSet, FoldFunctionOnSet, MapThenFoldSet, Sums!SumOver,
       Sums!IsSumTable, Sums!SumRow, Sums!Pick

\* A batch more, its rows more.
LEMMA SumAppends ==
    ASSUME NEW s \in Seq(Nat), NEW r \in Nat
    PROVE  /\ SumFunction(s) \in Nat
           /\ SumFunction(Append(s, r)) = SumFunction(s) + r
BY Sums!SumAppends, SumIsTabled

-----------------------------------------------------------------------------
(* The trimming loop.                                                      *)

LEMMA SuffixType ==
    ASSUME NEW s \in Seq(Nat), NEW i \in 1 .. (Len(s) + 1)
    PROVE  /\ SubSeq(s, i, Len(s)) \in Seq(Nat)
           /\ Len(SubSeq(s, i, Len(s))) = Len(s) - i + 1
<1> DEFINE n == Len(s)
<1>1. n \in Nat /\ \A x \in 1 .. n : s[x] \in Nat
    BY LenProperties, ElementOfSeq
<1> HIDE DEF n
<1>2. i \in Int /\ n \in Int /\ i <= n + 1 /\ \A x \in i .. n : s[x] \in Nat
    BY <1>1 DEF n
<1>3. /\ SubSeq(s, i, n) \in Seq(Nat)
      /\ Len(SubSeq(s, i, n)) = IF i <= n THEN n - i + 1 ELSE 0
    BY <1>2, SubSeqProperties
<1>4. QED
    BY <1>1, <1>2, <1>3 DEF n

LEMMA SuffixAppends ==
    ASSUME NEW s \in Seq(Nat), NEW r \in Nat, NEW i \in 1 .. (Len(s) + 1)
    PROVE  SubSeq(Append(s, r), i, Len(s) + 1) = Append(SubSeq(s, i, Len(s)), r)
<1> DEFINE n == Len(s)
           t == Append(s, r)
<1>1. /\ n \in Nat /\ t \in Seq(Nat) /\ Len(t) = n + 1 /\ t[n + 1] = r
    BY LenProperties, AppendProperties
<1>2. t = s \o <<r>> /\ <<r>> \in Seq(Nat)
    BY AppendIsConcat
<1>3. SubSeq(s, i, n) \in Seq(Nat)
    BY SuffixType
<1> HIDE DEF n, t
<1>4. SubSeq(t, i, n + 1) = SubSeq(t, i, n) \o <<r>>
  <2>1. i \in 1 .. Len(t) /\ n + 1 \in i .. Len(t) /\ (n + 1) - 1 = n
      BY <1>1 DEF n
  <2>2. SubSeq(t, i, n + 1) = SubSeq(t, i, (n + 1) - 1) \o <<t[n + 1]>>
      BY <1>1, <2>1, SubSeqRecursiveSecond
  <2>3. QED
      BY <1>1, <2>1, <2>2
<1>5. SubSeq(t, i, n) = SubSeq(s, i, n)
  <2>1. CASE i = n + 1
    <3>1. i \in Int /\ n \in Int /\ n < i
        BY <1>1, <2>1
    <3>2. QED
        BY <3>1, SubSeqEmpty
  <2>2. CASE i # n + 1
    <3>1. i \in 1 .. Len(s) /\ n \in 1 .. Len(s)
        BY <1>1, <2>2 DEF n
    <3>2. QED
        BY <1>2, <3>1, SubSeqOfConcat1
  <2>3. QED
      BY <2>1, <2>2
<1>6. SubSeq(s, i, n) \o <<r>> = Append(SubSeq(s, i, n), r)
    BY <1>3, AppendIsConcat DEF n
<1>7. QED
    BY <1>4, <1>5, <1>6 DEF n, t

\* The rows from the i-th frame on.
RowsFrom(s, i) == SumFunction(SubSeq(s, i, Len(s)))

LEMMA RowsGrow ==
    ASSUME NEW s \in Seq(Nat), NEW r \in Nat, NEW i \in 1 .. (Len(s) + 1)
    PROVE  /\ RowsFrom(s, i) \in Nat
           /\ RowsFrom(Append(s, r), i) = RowsFrom(s, i) + r
<1>1. SubSeq(s, i, Len(s)) \in Seq(Nat)
    BY SuffixType
<1>2. Len(Append(s, r)) = Len(s) + 1
    BY AppendProperties
<1> DEFINE b == SubSeq(s, i, Len(s))
<1>3. RowsFrom(s, i) = SumFunction(b) /\ RowsFrom(Append(s, r), i) = SumFunction(Append(b, r))
    BY <1>2, SuffixAppends DEF RowsFrom
<1> HIDE DEF b
<1>4. SumFunction(b) \in Nat /\ SumFunction(Append(b, r)) = SumFunction(b) + r
    BY <1>1, SumAppends DEF b
<1>5. QED
    BY <1>3, <1>4

\* What BufferIsLongestSuffix says, of any frames and any buffer.
Longest(s, b) ==
    \E i \in 1 .. Len(s) :
        /\ b = SubSeq(s, i, Len(s))
        /\ i < Len(s) => RowsFrom(s, i) <= RETRAIN_LOG_BUFFER_MAX_ROWS
        /\ i > 1 => RowsFrom(s, i - 1) > RETRAIN_LOG_BUFFER_MAX_ROWS

\* The trimming loop leaves the longest run of the newest frames that fits.
LEMMA TrimmedIsLongest ==
    ASSUME NEW s \in Seq(Nat), s # << >>
    PROVE  Longest(s, Trimmed(s))
<1> DEFINE n == Len(s)
           Fits(i) == \/ i = n
                      \/ SumFunction(SubSeq(s, i, n)) <= RETRAIN_LOG_BUFFER_MAX_ROWS
           First(i) == Fits(i) /\ \A j \in 1 .. (i - 1) : ~Fits(j)
           T == {i \in 1 .. n : Fits(i)}
<1>1. n \in Nat \ {0}
    BY EmptySeq
<1>2. T \subseteq Nat /\ n \in T
    BY <1>1
<1>3. PICK x \in T : \A y \in T : x <= y
    BY <1>2, FirstOfPositions
<1>4. x \in 1 .. n /\ First(x)
  <2>1. x \in 1 .. n /\ Fits(x)
      BY <1>3
  <2>2. ASSUME NEW j \in 1 .. (x - 1), Fits(j) PROVE FALSE
    <3>1. j \in T /\ j < x
        BY <2>1, <2>2, <1>1
    <3>2. QED
        BY <3>1, <1>3, <2>1
  <2>3. QED
      BY <2>1, <2>2
<1> DEFINE first == CHOOSE i \in 1 .. n : First(i)
<1>5. first \in 1 .. n /\ First(first)
    BY <1>4
<1>6. Trimmed(s) = SubSeq(s, first, n)
    BY DEF Trimmed
<1> HIDE DEF first
<1>7. first < n => RowsFrom(s, first) <= RETRAIN_LOG_BUFFER_MAX_ROWS
    BY <1>1, <1>5 DEF RowsFrom
<1>8. ASSUME first > 1 PROVE RowsFrom(s, first - 1) > RETRAIN_LOG_BUFFER_MAX_ROWS
  <2>1. first - 1 \in 1 .. (first - 1) /\ first - 1 \in 1 .. (n + 1)
      BY <1>1, <1>5, <1>8
  <2>2. ~(RowsFrom(s, first - 1) <= RETRAIN_LOG_BUFFER_MAX_ROWS)
      BY <1>5, <2>1 DEF RowsFrom
  <2>3. RowsFrom(s, first - 1) \in Nat
      BY <2>1, RowsGrow
  <2>4. QED
      BY <2>2, <2>3, RetrainAssumption
<1>9. QED
    BY <1>5, <1>6, <1>7, <1>8 DEF Longest

\* A cycle appends its batch and trims: what was dropped in earlier cycles would not
\* fit now either.
LEMMA CycleKeepsLongest ==
    ASSUME NEW s \in Seq(Nat), NEW b \in Seq(Nat), NEW r \in Nat,
           Longest(s, b) \/ (s = << >> /\ b = << >>)
    PROVE  Longest(Append(s, r), Trimmed(Append(b, r)))
<1> DEFINE n == Len(s)
           t == Append(s, r)
           c == Append(b, r)
           l == Len(c)
<1>1. n \in Nat /\ t \in Seq(Nat) /\ Len(t) = n + 1
    BY LenProperties, AppendProperties
<1>2. PICK i \in 1 .. (n + 1) :
         /\ b = SubSeq(s, i, n)
         /\ i > 1 => RowsFrom(s, i - 1) > RETRAIN_LOG_BUFFER_MAX_ROWS
  <2>1. CASE Longest(s, b)
    <3>1. PICK i \in 1 .. n : /\ b = SubSeq(s, i, n)
                              /\ i > 1 => RowsFrom(s, i - 1) > RETRAIN_LOG_BUFFER_MAX_ROWS
        BY <2>1 DEF Longest
    <3>2. i \in 1 .. (n + 1)
        BY <1>1
    <3>3. QED
        BY <3>1, <3>2
  <2>2. CASE s = << >> /\ b = << >>
    <3>1. n = 0 /\ 1 \in 1 .. (n + 1)
        BY <2>2, EmptySeq
    <3>2. SubSeq(s, 1, n) = << >>
        BY <3>1, SubSeqEmpty
    <3>3. QED
        BY <2>2, <3>1, <3>2
  <2>3. QED
      BY <2>1, <2>2
<1>3. c = SubSeq(t, i, n + 1)
    BY <1>2, SuffixAppends
<1>4. c \in Seq(Nat) /\ c # << >> /\ l = n + 1 - i + 1
  <2>1. Len(b) = n - i + 1
      BY <1>2, SuffixType
  <2>2. c \in Seq(Nat) /\ l = Len(b) + 1 /\ Len(b) \in Nat
      BY AppendProperties, LenProperties
  <2>3. c # << >>
    <3> HIDE DEF c
    <3>1. QED
        BY <2>2, EmptySeq
  <2>4. QED
      BY <1>1, <2>1, <2>2, <2>3
<1>5. PICK j \in 1 .. l :
         /\ Trimmed(c) = SubSeq(c, j, l)
         /\ j < l => RowsFrom(c, j) <= RETRAIN_LOG_BUFFER_MAX_ROWS
         /\ j > 1 => RowsFrom(c, j - 1) > RETRAIN_LOG_BUFFER_MAX_ROWS
    BY <1>4, TrimmedIsLongest DEF Longest
<1> DEFINE p == i + j - 1
<1>6. p \in 1 .. (n + 1) /\ (p < n + 1 <=> j < l)
    BY <1>1, <1>4
<1> HIDE DEF n, t, c, l
<1>7. ASSUME NEW k \in 1 .. l PROVE SubSeq(c, k, l) = SubSeq(t, i + k - 1, n + 1)
  <2>1. /\ i \in 1 .. Len(t) /\ n + 1 \in 1 .. Len(t)
        /\ k \in 1 .. (n + 1) - i + 1 /\ l \in 1 .. (n + 1) - i + 1
        /\ i + l - 1 = n + 1
      BY <1>1, <1>4
  <2>2. SubSeq(SubSeq(t, i, n + 1), k, l) = SubSeq(t, i + k - 1, i + l - 1)
      BY <1>1, <2>1, SubSeqOfSubSeq
  <2>3. QED
      BY <1>3, <2>1, <2>2
<1>8. \A k \in 1 .. l : RowsFrom(c, k) = RowsFrom(t, i + k - 1)
    BY <1>1, <1>7 DEF RowsFrom, l
<1>9. Trimmed(c) = SubSeq(t, p, n + 1)
    BY <1>5, <1>7
<1>10. p < n + 1 => RowsFrom(t, p) <= RETRAIN_LOG_BUFFER_MAX_ROWS
    BY <1>5, <1>6, <1>8
<1>11. ASSUME p > 1 PROVE RowsFrom(t, p - 1) > RETRAIN_LOG_BUFFER_MAX_ROWS
  <2>1. CASE j > 1
    <3>1. j - 1 \in 1 .. l /\ i + (j - 1) - 1 = p - 1
        BY <1>1, <1>4, <2>1
    <3>2. QED
        BY <1>5, <1>8, <2>1, <3>1
  <2>2. CASE j = 1
    <3>1. i > 1 /\ i - 1 \in 1 .. (n + 1) /\ p - 1 = i - 1
        BY <1>1, <1>11, <2>2
    <3>2. RowsFrom(s, i - 1) \in Nat /\ RowsFrom(t, i - 1) = RowsFrom(s, i - 1) + r
        BY <3>1, RowsGrow DEF n, t
    <3>3. QED
        BY <1>2, <3>1, <3>2, RetrainAssumption
  <2>3. QED
      BY <1>4, <2>1, <2>2
<1>12. QED
    BY <1>1, <1>6, <1>9, <1>10, <1>11 DEF Longest, c, t

-----------------------------------------------------------------------------
(* The invariant, over the operations of the cycle's tail and of the task. *)

LEMMA RetrainInitOK == RetrainInit => RetrainTypeOK /\ OneRetrainAtATime
<1> SUFFICES ASSUME RetrainInit PROVE RetrainTypeOK /\ OneRetrainAtATime
    OBVIOUS
<1>1. buffer \in Seq(Nat)
    BY DEF RetrainInit
<1>2. cyclePhase \in 0 .. RETRAIN_EVERY
    BY RetrainAssumption DEF RetrainInit
<1>3. retraining = FALSE /\ training = 0 /\ registering = 0
    BY DEF RetrainInit
<1>4. (IF retraining THEN 1 ELSE 0) = 0
    BY <1>3
<1>5. OneRetrainAtATime
  <2>1. training + registering = 0
      BY <1>3
  <2>2. QED
      BY <2>1, <1>4, Zenon DEF OneRetrainAtATime
<1>6. retraining \in BOOLEAN /\ training \in Nat /\ registering \in Nat
    BY <1>3
<1>7. QED
    BY <1>1, <1>2, <1>5, <1>6, Zenon DEF RetrainTypeOK

\* The trimmed buffer of a cycle is one of frames.
LEMMA BufferType ==
    ASSUME buffer \in Seq(Nat), NEW rows \in Nat, EndCycle(rows)
    PROVE  buffer' \in Seq(Nat)
<1> DEFINE frames == Append(buffer, rows)
<1>1. frames \in Seq(Nat) /\ frames # << >>
    BY AppendProperties
<1>2. PICK i \in 1 .. Len(frames) : Trimmed(frames) = SubSeq(frames, i, Len(frames))
    BY <1>1, TrimmedIsLongest DEF Longest
<1> HIDE DEF frames
<1>3. SubSeq(frames, i, Len(frames)) \in Seq(Nat)
    BY <1>1, <1>2, SuffixType
<1>4. QED
    BY <1>2, <1>3 DEF EndCycle, frames

\* The tail of a cycle starts a task only when none is alive.
LEMMA EndCycleOK ==
    ASSUME RetrainTypeOK, OneRetrainAtATime, NEW rows \in Nat, EndCycle(rows)
    PROVE  RetrainTypeOK' /\ OneRetrainAtATime'
<1>1. buffer' \in Seq(Nat)
    BY BufferType DEF RetrainTypeOK
<1>2. cyclePhase' \in 0 .. RETRAIN_EVERY
    BY RetrainAssumption DEF EndCycle, NextPhase, RetrainTypeOK
<1>3. CASE RetrainDue
  <2>1. /\ retraining = FALSE /\ retraining' = TRUE /\ training' = training + 1
        /\ registering' = registering
      BY <1>3 DEF EndCycle, RetrainDue, RetrainTypeOK
  <2>2. QED
      BY <1>1, <1>2, <2>1 DEF RetrainTypeOK, OneRetrainAtATime
<1>4. CASE ~RetrainDue
  <2>1. UNCHANGED <<retraining, training, registering>>
      BY <1>4 DEF EndCycle
  <2>2. QED
      BY <1>1, <1>2, <2>1 DEF RetrainTypeOK, OneRetrainAtATime
<1>5. QED
    BY <1>3, <1>4

\* The task gives the flag back when it is over, and not before.
LEMMA RetrainTaskOK ==
    ASSUME RetrainTypeOK, OneRetrainAtATime,
           RetrainTaskStep \/ RetrainRestart \/ UNCHANGED retrainVars
    PROVE  RetrainTypeOK' /\ OneRetrainAtATime'
<1>1. CASE RetrainRestart
  <2>1. /\ buffer' = << >> /\ cyclePhase' = 0 /\ ~retraining' /\ retraining' \in BOOLEAN
        /\ training' = 0 /\ registering' = 0
      BY <1>1, Zenon DEF RetrainRestart
  <2>2. (IF retraining' THEN 1 ELSE 0) = 0
      BY <2>1
  <2>3. training' \in Nat /\ registering' \in Nat /\ training' + registering' = 0
      BY <2>1
  <2>4. buffer' \in Seq(Nat) /\ cyclePhase' \in 0 .. RETRAIN_EVERY
      BY <2>1, RetrainAssumption
  <2>5. QED
      BY <2>1, <2>2, <2>3, <2>4, Zenon DEF RetrainTypeOK, OneRetrainAtATime
<1>2. CASE Trained
    BY <1>2 DEF Trained, RetrainTypeOK, OneRetrainAtATime
<1>3. CASE Registered \/ TrainingFailed
  <2>1. retraining = TRUE /\ training + registering = 1
      BY <1>3 DEF Registered, TrainingFailed, RetrainTypeOK, OneRetrainAtATime
  <2>2. /\ retraining' = FALSE /\ training' + registering' = 0
        /\ training' \in Nat /\ registering' \in Nat
        /\ UNCHANGED <<buffer, cyclePhase>>
      BY <1>3, <2>1 DEF Registered, TrainingFailed, RetrainTypeOK
  <2>3. (IF retraining' THEN 1 ELSE 0) = 0
      BY <2>2
  <2>4. OneRetrainAtATime'
      BY <2>2, <2>3, Zenon DEF OneRetrainAtATime
  <2>5. QED
      BY <2>2, <2>4, Zenon DEF RetrainTypeOK
<1>4. CASE UNCHANGED retrainVars
    BY <1>4 DEF retrainVars, RetrainTypeOK, OneRetrainAtATime
<1>5. QED
    BY <1>1, <1>2, <1>3, <1>4 DEF RetrainTaskStep
=============================================================================
