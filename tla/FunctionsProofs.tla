---------------------------- MODULE FunctionsProofs ----------------------------
(***************************************************************************)
(* Proofs about the functions of MCFunctions, for inputs of any length.    *)
(* A loop of the code is a fold, and so are a filter and a sum: what they  *)
(* leave is proved by the induction of FoldFacts over their turns.         *)
(***************************************************************************)
EXTENDS MCFunctions, SequenceTheorems, FiniteSetTheorems, TLAPS

-----------------------------------------------------------------------------
(* Inserting logs: one row.                                                *)

\* The state of _bulk_insert_sync: a table of rows of R, and the counts.
States(R) ==
    [table : Seq(R), persisted : Nat, duplicates : Nat, rejected : Nat, raised : BOOLEAN]

Attempted(s) == s.persisted + s.duplicates + s.rejected

Landed(s) == s.persisted + s.duplicates

\* A row is in a table, or a row with its LOG_ID is.
Stored(table, r) ==
    \E k \in DOMAIN table : \/ table[k] = r
                            \/ r.log_id # NoValue /\ table[k].log_id = r.log_id

OncePerId(table) ==
    \A i, j \in DOMAIN table :
        i # j => table[i].log_id = NoValue \/ table[i].log_id # table[j].log_id

Keeps(t, u) == Len(t) <= Len(u) /\ \A i \in 1 .. Len(t) : u[i] = t[i]

\* The unique index has the row's LOG_ID.
Indexed(table, r) ==
    r.log_id # NoValue /\ \E i \in DOMAIN table : table[i].log_id = r.log_id

\* A table that a row is appended to keeps what it has, and has the row.
LEMMA AppendKeeps ==
    ASSUME NEW R, NEW t \in Seq(R), NEW r \in R
    PROVE  /\ Append(t, r) \in Seq(R)
           /\ Keeps(t, Append(t, r))
           /\ Stored(Append(t, r), r)
           /\ OncePerId(t) /\ ~Indexed(t, r)
                 => OncePerId(Append(t, r))
<1> DEFINE n == Len(t)
           u == Append(t, r)
<1>1. /\ u \in Seq(R) /\ Len(u) = n + 1 /\ n \in Nat
      /\ \A i \in 1 .. n : u[i] = t[i]
      /\ u[n + 1] = r
      /\ DOMAIN t = 1 .. n /\ DOMAIN u = 1 .. (n + 1)
    BY AppendProperties, LenProperties
<1> HIDE DEF n, u
<1>2. Keeps(t, u)
    BY <1>1 DEF Keeps, n
<1>3. n + 1 \in DOMAIN u
    BY <1>1
<1>4. Stored(u, r)
    BY <1>1, <1>3 DEF Stored
<1>5. ASSUME OncePerId(t), ~Indexed(t, r),
             NEW i \in DOMAIN u, NEW j \in DOMAIN u, i # j
      PROVE  u[i].log_id = NoValue \/ u[i].log_id # u[j].log_id
  <2>1. \A x \in DOMAIN u : x \in DOMAIN t \/ x = n + 1
      BY <1>1
  <2>2. \A x \in DOMAIN t : u[x] = t[x]
      BY <1>1
  <2>3. CASE i \in DOMAIN t /\ j \in DOMAIN t
      BY <1>5, <2>2, <2>3 DEF OncePerId
  <2>4. CASE i = n + 1 /\ j \in DOMAIN t
      BY <1>1, <1>5, <2>2, <2>4 DEF Indexed
  <2>5. CASE i \in DOMAIN t /\ j = n + 1
      BY <1>1, <1>5, <2>2, <2>5 DEF Indexed
  <2>6. QED
      BY <1>5, <2>1, <2>3, <2>4, <2>5
<1>6. QED
    BY <1>1, <1>2, <1>4, <1>5 DEF OncePerId, u

\* What the fallback does with a row, by what the database says.
LEMMA ExecuteRowLands ==
    ASSUME NEW R, NEW s \in States(R), NEW r \in R, r.accepted \in BOOLEAN, OncePerId(s.table),
           NEW t, t = ExecuteRow(s, r)
    PROVE  /\ t \in States(R) /\ OncePerId(t.table) /\ Keeps(s.table, t.table)
           /\ t.raised = s.raised
           /\ Attempted(t) = Attempted(s) + 1
           /\ r.accepted => Stored(t.table, r) /\ Landed(t) = Landed(s) + 1
           /\ ~r.accepted => Landed(t) = Landed(s)
<1>1. /\ s.table \in Seq(R) /\ s.persisted \in Nat /\ s.duplicates \in Nat
      /\ s.rejected \in Nat /\ s.raised \in BOOLEAN
    BY DEF States
<1>2. Keeps(s.table, s.table)
    BY <1>1, LenProperties DEF Keeps
<1>3. CASE ~r.accepted
  <2> DEFINE n == s.rejected + 1
  <2>1. t = [s EXCEPT !.rejected = n, !.table = s.table] 
      BY <1>3 DEF ExecuteRow, Outcome
  <2>0. n \in Nat
      BY <1>1
  <2> HIDE DEF n
  <2>2. /\ t \in States(R) /\ t.table = s.table /\ t.raised = s.raised
        /\ t.rejected = n /\ t.persisted = s.persisted /\ t.duplicates = s.duplicates
      BY <1>1, <2>0, <2>1 DEF States
  <2>3. Attempted(t) = Attempted(s) + 1
    <3>1. t.rejected = s.rejected + 1
        BY <2>2 DEF n
    <3>2. Attempted(t) = s.persisted + s.duplicates + (s.rejected + 1)
        BY <2>2, <3>1 DEF Attempted
    <3>3. QED
        BY <1>1, <3>2 DEF Attempted
  <2>4. Landed(t) = Landed(s)
      BY <1>1, <2>2 DEF Landed
  <2>5. QED
      BY <1>2, <1>3, <2>2, <2>3, <2>4
<1>4. CASE r.accepted /\ Indexed(s.table, r)
  <2> DEFINE n == s.duplicates + 1
  <2>1. t = [s EXCEPT !.duplicates = n, !.table = s.table] 
      BY <1>4 DEF ExecuteRow, Outcome, Indexed
  <2>0. n \in Nat
      BY <1>1
  <2> HIDE DEF n
  <2>2. /\ t \in States(R) /\ t.table = s.table /\ t.raised = s.raised
        /\ t.duplicates = n /\ t.persisted = s.persisted /\ t.rejected = s.rejected
      BY <1>1, <2>0, <2>1 DEF States
  <2>3. Stored(s.table, r)
      BY <1>4 DEF Stored, Indexed
  <2>4. Attempted(t) = Attempted(s) + 1 /\ Landed(t) = Landed(s) + 1
      BY <1>1, <2>2 DEF Attempted, Landed, n
  <2>5. QED
      BY <1>2, <1>4, <2>2, <2>3, <2>4
<1>5. CASE r.accepted /\ ~Indexed(s.table, r)
  <2> DEFINE n == s.persisted + 1
             u == Append(s.table, r)
  <2>1. t = [s EXCEPT !.persisted = n, !.table = u] 
      BY <1>5 DEF ExecuteRow, Outcome, Indexed
  <2>0. n \in Nat
      BY <1>1
  <2>2. u \in Seq(R) /\ Keeps(s.table, u) /\ Stored(u, r) /\ OncePerId(u)
      BY <1>1, <1>5, AppendKeeps
  <2> HIDE DEF n, u
  <2>3. /\ t \in States(R) /\ t.table = u /\ t.raised = s.raised
        /\ t.persisted = n /\ t.duplicates = s.duplicates /\ t.rejected = s.rejected
      BY <2>0, <2>1, <2>2 DEF States
  <2>4. Attempted(t) = Attempted(s) + 1 /\ Landed(t) = Landed(s) + 1
      BY <1>1, <2>3 DEF Attempted, Landed, n
  <2>5. QED
      BY <1>5, <2>2, <2>3, <2>4
<1>6. QED
    BY <1>3, <1>4, <1>5

\* A table that keeps what another one has keeps the rows stored in it.
LEMMA KeptStaysStored ==
    ASSUME NEW R, NEW t \in Seq(R), NEW u \in Seq(R), Keeps(t, u)
    PROVE  \A r : Stored(t, r) => Stored(u, r)
<1>1. DOMAIN t = 1 .. Len(t) /\ DOMAIN u = 1 .. Len(u) /\ Len(t) \in Nat /\ Len(u) \in Nat
    BY LenProperties
<1>2. \A k \in DOMAIN t : k \in DOMAIN u /\ u[k] = t[k]
    BY <1>1 DEF Keeps
<1>3. QED
    BY <1>2 DEF Stored

\* Keeping is transitive.
LEMMA KeepsTwice ==
    ASSUME NEW R, NEW t \in Seq(R), NEW u \in Seq(R), NEW v \in Seq(R), Keeps(t, u), Keeps(u, v)
    PROVE  Keeps(t, v)
<1>1. Len(t) \in Nat /\ Len(u) \in Nat /\ Len(v) \in Nat
    BY LenProperties
<1>2. QED
    BY <1>1 DEF Keeps

-----------------------------------------------------------------------------
(* The row-by-row loop.                                                    *)

\* What n rows of a sequence have come to, from a state s of the insert to a state t:
\* each is counted once, and those that the database takes have landed.
Inserted(R, s, rows, n, t) ==
    /\ t \in States(R) /\ OncePerId(t.table) /\ Keeps(s.table, t.table)
    /\ t.raised = s.raised
    /\ Attempted(t) = Attempted(s) + n
    /\ Landed(t) >= Landed(s)
    /\ \A i \in 1 .. n :
          rows[i].accepted => Stored(t.table, rows[i]) /\ Landed(t) > Landed(s)

RowInv(c, n, t) == Inserted(c.rowset, c.start, c.rows, n, t)

RowOp(p, s, r) == ExecuteRow(s, r)

RowLoop == INSTANCE FoldFacts WITH Op <- RowOp, Inv <- RowInv

Rowset(R) == \A r \in R : r.accepted \in BOOLEAN

\* The counts of an insert are numbers.
LEMMA StatesAreTyped ==
    ASSUME NEW R, NEW s \in States(R)
    PROVE  s.table \in Seq(R) /\ Landed(s) \in Nat /\ Attempted(s) \in Nat
<1>1. s.table \in Seq(R) /\ s.persisted \in Nat /\ s.duplicates \in Nat /\ s.rejected \in Nat
    BY DEF States
<1>2. Landed(s) = s.persisted + s.duplicates
    BY ONLY DEF Landed
<1>3. Attempted(s) = s.persisted + s.duplicates + s.rejected
    BY ONLY DEF Attempted
<1>4. QED
    BY ONLY <1>1, <1>2, <1>3

\* Before the first row nothing has come of the rows.
LEMMA NothingInserted ==
    ASSUME NEW R, NEW s \in States(R), OncePerId(s.table), NEW rows
    PROVE  Inserted(R, s, rows, 0, s)
<1>1. /\ s.table \in Seq(R) /\ s.persisted \in Nat /\ s.duplicates \in Nat
      /\ s.rejected \in Nat
    BY DEF States
<1>2. Keeps(s.table, s.table)
    BY <1>1, LenProperties DEF Keeps
<1>3. Attempted(s) = Attempted(s) + 0 /\ Landed(s) >= Landed(s)
    BY <1>1 DEF Attempted, Landed
<1>4. QED
    BY <1>2, <1>3 DEF Inserted

\* The row-by-row loop accounts for each of its rows.
LEMMA LoopInserts ==
    ASSUME NEW R, Rowset(R), NEW s \in States(R), OncePerId(s.table), NEW rows \in Seq(R)
    PROVE  Inserted(R, s, rows, Len(rows), FoldLeft(ExecuteRow, s, rows))
<1> DEFINE c == [rowset |-> R, start |-> s, rows |-> rows]
           n == Len(rows)
<1>1. n \in Nat /\ DOMAIN rows = 1 .. n
    BY LenProperties
<1>2. \A k, t : RowInv(c, k, t) <=> Inserted(R, s, rows, k, t)
    BY DEF RowInv
<1>3. RowInv(c, 0, s)
    BY <1>2, NothingInserted
<1>4. ASSUME NEW k \in 1 .. n, NEW t, RowInv(c, k - 1, t)
      PROVE  RowInv(c, k, ExecuteRow(t, rows[k]))
  <2> DEFINE u == ExecuteRow(t, rows[k])
  <2>1. Inserted(R, s, rows, k - 1, t)
      BY <1>2, <1>4
  <2>2. t \in States(R) /\ OncePerId(t.table) /\ Keeps(s.table, t.table)
      BY <2>1 DEF Inserted
  <2>3. rows[k] \in R /\ rows[k].accepted \in BOOLEAN
      BY <1>1, ElementOfSeq DEF Rowset
  <2>4. /\ u \in States(R) /\ OncePerId(u.table) /\ Keeps(t.table, u.table)
        /\ u.raised = t.raised
        /\ Attempted(u) = Attempted(t) + 1
        /\ rows[k].accepted => Stored(u.table, rows[k]) /\ Landed(u) = Landed(t) + 1
        /\ ~rows[k].accepted => Landed(u) = Landed(t)
      BY <2>2, <2>3, ExecuteRowLands
  <2> HIDE DEF u
  <2>5. /\ s.table \in Seq(R) /\ t.table \in Seq(R) /\ u.table \in Seq(R)
        /\ Landed(s) \in Nat /\ Landed(t) \in Nat /\ Landed(u) \in Nat /\ Attempted(s) \in Nat
      BY <2>2, <2>4, StatesAreTyped
  <2>6. Keeps(s.table, u.table)
      BY <2>2, <2>4, <2>5, KeepsTwice
  <2>7. Attempted(u) = Attempted(s) + k /\ u.raised = s.raised
    <3>1. Attempted(t) = Attempted(s) + (k - 1) /\ t.raised = s.raised
        BY <2>1 DEF Inserted
    <3>2. QED
        BY <1>1, <2>4, <2>5, <3>1
  <2>8. Landed(u) >= Landed(t) /\ Landed(t) >= Landed(s)
    <3>1. Landed(t) >= Landed(s)
        BY <2>1 DEF Inserted
    <3>2. QED
        BY <2>3, <2>4, <2>5, <3>1
  <2>9. ASSUME NEW i \in 1 .. k, rows[i].accepted
        PROVE  Stored(u.table, rows[i]) /\ Landed(u) > Landed(s)
    <3>1. CASE i = k
        BY <2>4, <2>5, <2>8, <2>9, <3>1
    <3>2. CASE i # k
      <4>1. i \in 1 .. (k - 1)
          BY <1>1, <3>2
      <4>2. Stored(t.table, rows[i]) /\ Landed(t) > Landed(s)
          BY <2>1, <2>9, <4>1 DEF Inserted
      <4>3. Stored(u.table, rows[i])
          BY <2>4, <2>5, <4>2, KeptStaysStored
      <4>4. QED
          BY <2>5, <2>8, <4>2, <4>3
    <3>3. QED
        BY <3>1, <3>2
  <2>10. Landed(u) >= Landed(s)
      BY <2>5, <2>8
  <2>11. Inserted(R, s, rows, k, u)
      BY <2>4, <2>6, <2>7, <2>9, <2>10 DEF Inserted
  <2>12. QED
      BY <1>2, <2>11 DEF u
<1> HIDE DEF c
<1>5. \A k \in 1 .. n : \A t : RowInv(c, k - 1, t) => RowInv(c, k, RowOp({}, t, rows[k]))
    BY <1>4 DEF RowOp
<1> HIDE DEF n
<1>6. RowInv(c, n, RowLoop!Fold({}, s, rows))
    BY <1>1, <1>3, <1>5, RowLoop!FoldKeeps
<1>7. FoldLeft(ExecuteRow, s, rows) = RowLoop!Fold({}, s, rows)
    BY DEF RowLoop!Fold, RowLoop!FoldLeft, RowLoop!MapThenFoldSet, RowLoop!Max,
           RowOp, FoldLeft, MapThenFoldSet, Max
<1>8. QED
    BY <1>2, <1>6, <1>7 DEF n

-----------------------------------------------------------------------------
(* The chunks.                                                             *)

\* A non-empty set of positions has a largest one, which is Max of it.
LEMMA LargestOf ==
    ASSUME NEW n \in Nat, NEW s \in SUBSET (0 .. n), s # {}
    PROVE  Max(s) \in s /\ \A x \in s : x <= Max(s)
<1>1. RowLoop!Max(s) \in s /\ \A x \in s : x <= RowLoop!Max(s)
    BY RowLoop!LargestPosition
<1>2. RowLoop!Max(s) = Max(s)
    BY DEF RowLoop!Max, Max
<1>3. QED
    BY <1>1, <1>2

\* Wherever executemany stopped, and whether or not the driver kept the rows before,
\* every row of the chunk is accounted for once.
LEMMA ChunkInserts ==
    ASSUME NEW R, Rowset(R), NEW s \in States(R), OncePerId(s.table), NEW chunk \in Seq(R),
           NEW partial \in BOOLEAN
    PROVE  Inserted(R, s, chunk, Len(chunk), InsertChunk(s, chunk, partial))
<1> DEFINE n == Len(chunk)
           Good(m) == \A j \in 1 .. m :
               Outcome(FoldLeft(ExecuteRow, s, SubSeq(chunk, 1, j - 1)).table, chunk[j])
                 = "persisted"
           before == Max({m \in 0 .. n : Good(m)})
           stored == SubSeq(chunk, 1, before)
           left == FoldLeft(ExecuteRow, s, stored).table
           base == IF partial THEN [s EXCEPT !.table = left] ELSE s
<1>1. n \in Nat
    BY LenProperties
<1>2. before \in 0 .. n
  <2>1. 0 \in {m \in 0 .. n : Good(m)}
      BY <1>1
  <2> HIDE DEF Good
  <2>2. QED
      BY <1>1, <2>1, LargestOf
<1>3. InsertChunk(s, chunk, partial) =
         IF before = n THEN FoldLeft(ExecuteRow, s, chunk)
                       ELSE FoldLeft(ExecuteRow, base, chunk)
    BY DEF InsertChunk, Fallback
<1> HIDE DEF Good, before
<1>4. stored \in Seq(R)
    BY <1>2, SubSeqProperties
<1>5. left \in Seq(R) /\ OncePerId(left) /\ Keeps(s.table, left)
  <2> HIDE DEF stored
  <2>1. Inserted(R, s, stored, Len(stored), FoldLeft(ExecuteRow, s, stored))
      BY <1>4, LoopInserts
  <2> DEFINE t == FoldLeft(ExecuteRow, s, stored)
  <2>2. t \in States(R) /\ OncePerId(t.table) /\ Keeps(s.table, t.table)
      BY <2>1 DEF Inserted
  <2>3. QED
      BY <2>2, StatesAreTyped
<1> HIDE DEF left
<1>6. /\ base \in States(R) /\ OncePerId(base.table) /\ Keeps(s.table, base.table)
      /\ base.raised = s.raised /\ base.persisted = s.persisted
      /\ base.duplicates = s.duplicates /\ base.rejected = s.rejected
  <2>1. CASE partial
    <3>1. base = [s EXCEPT !.table = left]
        BY <2>1
    <3>2. /\ base \in States(R) /\ base.table = left
          /\ base.raised = s.raised /\ base.persisted = s.persisted
          /\ base.duplicates = s.duplicates /\ base.rejected = s.rejected
        BY <1>5, <3>1 DEF States
    <3>3. QED
        BY <1>5, <3>2
  <2>2. CASE ~partial
    <3>1. s.table \in Seq(R)
        BY StatesAreTyped
    <3>2. Keeps(s.table, s.table)
        BY <3>1, LenProperties DEF Keeps
    <3>3. QED
        BY <2>2, <3>2
  <2>3. QED
      BY <2>1, <2>2
<1> HIDE DEF base
<1>7. Inserted(R, s, chunk, n, FoldLeft(ExecuteRow, s, chunk))
    BY LoopInserts
<1> DEFINE t == FoldLeft(ExecuteRow, base, chunk)
<1>8. Inserted(R, base, chunk, n, t)
    BY <1>6, LoopInserts
<1> HIDE DEF t
<1>9. Landed(base) = Landed(s) /\ Attempted(base) = Attempted(s)
    BY <1>6 DEF Landed, Attempted
<1>10. t \in States(R) /\ Keeps(base.table, t.table)
    BY <1>8 DEF Inserted
<1>11. Keeps(s.table, t.table)
  <2>1. s.table \in Seq(R) /\ base.table \in Seq(R) /\ t.table \in Seq(R)
      BY <1>6, <1>10, StatesAreTyped
  <2>2. QED
      BY <1>6, <1>10, <2>1, KeepsTwice
<1>12. Inserted(R, s, chunk, n, t)
    BY <1>6, <1>8, <1>9, <1>11 DEF Inserted
<1>13. QED
    BY <1>3, <1>7, <1>12 DEF t

B == LOG_INSERT_BATCH_SIZE

\* How many rows of n the first k chunks hold.
UpTo(n, k) == IF k * B <= n THEN k * B ELSE n

Beginnings(n) == {k \in 0 .. n : (k - 1) * B < n}

\* What the provers need to know of multiples of the chunk size.
LEMMA Multiples ==
    ASSUME NEW k \in Nat
    PROVE  /\ B \in Nat /\ B >= 1 /\ k * B \in Nat /\ k <= k * B
           /\ (k + 1) * B = k * B + B /\ ((k + 1) - 1) * B = k * B
<1>1. B \in Nat /\ B >= 1
    BY RepositoriesAssumption DEF B
<1>2. k * B \in Nat /\ k <= k * B /\ (k + 1) * B = k * B + B
    BY <1>1
<1>3. (k + 1) - 1 = k
    OBVIOUS
<1>4. QED
    BY <1>1, <1>2, <1>3

\* The last chunk begins before the end of the rows and reaches it.
LEMMA LastBeginning ==
    ASSUME NEW n \in Nat
    PROVE  LET last == Max(Beginnings(n))
           IN  /\ last \in 0 .. n
               /\ UpTo(n, last) = n
               /\ \A k \in 1 .. last : (k - 1) * B < n
<1> DEFINE last == Max(Beginnings(n))
<1>1. 0 \in Beginnings(n)
  <2>1. B \in Nat /\ B >= 1
      BY RepositoriesAssumption DEF B
  <2>2. (0 - 1) * B < n
      BY <2>1
  <2>3. QED
      BY <2>2 DEF Beginnings
<1>2. last \in Beginnings(n) /\ \A k \in Beginnings(n) : k <= last
    BY <1>1, LargestOf DEF Beginnings
<1> HIDE DEF last
<1>3. last \in 0 .. n /\ (last - 1) * B < n
    BY <1>2 DEF Beginnings
<1>4. UpTo(n, last) = n
  <2> SUFFICES ASSUME last * B < n PROVE FALSE
    <3>1. last * B \in Nat
        BY <1>3, Multiples
    <3>2. QED
        BY <3>1 DEF UpTo
  <2>1. last + 1 \in 0 .. n /\ ((last + 1) - 1) * B < n
    <3>1. last <= last * B /\ last * B \in Nat /\ ((last + 1) - 1) * B = last * B
        BY <1>3, Multiples
    <3>2. QED
        BY <1>3, <3>1
  <2>2. last + 1 <= last
      BY <1>2, <2>1 DEF Beginnings
  <2>3. QED
      BY <1>3, <2>2
<1>5. ASSUME NEW k \in 1 .. last PROVE (k - 1) * B < n
  <2>1. k \in Nat /\ last \in Nat /\ k - 1 \in Nat /\ last - 1 \in Nat /\ k - 1 <= last - 1
      BY <1>3
  <2>2. B \in Nat
      BY RepositoriesAssumption DEF B
  <2>3. \A a, b \in Nat : a <= b => a * B <= b * B
      BY <2>2
  <2>4. (k - 1) * B <= (last - 1) * B /\ (k - 1) * B \in Nat /\ (last - 1) * B \in Nat
      BY <2>1, <2>2, <2>3
  <2>5. QED
      BY <1>3, <2>4
<1>6. QED
    BY <1>3, <1>4, <1>5 DEF last

\* A chunk ends where its size or the rows end.
LEMMA ChunkEnds ==
    ASSUME NEW n \in Nat, NEW k \in Nat
    PROVE  Min({n, k * B}) = UpTo(n, k) /\ UpTo(n, k) \in 0 .. n
<1>1. k * B \in Nat
    BY Multiples
<1> DEFINE m == k * B
<1> HIDE DEF m
<1>2. CASE m <= n
  <2>1. Min({n, m}) = m
      BY <1>1, <1>2 DEF Min, m
  <2>2. QED
      BY <1>1, <1>2, <2>1 DEF UpTo, m
<1>3. CASE ~(m <= n)
  <2>1. Min({n, m}) = n
      BY <1>1, <1>3 DEF Min, m
  <2>2. QED
      BY <1>1, <1>3, <2>1 DEF UpTo, m
<1>4. QED
    BY <1>2, <1>3

\* n rows in `last` chunks, which follow each other and together are the rows.
Split(R, rows, n, last) ==
    /\ n \in Nat /\ last \in Nat
    /\ DOMAIN Chunks(rows) = 1 .. last
    /\ UpTo(n, 0) = 0 /\ UpTo(n, last) = n
    /\ \A k \in 1 .. last :
          /\ Chunks(rows)[k] \in Seq(R)
          /\ UpTo(n, k - 1) \in 0 .. n /\ UpTo(n, k) \in 0 .. n
          /\ Len(Chunks(rows)[k]) = UpTo(n, k) - UpTo(n, k - 1)
          /\ \A i \in 1 .. Len(Chunks(rows)[k]) :
                Chunks(rows)[k][i] = rows[UpTo(n, k - 1) + i]

\* The chunks of some rows follow each other and together are the rows.
LEMMA ChunksSplit ==
    ASSUME NEW R, NEW rows \in Seq(R)
    PROVE  Split(R, rows, Len(rows), Max(Beginnings(Len(rows))))
<1> DEFINE n == Len(rows)
           last == Max(Beginnings(n))
<1>1. n \in Nat
    BY LenProperties
<1>0. n = Len(rows)
    OBVIOUS
<1>2. /\ last \in 0 .. n /\ UpTo(n, last) = n
      /\ \A k \in 1 .. last : (k - 1) * B < n
    BY <1>1, LastBeginning
<1>3. UpTo(n, 0) = 0
  <2>1. B \in Nat
      BY RepositoriesAssumption DEF B
  <2>2. QED
      BY <1>1, <2>1 DEF UpTo
<1>4. Chunks(rows) = [k \in 1 .. last |-> SubSeq(rows, (k - 1) * B + 1, Min({n, k * B}))]
    BY DEF Chunks, Beginnings, B
<1> HIDE DEF n, last
<1>5. ASSUME NEW k \in 1 .. last
      PROVE  /\ Chunks(rows)[k] \in Seq(R)
             /\ UpTo(n, k - 1) \in 0 .. n /\ UpTo(n, k) \in 0 .. n
             /\ Len(Chunks(rows)[k]) = UpTo(n, k) - UpTo(n, k - 1)
             /\ \A i \in 1 .. Len(Chunks(rows)[k]) :
                   Chunks(rows)[k][i] = rows[UpTo(n, k - 1) + i]
  <2> DEFINE lo == UpTo(n, k - 1)
             hi == UpTo(n, k)
             chunk == Chunks(rows)[k]
  <2>1. k \in Nat /\ k - 1 \in Nat
      BY <1>2
  <2>2. lo \in 0 .. n /\ hi \in 0 .. n /\ Min({n, k * B}) = hi
      BY <1>1, <2>1, ChunkEnds
  <2>3. (k - 1) * B < n /\ (k - 1) * B \in Nat /\ k * B = (k - 1) * B + B /\ B \in Nat
    <3>1. (k - 1) + 1 = k
        BY <2>1
    <3>2. QED
        BY <1>2, <2>1, <3>1, Multiples
  <2>4. lo = (k - 1) * B /\ lo <= hi
    <3>1. lo = (k - 1) * B
        BY <1>1, <2>3 DEF UpTo
    <3>2. hi = IF lo + B <= n THEN lo + B ELSE n
        BY <2>3, <3>1 DEF UpTo
    <3> HIDE DEF lo, hi
    <3>3. QED
        BY <1>1, <2>2, <2>3, <3>1, <3>2
  <2>5. chunk = SubSeq(rows, lo + 1, hi)
      BY <1>4, <2>2, <2>4
  <2> HIDE DEF lo, hi, chunk
  <2>6. lo + 1 \in 1 .. Len(rows) + 1 /\ hi \in (lo + 1) - 1 .. Len(rows)
      BY <1>0, <1>1, <2>2, <2>4
  <2>7. /\ chunk \in Seq(R) /\ Len(chunk) = hi - (lo + 1) + 1
        /\ \A i \in 1 .. hi - (lo + 1) + 1 : chunk[i] = rows[(lo + 1) + i - 1]
      BY <2>5, <2>6, SubSeqProperties
  <2>8. Len(chunk) = hi - lo
      BY <2>2, <2>7
  <2>9. \A i \in 1 .. Len(chunk) : chunk[i] = rows[lo + i]
    <3>1. \A i \in 1 .. Len(chunk) : (lo + 1) + i - 1 = lo + i
        BY <2>2
    <3>2. QED
        BY <2>7, <3>1
  <2>10. QED
      BY <2>2, <2>7, <2>8, <2>9 DEF lo, hi, chunk
<1>6. last \in Nat /\ DOMAIN Chunks(rows) = 1 .. last
    BY <1>2, <1>4
<1>7. QED
    BY <1>1, <1>2, <1>3, <1>5, <1>6 DEF Split, n, last

-----------------------------------------------------------------------------
(* The loop over the chunks.                                               *)

\* What m rows and then a chunk of those that follow have come to.
LEMMA InsertedTwice ==
    ASSUME NEW R, NEW rows \in Seq(R), NEW chunk \in Seq(R), NEW m \in Nat,
           \A i \in 1 .. Len(chunk) : chunk[i] = rows[m + i],
           NEW s \in States(R), NEW t, NEW u,
           Inserted(R, s, rows, m, t), Inserted(R, t, chunk, Len(chunk), u)
    PROVE  Inserted(R, s, rows, m + Len(chunk), u)
<1> DEFINE n == Len(chunk)
<1>1. n \in Nat
    BY LenProperties
<1> HIDE DEF n
<1>2. /\ t \in States(R) /\ Keeps(s.table, t.table) /\ t.raised = s.raised
      /\ Attempted(t) = Attempted(s) + m /\ Landed(t) >= Landed(s)
    BY DEF Inserted
<1>3. /\ u \in States(R) /\ OncePerId(u.table) /\ Keeps(t.table, u.table)
      /\ u.raised = t.raised
      /\ Attempted(u) = Attempted(t) + n /\ Landed(u) >= Landed(t)
    BY DEF Inserted, n
<1>4. /\ s.table \in Seq(R) /\ t.table \in Seq(R) /\ u.table \in Seq(R)
      /\ Landed(s) \in Nat /\ Landed(t) \in Nat /\ Landed(u) \in Nat
      /\ Attempted(s) \in Nat
    BY <1>2, <1>3, StatesAreTyped
<1>5. Keeps(s.table, u.table)
    BY <1>2, <1>3, <1>4, KeepsTwice
<1>6. Attempted(u) = Attempted(s) + (m + n) /\ Landed(u) >= Landed(s)
    BY <1>1, <1>2, <1>3, <1>4
<1>7. ASSUME NEW i \in 1 .. (m + n), rows[i].accepted
      PROVE  Stored(u.table, rows[i]) /\ Landed(u) > Landed(s)
  <2>1. CASE i <= m
    <3>1. i \in 1 .. m
        BY <1>1, <2>1
    <3>2. Stored(t.table, rows[i]) /\ Landed(t) > Landed(s)
        BY <1>7, <3>1 DEF Inserted
    <3>3. Stored(u.table, rows[i])
        BY <1>3, <1>4, <3>2, KeptStaysStored
    <3>4. QED
        BY <1>3, <1>4, <3>2, <3>3
  <2>2. CASE ~(i <= m)
    <3>1. i - m \in 1 .. n /\ m + (i - m) = i
        BY <1>1, <2>2
    <3>2. chunk[i - m] = rows[i]
        BY <3>1 DEF n
    <3>3. Stored(u.table, rows[i]) /\ Landed(u) > Landed(t)
        BY <1>7, <3>1, <3>2 DEF Inserted, n
    <3>4. QED
        BY <1>2, <1>4, <3>3
  <2>3. QED
      BY <2>1, <2>2
<1>8. Inserted(R, s, rows, m + n, u)
    BY <1>2, <1>3, <1>5, <1>6, <1>7 DEF Inserted
<1>9. QED
    BY <1>8 DEF n

ChunkInv(c, k, t) == Inserted(c.rowset, c.start, c.rows, UpTo(c.size, k), t)

ChunkOp(partial, s, chunk) == InsertChunk(s, chunk, partial)

ChunkLoop == INSTANCE FoldFacts WITH Op <- ChunkOp, Inv <- ChunkInv

Bulk(partial, s, done) == FoldLeft(LAMBDA t, chunk : InsertChunk(t, chunk, partial), s, done)

\* The first m chunks, with every row of them accounted for.
LEMMA BulkInserts ==
    ASSUME NEW R, Rowset(R), NEW s \in States(R), OncePerId(s.table),
           NEW rows \in Seq(R), NEW partial \in BOOLEAN, NEW m \in Nat,
           m <= Max(Beginnings(Len(rows))), NEW done, DOMAIN done = 1 .. m,
           \A k \in 1 .. m : done[k] = Chunks(rows)[k]
    PROVE  Inserted(R, s, rows, UpTo(Len(rows), m), Bulk(partial, s, done))
<1> DEFINE n == Len(rows)
           last == Max(Beginnings(n))
           c == [rowset |-> R, start |-> s, rows |-> rows, size |-> n]
<1>1. Split(R, rows, n, last)
    BY ChunksSplit
<1>2. m <= last
    OBVIOUS
<1> HIDE DEF last
<1>3. \A k, t : ChunkInv(c, k, t) <=> Inserted(R, s, rows, UpTo(n, k), t)
    BY DEF ChunkInv
<1> HIDE DEF c, n
<1>4. ChunkInv(c, 0, s)
  <2>1. Inserted(R, s, rows, 0, s)
      BY NothingInserted
  <2>2. QED
      BY <1>1, <1>3, <2>1 DEF Split
<1>5. ASSUME NEW k \in 1 .. m, NEW t, ChunkInv(c, k - 1, t)
      PROVE  ChunkInv(c, k, InsertChunk(t, done[k], partial))
  <2> DEFINE chunk == Chunks(rows)[k]
             u == InsertChunk(t, chunk, partial)
             lo == UpTo(n, k - 1)
             hi == UpTo(n, k)
  <2>1. k \in 1 .. last /\ done[k] = chunk
      BY <1>1, <1>2 DEF Split
  <2>2. /\ chunk \in Seq(R) /\ lo \in 0 .. n /\ hi \in 0 .. n
        /\ Len(chunk) = hi - lo
        /\ \A i \in 1 .. Len(chunk) : chunk[i] = rows[lo + i]
      BY <1>1, <2>1 DEF Split
  <2>3. Inserted(R, s, rows, lo, t)
      BY <1>3, <1>5
  <2> HIDE DEF lo, hi, chunk
  <2>4. t \in States(R) /\ OncePerId(t.table)
      BY <2>3 DEF Inserted
  <2>5. Inserted(R, t, chunk, Len(chunk), u)
      BY <2>2, <2>4, ChunkInserts
  <2> HIDE DEF u
  <2>6. lo \in Nat /\ lo + Len(chunk) = hi
      BY <1>1, <2>2 DEF Split
  <2>7. Inserted(R, s, rows, hi, u)
    <3>1. Inserted(R, s, rows, lo + Len(chunk), u)
        BY <2>2, <2>3, <2>5, <2>6, InsertedTwice
    <3>2. QED
        BY <2>6, <3>1
  <2>8. QED
      BY <1>3, <2>1, <2>7 DEF hi, u
<1>6. \A k \in 1 .. m :
         \A t : ChunkInv(c, k - 1, t) => ChunkInv(c, k, ChunkOp(partial, t, done[k]))
    BY <1>5 DEF ChunkOp
<1>7. ChunkInv(c, m, ChunkLoop!Fold(partial, s, done))
    BY <1>4, <1>6, ChunkLoop!FoldKeeps
<1>8. Bulk(partial, s, done) = ChunkLoop!Fold(partial, s, done)
    BY DEF Bulk, ChunkLoop!Fold, ChunkLoop!FoldLeft, ChunkLoop!MapThenFoldSet, ChunkLoop!Max,
           ChunkOp, FoldLeft, MapThenFoldSet, Max
<1>9. QED
    BY <1>3, <1>7, <1>8 DEF n

-----------------------------------------------------------------------------
(* A batch.                                                                *)

AllStored(table, rows) ==
    \A i \in {j \in DOMAIN rows : rows[j].accepted} : Stored(table, rows[i])

\* What the loop over the chunks returns, or leaves behind when it raises.
LEMMA BulkInsertLands ==
    ASSUME NEW R, Rowset(R), NEW table \in Seq(R), OncePerId(table), NEW rows \in Seq(R),
           NEW partial \in BOOLEAN, NEW broken \in Nat,
           NEW b, b = BulkInsert(table, rows, partial, broken)
    PROVE  /\ b \in States(R) /\ OncePerId(b.table)
           /\ b.raised => broken # 0
           /\ ~b.raised => /\ Attempted(b) = Len(rows)
                           /\ AllStored(b.table, rows)
                           /\ Landed(b) = 0 => \A i \in DOMAIN rows : ~rows[i].accepted
<1> DEFINE n == Len(rows)
           last == Max(Beginnings(n))
           s == Nothing(table)
           chunks == Chunks(rows)
           m == IF broken \in DOMAIN chunks THEN broken - 1 ELSE last
           done == IF broken \in DOMAIN chunks THEN SubSeq(chunks, 1, broken - 1) ELSE chunks
           t == Bulk(partial, s, done)
           flag == broken \in DOMAIN chunks
<1>1. Split(R, rows, n, last)
    BY ChunksSplit
<1>2. /\ s \in States(R) /\ s.table = table
      /\ Attempted(s) = 0 /\ Landed(s) = 0
    BY DEF Nothing, States, Attempted, Landed
<1>3. b = [t EXCEPT !.raised = flag]
    BY DEF BulkInsert, Bulk
<1>4. /\ last \in Nat /\ DOMAIN chunks = 1 .. last /\ UpTo(n, last) = n
      /\ \A k \in 1 .. last : chunks[k] \in Seq(R)
    BY <1>1 DEF Split
<1>5. m \in Nat /\ m <= last
  <2> HIDE DEF last, chunks
  <2>1. QED
      BY <1>4
<1>6. DOMAIN done = 1 .. m /\ \A k \in 1 .. m : done[k] = chunks[k]
  <2> HIDE DEF last, chunks
  <2>1. CASE flag
    <3> DEFINE first == SubSeq(chunks, 1, broken - 1)
    <3>1. broken - 1 \in Int /\ 1 \in Int /\ \A i \in 1 .. broken - 1 : chunks[i] \in Seq(R)
        BY <1>4, <2>1
    <3>2. /\ first \in Seq(Seq(R))
          /\ Len(first) = IF 1 <= broken - 1 THEN broken - 1 - 1 + 1 ELSE 0
          /\ \A i \in 1 .. broken - 1 - 1 + 1 : first[i] = chunks[1 + i - 1]
        BY <3>1, SubSeqProperties
    <3> HIDE DEF first
    <3>3. Len(first) = broken - 1
        BY <1>4, <2>1, <3>2
    <3>4. DOMAIN first = 1 .. (broken - 1)
        BY <3>2, <3>3, LenProperties
    <3>5. \A k \in 1 .. (broken - 1) : first[k] = chunks[k]
        BY <1>4, <2>1, <3>2
    <3>6. QED
        BY <2>1, <3>4, <3>5 DEF first
  <2>2. CASE ~flag
      BY <1>4, <2>2
  <2>3. QED
      BY <2>1, <2>2
<1>7. flag => broken # 0
    BY <1>4
<1>8. Inserted(R, s, rows, UpTo(n, m), t)
  <2> HIDE DEF s, m, done
  <2>1. QED
      BY <1>2, <1>5, <1>6, BulkInserts
<1>9. ~flag => UpTo(n, m) = n
    BY <1>4
<1> HIDE DEF n, s, m, done, t, flag
<1>10. flag \in BOOLEAN /\ t \in States(R) /\ OncePerId(t.table)
    BY <1>8 DEF Inserted, flag
<1>11. /\ b \in States(R) /\ b.table = t.table /\ b.raised = flag
       /\ b.persisted = t.persisted /\ b.duplicates = t.duplicates /\ b.rejected = t.rejected
    BY <1>3, <1>10 DEF States
<1>12. Attempted(b) = Attempted(t) /\ Landed(b) = Landed(t)
    BY <1>11 DEF Attempted, Landed
<1>13. n \in Nat /\ DOMAIN rows = 1 .. n
    BY LenProperties DEF n
<1>14. ASSUME ~flag
       PROVE  /\ Attempted(t) = n
              /\ \A i \in 1 .. n : rows[i].accepted => Stored(t.table, rows[i]) /\ Landed(t) > 0
    BY <1>2, <1>8, <1>9, <1>13, <1>14 DEF Inserted
<1>15. AllStored(b.table, rows) <=> \A i \in 1 .. n : rows[i].accepted => Stored(t.table, rows[i])
    BY <1>11, <1>13 DEF AllStored
<1>16. ~flag => /\ Attempted(b) = Len(rows)
                /\ AllStored(b.table, rows)
                /\ Landed(b) = 0 => \A i \in DOMAIN rows : ~rows[i].accepted
  <2> SUFFICES ASSUME ~flag
               PROVE  /\ Attempted(b) = n
                      /\ AllStored(b.table, rows)
                      /\ Landed(b) = 0 => \A i \in 1 .. n : ~rows[i].accepted
      BY <1>13 DEF n
  <2>1. QED
      BY <1>12, <1>14, <1>15
<1>17. QED
    BY <1>7, <1>10, <1>11, <1>16

\* The rows that insert_logs hands to the database.
Tuples(log) ==
    LET kept == Insertable(log)
    IN  [i \in DOMAIN kept |-> RowTuple(kept[i])]

\* What insert_logs returns, or leaves behind when it raises.
LEMMA InsertLogsLands ==
    ASSUME NEW R, Rowset(R), NEW table \in Seq(R), OncePerId(table),
           NEW log, NEW rows, rows = Tuples(log), rows \in Seq(R),
           NEW partial \in BOOLEAN, NEW broken \in Nat,
           NEW b, b = InsertLogs(table, log, partial, broken)
    PROVE  /\ b.table \in Seq(R) /\ OncePerId(b.table)
           /\ ~b.raised => Attempted(b) = Len(rows)
           /\ ~b.raised \/ broken = 0 => AllStored(b.table, rows)
           /\ b.raised /\ broken = 0 => \A i \in DOMAIN rows : ~rows[i].accepted
<1>1. DOMAIN rows = 1 .. Len(rows)
    BY LenProperties
<1>2. CASE rows = << >>
  <2>1. b = Nothing(table)
      BY <1>2 DEF InsertLogs, Tuples
  <2>2. b.table = table /\ b.raised = FALSE /\ Attempted(b) = 0
      BY <2>1 DEF Nothing, Attempted
  <2>3. Len(rows) = 0 /\ DOMAIN rows = {}
      BY <1>1, <1>2, EmptySeq
  <2>4. QED
      BY <2>2, <2>3 DEF AllStored
<1>3. CASE rows # << >>
  <2> DEFINE s == BulkInsert(table, rows, partial, broken)
             flag == s.raised \/ s.persisted + s.duplicates = 0
  <2>1. b = [s EXCEPT !.raised = flag]
      BY <1>3 DEF InsertLogs, Tuples
  <2>2. /\ s \in States(R) /\ OncePerId(s.table)
        /\ s.raised => broken # 0
        /\ ~s.raised => /\ Attempted(s) = Len(rows)
                        /\ AllStored(s.table, rows)
                        /\ Landed(s) = 0 => \A i \in DOMAIN rows : ~rows[i].accepted
      BY BulkInsertLands
  <2> HIDE DEF s
  <2>3. flag <=> s.raised \/ Landed(s) = 0
      BY DEF Landed
  <2>4. flag \in BOOLEAN /\ s.table \in Seq(R)
      BY <2>2 DEF States
  <2> HIDE DEF flag
  <2>5. /\ b.table = s.table /\ b.raised = flag
        /\ b.persisted = s.persisted /\ b.duplicates = s.duplicates /\ b.rejected = s.rejected
      BY <2>1, <2>2 DEF States
  <2>6. Attempted(b) = Attempted(s)
      BY <2>5 DEF Attempted
  <2>7. QED
      BY <2>2, <2>3, <2>4, <2>5, <2>6
<1>4. QED
    BY <1>2, <1>3

\* Rows with any cells that the columns may hold, which the code's stamps are among.
LogRowsOf(ids, ips, types) ==
    [log_id : ids \cup {NoValue, "nan"}, source_ip : ips \cup {LLM_SOURCE_IP_PLACEHOLDER},
     log_type : types, accepted : BOOLEAN]

KeptInv(rows, k, kept) == kept \in Seq(rows)

KeptOp(p, kept, r) == StampOrSkip(kept, r)

KeptLoop == INSTANCE FoldFacts WITH Op <- KeptOp, Inv <- KeptInv

\* insert_logs hands on rows of the kind it was given.
LEMMA TuplesAreRows ==
    ASSUME NEW ids, NEW ips, NEW types, NEW R, R = LogRowsOf(ids, ips, types),
           NEW log \in Seq(R)
    PROVE  Tuples(log) \in Seq(R)
<1> DEFINE n == Len(log)
           kept == Insertable(log)
<1>1. n \in Nat /\ DOMAIN log = 1 .. n
    BY LenProperties
<1>2. KeptInv(R, 0, << >>)
    BY EmptySeq DEF KeptInv
<1>3. ASSUME NEW k \in 1 .. n, NEW y \in Seq(R)
      PROVE  StampOrSkip(y, log[k]) \in Seq(R)
  <2> DEFINE r == log[k]
             stamped == [r EXCEPT !.source_ip = LLM_SOURCE_IP_PLACEHOLDER]
  <2>1. r \in R
      BY <1>1, ElementOfSeq
  <2> HIDE DEF r
  <2>2. stamped \in R
      BY <2>1 DEF LogRowsOf
  <2> HIDE DEF stamped
  <2>3. Append(y, r) \in Seq(R) /\ Append(y, stamped) \in Seq(R)
      BY <2>1, <2>2, AppendProperties
  <2>4. StampOrSkip(y, r) \in {Append(y, r), Append(y, stamped), y}
      BY DEF StampOrSkip, stamped
  <2>5. QED
      BY <2>3, <2>4 DEF r
<1>4. \A k \in 1 .. n :
         \A y : KeptInv(R, k - 1, y) => KeptInv(R, k, KeptOp({}, y, log[k]))
    BY <1>3 DEF KeptInv, KeptOp
<1> HIDE DEF n
<1>5. KeptInv(R, n, KeptLoop!Fold({}, << >>, log))
    BY <1>1, <1>2, <1>4, KeptLoop!FoldKeeps
<1>6. kept = KeptLoop!Fold({}, << >>, log)
    BY DEF Insertable, KeptLoop!Fold, KeptLoop!FoldLeft, KeptLoop!MapThenFoldSet, KeptLoop!Max,
           KeptOp, FoldLeft, MapThenFoldSet, Max
<1>7. kept \in Seq(R)
    BY <1>5, <1>6 DEF KeptInv
<1> HIDE DEF kept
<1>8. Len(kept) \in Nat /\ DOMAIN kept = 1 .. Len(kept)
    BY <1>7, LenProperties
<1>9. ASSUME NEW i \in 1 .. Len(kept)
      PROVE  RowTuple(kept[i]) \in R
  <2>1. kept[i] \in R
      BY <1>7, ElementOfSeq
  <2>2. QED
      BY <2>1 DEF RowTuple, LogRowsOf
<1>10. [i \in 1 .. Len(kept) |-> RowTuple(kept[i])] \in [1 .. Len(kept) -> R]
    BY <1>9
<1>11. [i \in 1 .. Len(kept) |-> RowTuple(kept[i])] \in Seq(R)
    BY <1>8, <1>10, SeqDef
<1>12. QED
    BY <1>8, <1>11 DEF Tuples, kept

\* insert_logs stores what it acknowledges, rows whose LOG_ID is NaN apart, of a batch of
\* any length in chunks of any size, whichever rows the database refuses or has, wherever
\* the statement for a chunk stopped and whatever the driver kept of it; and a batch
\* inserted again after an error is completed without a LOG_ID twice (repositories.py).
THEOREM EveryBatchIsStored ==
    ASSUME NEW ids, NEW ips, NEW types, NEW log \in Seq(LogRowsOf(ids, ips, types))
    PROVE  AcknowledgedBatchIsStored(log)
<1> DEFINE R == LogRowsOf(ids, ips, types)
           rows == Tuples(log)
           empty == << >>
<1>1. rows \in Seq(R)
    BY TuplesAreRows
<1>2. Rowset(R)
    BY DEF Rowset, LogRowsOf
<1>3. empty \in Seq(R) /\ OncePerId(empty)
  <2>1. DOMAIN << >> = {}
      OBVIOUS
  <2>2. QED
      BY <2>1, EmptySeq DEF OncePerId
<1>4. 0 .. Len(Chunks(rows)) \subseteq Nat
    OBVIOUS
<1>0. rows = Tuples(log)
    OBVIOUS
<1> HIDE DEF R, rows, empty
<1>5. ASSUME NEW partial \in BOOLEAN, NEW broken \in Nat,
             NEW first, first = InsertLogs(empty, log, partial, broken),
             NEW again, again = InsertLogs(first.table, log, partial, 0)
      PROVE  /\ ~first.raised => /\ Attempted(first) = Len(rows)
                                 /\ AllStored(first.table, rows)
             /\ first.raised /\ broken = 0 => \A i \in DOMAIN rows : ~rows[i].accepted
             /\ AllStored(again.table, rows) /\ OncePerId(again.table)
  <2>1. /\ first.table \in Seq(R) /\ OncePerId(first.table)
        /\ ~first.raised => Attempted(first) = Len(rows)
        /\ ~first.raised \/ broken = 0 => AllStored(first.table, rows)
        /\ first.raised /\ broken = 0 => \A i \in DOMAIN rows : ~rows[i].accepted
      BY <1>0, <1>1, <1>2, <1>3, <1>5, InsertLogsLands
  <2>2. OncePerId(again.table) /\ AllStored(again.table, rows)
      BY <1>0, <1>1, <1>2, <1>5, <2>1, InsertLogsLands
  <2>3. QED
      BY <2>1, <2>2
<1>6. ASSUME NEW partial \in BOOLEAN, NEW broken \in 0 .. Len(Chunks(rows))
      PROVE  LET first == InsertLogs(empty, log, partial, broken)
                 again == InsertLogs(first.table, log, partial, 0)
             IN  /\ ~first.raised => /\ Attempted(first) = Len(rows)
                                    /\ AllStored(first.table, rows)
                 /\ first.raised /\ broken = 0 => \A i \in DOMAIN rows : ~rows[i].accepted
                 /\ AllStored(again.table, rows) /\ OncePerId(again.table)
  <2>1. broken \in Nat
      BY <1>4
  <2>2. QED
      BY <1>5, <2>1
<1> DEFINE kept == Insertable(log)
           taken == {i \in DOMAIN rows : rows[i].accepted /\ kept[i].log_id # NoValue}
           StoredTaken(table) == \A i \in taken : Stored(table, rows[i])
<1>7. \A table : AllStored(table, rows) => StoredTaken(table)
    BY DEF AllStored
<1>8. ASSUME NEW partial \in BOOLEAN, NEW broken \in 0 .. Len(Chunks(rows))
      PROVE  LET first == InsertLogs(empty, log, partial, broken)
                 again == InsertLogs(first.table, log, partial, 0)
             IN  /\ ~first.raised => Attempted(first) = Len(rows) /\ StoredTaken(first.table)
                 /\ first.raised /\ broken = 0 => \A i \in DOMAIN rows : ~rows[i].accepted
                 /\ StoredTaken(again.table) /\ OncePerId(again.table)
  <2> HIDE DEF StoredTaken
  <2>1. QED
      BY <1>6, <1>7
<1>9. QED
    BY <1>8
    DEF rows, empty, Tuples, AcknowledgedBatchIsStored, Stored, OncePerId, Attempted

-----------------------------------------------------------------------------
(* Inserting logs: the specification.                                      *)

StoreRowsOf == LogRowsOf({"x", "y", "z", ""}, {"a", "", NoValue}, {"WEB", "LLM_REQUEST"})

BatchesAreRows == area = "logs" => input \in Seq(StoreRowsOf)

\* What insert_logs acknowledges is stored, rows whose LOG_ID is NaN apart, in every state
\* of the specification (repositories.py, _bulk_insert_sync).
THEOREM AcknowledgedLogsStored == Spec => []AcknowledgedLogsAreStored
<1>1. StoreRows \subseteq StoreRowsOf
    BY DEF StoreRows, StoreRow, StoreRowsOf, LogRowsOf
<1>2. Init => BatchesAreRows
    BY EmptySeq DEF Init, BatchesAreRows
<1>3. BatchesAreRows /\ [Next]_vars => BatchesAreRows'
  <2> SUFFICES ASSUME BatchesAreRows, [Next]_vars, area' = "logs"
               PROVE  input' \in Seq(StoreRowsOf)
      BY DEF BatchesAreRows
  <2>1. CASE AddStoreRow
    <3>1. area = "logs" /\ \E e \in StoreRows : input' = Append(input, e)
        BY <2>1 DEF AddStoreRow, Add
    <3>2. QED
        BY <1>1, <3>1, AppendProperties DEF BatchesAreRows
  <2>2. CASE AddLogRow \/ AddBatch \/ AddLlmRow \/ AddToolRow
      BY <2>2 DEF AddLogRow, AddBatch, AddLlmRow, AddToolRow, Add
  <2>3. CASE UNCHANGED vars
      BY <2>3 DEF vars, BatchesAreRows
  <2>4. QED
      BY <2>1, <2>2, <2>3 DEF Next
<1>4. BatchesAreRows => AcknowledgedLogsAreStored
    BY EveryBatchIsStored DEF BatchesAreRows, AcknowledgedLogsAreStored, StoreRowsOf
<1>5. QED
    BY <1>2, <1>3, <1>4, PTL DEF Spec

-----------------------------------------------------------------------------
(* What predict remembers.                                                 *)

Batch(Rows, Times) == [at : Nat, rows : Rows, ingested_at : Nat, min_time : Times]

InOrderOfTime(batches) ==
    \A i, j \in DOMAIN batches : i <= j => batches[i].at <= batches[j].at

HasFeatures(b) == DOMAIN ExtractFeatures(b.rows) # {}

TotalsOf(b) ==
    LET features == ExtractFeatures(b.rows)
    IN  [ip \in DOMAIN features |-> features[ip].total_requests]

CallOf(b) == [at |-> b.at, totals |-> TotalsOf(b)]

\* The batches of the first k that are to be remembered: none with features came
\* CONTEXT_WINDOW_MINUTES later.
Remembered(batches, k) ==
    {i \in 1 .. k : /\ HasFeatures(batches[i])
                    /\ \A m \in 1 .. k : HasFeatures(batches[m]) =>
                           batches[i].at >= batches[m].at - CONTEXT_WINDOW_MINUTES}

\* The context holds the calls of the batches that e numbers, oldest first.
Lists(batches, e, n, context) ==
    /\ n \in Nat /\ DOMAIN e = 1 .. n
    /\ context \in Seq({CallOf(batches[i]) : i \in DOMAIN batches})
    /\ Len(context) = n
    /\ \A j \in 1 .. n : e[j] \in DOMAIN batches /\ context[j] = CallOf(batches[e[j]])
    /\ \A i, j \in 1 .. n : i < j => e[i] < e[j]

Listed(e, n) == {e[j] : j \in 1 .. n}

\* The context holds the calls of the batches numbered by a set, oldest first.
Holds(batches, context, numbers) ==
    \E e, n : Lists(batches, e, n, context) /\ numbers = Listed(e, n)

OutInv(batches, k, s) ==
    \A ip \in DOMAIN s.out :
        /\ k > 0 /\ HasFeatures(batches[k])
        /\ s.out[ip].multi_bucket = MultiBucketCount(s.context, ip)

ContextInv(batches, k, s) ==
    /\ DOMAIN s = {"context", "out"}
    /\ OutInv(batches, k, s)
    /\ Holds(batches, s.context, Remembered(batches, k))

\* The state of predict after some batches.
ServedWith(batches, columns) ==
    FoldLeft(LAMBDA s, b : Predict(s, b, columns),
             [context |-> << >>, out |-> << >>], batches)

PredictOp(columns, s, b) == Predict(s, b, columns)

PredictLoop == INSTANCE FoldFacts WITH Op <- PredictOp, Inv <- ContextInv

\* A non-empty set of naturals has a smallest one, which is Min of it.
LEMMA SmallestOf ==
    ASSUME NEW s \in SUBSET Nat, s # {}
    PROVE  Min(s) \in s /\ \A x \in s : Min(s) <= x
<1>1. \E x \in s : \A y \in s : x <= y
    BY RowLoop!Smallest
<1>2. QED
    BY <1>1 DEF Min

\* A call has the time and the totals of its batch.
LEMMA CallFields ==
    \A b : CallOf(b).at = b.at /\ CallOf(b).totals = TotalsOf(b)
BY DEF CallOf

\* The calls from the first recent one on are the recent ones.
LEMMA PrunedLists ==
    ASSUME NEW batches, NEW len \in Nat, DOMAIN batches = 1 .. len,
           \A i \in 1 .. len : batches[i].at \in Nat, InOrderOfTime(batches),
           NEW context, NEW numbers, Holds(batches, context, numbers),
           NEW cutoff \in Int, \E i \in numbers : batches[i].at >= cutoff
    PROVE  Holds(batches, Pruned(context, cutoff), {i \in numbers : batches[i].at >= cutoff})
<1>0. PICK e, n : Lists(batches, e, n, context) /\ numbers = Listed(e, n)
    BY DEF Holds
<1> DEFINE recent == {i \in DOMAIN context : context[i].at >= cutoff}
           first == Min(recent)
           m == n - first + 1
           f == [j \in 1 .. m |-> e[first + j - 1]]
           Calls == {CallOf(batches[i]) : i \in DOMAIN batches}
           cut == SubSeq(context, first, n)
<1>1. /\ n \in Nat /\ DOMAIN e = 1 .. n /\ context \in Seq(Calls) /\ Len(context) = n
      /\ \A j \in 1 .. n : e[j] \in 1 .. len /\ context[j] = CallOf(batches[e[j]])
      /\ \A i, j \in 1 .. n : i < j => e[i] < e[j]
    BY <1>0 DEF Lists
<1>2. DOMAIN context = 1 .. n
    BY <1>1, LenProperties
<1>3. \A j \in 1 .. n : context[j].at = batches[e[j]].at
  <2>1. ASSUME NEW j \in 1 .. n PROVE context[j] = CallOf(batches[e[j]])
      BY <1>1
  <2>2. QED
      BY <2>1, CallFields
<1>4. recent # {} /\ recent \in SUBSET Nat /\ recent \subseteq 1 .. n
  <2>1. PICK j \in 1 .. n : batches[e[j]].at >= cutoff
      BY <1>0 DEF Listed
  <2>2. j \in recent
      BY <1>1, <1>2, <1>3, <2>1
  <2>3. recent \subseteq 1 .. n
      BY <1>2
  <2> HIDE DEF recent
  <2>4. QED
      BY <2>2, <2>3
<1> HIDE DEF Calls
<1>5. first \in recent /\ \A j \in recent : first <= j
  <2> HIDE DEF recent
  <2>1. QED
      BY <1>4, SmallestOf
<1>6. \A j \in 1 .. n : j \in recent <=> batches[e[j]].at >= cutoff
    BY <1>2, <1>3
<1>7. Pruned(context, cutoff) = cut
    BY <1>1, <1>4 DEF Pruned
<1> HIDE DEF recent, first
<1>8. first \in 1 .. n /\ m \in Nat /\ m = n - first + 1
    BY <1>1, <1>4, <1>5
<1>9. ASSUME NEW j \in 1 .. n
      PROVE  j >= first <=> batches[e[j]].at >= cutoff
  <2> HIDE DEF f, cut
  <2>1. CASE j < first
      BY <1>5, <1>6, <1>8, <2>1
  <2>2. CASE j = first
      BY <1>5, <1>6, <1>8, <2>2
  <2>3. CASE j > first
    <3>0. e[first] \in 1 .. len /\ e[j] \in 1 .. len
        BY <1>1, <1>8
    <3>1. e[first] < e[j] /\ e[first] \in 1 .. len /\ e[j] \in 1 .. len
        BY <1>1, <1>8, <2>3, <3>0
    <3>2. batches[e[first]].at <= batches[e[j]].at
        BY <3>1 DEF InOrderOfTime
    <3>3. batches[e[first]].at >= cutoff
        BY <1>5, <1>6, <1>8
    <3>4. batches[e[j]].at \in Nat /\ batches[e[first]].at \in Nat
        BY <3>1
    <3>5. batches[e[j]].at >= cutoff
        BY <3>2, <3>3, <3>4
    <3>6. QED
        BY <2>3, <3>5, <1>8
  <2>4. QED
      BY <1>8, <2>1, <2>2, <2>3
<1>10. /\ cut \in Seq(Calls) /\ Len(cut) = m
       /\ \A j \in 1 .. m : cut[j] = context[first + j - 1]
  <2>1. \A j \in first .. n : context[j] \in Calls
      BY <1>1, <1>8, ElementOfSeq
  <2>2. /\ cut \in Seq(Calls) /\ Len(cut) = IF first <= n THEN n - first + 1 ELSE 0
        /\ \A j \in 1 .. n - first + 1 : cut[j] = context[first + j - 1]
      BY <1>1, <1>8, <2>1, SubSeqProperties
  <2>3. QED
      BY <1>8, <2>2
<1> HIDE DEF m, cut
<1>11. \A j \in 1 .. m : first + j - 1 \in 1 .. n /\ first + j - 1 >= first
    BY <1>1, <1>8
<1>12. Lists(batches, f, m, cut)
  <2>1. \A j \in 1 .. m : f[j] \in 1 .. len /\ cut[j] = CallOf(batches[f[j]])
      BY <1>1, <1>10, <1>11
  <2>2. \A i, j \in 1 .. m : i < j => f[i] < f[j]
    <3>1. \A i, j \in 1 .. m : i < j => first + i - 1 < first + j - 1
        BY <1>1, <1>8
    <3>2. QED
        BY <1>1, <1>11, <3>1
  <2>3. QED
      BY <1>8, <1>10, <2>1, <2>2 DEF Lists, Calls
<1>13. Listed(f, m) = {i \in Listed(e, n) : batches[i].at >= cutoff}
  <2>1. ASSUME NEW j \in 1 .. m PROVE f[j] \in Listed(e, n) /\ batches[f[j]].at >= cutoff
      BY <1>9, <1>11 DEF Listed
  <2>2. ASSUME NEW j \in 1 .. n, batches[e[j]].at >= cutoff
        PROVE  e[j] \in Listed(f, m)
    <3>1. j - first + 1 \in 1 .. m /\ first + (j - first + 1) - 1 = j
      <4>1. j >= first
          BY <1>9, <2>2
      <4>2. QED
          BY <1>1, <1>8, <4>1
    <3>2. f[j - first + 1] = e[j]
        BY <3>1
    <3>3. QED
        BY <3>1, <3>2 DEF Listed
  <2>3. QED
      BY <2>1, <2>2 DEF Listed
<1> HIDE DEF f
<1>14. QED
    BY <1>0, <1>7, <1>12, <1>13 DEF Holds

\* A context that a call is appended to holds one batch more.
LEMMA AppendedLists ==
    ASSUME NEW batches, NEW k \in DOMAIN batches, k \in Nat,
           NEW context, NEW numbers, Holds(batches, context, numbers),
           \A i \in numbers : i < k
    PROVE  Holds(batches, Append(context, CallOf(batches[k])), numbers \cup {k})
<1>0. PICK e, n : Lists(batches, e, n, context) /\ numbers = Listed(e, n)
    BY DEF Holds
<1>a. \A j \in 1 .. n : e[j] < k
    BY <1>0 DEF Listed
<1> DEFINE m == n + 1
           f == [j \in 1 .. m |-> IF j <= n THEN e[j] ELSE k]
           Calls == {CallOf(batches[i]) : i \in DOMAIN batches}
           call == CallOf(batches[k])
           longer == Append(context, call)
<1>1. /\ n \in Nat /\ DOMAIN e = 1 .. n /\ context \in Seq(Calls) /\ Len(context) = n
      /\ \A j \in 1 .. n : e[j] \in DOMAIN batches /\ context[j] = CallOf(batches[e[j]])
      /\ \A i, j \in 1 .. n : i < j => e[i] < e[j]
    BY <1>0 DEF Lists
<1>2. call \in Calls
    OBVIOUS
<1> HIDE DEF Calls, call
<1>3. /\ longer \in Seq(Calls) /\ Len(longer) = n + 1
      /\ \A j \in 1 .. n : longer[j] = context[j]
      /\ longer[n + 1] = call
    BY <1>1, <1>2, AppendProperties
<1> HIDE DEF longer
<1>4. \A j \in 1 .. m : (j \in 1 .. n /\ f[j] = e[j]) \/ (j = n + 1 /\ f[j] = k)
    BY <1>1
<1>5. \A j \in 1 .. n : f[j] = e[j]
    BY <1>1
<1>6. m \in Nat /\ DOMAIN f = 1 .. m /\ m \in 1 .. m /\ f[m] = k /\ 1 .. n \subseteq 1 .. m
    BY <1>1
<1>7. \A j \in 1 .. m : f[j] \in DOMAIN batches /\ longer[j] = CallOf(batches[f[j]])
  <2>1. ASSUME NEW j \in 1 .. m
        PROVE  f[j] \in DOMAIN batches /\ longer[j] = CallOf(batches[f[j]])
    <3>1. CASE j \in 1 .. n /\ f[j] = e[j]
        BY <1>1, <1>3, <3>1
    <3>2. CASE j = n + 1 /\ f[j] = k
        BY <1>3, <3>2 DEF call
    <3>3. QED
        BY <1>4, <3>1, <3>2
  <2>2. QED
      BY <2>1
<1>8. \A i, j \in 1 .. m : i < j => f[i] < f[j]
  <2>1. ASSUME NEW i \in 1 .. m, NEW j \in 1 .. m, i < j PROVE f[i] < f[j]
    <3>1. i \in 1 .. n
        BY <1>1, <2>1
    <3>2. CASE j \in 1 .. n /\ f[j] = e[j]
        BY <1>1, <1>5, <2>1, <3>1, <3>2
    <3>3. CASE j = n + 1 /\ f[j] = k
        BY <1>a, <1>5, <3>1, <3>3
    <3>4. QED
        BY <1>4, <3>2, <3>3
  <2>2. QED
      BY <2>1
<1>9. Listed(f, m) = Listed(e, n) \cup {k}
    BY <1>4, <1>5, <1>6 DEF Listed
<1> HIDE DEF f, m
<1>10. Lists(batches, f, m, longer)
    BY <1>3, <1>6, <1>7, <1>8 DEF Lists, Calls, m
<1>11. QED
    BY <1>0, <1>9, <1>10 DEF Holds, longer, call

\* A batch with features: what is remembered of it and before.
LEMMA RememberedAfter ==
    ASSUME NEW batches, NEW len \in Nat, DOMAIN batches = 1 .. len,
           \A i \in 1 .. len : batches[i].at \in Nat, InOrderOfTime(batches),
           NEW k \in 1 .. len
    PROVE  /\ HasFeatures(batches[k]) =>
                 Remembered(batches, k) =
                    {i \in Remembered(batches, k - 1) \cup {k} :
                        batches[i].at >= batches[k].at - CONTEXT_WINDOW_MINUTES}
           /\ ~HasFeatures(batches[k]) => Remembered(batches, k) = Remembered(batches, k - 1)
<1> DEFINE W == CONTEXT_WINDOW_MINUTES
<1>1. W \in Nat
    BY SapAssumption
<1> HIDE DEF W
<1>2. \A i : i \in 1 .. k <=> i \in 1 .. (k - 1) \/ i = k
    OBVIOUS
<1>3. \A i \in 1 .. k : batches[i].at \in Nat /\ batches[i].at <= batches[k].at
  <2>1. k \in Nat /\ k <= len /\ \A i \in 1 .. k : i \in 1 .. len /\ i <= k
      OBVIOUS
  <2>2. ASSUME NEW i \in 1 .. k PROVE batches[i].at \in Nat /\ batches[i].at <= batches[k].at
      BY <2>1 DEF InOrderOfTime
  <2>3. QED
      BY <2>2
<1>4. ASSUME HasFeatures(batches[k]), NEW i \in 1 .. k
      PROVE  i \in Remembered(batches, k) <=>
                HasFeatures(batches[i]) /\ batches[i].at >= batches[k].at - W
  <2>1. k \in 1 .. k
      OBVIOUS
  <2>2. ASSUME batches[i].at >= batches[k].at - W, NEW m \in 1 .. k
        PROVE  batches[i].at >= batches[m].at - W
      BY <1>1, <1>3, <2>1, <2>2
  <2>3. QED
      BY <1>4, <2>1, <2>2 DEF Remembered, W
<1>5. ASSUME HasFeatures(batches[k]), NEW i \in 1 .. (k - 1),
             HasFeatures(batches[i]), batches[i].at >= batches[k].at - W
      PROVE  i \in Remembered(batches, k - 1)
  <2>1. ASSUME NEW m \in 1 .. (k - 1)
        PROVE  batches[i].at >= batches[m].at - W
    <3>1. m \in 1 .. k /\ i \in 1 .. k /\ k \in 1 .. k
        OBVIOUS
    <3>2. QED
        BY <1>1, <1>3, <1>5, <3>1
  <2>2. QED
      BY <1>5, <2>1 DEF Remembered, W
<1>6. ASSUME HasFeatures(batches[k])
      PROVE  Remembered(batches, k) =
                {i \in Remembered(batches, k - 1) \cup {k} :
                    batches[i].at >= batches[k].at - W}
  <2>1. \A i \in Remembered(batches, k) : i \in 1 .. k
      BY DEF Remembered
  <2>2. \A i \in Remembered(batches, k - 1) : i \in 1 .. (k - 1) /\ HasFeatures(batches[i])
      BY DEF Remembered
  <2>3. QED
      BY <1>2, <1>4, <1>5, <1>6, <2>1, <2>2
<1>7. ASSUME ~HasFeatures(batches[k])
      PROVE  Remembered(batches, k) = Remembered(batches, k - 1)
    BY <1>2, <1>7 DEF Remembered
<1>8. QED
    BY <1>6, <1>7 DEF W

\* A call of predict keeps the memory right, and answers from it.
LEMMA PredictKeeps ==
    ASSUME NEW batches, NEW len \in Nat, DOMAIN batches = 1 .. len,
           \A i \in 1 .. len : batches[i].at \in Nat, InOrderOfTime(batches),
           NEW k \in 1 .. len, NEW s, ContextInv(batches, k - 1, s), NEW columns
    PROVE  ContextInv(batches, k, Predict(s, batches[k], columns))
<1> DEFINE b == batches[k]
           features == ExtractFeatures(b.rows)
           call == [at |-> b.at,
                    totals |-> [ip \in DOMAIN features |-> features[ip].total_requests]]
           cutoff == b.at - CONTEXT_WINDOW_MINUTES
           longer == Append(s.context, CallOf(b))
           context == Pruned(longer, cutoff)
           out == [ip \in DOMAIN features |-> ScoredRow(ip, features, b, columns, context)]
           u == Predict(s, b, columns)
<1>1. DOMAIN s = {"context", "out"}
    BY DEF ContextInv
<1>2. Holds(batches, s.context, Remembered(batches, k - 1))
    BY DEF ContextInv
<1>3. CASE ~HasFeatures(b)
  <2>1. u = [s EXCEPT !.out = << >>]
      BY <1>3 DEF Predict, HasFeatures
  <2>2. DOMAIN u = {"context", "out"} /\ u.context = s.context /\ u.out = << >>
      BY <1>1, <2>1
  <2> HIDE DEF u
  <2>3. OutInv(batches, k, u)
    <3>1. DOMAIN << >> = {}
        OBVIOUS
    <3>2. QED
        BY <2>2, <3>1 DEF OutInv
  <2>4. Remembered(batches, k) = Remembered(batches, k - 1)
      BY <1>3, RememberedAfter
  <2>5. ContextInv(batches, k, u)
      BY <1>2, <2>2, <2>3, <2>4 DEF ContextInv
  <2>6. QED
      BY <2>5 DEF u
<1>4. CASE HasFeatures(b)
  <2>1. CallOf(b) = call
      BY DEF CallOf, TotalsOf
  <2>2. u = [context |-> context, out |-> out]
      BY <1>4, <2>1 DEF Predict, UpdateContext, HasFeatures
  <2>3. DOMAIN u = {"context", "out"} /\ u.context = context /\ u.out = out
      BY <2>2
  <2>4. OutInv(batches, k, u)
    <3>1. DOMAIN out = DOMAIN features
        OBVIOUS
    <3>2. \A ip \in DOMAIN out : out[ip].multi_bucket = MultiBucketCount(context, ip)
        BY DEF ScoredRow
    <3> HIDE DEF out, u
    <3>3. QED
        BY <1>4, <2>3, <3>2 DEF OutInv
  <2>0. /\ b = batches[k] /\ cutoff = batches[k].at - CONTEXT_WINDOW_MINUTES
        /\ longer = Append(s.context, CallOf(batches[k])) /\ context = Pruned(longer, cutoff)
      OBVIOUS
  <2> HIDE DEF u, out, call, features, b, cutoff, longer, context
  <2>5. \A i \in Remembered(batches, k - 1) : i < k
    <3>1. \A i \in Remembered(batches, k - 1) : i \in 1 .. (k - 1)
        BY DEF Remembered
    <3>2. QED
        BY <3>1
  <2> DEFINE numbers == Remembered(batches, k - 1) \cup {k}
  <2>6. Holds(batches, longer, numbers)
    <3>1. k \in DOMAIN batches /\ k \in Nat
        OBVIOUS
    <3>2. QED
        BY <1>2, <2>0, <2>5, <3>1, AppendedLists
  <2>7. cutoff \in Int /\ b.at >= cutoff /\ k \in numbers
      BY <2>0, SapAssumption
  <2> HIDE DEF numbers
  <2>8. \E i \in numbers : batches[i].at >= cutoff
      BY <2>0, <2>7
  <2>9. Holds(batches, context, {i \in numbers : batches[i].at >= cutoff})
      BY <2>0, <2>6, <2>7, <2>8, PrunedLists
  <2>10. Remembered(batches, k) = {i \in numbers : batches[i].at >= cutoff}
    <3>1. Remembered(batches, k) =
             {i \in Remembered(batches, k - 1) \cup {k} :
                 batches[i].at >= batches[k].at - CONTEXT_WINDOW_MINUTES}
        BY <1>4, <2>0, RememberedAfter
    <3>2. QED
        BY <2>0, <3>1 DEF numbers
  <2>11. ContextInv(batches, k, u)
      BY <2>3, <2>4, <2>9, <2>10 DEF ContextInv
  <2>12. QED
      BY <2>0, <2>11 DEF u
<1>5. QED
    BY <1>3, <1>4

\* The listed calls in which an address was above the mean are as many as the batches.
LEMMA CountListed ==
    ASSUME NEW batches, NEW len \in Nat, DOMAIN batches = 1 .. len,
           NEW context, NEW numbers, Holds(batches, context, numbers), NEW ip
    PROVE  MultiBucketCount(context, ip) =
              Cardinality({i \in numbers : Elevated(TotalsOf(batches[i]), ip)})
<1>0. PICK e, n : Lists(batches, e, n, context) /\ numbers = Listed(e, n)
    BY DEF Holds
<1> DEFINE S == {j \in 1 .. n : Elevated(context[j].totals, ip)}
           T == {i \in numbers : Elevated(TotalsOf(batches[i]), ip)}
           f == [j \in S |-> e[j]]
<1>1. /\ n \in Nat /\ Len(context) = n
      /\ context \in Seq({CallOf(batches[i]) : i \in DOMAIN batches})
      /\ \A j \in 1 .. n : e[j] \in 1 .. len /\ context[j] = CallOf(batches[e[j]])
      /\ \A i, j \in 1 .. n : i < j => e[i] < e[j]
    BY <1>0 DEF Lists
<1>2. DOMAIN context = 1 .. n
    BY <1>1, LenProperties
<1>3. \A j \in 1 .. n : context[j].totals = TotalsOf(batches[e[j]])
    BY <1>1, CallFields
<1>4. IsFiniteSet(S)
  <2>1. IsFiniteSet(1 .. n)
      BY <1>1, FS_Interval
  <2>2. QED
      BY <2>1, FS_Subset
<1>5. f \in [S -> T]
    BY <1>0, <1>3 DEF Listed
<1>6. IsInjective(f)
  <2>1. ASSUME NEW i \in 1 .. n, NEW j \in 1 .. n, e[i] = e[j] PROVE i = j
    <3>1. e[i] \in Nat /\ (i < j \/ j < i \/ i = j)
        BY <1>1
    <3>2. QED
        BY <1>1, <2>1, <3>1
  <2>2. QED
      BY <2>1 DEF IsInjective
<1>7. \A t \in T : \E j \in S : f[j] = t
    BY <1>0, <1>3 DEF Listed
<1> HIDE DEF f, S, T
<1>8. f \in Injection(S, T) /\ f \in Surjection(S, T)
    BY <1>5, <1>6, <1>7 DEF Injection, Surjection
<1>9. Cardinality(T) = Cardinality(S)
    BY <1>4, <1>8, FS_Surjection
<1>10. MultiBucketCount(context, ip) = Cardinality(S)
    BY <1>2 DEF MultiBucketCount, Quantify, S
<1>11. QED
    BY <1>9, <1>10 DEF T

\* predict's memory neither loses nor outlives its window: however many batches came,
\* with or without features and at whatever times in order, the count it answers for an
\* address covers the run of recent batches, up to the last, in which the address was
\* above the mean, and no batch older than CONTEXT_WINDOW_MINUTES (predict.py,
\* _update_context).
THEOREM PredictRemembers ==
    ASSUME NEW Rows, NEW Times, NEW batches \in Seq(Batch(Rows, Times)), batches # << >>,
           InOrderOfTime(batches), NEW columns
    PROVE  ContextCountsRecent(batches, ServedWith(batches, columns).out)
<1> DEFINE n == Len(batches)
           s == ServedWith(batches, columns)
           start == [context |-> << >>, out |-> << >>]
<1>1. n \in Nat \ {0} /\ DOMAIN batches = 1 .. n
    BY EmptySeq, LenProperties
<1>2. \A i \in 1 .. n : batches[i].at \in Nat
  <2>1. ASSUME NEW i \in 1 .. n PROVE batches[i] \in Batch(Rows, Times)
      BY ElementOfSeq
  <2>2. QED
      BY <2>1 DEF Batch
<1>3. ContextInv(batches, 0, start)
  <2>1. DOMAIN start = {"context", "out"} /\ start.context = << >> /\ start.out = << >>
      OBVIOUS
  <2> HIDE DEF start
  <2>2. DOMAIN << >> = {}
      OBVIOUS
  <2>3. OutInv(batches, 0, start)
      BY <2>1, <2>2 DEF OutInv
  <2>4. Lists(batches, << >>, 0, << >>)
    <3>1. << >> \in Seq({CallOf(batches[i]) : i \in DOMAIN batches}) /\ Len(<< >>) = 0
        BY EmptySeq
    <3>2. 1 .. 0 = {}
        OBVIOUS
    <3>3. QED
        BY <2>2, <3>1, <3>2 DEF Lists
  <2>5. Remembered(batches, 0) = Listed(<< >>, 0)
      BY DEF Remembered, Listed
  <2>6. Holds(batches, << >>, Remembered(batches, 0))
      BY <2>4, <2>5 DEF Holds
  <2>7. QED
      BY <2>1, <2>3, <2>6 DEF ContextInv
<1>4. \A k \in 1 .. n : \A t : ContextInv(batches, k - 1, t) =>
                              ContextInv(batches, k, PredictOp(columns, t, batches[k]))
  <2> HIDE DEF n
  <2>1. QED
      BY <1>1, <1>2, PredictKeeps DEF PredictOp
<1>5. ContextInv(batches, n, PredictLoop!Fold(columns, start, batches))
  <2> HIDE DEF n, start
  <2>1. QED
      BY <1>1, <1>3, <1>4, PredictLoop!FoldKeeps
<1>6. s = PredictLoop!Fold(columns, start, batches)
    BY DEF ServedWith, PredictLoop!Fold, PredictLoop!FoldLeft, PredictLoop!MapThenFoldSet,
           PredictLoop!Max, PredictOp, FoldLeft, MapThenFoldSet, Max
<1>7. OutInv(batches, n, s) /\ Holds(batches, s.context, Remembered(batches, n))
    BY <1>5, <1>6 DEF ContextInv
<1> HIDE DEF n, s, start
<1> DEFINE cutoff == batches[n].at - CONTEXT_WINDOW_MINUTES
           recent == {i \in DOMAIN batches : batches[i].at >= cutoff}
<1>8. ASSUME NEW ip \in DOMAIN s.out
      PROVE  s.out[ip].multi_bucket =
                Cardinality({i \in recent : Elevated(TotalsOf(batches[i]), ip)})
  <2>1. HasFeatures(batches[n]) /\ s.out[ip].multi_bucket = MultiBucketCount(s.context, ip)
      BY <1>7 DEF OutInv
  <2>2. MultiBucketCount(s.context, ip) =
           Cardinality({i \in Remembered(batches, n) : Elevated(TotalsOf(batches[i]), ip)})
      BY <1>1, <1>7, CountListed
  <2>3. ASSUME NEW i \in 1 .. n, Elevated(TotalsOf(batches[i]), ip)
        PROVE  i \in Remembered(batches, n) <=> i \in recent
    <3>1. HasFeatures(batches[i])
        BY <2>3 DEF Elevated, HasFeatures, TotalsOf
    <3>2. /\ n \in 1 .. n /\ \A m \in 1 .. n : batches[m].at <= batches[n].at
          /\ CONTEXT_WINDOW_MINUTES \in Nat
        BY <1>1, SapAssumption DEF InOrderOfTime
    <3>3. i \in recent <=> batches[i].at >= batches[n].at - CONTEXT_WINDOW_MINUTES
        BY <1>1
    <3> HIDE DEF recent
    <3>4. ASSUME i \in recent, NEW m \in 1 .. n
          PROVE  batches[i].at >= batches[m].at - CONTEXT_WINDOW_MINUTES
      <4>1. /\ batches[m].at \in Nat /\ batches[n].at \in Nat /\ batches[i].at \in Nat
            /\ batches[m].at <= batches[n].at
          BY <1>2, <3>2
      <4>2. batches[i].at >= batches[n].at - CONTEXT_WINDOW_MINUTES
          BY <3>3, <3>4
      <4> DEFINE t == batches[i].at
                 u == batches[m].at
                 v == batches[n].at
      <4>3. t \in Nat /\ u \in Nat /\ v \in Nat /\ u <= v /\ t >= v - CONTEXT_WINDOW_MINUTES
          BY <4>1, <4>2
      <4> HIDE DEF t, u, v
      <4>4. t >= u - CONTEXT_WINDOW_MINUTES
          BY <3>2, <4>3
      <4>5. QED
          BY <4>4 DEF t, u
    <3>5. QED
        BY <2>1, <3>1, <3>2, <3>3, <3>4 DEF Remembered
  <2>4. {i \in Remembered(batches, n) : Elevated(TotalsOf(batches[i]), ip)}
           = {i \in recent : Elevated(TotalsOf(batches[i]), ip)}
    <3>1. \A i \in Remembered(batches, n) : i \in 1 .. n
        BY DEF Remembered
    <3>2. \A i \in recent : i \in 1 .. n
        BY <1>1
    <3> HIDE DEF recent
    <3>3. QED
        BY <2>3, <3>1, <3>2
  <2>5. QED
      BY <2>1, <2>2, <2>4
<1> DEFINE elevated(ip) == {i \in recent : Elevated(TotalsOf(batches[i]), ip)}
           running(ip) == {i \in recent : \A j \in i .. n : j \in elevated(ip)}
<1>9. ASSUME NEW ip \in DOMAIN s.out
      PROVE  /\ Cardinality(running(ip)) <= s.out[ip].multi_bucket
             /\ s.out[ip].multi_bucket <= Cardinality(elevated(ip))
  <2>1. n \in Nat /\ recent \subseteq 1 .. n
      BY <1>1
  <2>2. running(ip) \subseteq elevated(ip) /\ elevated(ip) \subseteq 1 .. n
    <3>1. \A i \in running(ip) : i \in i .. n
        BY <2>1
    <3>2. QED
        BY <2>1, <3>1
  <2>3. s.out[ip].multi_bucket = Cardinality(elevated(ip))
      BY <1>8
  <2> HIDE DEF running, elevated, recent
  <2>4. IsFiniteSet(elevated(ip)) /\ Cardinality(elevated(ip)) \in Nat
    <3>1. IsFiniteSet(1 .. n)
        BY <2>1, FS_Interval
    <3>2. IsFiniteSet(elevated(ip))
        BY <2>2, <3>1, FS_Subset
    <3>3. QED
        BY <3>2, FS_CardinalityType
  <2>5. Cardinality(running(ip)) <= Cardinality(elevated(ip))
      BY <2>2, <2>4, FS_Subset
  <2>6. QED
      BY <2>3, <2>4, <2>5
<1>10. /\ BatchTotals(batches) = [i \in DOMAIN batches |-> TotalsOf(batches[i])]
       /\ RecentBatches(batches) = recent
    BY DEF BatchTotals, RecentBatches, TotalsOf, n
<1>11. \A ip : elevated(ip) = {i \in recent : Elevated(BatchTotals(batches)[i], ip)}
    BY <1>10
<1> HIDE DEF recent
<1>12. QED
    BY <1>9, <1>10, <1>11 DEF ContextCountsRecent, n, s

-----------------------------------------------------------------------------
(* What predict remembers: the specification.                              *)

SomeBatches == Batch({BatchRows(n) : n \in {0, 1, 2}}, {NoValue})

BatchesComeInOrder == area = "context" => input \in Seq(SomeBatches) /\ InOrderOfTime(input)

\* A batch that comes no earlier than the last one.
LEMMA NextBatchInOrder ==
    ASSUME input \in Seq(SomeBatches), InOrderOfTime(input), NEW b \in Batches
    PROVE  /\ Append(input, NextBatch(b)) \in Seq(SomeBatches)
           /\ InOrderOfTime(Append(input, NextBatch(b)))
<1> DEFINE n == Len(input)
           next == NextBatch(b)
           longer == Append(input, next)
           last == LastAt(input)
<1>1. n \in Nat /\ DOMAIN input = 1 .. n
    BY LenProperties
<1>2. \A i \in 1 .. n : input[i].at \in Nat
  <2>1. ASSUME NEW i \in 1 .. n PROVE input[i] \in SomeBatches
      BY ElementOfSeq
  <2>2. QED
      BY <2>1 DEF SomeBatches, Batch
<1>3. last \in Nat /\ \A i \in 1 .. n : input[i].at <= last
  <2>1. CASE n = 0
    <3>1. input = << >>
        BY <2>1, EmptySeq
    <3>2. QED
        BY <2>1, <3>1 DEF LastAt
  <2>2. CASE n # 0
    <3>1. input # << >> /\ n \in 1 .. n
        BY <1>1, <2>2, EmptySeq
    <3>2. last = input[n].at
        BY <3>1 DEF LastAt
    <3> HIDE DEF n, last
    <3>3. QED
        BY <1>1, <1>2, <3>1, <3>2 DEF InOrderOfTime
  <2>3. QED
      BY <2>1, <2>2
<1>4. b.gap \in Nat /\ b.heavy \in {0, 1, 2}
    BY DEF Batches
<1> HIDE DEF last
<1>5. next \in SomeBatches /\ next.at = last + b.gap
  <2>1. next = [at |-> last + b.gap, rows |-> BatchRows(b.heavy), ingested_at |-> last,
                min_time |-> NoValue]
      BY DEF NextBatch, last
  <2> HIDE DEF next
  <2>2. BatchRows(b.heavy) \in {BatchRows(k) : k \in {0, 1, 2}}
      BY <1>4
  <2>3. QED
      BY <1>3, <1>4, <2>1, <2>2 DEF SomeBatches, Batch
<1> HIDE DEF next
<1>6. /\ longer \in Seq(SomeBatches) /\ Len(longer) = n + 1
      /\ \A i \in 1 .. n : longer[i] = input[i]
      /\ longer[n + 1] = next
    BY <1>5, AppendProperties
<1> HIDE DEF longer
<1>7. DOMAIN longer = 1 .. (n + 1)
    BY <1>6, LenProperties
<1> HIDE DEF n
<1>8. ASSUME NEW i \in 1 .. (n + 1), NEW j \in 1 .. (n + 1), i <= j
      PROVE  longer[i].at <= longer[j].at
  <2>1. CASE j \in 1 .. n
    <3>1. i \in 1 .. n
        BY <1>1, <1>8, <2>1
    <3>2. input[i].at <= input[j].at
        BY <1>1, <1>8, <2>1, <3>1 DEF InOrderOfTime
    <3>3. QED
        BY <1>6, <2>1, <3>1, <3>2
  <2>2. CASE j = n + 1 /\ i \in 1 .. n
    <3>1. input[i].at \in Nat /\ input[i].at <= last /\ last <= last + b.gap
        BY <1>2, <1>3, <1>4, <2>2
    <3>2. longer[i].at = input[i].at /\ longer[j].at = last + b.gap
        BY <1>5, <1>6, <2>2
    <3>3. QED
        BY <1>3, <1>4, <3>1, <3>2
  <2>3. CASE j = n + 1 /\ i = n + 1
      BY <1>3, <1>4, <1>5, <1>6, <2>3
  <2>4. QED
      BY <1>1, <1>8, <2>1, <2>2, <2>3
<1>9. QED
    BY <1>6, <1>7, <1>8 DEF InOrderOfTime, longer, next

\* In every state of the specification predict's count for an address covers the run of
\* recent batches in which it is elevated and no batch older than CONTEXT_WINDOW_MINUTES
\* (predict.py, _update_context).
THEOREM ContextStaysRecent == Spec => []ContextIsRecent
<1>1. Init => BatchesComeInOrder
  <2>1. DOMAIN << >> = {}
      OBVIOUS
  <2>2. QED
      BY <2>1, EmptySeq DEF Init, BatchesComeInOrder, InOrderOfTime
<1>2. BatchesComeInOrder /\ [Next]_vars => BatchesComeInOrder'
  <2> SUFFICES ASSUME BatchesComeInOrder, [Next]_vars, area' = "context"
               PROVE  input' \in Seq(SomeBatches) /\ InOrderOfTime(input')
      BY DEF BatchesComeInOrder
  <2>1. CASE AddBatch
    <3>1. area = "context" /\ \E b \in Batches : input' = Append(input, NextBatch(b))
        BY <2>1 DEF AddBatch
    <3>2. QED
        BY <3>1, NextBatchInOrder DEF BatchesComeInOrder
  <2>2. CASE AddLogRow \/ AddStoreRow \/ AddLlmRow \/ AddToolRow
      BY <2>2 DEF AddLogRow, AddStoreRow, AddLlmRow, AddToolRow, Add
  <2>3. CASE UNCHANGED vars
      BY <2>3 DEF vars, BatchesComeInOrder
  <2>4. QED
      BY <2>1, <2>2, <2>3 DEF Next
<1>3. BatchesComeInOrder => ContextIsRecent
  <2> SUFFICES ASSUME BatchesComeInOrder, area = "context", input # << >>
               PROVE  ContextCountsRecent(input, Served.out)
      BY DEF ContextIsRecent
  <2>1. Served = ServedWith(input, Columns)
      BY DEF Served, ServedWith
  <2>2. QED
      BY <2>1, PredictRemembers DEF BatchesComeInOrder, SomeBatches
<1>4. QED
    BY <1>1, <1>2, <1>3, PTL DEF Spec

-----------------------------------------------------------------------------
(* Filters.  What Kept leaves of a sequence is listed by the positions of  *)
(* the elements that it keeps, in ascending order; two lists of the same   *)
(* positions are the same, and so are filters that keep the same ones.     *)

\* e lists the numbers of I in ascending order.
Enumerates(e, m, I) ==
    /\ e \in [1 .. m -> I]
    /\ \A i, j \in 1 .. m : i < j => e[i] < e[j]
    /\ \A x \in I : \E k \in 1 .. m : e[k] = x

Positions(s, set) == {i \in DOMAIN s : s[i] \in set}

\* t is what is left of s at the positions that e lists.
Left(s, e, m, t) == t = [k \in 1 .. m |-> s[e[k]]]

\* Two lists have the same first m numbers.
Agree(e, f, m) == \A k \in 1 .. m : e[k] = f[k]

\* t is what is left of s where it is in the set.
Filtered(s, set, t) ==
    \E m \in 0 .. Len(s) : \E e : Enumerates(e, m, Positions(s, set)) /\ Left(s, e, m, t)

KeepOp(set, kept, x) == IF x \in set THEN Append(kept, x) ELSE kept

\* After n turns: the positions up to n.
KeepInv(c, n, kept) ==
    \E m \in 0 .. n : \E e :
        /\ Enumerates(e, m, Positions(c.rows, c.set) \cap (1 .. n))
        /\ Left(c.rows, e, m, kept)

Keeping == INSTANCE FoldFacts WITH Op <- KeepOp, Inv <- KeepInv

\* Numbers have one ascending list, here up to the length of the shorter list.
LEMMA ListsAgree ==
    ASSUME NEW I, I \subseteq Nat, NEW m \in Nat, NEW n \in Nat, m <= n,
           NEW e, NEW f, Enumerates(e, m, I), Enumerates(f, n, I)
    PROVE  Agree(e, f, m)
<1> DEFINE Bad == {k \in 1 .. m : e[k] # f[k]}
<1>1. SUFFICES ASSUME Bad # {} PROVE FALSE
    BY DEF Agree
<1>2. PICK k \in Bad : \A j \in Bad : k <= j
  <2>1. Bad \subseteq Nat
      OBVIOUS
  <2> HIDE DEF Bad
  <2>2. QED
      BY <1>1, <2>1, Keeping!Smallest
<1>3. k \in 1 .. m /\ k \in 1 .. n /\ e[k] # f[k] /\ \A j \in 1 .. m : j < k => e[j] = f[j]
    BY <1>2
<1> HIDE DEF Bad
<1>4. /\ \A i \in 1 .. m : e[i] \in I /\ e[i] \in Nat
      /\ \A i \in 1 .. n : f[i] \in I /\ f[i] \in Nat
    BY DEF Enumerates
<1>5. PICK i \in 1 .. n : f[i] = e[k]
    BY <1>3, <1>4 DEF Enumerates
<1>6. PICK j \in 1 .. m : e[j] = f[k]
    BY <1>3, <1>4 DEF Enumerates
<1>7. ~(i < k)
  <2>1. SUFFICES ASSUME i < k PROVE FALSE
      OBVIOUS
  <2>2. i \in 1 .. m
      BY <1>3, <2>1
  <2>3. e[i] = f[i] /\ e[i] < e[k]
      BY <1>3, <2>1, <2>2 DEF Enumerates
  <2>4. QED
      BY <1>3, <1>4, <1>5, <2>2, <2>3
<1>8. ~(j < k)
  <2>1. SUFFICES ASSUME j < k PROVE FALSE
      OBVIOUS
  <2>2. j \in 1 .. n
      BY <1>3, <2>1
  <2>3. e[j] = f[j] /\ f[j] < f[k]
      BY <1>3, <2>1, <2>2 DEF Enumerates
  <2>4. QED
      BY <1>3, <1>4, <1>6, <2>2, <2>3
<1>9. f[k] < f[i] /\ e[k] < e[j]
  <2>1. i # k /\ j # k
      BY <1>3, <1>5, <1>6
  <2>2. k < i /\ k < j
      BY <1>3, <1>7, <1>8, <2>1
  <2>3. QED
      BY <1>3, <2>2 DEF Enumerates
<1>10. QED
    BY <1>3, <1>4, <1>5, <1>6, <1>9

LEMMA OneList ==
    ASSUME NEW I, I \subseteq Nat, NEW m \in Nat, NEW n \in Nat,
           NEW e, NEW f, Enumerates(e, m, I), Enumerates(f, n, I)
    PROVE  m = n /\ e = f
<1>1. ASSUME NEW l \in Nat, NEW u \in Nat, l < u, NEW g, NEW h,
             Enumerates(g, l, I), Enumerates(h, u, I)
      PROVE  FALSE
  <2>1. Agree(g, h, l)
    <3>1. l <= u
        BY <1>1
    <3>2. QED
        BY <1>1, <3>1, ListsAgree
  <2>2. u \in 1 .. u /\ h[u] \in I
      BY <1>1 DEF Enumerates
  <2>3. PICK k \in 1 .. l : g[k] = h[u]
      BY <1>1, <2>2 DEF Enumerates
  <2>4. h[k] < h[u] /\ h[k] = h[u]
      BY <1>1, <2>1, <2>2, <2>3 DEF Enumerates, Agree
  <2>5. h[u] \in Nat
      BY <2>2
  <2>6. QED
      BY <2>4, <2>5
<1>2. m = n
  <2>1. ~(m < n) /\ ~(n < m)
      BY <1>1
  <2>2. QED
      BY <2>1
<1>3. Agree(e, f, m)
  <2>1. m <= n
      BY <1>2
  <2>2. QED
      BY <2>1, ListsAgree
<1>4. e = f
    BY <1>2, <1>3 DEF Enumerates, Agree
<1>5. QED
    BY <1>2, <1>4

\* A turn of the loop.
LEMMA KeepTurn ==
    ASSUME NEW R, NEW s \in Seq(R), NEW set, NEW n \in 1 .. Len(s), NEW kept,
           KeepInv([rows |-> s, set |-> set], n - 1, kept)
    PROVE  KeepInv([rows |-> s, set |-> set], n, KeepOp(set, kept, s[n]))
<1> DEFINE I == Positions(s, set) \cap (1 .. (n - 1))
           J == Positions(s, set) \cap (1 .. n)
<1>1. PICK m \in 0 .. (n - 1) : \E e : Enumerates(e, m, I) /\ Left(s, e, m, kept)
    BY DEF KeepInv
<1>2. PICK e : Enumerates(e, m, I) /\ Left(s, e, m, kept)
    BY <1>1
<1>3. n \in Nat \ {0} /\ n \in DOMAIN s /\ m \in Nat /\ m <= n - 1 /\ Len(s) \in Nat
    BY <1>1, LenProperties
<1>4. CASE s[n] \notin set
  <2>1. n \notin Positions(s, set)
      BY <1>4 DEF Positions
  <2>2. J = I
    <3>1. \A x \in Nat : x \in 1 .. n <=> x \in 1 .. (n - 1) \/ x = n
        BY <1>3
    <3>2. QED
        BY <2>1, <3>1
  <2>3. m \in 0 .. n
      BY <1>3
  <2>4. KeepOp(set, kept, s[n]) = kept
      BY <1>4 DEF KeepOp
  <2> HIDE DEF I, J
  <2>5. Enumerates(e, m, J) /\ Left(s, e, m, kept)
      BY <1>2, <2>2
  <2>6. QED
      BY <2>3, <2>4, <2>5 DEF KeepInv, J
<1>5. CASE s[n] \in set
  <2> DEFINE f == [k \in 1 .. (m + 1) |-> IF k = m + 1 THEN n ELSE e[k]]
             long == Append(kept, s[n])
  <2>1. \A k \in 1 .. m : e[k] \in I /\ e[k] \in 1 .. Len(s) /\ e[k] < n
    <3>1. \A k \in 1 .. m : e[k] \in I
        BY <1>2 DEF Enumerates
    <3>2. \A x \in I : x \in 1 .. Len(s) /\ x < n
        BY <1>3
    <3>3. QED
        BY <3>1, <3>2
  <2>2. n \in J /\ I \subseteq J
    <3>1. n \in Positions(s, set)
        BY <1>3, <1>5 DEF Positions
    <3>2. n \in 1 .. n /\ 1 .. (n - 1) \subseteq 1 .. n
        BY <1>3
    <3>3. QED
        BY <3>1, <3>2
  <2>3. J \subseteq I \cup {n}
    <3>1. \A x \in 1 .. n : x \in 1 .. (n - 1) \/ x = n
        BY <1>3
    <3>2. QED
        BY <3>1
  <2> HIDE DEF I, J
  <2>4. /\ \A k \in 1 .. (m + 1) : k \in 1 .. m \/ k = m + 1
        /\ \A k \in 1 .. m : k \in 1 .. (m + 1) /\ k # m + 1
        /\ m + 1 \in 1 .. (m + 1) /\ m + 1 \in 0 .. n
      BY <1>3
  <2>5. /\ \A k \in 1 .. m : f[k] = e[k]
        /\ f[m + 1] = n
      BY <2>4
  <2>6. f \in [1 .. (m + 1) -> J]
    <3>1. \A k \in 1 .. (m + 1) : f[k] \in J
        BY <2>1, <2>2, <2>4, <2>5
    <3>2. QED
        BY <3>1
  <2>7. DOMAIN f = 1 .. (m + 1)
      OBVIOUS
  <2> HIDE DEF f
  <2>8. ASSUME NEW i \in 1 .. (m + 1), NEW j \in 1 .. (m + 1), i < j PROVE f[i] < f[j]
    <3>1. i \in 1 .. m
        BY <1>3, <2>8
    <3>2. CASE j \in 1 .. m
        BY <1>2, <2>5, <2>8, <3>1, <3>2 DEF Enumerates
    <3>3. CASE j = m + 1
        BY <2>1, <2>5, <3>1, <3>3
    <3>4. QED
        BY <2>4, <3>2, <3>3
  <2>9. ASSUME NEW x \in J PROVE \E k \in 1 .. (m + 1) : f[k] = x
    <3>1. CASE x \in I
        BY <1>2, <2>4, <2>5, <3>1 DEF Enumerates
    <3>2. CASE x = n
        BY <2>4, <2>5, <3>2
    <3>3. QED
        BY <2>3, <3>1, <3>2
  <2>10. Enumerates(f, m + 1, J)
      BY <2>6, <2>8, <2>9 DEF Enumerates
  <2>11. kept \in Seq(R) /\ Len(kept) = m /\ \A k \in 1 .. m : kept[k] = s[e[k]]
    <3>1. kept = [k \in 1 .. m |-> s[e[k]]]
        BY <1>2 DEF Left
    <3>2. \A k \in 1 .. m : s[e[k]] \in R
      <4>1. \A k \in 1 .. m : e[k] \in 1 .. Len(s)
          BY <2>1
      <4>2. QED
          BY <4>1, ElementOfSeq
    <3>3. kept \in [1 .. m -> R]
        BY <3>1, <3>2
    <3>4. kept \in Seq(R)
        BY <1>3, <3>3, SeqDef
    <3>5. Len(kept) = m
        BY <1>3, <3>3, <3>4, LenProperties
    <3>6. QED
        BY <3>1, <3>4, <3>5
  <2>12. s[n] \in R
      BY ElementOfSeq
  <2>13. /\ Len(long) = m + 1 /\ long[m + 1] = s[n] /\ \A k \in 1 .. m : long[k] = kept[k]
         /\ long \in Seq(R)
      BY <2>11, <2>12, AppendProperties
  <2> HIDE DEF long
  <2>14. long = [k \in 1 .. (m + 1) |-> s[f[k]]]
    <3>1. \A k \in 1 .. (m + 1) : long[k] = s[f[k]]
        BY <2>4, <2>5, <2>11, <2>13
    <3>2. long = [k \in 1 .. (m + 1) |-> long[k]]
        BY <2>13, LenProperties
    <3>3. QED
        BY <3>1, <3>2
  <2>15. Left(s, f, m + 1, long)
      BY <2>14 DEF Left
  <2>16. KeepOp(set, kept, s[n]) = long
      BY <1>5 DEF KeepOp, long
  <2>17. QED
      BY <2>4, <2>10, <2>15, <2>16 DEF KeepInv, J
<1>6. QED
    BY <1>4, <1>5

\* Kept is so listed.
LEMMA KeptIsListed ==
    ASSUME NEW R, NEW s \in Seq(R), NEW set
    PROVE  Filtered(s, set, Kept(s, set))
<1> DEFINE c == [rows |-> s, set |-> set]
<1>1. Len(s) \in Nat /\ DOMAIN s = 1 .. Len(s)
    BY LenProperties
<1>2. KeepInv(c, 0, << >>)
  <2>1. \A x \in 1 .. 0 : FALSE
      OBVIOUS
  <2>2. Enumerates(<< >>, 0, Positions(s, set) \cap (1 .. 0))
    <3>1. << >> \in [1 .. 0 -> Positions(s, set) \cap (1 .. 0)]
        OBVIOUS
    <3>2. QED
        BY <2>1, <3>1 DEF Enumerates
  <2>3. Left(s, << >>, 0, << >>)
      BY <2>1 DEF Left
  <2>4. 0 \in 0 .. 0
      OBVIOUS
  <2>5. QED
      BY <2>2, <2>3, <2>4 DEF KeepInv
<1>3. \A n \in 1 .. Len(s) : \A y : KeepInv(c, n - 1, y) => KeepInv(c, n, KeepOp(set, y, s[n]))
    BY KeepTurn
<1>4. KeepInv(c, Len(s), Keeping!Fold(set, << >>, s))
  <2> HIDE DEF c
  <2>1. QED
      BY <1>1, <1>2, <1>3, Keeping!FoldKeeps
<1>5. Kept(s, set) = Keeping!Fold(set, << >>, s)
    BY DEF Kept, Keeping!Fold, Keeping!FoldLeft, Keeping!MapThenFoldSet, Keeping!Max, KeepOp,
           FoldLeft, MapThenFoldSet, Max
<1>6. Positions(s, set) \cap (1 .. Len(s)) = Positions(s, set)
    BY <1>1 DEF Positions
<1>7. QED
    BY <1>4, <1>5, <1>6 DEF KeepInv, Filtered

\* A filter leaves elements of the sequence, as many as there are positions.
LEMMA KeptType ==
    ASSUME NEW R, NEW s \in Seq(R), NEW set
    PROVE  /\ Kept(s, set) \in Seq(R)
           /\ Range(Kept(s, set)) = Range(s) \cap set
           /\ IsFiniteSet(Positions(s, set))
           /\ Len(Kept(s, set)) = Cardinality(Positions(s, set))
<1> DEFINE t == Kept(s, set)
           I == Positions(s, set)
<1>1. Len(s) \in Nat /\ DOMAIN s = 1 .. Len(s) /\ \A i \in 1 .. Len(s) : s[i] \in R
    BY LenProperties, ElementOfSeq
<1>2. Filtered(s, set, t)
    BY KeptIsListed
<1> HIDE DEF t
<1>3. PICK m \in 0 .. Len(s) : \E e : Enumerates(e, m, I) /\ Left(s, e, m, t)
    BY <1>2 DEF Filtered
<1>4. PICK e : Enumerates(e, m, I) /\ Left(s, e, m, t)
    BY <1>3
<1>5. I \subseteq 1 .. Len(s) /\ \A i \in 1 .. Len(s) : i \in I <=> s[i] \in set
    BY <1>1 DEF Positions
<1> HIDE DEF I
<1>6. m \in Nat /\ t = [k \in 1 .. m |-> s[e[k]]] /\ e \in [1 .. m -> I]
  <2>1. m \in Nat
      BY <1>1
  <2>2. t = [k \in 1 .. m |-> s[e[k]]]
      BY <1>4 DEF Left
  <2>3. e \in [1 .. m -> I]
      BY <1>4 DEF Enumerates
  <2>4. QED
      BY <2>1, <2>2, <2>3
<1>7. t \in [1 .. m -> R]
    BY <1>1, <1>5, <1>6
<1>8. t \in Seq(R) /\ Len(t) = m
  <2>1. t \in Seq(R)
      BY <1>6, <1>7, SeqDef
  <2>2. QED
      BY <1>6, <1>7, <2>1, LenProperties
<1>9. Range(t) = Range(s) \cap set
  <2>1. Range(t) = {s[e[k]] : k \in 1 .. m}
      BY <1>6 DEF Range
  <2>2. \A k \in 1 .. m : s[e[k]] \in Range(s) \cap set
      BY <1>1, <1>5, <1>6 DEF Range
  <2>3. ASSUME NEW x \in Range(s) \cap set PROVE x \in {s[e[k]] : k \in 1 .. m}
    <3>1. PICK i \in 1 .. Len(s) : s[i] = x
        BY <1>1 DEF Range
    <3>2. i \in I
        BY <1>5, <3>1
    <3>3. PICK k \in 1 .. m : e[k] = i
        BY <1>4, <3>2 DEF Enumerates
    <3>4. QED
        BY <3>1, <3>3
  <2>4. QED
      BY <2>1, <2>2, <2>3
<1>10. IsFiniteSet(I)
  <2>1. IsFiniteSet(1 .. Len(s))
      BY <1>1, FS_Interval
  <2>2. QED
      BY <1>5, <2>1, FS_Subset
<1>11. Cardinality(I) = m
  <2>1. e \in Bijection(1 .. m, I)
    <3>1. e \in Surjection(1 .. m, I)
        BY <1>4, <1>6 DEF Enumerates, Surjection
    <3>2. \A i, j \in 1 .. m : e[i] = e[j] => i = j
      <4>1. \A i \in 1 .. m : e[i] \in Nat
        <5>1. 1 .. Len(s) \subseteq Nat
            BY <1>1
        <5>2. QED
            BY <1>5, <1>6, <5>1
      <4>2. \A i, j \in 1 .. m : i < j => e[i] < e[j]
          BY <1>4 DEF Enumerates
      <4>3. QED
          BY <4>1, <4>2
    <3>3. e \in Injection(1 .. m, I)
        BY <1>6, <3>2 DEF Injection, IsInjective
    <3>4. QED
        BY <3>1, <3>3 DEF Bijection
  <2>2. IsFiniteSet(1 .. m) /\ Cardinality(1 .. m) = m
    <3>1. 0 + 1 = 1
        OBVIOUS
    <3>2. Cardinality(1 .. m) = m - 1 + 1
        BY <1>6, FS_Interval
    <3>3. QED
        BY <1>6, <3>2, FS_Interval
  <2>3. ExistsBijection(1 .. m, I)
      BY <2>1 DEF ExistsBijection
  <2>4. QED
      BY <2>2, <2>3, FS_Bijection
<1>12. QED
    BY <1>8, <1>9, <1>10, <1>11 DEF t, I

\* Two sequences that are filtered at the same positions are read at the same ones.
Alike(s, S, u, T) ==
    \E m \in Nat : \E e :
        /\ Enumerates(e, m, Positions(s, S))
        /\ Left(s, e, m, Kept(s, S)) /\ Left(u, e, m, Kept(u, T))

LEMMA KeptAlike ==
    ASSUME NEW R, NEW s \in Seq(R), NEW Q, NEW u \in Seq(Q), NEW S, NEW T,
           Positions(s, S) = Positions(u, T)
    PROVE  Alike(s, S, u, T)
<1>1. Filtered(s, S, Kept(s, S)) /\ Filtered(u, T, Kept(u, T))
    BY KeptIsListed
<1>2. PICK m \in 0 .. Len(s) :
           \E e : Enumerates(e, m, Positions(s, S)) /\ Left(s, e, m, Kept(s, S))
    BY <1>1 DEF Filtered
<1>3. PICK e : Enumerates(e, m, Positions(s, S)) /\ Left(s, e, m, Kept(s, S))
    BY <1>2
<1>4. PICK n \in 0 .. Len(u) :
           \E f : Enumerates(f, n, Positions(u, T)) /\ Left(u, f, n, Kept(u, T))
    BY <1>1 DEF Filtered
<1>5. PICK f : Enumerates(f, n, Positions(u, T)) /\ Left(u, f, n, Kept(u, T))
    BY <1>4
<1>6. Len(s) \in Nat /\ Len(u) \in Nat /\ DOMAIN s = 1 .. Len(s)
    BY LenProperties
<1>7. m \in Nat /\ n \in Nat
    BY <1>2, <1>4, <1>6
<1>8. Positions(s, S) \subseteq Nat
    BY <1>6 DEF Positions
<1>9. m = n /\ e = f
    BY <1>3, <1>5, <1>7, <1>8, OneList
<1>10. QED
    BY <1>3, <1>5, <1>7, <1>9 DEF Alike

\* Filters that keep the same elements of a sequence leave the same.
LEMMA KeptSame ==
    ASSUME NEW R, NEW s \in Seq(R), NEW S, NEW T, \A x \in Range(s) : x \in S <=> x \in T
    PROVE  Kept(s, S) = Kept(s, T)
<1>1. Positions(s, S) = Positions(s, T)
    BY DEF Positions, Range
<1>2. Alike(s, S, s, T)
    BY <1>1, KeptAlike
<1>3. QED
    BY <1>2 DEF Alike, Left

\* Two filters are the filter of both.
LEMMA KeptTwice ==
    ASSUME NEW R, NEW s \in Seq(R), NEW S, NEW T
    PROVE  Kept(Kept(s, S), T) = Kept(s, S \cap T)
<1> DEFINE t == Kept(s, S)
           u == Kept(t, T)
           v == Kept(s, S \cap T)
           I == Positions(s, S)
           J == Positions(t, T)
           K == Positions(s, S \cap T)
<1>1. t \in Seq(R) /\ Filtered(s, S, t) /\ Filtered(s, S \cap T, v)
    BY KeptType, KeptIsListed
<1> HIDE DEF t
<1>2. Filtered(t, T, u)
    BY <1>1, KeptIsListed
<1> HIDE DEF u, v
<1>3. /\ Len(s) \in Nat /\ DOMAIN s = 1 .. Len(s)
      /\ Len(t) \in Nat /\ DOMAIN t = 1 .. Len(t)
    BY <1>1, LenProperties
<1>4. PICK m \in 0 .. Len(s) : \E e : Enumerates(e, m, I) /\ Left(s, e, m, t)
    BY <1>1 DEF Filtered
<1>5. PICK e : Enumerates(e, m, I) /\ Left(s, e, m, t)
    BY <1>4
<1>6. PICK n \in 0 .. Len(t) : \E f : Enumerates(f, n, J) /\ Left(t, f, n, u)
    BY <1>2 DEF Filtered
<1>7. PICK f : Enumerates(f, n, J) /\ Left(t, f, n, u)
    BY <1>6
<1>8. PICK q \in 0 .. Len(s) : \E h : Enumerates(h, q, K) /\ Left(s, h, q, v)
    BY <1>1 DEF Filtered
<1>9. PICK h : Enumerates(h, q, K) /\ Left(s, h, q, v)
    BY <1>8
<1>10. m \in Nat /\ n \in Nat /\ q \in Nat
    BY <1>3, <1>4, <1>6, <1>8
<1>11. t = [k \in 1 .. m |-> s[e[k]]] /\ DOMAIN t = 1 .. m
    BY <1>5 DEF Left
<1>12. /\ \A k \in 1 .. m : k \in J <=> s[e[k]] \in T
       /\ J \subseteq 1 .. m /\ I \subseteq DOMAIN s /\ K \subseteq DOMAIN s
       /\ \A i \in DOMAIN s : i \in I <=> s[i] \in S
       /\ \A i \in DOMAIN s : i \in K <=> s[i] \in S /\ s[i] \in T
    BY <1>11 DEF Positions
<1> HIDE DEF I, J, K
<1> DEFINE g == [k \in 1 .. n |-> e[f[k]]]
<1>13. Enumerates(g, n, K)
  <2>1. \A k \in 1 .. n : f[k] \in J /\ f[k] \in 1 .. m
      BY <1>7, <1>12 DEF Enumerates
  <2>2. \A k \in 1 .. m : e[k] \in I /\ e[k] \in DOMAIN s
      BY <1>5, <1>12 DEF Enumerates
  <2>3. g \in [1 .. n -> K]
    <3>1. \A k \in 1 .. n : e[f[k]] \in K
        BY <1>12, <2>1, <2>2
    <3>2. QED
        BY <3>1
  <2>4. ASSUME NEW i \in 1 .. n, NEW j \in 1 .. n, i < j PROVE g[i] < g[j]
    <3>1. f[i] < f[j] /\ f[i] \in 1 .. m /\ f[j] \in 1 .. m
        BY <1>7, <2>1, <2>4 DEF Enumerates
    <3>2. e[f[i]] < e[f[j]]
        BY <1>5, <3>1 DEF Enumerates
    <3>3. QED
        BY <3>2
  <2>5. ASSUME NEW x \in K PROVE \E k \in 1 .. n : g[k] = x
    <3>1. x \in I /\ s[x] \in T
        BY <1>12
    <3>2. PICK j \in 1 .. m : e[j] = x
        BY <1>5, <3>1 DEF Enumerates
    <3>3. j \in J
        BY <1>12, <3>1, <3>2
    <3>4. PICK k \in 1 .. n : f[k] = j
        BY <1>7, <3>3 DEF Enumerates
    <3>5. QED
        BY <3>2, <3>4
  <2>6. QED
      BY <2>3, <2>4, <2>5 DEF Enumerates
<1>14. Left(s, g, n, u)
  <2>1. \A k \in 1 .. n : f[k] \in 1 .. m
      BY <1>7, <1>12 DEF Enumerates
  <2>2. \A k \in 1 .. n : t[f[k]] = s[g[k]]
      BY <1>11, <2>1
  <2>3. u = [k \in 1 .. n |-> t[f[k]]]
      BY <1>7 DEF Left
  <2> HIDE DEF g
  <2>4. QED
      BY <2>2, <2>3 DEF Left
<1> HIDE DEF g
<1>15. n = q /\ g = h
  <2>1. K \subseteq Nat
      BY <1>3, <1>12
  <2>2. QED
      BY <1>9, <1>10, <1>13, <2>1, OneList
<1>16. u = v
    BY <1>9, <1>14, <1>15 DEF Left
<1>17. QED
    BY <1>16 DEF t, u, v

-----------------------------------------------------------------------------
(* Training sees what serving sees.                                        *)

LEMMA TotalIsSum ==
    ASSUME NEW f
    PROVE  Total(f) = Keeping!SumOver(f)
BY DEF Total, MapThenSumSet, MapThenFoldSet, Keeping!SumOver, Keeping!IsSumTable,
       Keeping!SumRow, Keeping!Pick

LEMMA TotalRenamed ==
    ASSUME NEW f, NEW h, NEW b, IsFiniteSet(DOMAIN f), IsFiniteSet(DOMAIN h),
           Keeping!Renames(b, f, h), Keeping!OfNumbers(h)
    PROVE  Total(f) = Total(h)
<1>1. Keeping!IsFiniteSet(DOMAIN f) /\ Keeping!IsFiniteSet(DOMAIN h)
    BY DEF IsFiniteSet, Keeping!IsFiniteSet
<1>2. QED
    BY <1>1, Keeping!SumRenamed, TotalIsSum

\* A z-score depends on the values of the peers and not on their names.
LEMMA ZScoreRenamed ==
    ASSUME NEW f, NEW h, NEW b, IsFiniteSet(DOMAIN f), IsFiniteSet(DOMAIN h),
           Keeping!Renames(b, f, h), Keeping!OfNumbers(h), NEW x
    PROVE  ZScore(f, x) = ZScore(h, x)
<1> DEFINE fs == [i \in DOMAIN f |-> f[i] * f[i]]
           hs == [i \in DOMAIN h |-> h[i] * h[i]]
<1>1. Total(f) = Total(h)
    BY TotalRenamed
<1>2. Total(fs) = Total(hs)
  <2>1. Keeping!OfNumbers(hs)
      BY DEF Keeping!OfNumbers
  <2>2. Keeping!Renames(b, fs, hs)
      BY DEF Keeping!Renames
  <2>3. IsFiniteSet(DOMAIN fs) /\ IsFiniteSet(DOMAIN hs)
      OBVIOUS
  <2> HIDE DEF fs, hs
  <2>4. QED
      BY <2>1, <2>2, <2>3, TotalRenamed
<1>3. Cardinality(DOMAIN f) = Cardinality(DOMAIN h)
  <2> DEFINE c == [y \in DOMAIN f |-> b[y]]
  <2>1. c \in Surjection(DOMAIN f, DOMAIN h)
      BY DEF Keeping!Renames, Surjection
  <2>2. c \in Injection(DOMAIN f, DOMAIN h)
      BY DEF Keeping!Renames, Injection, IsInjective
  <2>3. ExistsBijection(DOMAIN f, DOMAIN h)
      BY <2>1, <2>2 DEF ExistsBijection, Bijection
  <2>4. QED
      BY <2>3, FS_Bijection
<1>4. Spread(f) = Spread(h)
    BY <1>1, <1>2, <1>3 DEF Spread
<1>5. QED
    BY <1>1, <1>3, <1>4 DEF ZScore

\* A spread is never negative.
LEMMA SpreadIsNat ==
    ASSUME NEW f, IsFiniteSet(DOMAIN f), Keeping!OfNumbers(f)
    PROVE  Spread(f) \in Nat
<1> DEFINE fs == [i \in DOMAIN f |-> f[i] * f[i]]
<1>1. Keeping!IsFiniteSet(DOMAIN f)
    BY DEF IsFiniteSet, Keeping!IsFiniteSet
<1>2. Keeping!Cardinality(DOMAIN f) = Cardinality(DOMAIN f)
    BY DEF Cardinality, Keeping!Cardinality
<1>3. fs = Keeping!Squares(f)
    BY DEF Keeping!Squares
<1>4. /\ Cardinality(DOMAIN f) * Keeping!SumOver(fs) >= Keeping!SumOver(f) * Keeping!SumOver(f)
      /\ Keeping!SumOver(f) \in Nat /\ Keeping!SumOver(fs) \in Nat
    BY <1>1, <1>2, <1>3, Keeping!SumOfSquares
<1>5. Cardinality(DOMAIN f) \in Nat
    BY FS_CardinalityType
<1>6. Total(f) = Keeping!SumOver(f) /\ Total(fs) = Keeping!SumOver(fs)
    BY TotalIsSum
<1>7. Total(f) \in Nat /\ Total(fs) \in Nat
    BY <1>4, <1>6
<1>8. Spread(f) = Cardinality(DOMAIN f) * Total(fs) - Total(f) * Total(f)
    BY DEF Spread
<1> HIDE DEF fs
<1>9. Cardinality(DOMAIN f) * Total(fs) >= Total(f) * Total(f)
    BY <1>4, <1>6
<1>10. Cardinality(DOMAIN f) * Total(fs) \in Nat /\ Total(f) * Total(f) \in Nat
    BY <1>5, <1>7
<1>11. QED
    BY <1>8, <1>9, <1>10

\* So the two z-scores of features.py are one, although the tests differ that guard them
\* from a deviation of 0.
LEMMA GlobalIsZScore ==
    ASSUME NEW F, NEW h, h = [k \in DOMAIN F |-> F[k].total_requests],
           IsFiniteSet(DOMAIN h), Keeping!OfNumbers(h)
    PROVE  AddGlobalFeatures(F)
               = [k \in DOMAIN F |->
                     ("request_rate_zscore" :> ZScore(h, F[k].total_requests)) @@ F[k]]
<1>1. Spread(h) \in Nat
    BY SpreadIsNat
<1>2. Spread(h) > 0 <=> Spread(h) # 0
    BY <1>1
<1>3. \A k \in DOMAIN F : h[k] = F[k].total_requests
    OBVIOUS
<1>4. AddGlobalFeatures(F)
          = [k \in DOMAIN F |->
                ("request_rate_zscore" :>
                    (IF Spread(h) > 0
                     THEN <<Cardinality(DOMAIN h) * h[k] - Total(h), Spread(h)>>
                     ELSE <<0, 1>>)) @@ F[k]]
    BY DEF AddGlobalFeatures
<1>5. ASSUME NEW k \in DOMAIN F
      PROVE  ZScore(h, F[k].total_requests)
                 = IF Spread(h) > 0
                   THEN <<Cardinality(DOMAIN h) * h[k] - Total(h), Spread(h)>>
                   ELSE <<0, 1>>
    BY <1>2, <1>3 DEF ZScore
<1>6. QED
    BY <1>4, <1>5

\* The elements of a sequence are a finite set, and so is what is computed of them.
LEMMA RangeIsFinite ==
    ASSUME NEW R, NEW s \in Seq(R)
    PROVE  /\ IsFiniteSet(Range(s)) /\ s \in Seq(Range(s))
           /\ DOMAIN s = 1 .. Len(s) /\ Len(s) \in Nat
<1>1. Len(s) \in Nat /\ DOMAIN s = 1 .. Len(s) /\ s \in [1 .. Len(s) -> R]
    BY LenProperties
<1>2. IsFiniteSet(1 .. Len(s))
    BY <1>1, FS_Interval
<1>3. IsFiniteSet({s[i] : i \in 1 .. Len(s)})
  <2> DEFINE f == [i \in 1 .. Len(s) |-> s[i]]
  <2>1. f \in Surjection(1 .. Len(s), {s[i] : i \in 1 .. Len(s)})
      BY DEF Surjection
  <2>2. QED
      BY <1>2, <2>1, FS_Surjection
<1>4. Range(s) = {s[i] : i \in 1 .. Len(s)}
    BY <1>1 DEF Range
<1>5. s \in [1 .. Len(s) -> Range(s)]
    BY <1>1, <1>4
<1>6. s \in Seq(Range(s))
    BY <1>1, <1>5, SeqDef
<1>7. QED
    BY <1>1, <1>3, <1>4, <1>6

\* What the two feature frames keep of the log: the rows of NetworkRows, of these those
\* with a time, of these those of a window, and of these those of an address.
IsNetwork(r) == r.log_type \notin LLM_LOG_TYPES /\ r.source_ip \notin {NoValue, ""}

IsTimed(r) == r.datetime # NoValue

InWindow(r, minutes, w) == IsNetwork(r) /\ IsTimed(r) /\ WindowOf(r, minutes) = w

WindowRows(log, minutes, w) == {r \in Range(log) : InWindow(r, minutes, w)}

GroupRows(log, minutes, w, ip) == {r \in WindowRows(log, minutes, w) : r.source_ip = ip}

\* What serving makes its features of, when it is given a window alone.
WindowFrame(log, minutes, w) ==
    NetworkRows(Where(Timed(log), LAMBDA r : WindowOf(r, minutes) = w))

\* So the rows that training groups are the timed ones of the network, and a group is
\* that of the log.
TrainingReads(log, minutes, rows) ==
    /\ Range(rows) = {r \in Range(log) : IsNetwork(r) /\ IsTimed(r)}
    /\ \A w, ip : Where(rows, LAMBDA r : <<WindowOf(r, minutes), r.source_ip>> = <<w, ip>>)
                      = Kept(log, GroupRows(log, minutes, w, ip))

\* And so are those that serving makes of a window.
ServingReads(log, minutes, w, rows) ==
    /\ Range(rows) = WindowRows(log, minutes, w)
    /\ \A ip : Where(rows, LAMBDA r : r.source_ip = ip)
                   = Kept(log, GroupRows(log, minutes, w, ip))

LEMMA TrainingRows ==
    ASSUME NEW R, NEW log \in Seq(R), NEW minutes, NEW rows, rows = WindowedRows(log)
    PROVE  rows \in Seq(R) /\ TrainingReads(log, minutes, rows)
<1> DEFINE NT == {r \in Range(log) : IsNetwork(r) /\ IsTimed(r)}
<1>5. rows = Kept(log, NT)
  <2>1. NT = {r \in Range(log) : /\ r.log_type \notin LLM_LOG_TYPES
                                 /\ r.source_ip \notin {NoValue, ""}
                                 /\ r.datetime # NoValue}
      BY DEF IsNetwork, IsTimed
  <2> HIDE DEF NT
  <2>2. QED
      BY <2>1 DEF WindowedRows, Where
<1>6. rows \in Seq(R) /\ Range(rows) = NT
    BY <1>5, KeptType
<1>7. ASSUME NEW w, NEW ip
      PROVE  Where(rows, LAMBDA r : <<WindowOf(r, minutes), r.source_ip>> = <<w, ip>>)
                 = Kept(log, GroupRows(log, minutes, w, ip))
  <2> DEFINE G == {r \in Range(rows) : <<WindowOf(r, minutes), r.source_ip>> = <<w, ip>>}
  <2>1. NT \cap G = GroupRows(log, minutes, w, ip)
      BY <1>6 DEF GroupRows, WindowRows, InWindow
  <2>2. Kept(Kept(log, NT), G) = Kept(log, NT \cap G)
    <3> HIDE DEF NT, G
    <3>1. QED
        BY KeptTwice
  <2>3. Where(rows, LAMBDA r : <<WindowOf(r, minutes), r.source_ip>> = <<w, ip>>)
            = Kept(rows, G)
      BY DEF Where
  <2> HIDE DEF NT, G
  <2>4. QED
      BY <1>5, <2>1, <2>2, <2>3
<1>8. QED
    BY <1>6, <1>7 DEF TrainingReads

LEMMA ServingRows ==
    ASSUME NEW R, NEW log \in Seq(R), NEW minutes, NEW w, NEW rows,
           rows = WindowFrame(log, minutes, w)
    PROVE  rows \in Seq(R) /\ ServingReads(log, minutes, w, rows)
<1> DEFINE T == {r \in Range(log) : IsTimed(r)}
           timed == Kept(log, T)
           W == {r \in Range(timed) : WindowOf(r, minutes) = w}
           TW == {r \in Range(log) : IsTimed(r) /\ WindowOf(r, minutes) = w}
           of == Kept(log, TW)
           N == {r \in Range(of) : IsNetwork(r)}
           A == WindowRows(log, minutes, w)
<1>1. Timed(log) = timed
    BY DEF Timed, Where, IsTimed
<1>2. timed \in Seq(R) /\ Range(timed) = T
    BY KeptType
<1>3. Where(timed, LAMBDA r : WindowOf(r, minutes) = w) = Kept(timed, W)
    BY DEF Where
<1>4. T \cap W = TW
    BY <1>2
<1>5. Kept(timed, W) = of
  <2> HIDE DEF T, W, TW
  <2>1. Kept(Kept(log, T), W) = Kept(log, T \cap W)
      BY KeptTwice
  <2>2. QED
      BY <1>4, <2>1
<1>6. of \in Seq(R) /\ Range(of) = TW
    BY KeptType
<1>7. NetworkRows(of) = Kept(of, N)
    BY DEF NetworkRows, Where, IsNetwork
<1>8. TW \cap N = A
    BY <1>6 DEF WindowRows, InWindow
<1>9. rows = Kept(log, A)
  <2>1. Kept(Kept(log, TW), N) = Kept(log, TW \cap N)
    <3> HIDE DEF TW, N
    <3>1. QED
        BY KeptTwice
  <2>2. rows = NetworkRows(Kept(timed, W))
    <3>1. rows = NetworkRows(Where(Timed(log), LAMBDA r : WindowOf(r, minutes) = w))
        BY DEF WindowFrame
    <3> HIDE DEF W, timed
    <3>2. QED
        BY <1>1, <1>3, <3>1
  <2> HIDE DEF TW, N, A, W, timed
  <2>3. QED
      BY <1>5, <1>7, <1>8, <2>1, <2>2
<1>10. rows \in Seq(R) /\ Range(rows) = A
  <2>1. A \subseteq Range(log)
      BY DEF WindowRows
  <2>2. Range(log) \cap A = A
      BY <2>1
  <2> HIDE DEF A
  <2>3. Kept(log, A) \in Seq(R) /\ Range(Kept(log, A)) = Range(log) \cap A
      BY KeptType
  <2>4. QED
      BY <1>9, <2>2, <2>3
<1>11. ASSUME NEW ip
       PROVE  Where(rows, LAMBDA r : r.source_ip = ip)
                  = Kept(log, GroupRows(log, minutes, w, ip))
  <2> DEFINE G == {r \in Range(rows) : r.source_ip = ip}
  <2>1. A \cap G = GroupRows(log, minutes, w, ip)
      BY <1>10 DEF GroupRows
  <2> HIDE DEF A
  <2>2. Where(rows, LAMBDA r : r.source_ip = ip) = Kept(rows, G)
      BY DEF Where
  <2> HIDE DEF G
  <2>3. Kept(Kept(log, A), G) = Kept(log, A \cap G)
      BY KeptTwice
  <2>4. QED
      BY <1>9, <2>1, <2>2, <2>3
<1>12. QED
    BY <1>10, <1>11 DEF ServingReads

\* Of a window, training makes the rows that serving makes of it.
THEOREM TrainingSeesWhatServingSees ==
    ASSUME NEW R, NEW log \in Seq(R), NEW minutes
    PROVE  TrainingSeesServing(log, minutes)
<1> DEFINE timed == WindowedRows(log)
           Key(r) == <<WindowOf(r, minutes), r.source_ip>>
           F == Grouped(timed, minutes)
           windowed == ExtractFeaturesWindowed(log, minutes)
<1>1. /\ timed \in Seq(R)
      /\ Range(timed) = {r \in Range(log) : IsNetwork(r) /\ IsTimed(r)}
      /\ \A w, ip : Where(timed, LAMBDA r : <<WindowOf(r, minutes), r.source_ip>> = <<w, ip>>)
                        = Kept(log, GroupRows(log, minutes, w, ip))
  <2>1. timed = WindowedRows(log)
      OBVIOUS
  <2> HIDE DEF timed
  <2>2. timed \in Seq(R) /\ TrainingReads(log, minutes, timed)
      BY <2>1, TrainingRows
  <2>3. QED
      BY <2>2 DEF TrainingReads
<1>2. DOMAIN F = {Key(r) : r \in Range(timed)}
    BY DEF Grouped, Range
<1>3. ASSUME NEW w, NEW ip, <<w, ip>> \in DOMAIN F
      PROVE  F[<<w, ip>>] = IpFeatures(Kept(log, GroupRows(log, minutes, w, ip)))
  <2>1. F[<<w, ip>>]
            = IpFeatures(Where(timed, LAMBDA r : <<WindowOf(r, minutes), r.source_ip>> = <<w, ip>>))
      BY <1>3 DEF Grouped
  <2> HIDE DEF F, timed
  <2>2. QED
      BY <1>1, <2>1
<1>4. ASSUME NEW w \in {WindowOf(r, minutes) : r \in Range(Timed(log))}
      PROVE  [ip \in {g[2] : g \in {h \in DOMAIN windowed : h[1] = w}} |-> windowed[<<w, ip>>]]
                 = ExtractFeatures(Where(Timed(log), LAMBDA r : WindowOf(r, minutes) = w))
  <2> DEFINE of == Where(Timed(log), LAMBDA r : WindowOf(r, minutes) = w)
             rows == NetworkRows(of)
             Q == Ips(rows)
             P == {p \in DOMAIN F : p[1] = w}
             H == [ip \in Q |-> IpFeatures(Where(rows, LAMBDA r : r.source_ip = ip))]
             Peers(g) == {p \in DOMAIN F : p[1] = g[1]}
  <2>1. /\ Range(rows) = WindowRows(log, minutes, w) /\ rows \in Seq(R)
        /\ \A ip : Where(rows, LAMBDA r : r.source_ip = ip)
                       = Kept(log, GroupRows(log, minutes, w, ip))
    <3>1. rows = WindowFrame(log, minutes, w)
        BY DEF WindowFrame
    <3> HIDE DEF rows
    <3>2. rows \in Seq(R) /\ ServingReads(log, minutes, w, rows)
        BY <3>1, ServingRows
    <3>3. QED
        BY <3>2 DEF ServingReads
  <2>2. Q = {r.source_ip : r \in WindowRows(log, minutes, w)}
      BY <2>1 DEF Ips, Range
  <2>3. \A ip : <<w, ip>> \in DOMAIN F <=> ip \in Q
    <3>1. ASSUME NEW ip PROVE <<w, ip>> \in DOMAIN F <=> ip \in Q
      <4> HIDE DEF F, timed, rows, Q
      <4>1. <<w, ip>> \in DOMAIN F <=> \E r \in Range(timed) : Key(r) = <<w, ip>>
          BY <1>2
      <4>2. \A r : Key(r) = <<w, ip>> <=> WindowOf(r, minutes) = w /\ r.source_ip = ip
          OBVIOUS
      <4>3. QED
          BY <1>1, <2>2, <4>1, <4>2 DEF WindowRows, InWindow
    <3>2. QED
        BY <3>1
  <2>4. P = {<<w, ip>> : ip \in Q}
    <3>1. \A p \in DOMAIN F : p = <<p[1], p[2]>>
        BY <1>2
    <3> HIDE DEF F, Q
    <3>2. QED
        BY <2>3, <3>1
  <2>5. {g[2] : g \in {h \in DOMAIN windowed : h[1] = w}} = Q
    <3>1. DOMAIN windowed = DOMAIN F
        BY DEF ExtractFeaturesWindowed, WithZScores
    <3> HIDE DEF windowed, F, Q
    <3>2. {h \in DOMAIN windowed : h[1] = w} = {<<w, ip>> : ip \in Q}
        BY <2>4, <3>1
    <3>3. \A ip : <<w, ip>>[2] = ip
        OBVIOUS
    <3>4. {g[2] : g \in {<<w, ip>> : ip \in Q}} = Q
        BY <3>3
    <3>5. QED
        BY <3>2, <3>4
  <2>6. ASSUME NEW ip \in Q
        PROVE  F[<<w, ip>>] = H[ip]
    <3> HIDE DEF F, rows, Q
    <3>1. H[ip] = IpFeatures(Where(rows, LAMBDA r : r.source_ip = ip))
        OBVIOUS
    <3>2. QED
        BY <1>3, <2>1, <2>3, <3>1
  <2>7. ASSUME NEW ip \in Q
        PROVE  H[ip].total_requests \in Nat
    <3>1. H[ip] = IpFeatures(Kept(log, GroupRows(log, minutes, w, ip)))
        BY <2>1
    <3>2. \A group : IpFeatures(group).total_requests = Len(group)
        BY DEF IpFeatures
    <3>3. Kept(log, GroupRows(log, minutes, w, ip)) \in Seq(R)
        BY KeptType
    <3> HIDE DEF H
    <3>4. QED
        BY <3>1, <3>2, <3>3, LenProperties
  <2> DEFINE f == [p \in P |-> F[p].total_requests]
             h == [ip \in Q |-> H[ip].total_requests]
             b == [p \in P |-> p[2]]
  <2>8. IsFiniteSet(Q)
    <3>1. IsFiniteSet(Range(rows))
        BY <2>1, RangeIsFinite
    <3>2. Q = {r.source_ip : r \in Range(rows)}
        BY DEF Ips, Range
    <3> HIDE DEF rows, Q
    <3>3. QED
      <4> DEFINE x == [r \in Range(rows) |-> r.source_ip]
      <4>1. x \in Surjection(Range(rows), Q)
          BY <3>2 DEF Surjection
      <4>2. QED
          BY <3>1, <4>1, FS_Surjection
  <2>9. IsFiniteSet(P)
    <3> HIDE DEF P, Q
    <3> DEFINE x == [ip \in Q |-> <<w, ip>>]
    <3>1. x \in Surjection(Q, P)
        BY <2>4 DEF Surjection
    <3>2. QED
        BY <2>8, <3>1, FS_Surjection
  <2>10. ASSUME NEW x PROVE ZScore(f, x) = ZScore(h, x)
    <3> HIDE DEF P, Q, F, H
    <3>1. Keeping!Renames(b, f, h)
      <4>1. \A ip \in Q : <<w, ip>> \in P /\ b[<<w, ip>>] = ip
                            /\ f[<<w, ip>>] = h[ip]
          BY <2>4, <2>6
      <4>2. \A p \in P : \E ip \in Q : p = <<w, ip>>
          BY <2>4
      <4>3. DOMAIN f = P /\ DOMAIN h = Q
          OBVIOUS
      <4> HIDE DEF f, h, b
      <4>4. \A p \in DOMAIN f : b[p] \in DOMAIN h /\ f[p] = h[b[p]]
          BY <4>1, <4>2, <4>3
      <4>5. \A p, q \in DOMAIN f : b[p] = b[q] => p = q
          BY <4>1, <4>2, <4>3
      <4>6. \A ip \in DOMAIN h : \E p \in DOMAIN f : b[p] = ip
          BY <4>1, <4>3
      <4>7. QED
          BY <4>4, <4>5, <4>6 DEF Keeping!Renames
    <3>2. Keeping!OfNumbers(h)
        BY <2>7 DEF Keeping!OfNumbers
    <3>3. IsFiniteSet(DOMAIN f) /\ IsFiniteSet(DOMAIN h)
        BY <2>8, <2>9
    <3> HIDE DEF f, h, b
    <3>4. QED
        BY <3>1, <3>2, <3>3, ZScoreRenamed
  <2>11. ASSUME NEW ip \in Q
         PROVE  windowed[<<w, ip>>]
                    = ("request_rate_zscore" :> ZScore(f, F[<<w, ip>>].total_requests))
                          @@ F[<<w, ip>>]
    <3>1. <<w, ip>> \in DOMAIN F
        BY <2>3
    <3>2. Peers(<<w, ip>>) = P
        OBVIOUS
    <3>3. windowed[<<w, ip>>]
              = ("request_rate_zscore" :> ZScore([p \in Peers(<<w, ip>>) |-> F[p].total_requests],
                                                 F[<<w, ip>>].total_requests)) @@ F[<<w, ip>>]
        BY <3>1 DEF ExtractFeaturesWindowed, WithZScores
    <3> HIDE DEF P, F, Peers, windowed
    <3>4. QED
        BY <3>2, <3>3
  <2>12. ExtractFeatures(of)
             = [ip \in Q |-> ("request_rate_zscore" :> ZScore(h, H[ip].total_requests)) @@ H[ip]]
    <3>1. ExtractFeatures(of) = AddGlobalFeatures(H)
        BY DEF ExtractFeatures
    <3>2. IsFiniteSet(DOMAIN h) /\ Keeping!OfNumbers(h) /\ DOMAIN H = Q
        BY <2>7, <2>8 DEF Keeping!OfNumbers
    <3>3. h = [ip \in DOMAIN H |-> H[ip].total_requests]
        OBVIOUS
    <3> HIDE DEF H, h, Q, of
    <3>4. AddGlobalFeatures(H)
              = [ip \in DOMAIN H |->
                    ("request_rate_zscore" :> ZScore(h, H[ip].total_requests)) @@ H[ip]]
        BY <3>2, <3>3, GlobalIsZScore
    <3>5. QED
        BY <3>1, <3>2, <3>4
  <2>13. ASSUME NEW ip \in Q
         PROVE  windowed[<<w, ip>>]
                    = ("request_rate_zscore" :> ZScore(h, H[ip].total_requests)) @@ H[ip]
    <3> HIDE DEF windowed, f, h, F, H, Q
    <3>1. QED
        BY <2>6, <2>10, <2>11
  <2> HIDE DEF windowed, f, h, F, H, Q, P
  <2>14. QED
      BY <2>5, <2>12, <2>13
<1>5. QED
    BY <1>4 DEF TrainingSeesServing

-----------------------------------------------------------------------------
(* Training and serving: the specification.                                *)

FramesAreRows == area = "features" => input \in Seq(LogRows)

\* In every state of the specification training sees each window as serving would
\* (features.py, extract_features_windowed).
THEOREM TrainingAlwaysMatches == Spec => []TrainingMatchesServing
<1>1. Init => FramesAreRows
    BY EmptySeq DEF Init, FramesAreRows
<1>2. FramesAreRows /\ [Next]_vars => FramesAreRows'
  <2> SUFFICES ASSUME FramesAreRows, [Next]_vars, area' = "features"
               PROVE  input' \in Seq(LogRows)
      BY DEF FramesAreRows
  <2>1. CASE AddLogRow
    <3>1. area = "features" /\ \E e \in LogRows : input' = Append(input, e)
        BY <2>1 DEF AddLogRow, Add
    <3>2. QED
        BY <3>1, AppendProperties DEF FramesAreRows
  <2>2. CASE AddStoreRow \/ AddBatch \/ AddLlmRow \/ AddToolRow
      BY <2>2 DEF AddStoreRow, AddBatch, AddLlmRow, AddToolRow, Add
  <2>3. CASE UNCHANGED vars
      BY <2>3 DEF vars, FramesAreRows
  <2>4. QED
      BY <2>1, <2>2, <2>3 DEF Next
<1>3. FramesAreRows => TrainingMatchesServing
    BY TrainingSeesWhatServingSees DEF FramesAreRows, TrainingMatchesServing
<1>4. QED
    BY <1>1, <1>2, <1>3, PTL DEF Spec

-----------------------------------------------------------------------------
(* Verdicts of the LLM detector.                                           *)

ScorableRows(log) == {r \in Range(log) : IsScorable(r)}

CohortKeys(log) == {Cohort(r) : r \in ScorableRows(log)}

\* The rows of a cohort, in the order of the log.
CohortRows(log, k) == Kept(log, {r \in ScorableRows(log) : Cohort(r) = k})

\* Whether predict_llm says anything of a cohort whose rows are these.
Speaks(rows, k, bundle) == Emitted(rows, FiredRules(rows, k, bundle))

\* predict_llm emits the cohorts that have something to say.
LEMMA PredictedCohorts ==
    ASSUME NEW R, NEW log \in Seq(R), NEW bundle
    PROVE  PredictLlm(log, bundle)
               = [k \in {j \in CohortKeys(log) : Speaks(CohortRows(log, j), j, bundle)} |->
                     CohortAnomaly(CohortRows(log, k), k, bundle)]
<1> DEFINE S == ScorableRows(log)
           scorable == Kept(log, S)
           Of(k) == Where(scorable, LAMBDA r : Cohort(r) = k)
<1>1. Where(log, IsScorable) = scorable
    BY DEF Where, ScorableRows
<1>2. scorable \in Seq(R) /\ Range(scorable) = S
  <2>1. Kept(log, S) \in Seq(R) /\ Range(Kept(log, S)) = Range(log) \cap S
      BY KeptType
  <2>2. QED
      BY <2>1 DEF ScorableRows
<1>3. CohortsOf(scorable) = CohortKeys(log)
    BY <1>2 DEF CohortsOf, CohortKeys, Range
<1>4. ASSUME NEW k PROVE Of(k) = CohortRows(log, k)
  <2> DEFINE C == {r \in Range(scorable) : Cohort(r) = k}
  <2>1. S \cap C = {r \in S : Cohort(r) = k}
      BY <1>2
  <2>2. Of(k) = Kept(scorable, C)
      BY DEF Where
  <2> HIDE DEF C, S
  <2>3. Kept(Kept(log, S), C) = Kept(log, S \cap C)
      BY KeptTwice
  <2>4. QED
      BY <2>1, <2>2, <2>3 DEF CohortRows, S
<1>5. PredictLlm(log, bundle)
          = [k \in {j \in CohortsOf(Where(log, IsScorable)) :
                        Emitted(Where(Where(log, IsScorable), LAMBDA r : Cohort(r) = j),
                                FiredRules(Where(Where(log, IsScorable),
                                                 LAMBDA r : Cohort(r) = j), j, bundle))} |->
                CohortAnomaly(Where(Where(log, IsScorable), LAMBDA r : Cohort(r) = k), k, bundle)]
    BY DEF PredictLlm
<1>6. PredictLlm(log, bundle)
          = [k \in {j \in CohortsOf(scorable) : Speaks(Of(j), j, bundle)} |->
                CohortAnomaly(Of(k), k, bundle)]
  <2> HIDE DEF scorable
  <2>1. QED
      BY <1>1, <1>5 DEF Speaks
<1> HIDE DEF Of, scorable
<1>7. QED
    BY <1>3, <1>4, <1>6

\* A cohort has a row, and its count of anything is a number of them.
LEMMA CohortCounts ==
    ASSUME NEW R, NEW log \in Seq(R), NEW k
    PROVE  /\ CohortRows(log, k) \in Seq(R)
           /\ Range(CohortRows(log, k)) = {r \in ScorableRows(log) : Cohort(r) = k}
           /\ Len(CohortRows(log, k)) \in Nat
           /\ DOMAIN CohortRows(log, k) = 1 .. Len(CohortRows(log, k))
           /\ k \in CohortKeys(log) => Len(CohortRows(log, k)) > 0
<1> DEFINE S == {r \in ScorableRows(log) : Cohort(r) = k}
           rows == CohortRows(log, k)
<1>1. S \subseteq Range(log)
    BY DEF ScorableRows
<1>2. rows \in Seq(R) /\ Range(rows) = S
  <2>1. rows = Kept(log, S)
      BY DEF CohortRows
  <2> HIDE DEF S, rows
  <2>2. Kept(log, S) \in Seq(R) /\ Range(Kept(log, S)) = Range(log) \cap S
      BY KeptType
  <2>3. QED
      BY <1>1, <2>1, <2>2
<1> HIDE DEF rows
<1>3. Len(rows) \in Nat /\ DOMAIN rows = 1 .. Len(rows)
    BY <1>2, LenProperties
<1>4. ASSUME k \in CohortKeys(log) PROVE Len(rows) > 0
  <2>1. PICK r : r \in Range(rows)
      BY <1>2, <1>4 DEF CohortKeys
  <2>2. PICK i \in 1 .. Len(rows) : rows[i] = r
      BY <1>3, <2>1 DEF Range
  <2>3. QED
      BY <1>3, <2>2
<1>5. QED
    BY <1>2, <1>3, <1>4 DEF rows

LEMMA TwoRanks ==
    ASSUME NEW a \in 1 .. 4, NEW b \in 1 .. 4
    PROVE  /\ Max({a, b}) = IF a >= b THEN a ELSE b
           /\ Min({a, b}) = IF a <= b THEN a ELSE b
<1>1. {a, b} \in SUBSET (0 .. 4) /\ {a, b} \in SUBSET Nat /\ {a, b} # {}
    OBVIOUS
<1>2. Max({a, b}) \in {a, b} /\ \A x \in {a, b} : x <= Max({a, b})
    BY <1>1, LargestOf
<1>3. Min({a, b}) \in {a, b} /\ \A x \in {a, b} : Min({a, b}) <= x
    BY <1>1, SmallestOf
<1>4. QED
    BY <1>2, <1>3

\* The rules that fired give at least low; more only if one of them is of more.
LEMMA RuleRanks ==
    ASSUME NEW fired, fired \subseteq DOMAIN RULE_SEVERITY
    PROVE  /\ RuleRank(fired) \in 1 .. 3
           /\ RuleRank(fired) = 3 => \E rule \in fired : RULE_SEVERITY[rule] = "high"
           /\ RuleRank(fired) = 2 => "LLM_TOKEN_HIGH" \in fired
<1> DEFINE S == {1} \cup {SEVERITY_RANK[RULE_SEVERITY[rule]] : rule \in fired}
<1>1. ASSUME NEW rule \in fired
      PROVE  \/ RULE_SEVERITY[rule] = "high" /\ SEVERITY_RANK[RULE_SEVERITY[rule]] = 3
             \/ rule = "LLM_TOKEN_HIGH" /\ SEVERITY_RANK[RULE_SEVERITY[rule]] = 2
             \/ SEVERITY_RANK[RULE_SEVERITY[rule]] = 1
    BY DEF RULE_SEVERITY, SEVERITY_RANK
<1>2. S \in SUBSET (0 .. 3) /\ S # {} /\ 1 \in S
  <2>1. \A rule \in fired : SEVERITY_RANK[RULE_SEVERITY[rule]] \in 0 .. 3
      BY <1>1
  <2>2. QED
      BY <2>1
<1>3. RuleRank(fired) = Max(S)
    BY DEF RuleRank
<1> HIDE DEF S
<1>4. Max(S) \in S /\ \A x \in S : x <= Max(S)
    BY <1>2, LargestOf
<1>5. Max(S) = 1 \/ \E rule \in fired : Max(S) = SEVERITY_RANK[RULE_SEVERITY[rule]]
    BY <1>4 DEF S
<1>6. Max(S) \in 1 .. 3
  <2>1. Max(S) \in 0 .. 3 /\ 1 <= Max(S)
      BY <1>2, <1>4
  <2> DEFINE m == Max(S)
  <2> HIDE DEF m
  <2>2. m \in 0 .. 3 /\ 1 <= m
      BY <2>1 DEF m
  <2>3. m \in 1 .. 3
      BY <2>2
  <2>4. QED
      BY <2>3 DEF m
<1>7. QED
    BY <1>1, <1>3, <1>5, <1>6

\* The combination of two ranks, and one rank more when both forests agree.
LEMMA Combined ==
    ASSUME NEW a \in 1 .. 3, NEW b \in 1 .. 3, NEW agreement \in BOOLEAN,
           NEW c, c = CombineSeverity(a, b, agreement)
    PROVE  /\ c \in 1 .. 3
           /\ ~agreement => c = IF a >= b THEN a ELSE b
           /\ agreement => c = IF a = 3 \/ b = 3 THEN 3 ELSE IF a >= b THEN a + 1 ELSE b + 1
<1> DEFINE m == Max({a, b})
<1>1. m = IF a >= b THEN a ELSE b
    BY TwoRanks
<1>2. c = IF agreement THEN Min({3, m + 1}) ELSE m
    BY DEF CombineSeverity
<1> HIDE DEF m
<1>3. m \in 1 .. 3 /\ m + 1 \in 1 .. 4
    BY <1>1
<1>4. Min({3, m + 1}) = IF 3 <= m + 1 THEN 3 ELSE m + 1
    BY <1>3, TwoRanks
<1>5. CASE agreement
  <2>1. c = IF 3 <= m + 1 THEN 3 ELSE m + 1
      BY <1>2, <1>4, <1>5
  <2>2. c \in 1 .. 3
      BY <1>3, <2>1
  <2>3. c = IF a = 3 \/ b = 3 THEN 3 ELSE IF a >= b THEN a + 1 ELSE b + 1
      BY <1>1, <2>1
  <2>4. QED
      BY <1>5, <2>2, <2>3
<1>6. CASE ~agreement
  <2>1. c = m
      BY <1>2, <1>6
  <2>2. QED
      BY <1>1, <1>3, <1>6, <2>1
<1>7. QED
    BY <1>5, <1>6

\* The grounds of the verdict on a cohort of n rows, `global` and `both` of which the
\* forests flag.
LEMMA Grounds ==
    ASSUME NEW fired, fired \subseteq DOMAIN RULE_SEVERITY,
           NEW global \in Nat, NEW both \in Nat, NEW n \in Nat,
           CombineSeverity(RuleRank(fired), FractionRank(global, n),
                           Agreement(global, both, n)) = 3
    PROVE  \/ \E rule \in fired : RULE_SEVERITY[rule] = "high"
           \/ 100 * global >= 60 * n
           \/ /\ 100 * both >= 20 * n
              /\ \/ 100 * global >= 35 * n
                 \/ "LLM_TOKEN_HIGH" \in fired /\ 100 * global >= 20 * n
<1> DEFINE a == RuleRank(fired)
           b == FractionRank(global, n)
           agreement == Agreement(global, both, n)
<1>1. /\ a \in 1 .. 3
      /\ a = 3 => \E rule \in fired : RULE_SEVERITY[rule] = "high"
      /\ a = 2 => "LLM_TOKEN_HIGH" \in fired
    BY RuleRanks
<1>2. b \in 1 .. 3 /\ (b = 3 => 100 * global >= 60 * n) /\ (b = 2 => 100 * global >= 35 * n)
    BY DEF FractionRank, AtLeast
<1>3. /\ agreement \in BOOLEAN
      /\ agreement => 100 * global >= 20 * n /\ 100 * both >= 20 * n
    BY DEF Agreement, AtLeast
<1> HIDE DEF a, b, agreement
<1>4. /\ ~agreement => 3 = IF a >= b THEN a ELSE b
      /\ agreement => 3 = IF a = 3 \/ b = 3 THEN 3 ELSE IF a >= b THEN a + 1 ELSE b + 1
  <2>1. 3 = CombineSeverity(a, b, agreement)
      BY DEF a, b, agreement
  <2>2. QED
      BY <1>1, <1>2, <1>3, <2>1, Combined
<1>5. CASE ~agreement
  <2>1. a = 3 \/ b = 3
      BY <1>1, <1>2, <1>4, <1>5
  <2>2. QED
      BY <1>1, <1>2, <2>1
<1>6. CASE agreement
  <2>1. a = 3 \/ b = 3 \/ a = 2 \/ b = 2
      BY <1>1, <1>2, <1>4, <1>6
  <2>2. QED
      BY <1>1, <1>2, <1>3, <1>6, <2>1
<1>7. QED
    BY <1>3, <1>5, <1>6

\* A count over rows is a number, and no rows, no count.
LEMMA CountIsNat ==
    ASSUME NEW R, NEW rows \in Seq(R), NEW C, C \subseteq DOMAIN rows
    PROVE  IsFiniteSet(C) /\ Cardinality(C) \in Nat
<1>1. Len(rows) \in Nat /\ DOMAIN rows = 1 .. Len(rows)
    BY LenProperties
<1>2. IsFiniteSet(DOMAIN rows)
    BY <1>1, FS_Interval
<1>3. QED
    BY <1>2, FS_Subset, FS_CardinalityType

\* The rows of a cohort that the forest of its category flags: none of a category
\* without one, and otherwise those that say so.
LEMMA CategoryCounts ==
    ASSUME NEW R, NEW log \in Seq(R), NEW k, NEW bundle
    PROVE  CategoryOutliers(CohortRows(log, k), bundle)
               = IF k[2] \in bundle.modelled
                 THEN CountOf(CohortRows(log, k), LAMBDA r : r.by_category) ELSE 0
<1> DEFINE rows == CohortRows(log, k)
           C == {i \in DOMAIN rows : rows[i].by_category /\ rows[i].category \in bundle.modelled}
           D == {i \in DOMAIN rows : rows[i].by_category}
<1>1. \A i \in DOMAIN rows : rows[i].category = k[2]
  <2>1. Range(rows) = {r \in ScorableRows(log) : Cohort(r) = k}
      BY CohortCounts
  <2>2. \A r \in Range(rows) : r.category = k[2]
      BY <2>1 DEF Cohort
  <2> HIDE DEF rows
  <2>3. QED
      BY <2>2 DEF Range
<1>2. CategoryOutliers(rows, bundle) = Cardinality(C)
    BY DEF CategoryOutliers, CountOf, Quantify
<1>3. CountOf(rows, LAMBDA r : r.by_category) = Cardinality(D)
    BY DEF CountOf, Quantify
<1> HIDE DEF rows
<1>4. CASE k[2] \in bundle.modelled
  <2>1. C = D
      BY <1>1, <1>4
  <2>2. QED
      BY <1>2, <1>3, <1>4, <2>1 DEF rows
<1>5. CASE k[2] \notin bundle.modelled
  <2>1. C = {}
      BY <1>1, <1>5
  <2> HIDE DEF C
  <2>2. Cardinality(C) = 0
      BY <2>1, FS_EmptySet
  <2>3. QED
      BY <1>2, <1>5, <2>2 DEF rows
<1>6. QED
    BY <1>4, <1>5

\* Whatever the log and whatever was learnt, a high verdict has its grounds.
THEOREM HighVerdictsHaveGrounds ==
    ASSUME NEW R, NEW log \in Seq(R), NEW bundle
    PROVE  HighHasGrounds(log, bundle)
<1> DEFINE found == PredictLlm(log, bundle)
           keys == {j \in CohortKeys(log) : Speaks(CohortRows(log, j), j, bundle)}
           Of(k) == Where(log, LAMBDA r : IsScorable(r) /\ Cohort(r) = k)
           Share(k, P(_), percent) == 100 * CountOf(Of(k), P) >= percent * Len(Of(k))
<1>1. found = [k \in keys |-> CohortAnomaly(CohortRows(log, k), k, bundle)]
    BY PredictedCohorts
<1>2. ASSUME NEW k PROVE Of(k) = CohortRows(log, k)
  <2>1. {r \in Range(log) : IsScorable(r) /\ Cohort(r) = k}
            = {r \in ScorableRows(log) : Cohort(r) = k}
      BY DEF ScorableRows
  <2>2. QED
      BY <2>1 DEF Where, CohortRows
<1> HIDE DEF found
<1>3. ASSUME NEW k \in DOMAIN found, found[k].rank = 3
      PROVE  \/ \E rule \in found[k].rule_ids : RULE_SEVERITY[rule] = "high"
             \/ Share(k, LAMBDA r : r.global, 60)
             \/ /\ k[2] \in bundle.modelled
                /\ Share(k, LAMBDA r : r.by_category, 20)
                /\ \/ Share(k, LAMBDA r : r.global, 35)
                   \/ "LLM_TOKEN_HIGH" \in found[k].rule_ids /\ Share(k, LAMBDA r : r.global, 20)
  <2> DEFINE rows == CohortRows(log, k)
             fired == FiredRules(rows, k, bundle)
             global == CountOf(rows, LAMBDA r : r.global)
             own == CountOf(rows, LAMBDA r : r.by_category)
             both == CategoryOutliers(rows, bundle)
             n == Len(rows)
  <2>1. k \in keys /\ found[k] = CohortAnomaly(rows, k, bundle)
      BY <1>1, <1>3
  <2>2. rows \in Seq(R) /\ n \in Nat /\ n > 0
      BY <2>1, CohortCounts
  <2>3. global \in Nat /\ own \in Nat
    <3>1. /\ {i \in DOMAIN rows : rows[i].global} \subseteq DOMAIN rows
          /\ {i \in DOMAIN rows : rows[i].by_category} \subseteq DOMAIN rows
        OBVIOUS
    <3> HIDE DEF rows
    <3>2. QED
        BY <2>2, <3>1, CountIsNat DEF CountOf, Quantify
  <2>4. both = IF k[2] \in bundle.modelled THEN own ELSE 0
      BY CategoryCounts
  <2>5. fired \subseteq DOMAIN RULE_SEVERITY
      BY DEF FiredRules
  <2>6. Outliers(rows) = global
      BY DEF Outliers
  <2>7. /\ found[k].rule_ids = fired
        /\ CombineSeverity(RuleRank(fired), FractionRank(global, n), Agreement(global, both, n))
               = found[k].rank
    <3> HIDE DEF fired, rows, n, both, global
    <3>1. found[k].rank = CombineSeverity(RuleRank(fired), FractionRank(Outliers(rows), n),
                              Agreement(Outliers(rows), both, n))
        BY <2>1 DEF CohortAnomaly, fired, n, both
    <3>2. found[k].rule_ids = fired
        BY <2>1 DEF CohortAnomaly, fired
    <3>3. QED
        BY <2>6, <3>1, <3>2
  <2>8. /\ Of(k) = rows
        /\ \A percent : Share(k, LAMBDA r : r.global, percent)
                            <=> 100 * global >= percent * n
        /\ \A percent : Share(k, LAMBDA r : r.by_category, percent)
                            <=> 100 * own >= percent * n
      BY <1>2
  <2> HIDE DEF fired, rows, n, both, global, own
  <2>9. \/ \E rule \in fired : RULE_SEVERITY[rule] = "high"
        \/ 100 * global >= 60 * n
        \/ /\ 100 * both >= 20 * n
           /\ \/ 100 * global >= 35 * n
              \/ "LLM_TOKEN_HIGH" \in fired /\ 100 * global >= 20 * n
    <3>1. both \in Nat
        BY <2>3, <2>4
    <3>2. QED
        BY <1>3, <2>2, <2>3, <2>5, <2>7, <3>1, Grounds
  <2>10. CASE k[2] \in bundle.modelled
    <3>1. both = own
        BY <2>4, <2>10
    <3>2. /\ 100 * global >= 60 * n => Share(k, LAMBDA r : r.global, 60)
          /\ 100 * global >= 35 * n => Share(k, LAMBDA r : r.global, 35)
          /\ 100 * global >= 20 * n => Share(k, LAMBDA r : r.global, 20)
          /\ 100 * both >= 20 * n => Share(k, LAMBDA r : r.by_category, 20)
        BY <2>8, <3>1
    <3> HIDE DEF Share
    <3>3. QED
        BY <2>7, <2>9, <2>10, <3>2
  <2>11. CASE k[2] \notin bundle.modelled
    <3>1. ~(100 * both >= 20 * n)
        BY <2>2, <2>4, <2>11
    <3>2. QED
        BY <2>7, <2>8, <2>9, <3>1
  <2>12. QED
      BY <2>10, <2>11
<1>4. QED
    BY <1>3 DEF HighHasGrounds, found

\* Rows of LLM telemetry, whatever their texts and numbers are.
LlmRowsOf(Texts, Values) ==
    [log_type : Texts, model_id : Texts, category : Texts, status : Texts,
     prompt_tokens : Values, total_tokens : Values, cost : Values, response_time : Values,
     finish_reason : Texts, global : BOOLEAN, by_category : BOOLEAN]

\* u is r, but for the forests, which flag it if they flag r.
Flags(r, u) ==
    /\ u.log_type = r.log_type /\ u.model_id = r.model_id /\ u.category = r.category
    /\ u.prompt_tokens = r.prompt_tokens /\ u.total_tokens = r.total_tokens
    /\ u.cost = r.cost /\ u.response_time = r.response_time
    /\ u.finish_reason = r.finish_reason
    /\ r.global => u.global
    /\ r.by_category => u.by_category

\* So of two sequences of rows.
FlagsMore(s, t) == DOMAIN t = DOMAIN s /\ \A j \in DOMAIN s : Flags(s[j], t[j])

LEMMA FlaggedLog ==
    ASSUME NEW Texts, NEW Values, NEW log \in Seq(LlmRowsOf(Texts, Values)),
           NEW i \in DOMAIN log, NEW forest \in {"global", "by_category"},
           NEW more, more = [log EXCEPT ![i][forest] = TRUE]
    PROVE  more \in Seq(LlmRowsOf(Texts, Values)) /\ FlagsMore(log, more)
<1> DEFINE R == LlmRowsOf(Texts, Values)
           n == Len(log)
<1>1. n \in Nat /\ DOMAIN log = 1 .. n
    BY LenProperties
<1>2. ASSUME NEW j \in 1 .. n PROVE log[j] \in R
    BY ElementOfSeq
<1>3. /\ DOMAIN more = DOMAIN log
      /\ more = [j \in DOMAIN log |-> more[j]]
      /\ more[i] = [log[i] EXCEPT ![forest] = TRUE]
      /\ \A j \in DOMAIN log : j # i => more[j] = log[j]
    BY <1>1
<1>4. ASSUME NEW r \in R, NEW u, u = [r EXCEPT ![forest] = TRUE]
      PROVE  u \in R /\ Flags(r, u)
  <2>1. CASE forest = "global"
    <3>1. u = [r EXCEPT !.global = TRUE]
        BY <1>4, <2>1
    <3>2. QED
        BY <3>1 DEF LlmRowsOf, Flags
  <2>2. CASE forest = "by_category"
    <3>1. u = [r EXCEPT !.by_category = TRUE]
        BY <1>4, <2>2
    <3>2. QED
        BY <3>1 DEF LlmRowsOf, Flags
  <2>3. QED
      BY <2>1, <2>2
<1>5. \A r : Flags(r, r)
    BY DEF Flags
<1> HIDE DEF R, n
<1>6. \A j \in 1 .. n : more[j] \in R /\ Flags(log[j], more[j])
    BY <1>1, <1>2, <1>3, <1>4, <1>5
<1>7. more \in [1 .. n -> R]
    BY <1>1, <1>3, <1>6
<1>8. more \in Seq(R)
  <2>1. \A q \in [1 .. n -> R] : q \in Seq(R)
      BY <1>1, SeqDef
  <2>2. QED
      BY <1>7, <2>1
<1>9. QED
    BY <1>1, <1>3, <1>6, <1>8 DEF FlagsMore, R

\* The rows of a cohort are the same ones, and so are the cohorts.
LEMMA FlaggedCohort ==
    ASSUME NEW R, NEW log \in Seq(R), NEW more \in Seq(R), FlagsMore(log, more), NEW k
    PROVE  /\ FlagsMore(CohortRows(log, k), CohortRows(more, k))
           /\ CohortKeys(log) = CohortKeys(more)
<1> DEFINE S == {r \in ScorableRows(log) : Cohort(r) = k}
           T == {r \in ScorableRows(more) : Cohort(r) = k}
<1>1. ASSUME NEW j \in DOMAIN log
      PROVE  /\ IsScorable(log[j]) <=> IsScorable(more[j])
             /\ Cohort(log[j]) = Cohort(more[j])
    BY DEF FlagsMore, Flags, IsScorable, Cohort
<1>2. DOMAIN more = DOMAIN log
    BY DEF FlagsMore
<1>3. Positions(log, S) = Positions(more, T)
    BY <1>1, <1>2 DEF Positions, ScorableRows, Range
<1>4. CohortKeys(log) = CohortKeys(more)
  <2>1. \A s : CohortKeys(s) = {Cohort(s[j]) : j \in {x \in DOMAIN s : IsScorable(s[x])}}
      BY DEF CohortKeys, ScorableRows, Range
  <2>2. {x \in DOMAIN log : IsScorable(log[x])} = {x \in DOMAIN more : IsScorable(more[x])}
      BY <1>1, <1>2
  <2>3. QED
      BY <1>1, <2>1, <2>2
<1>5. Alike(log, S, more, T)
  <2> HIDE DEF S, T
  <2>1. QED
      BY <1>3, KeptAlike
<1> HIDE DEF S, T
<1>6. PICK m \in Nat : \E e : /\ Enumerates(e, m, Positions(log, S))
                              /\ Left(log, e, m, Kept(log, S))
                              /\ Left(more, e, m, Kept(more, T))
    BY <1>5 DEF Alike
<1>7. PICK e : /\ Enumerates(e, m, Positions(log, S))
               /\ Left(log, e, m, Kept(log, S)) /\ Left(more, e, m, Kept(more, T))
    BY <1>6
<1>8. \A j \in 1 .. m : e[j] \in DOMAIN log
  <2>1. \A j \in 1 .. m : e[j] \in Positions(log, S)
      BY <1>7 DEF Enumerates
  <2>2. QED
      BY <2>1 DEF Positions
<1>9. /\ CohortRows(log, k) = [j \in 1 .. m |-> log[e[j]]]
      /\ CohortRows(more, k) = [j \in 1 .. m |-> more[e[j]]]
    BY <1>7 DEF Left, CohortRows, S, T
<1>10. FlagsMore(CohortRows(log, k), CohortRows(more, k))
    BY <1>8, <1>9 DEF FlagsMore
<1>11. QED
    BY <1>4, <1>10

\* The rules do not look at the forests.
LEMMA FlagsFireNothing ==
    ASSUME NEW R, NEW s \in Seq(R), NEW t \in Seq(R), FlagsMore(s, t), NEW k, NEW bundle
    PROVE  FiredRules(s, k, bundle) = FiredRules(t, k, bundle)
<1> DEFINE stats == Lookup(bundle.profiles, k)
<1>1. DOMAIN t = DOMAIN s /\ \A j \in DOMAIN s : Flags(s[j], t[j])
    BY DEF FlagsMore
<1>2. Len(t) = Len(s)
  <2>1. Len(s) \in Nat /\ Len(t) \in Nat /\ 1 .. Len(s) = 1 .. Len(t)
      BY <1>1, LenProperties
  <2>2. \A a, b \in Nat : 1 .. a = 1 .. b => a = b
      OBVIOUS
  <2>3. QED
      BY <2>1, <2>2
<1>3. /\ (\E i \in DOMAIN s : TokenHigh(s[i])) <=> (\E i \in DOMAIN t : TokenHigh(t[i]))
      /\ (\E i \in DOMAIN s : NearTimeout(s[i])) <=> (\E i \in DOMAIN t : NearTimeout(t[i]))
    BY <1>1 DEF Flags, TokenHigh, NearTimeout
<1>4. (\E i \in DOMAIN s : HighCostOutlier(s[i], stats))
          <=> (\E i \in DOMAIN t : HighCostOutlier(t[i], stats))
  <2> HIDE DEF stats
  <2>1. \A i \in DOMAIN s : HighCostOutlier(s[i], stats) <=> HighCostOutlier(t[i], stats)
      BY <1>1 DEF Flags, HighCostOutlier
  <2>2. QED
      BY <1>1, <2>1
<1>5. (\E i \in DOMAIN s : ExfilShape(s[i], stats))
          <=> (\E i \in DOMAIN t : ExfilShape(t[i], stats))
  <2> HIDE DEF stats
  <2>1. \A i \in DOMAIN s : ExfilShape(s[i], stats) <=> ExfilShape(t[i], stats)
      BY <1>1 DEF Flags, ExfilShape
  <2>2. QED
      BY <1>1, <2>1
<1>6. /\ CountOf(s, LAMBDA r : r.finish_reason = "content_filter")
             = CountOf(t, LAMBDA r : r.finish_reason = "content_filter")
      /\ CountOf(s, LAMBDA r : r.log_type # "LLM_REQUEST")
             = CountOf(t, LAMBDA r : r.log_type # "LLM_REQUEST")
  <2>1. {i \in DOMAIN s : s[i].finish_reason = "content_filter"}
            = {i \in DOMAIN t : t[i].finish_reason = "content_filter"}
      BY <1>1 DEF Flags
  <2>2. {i \in DOMAIN s : s[i].log_type # "LLM_REQUEST"}
            = {i \in DOMAIN t : t[i].log_type # "LLM_REQUEST"}
      BY <1>1 DEF Flags
  <2>3. QED
      BY <2>1, <2>2 DEF CountOf, Quantify
<1>7. ASSUME NEW rule \in DOMAIN RULE_SEVERITY
      PROVE  rule \in FiredRules(s, k, bundle) <=> rule \in FiredRules(t, k, bundle)
  <2>1. CASE rule = "LLM_TOKEN_HIGH"
      BY <1>3, <2>1 DEF FiredRules
  <2>2. CASE rule = "LLM_NEAR_TIMEOUT"
      BY <1>3, <2>2 DEF FiredRules
  <2>3. CASE rule = "LLM_HIGH_COST_OUTLIER"
      BY <1>4, <2>3 DEF FiredRules
  <2>4. CASE rule = "LLM_EXFIL_SHAPE"
      BY <1>5, <2>4 DEF FiredRules
  <2>5. CASE rule = "LLM_CONTENT_FILTER_SPIKE"
      BY <1>2, <1>6, <2>5 DEF FiredRules
  <2>6. CASE rule = "LLM_ERROR_STORM"
      BY <1>2, <1>6, <2>6 DEF FiredRules
  <2>7. QED
      BY <2>1, <2>2, <2>3, <2>4, <2>5, <2>6 DEF RULE_SEVERITY
<1>8. /\ FiredRules(s, k, bundle) \subseteq DOMAIN RULE_SEVERITY
      /\ FiredRules(t, k, bundle) \subseteq DOMAIN RULE_SEVERITY
    BY DEF FiredRules
<1>9. QED
    BY <1>7, <1>8

\* More flagged rows of as many never give a lower rank.
LEMMA RanksGrow ==
    ASSUME NEW fired, fired \subseteq DOMAIN RULE_SEVERITY, NEW n \in Nat,
           NEW g \in Nat, NEW b \in Nat, NEW h \in Nat, NEW c \in Nat, g <= h, b <= c
    PROVE  CombineSeverity(RuleRank(fired), FractionRank(h, n), Agreement(h, c, n))
               >= CombineSeverity(RuleRank(fired), FractionRank(g, n), Agreement(g, b, n))
<1> DEFINE a == RuleRank(fired)
           f == FractionRank(g, n)
           e == FractionRank(h, n)
           p == Agreement(g, b, n)
           q == Agreement(h, c, n)
           x == CombineSeverity(a, f, p)
           y == CombineSeverity(a, e, q)
<1>1. a \in 1 .. 3
    BY RuleRanks
<1>2. f \in 1 .. 3 /\ e \in 1 .. 3 /\ f <= e
    BY DEF FractionRank, AtLeast
<1>3. p \in BOOLEAN /\ q \in BOOLEAN /\ (p => q)
    BY DEF Agreement, AtLeast
<1> HIDE DEF a, f, e, p, q
<1>4. /\ x \in 1 .. 3
      /\ ~p => x = IF a >= f THEN a ELSE f
      /\ p => x = IF a = 3 \/ f = 3 THEN 3 ELSE IF a >= f THEN a + 1 ELSE f + 1
    BY <1>1, <1>2, <1>3, Combined
<1>5. /\ y \in 1 .. 3
      /\ ~q => y = IF a >= e THEN a ELSE e
      /\ q => y = IF a = 3 \/ e = 3 THEN 3 ELSE IF a >= e THEN a + 1 ELSE e + 1
    BY <1>1, <1>2, <1>3, Combined
<1> HIDE DEF x, y
<1>6. y >= x
  <2>1. CASE q
      BY <1>1, <1>2, <1>4, <1>5, <2>1
  <2>2. CASE ~q
      BY <1>1, <1>2, <1>3, <1>4, <1>5, <2>2
  <2>3. QED
      BY <2>1, <2>2
<1>7. QED
    BY <1>6 DEF x, y, a, f, e, p, q

LEMMA FlaggedCounts ==
    ASSUME NEW R, NEW s \in Seq(R), NEW t \in Seq(R), FlagsMore(s, t), NEW bundle
    PROVE  /\ Len(t) = Len(s) /\ Len(s) \in Nat
           /\ Outliers(s) \in Nat /\ Outliers(t) \in Nat /\ Outliers(s) <= Outliers(t)
           /\ CategoryOutliers(s, bundle) \in Nat /\ CategoryOutliers(t, bundle) \in Nat
           /\ CategoryOutliers(s, bundle) <= CategoryOutliers(t, bundle)
<1> DEFINE gs == {i \in DOMAIN s : s[i].global}
           gt == {i \in DOMAIN t : t[i].global}
           cs == {i \in DOMAIN s : s[i].by_category /\ s[i].category \in bundle.modelled}
           ct == {i \in DOMAIN t : t[i].by_category /\ t[i].category \in bundle.modelled}
<1>1. DOMAIN t = DOMAIN s /\ \A j \in DOMAIN s : Flags(s[j], t[j])
    BY DEF FlagsMore
<1>2. Len(t) = Len(s) /\ Len(s) \in Nat
  <2>1. Len(s) \in Nat /\ Len(t) \in Nat /\ 1 .. Len(s) = 1 .. Len(t)
      BY <1>1, LenProperties
  <2>2. \A a, b \in Nat : 1 .. a = 1 .. b => a = b
      OBVIOUS
  <2>3. QED
      BY <2>1, <2>2
<1>3. gs \subseteq gt /\ cs \subseteq ct
    BY <1>1 DEF Flags
<1>4. /\ gs \subseteq DOMAIN s /\ cs \subseteq DOMAIN s
      /\ gt \subseteq DOMAIN t /\ ct \subseteq DOMAIN t
    OBVIOUS
<1>5. /\ Outliers(s) = Cardinality(gs) /\ Outliers(t) = Cardinality(gt)
      /\ CategoryOutliers(s, bundle) = Cardinality(cs)
      /\ CategoryOutliers(t, bundle) = Cardinality(ct)
    BY DEF Outliers, CategoryOutliers, CountOf, Quantify
<1> HIDE DEF gs, gt, cs, ct
<1>6. /\ Cardinality(gs) \in Nat /\ Cardinality(cs) \in Nat
      /\ IsFiniteSet(gt) /\ Cardinality(gt) \in Nat /\ IsFiniteSet(ct) /\ Cardinality(ct) \in Nat
    BY <1>4, CountIsNat
<1>7. Cardinality(gs) <= Cardinality(gt) /\ Cardinality(cs) <= Cardinality(ct)
    BY <1>3, <1>6, FS_Subset
<1>8. QED
    BY <1>2, <1>5, <1>6, <1>7

\* Whatever the log and whatever was learnt, an outlier more never calms a cohort.
THEOREM OutliersNeverCalm ==
    ASSUME NEW Texts, NEW Values, NEW log \in Seq(LlmRowsOf(Texts, Values)), NEW bundle
    PROVE  MoreOutliersNeverCalm(log, bundle)
<1> DEFINE R == LlmRowsOf(Texts, Values)
<1>1. ASSUME NEW i \in DOMAIN log, NEW forest \in {"global", "by_category"},
             NEW more, more = [log EXCEPT ![i][forest] = TRUE],
             NEW before, before = PredictLlm(log, bundle),
             NEW after, after = PredictLlm(more, bundle),
             NEW k \in DOMAIN before
      PROVE  k \in DOMAIN after /\ after[k].rank >= before[k].rank
  <2> DEFINE s == CohortRows(log, k)
             t == CohortRows(more, k)
             fired == FiredRules(s, k, bundle)
             n == Len(s)
  <2>1. more \in Seq(R) /\ FlagsMore(log, more)
      BY <1>1, FlaggedLog
  <2> HIDE DEF R
  <2>2. log \in Seq(R)
      BY DEF R
  <2>3. /\ before = [j \in {x \in CohortKeys(log) : Speaks(CohortRows(log, x), x, bundle)} |->
                        CohortAnomaly(CohortRows(log, j), j, bundle)]
        /\ after = [j \in {x \in CohortKeys(more) : Speaks(CohortRows(more, x), x, bundle)} |->
                       CohortAnomaly(CohortRows(more, j), j, bundle)]
    <3>1. PredictLlm(log, bundle)
              = [j \in {x \in CohortKeys(log) : Speaks(CohortRows(log, x), x, bundle)} |->
                    CohortAnomaly(CohortRows(log, j), j, bundle)]
        BY <2>2, PredictedCohorts
    <3>2. PredictLlm(more, bundle)
              = [j \in {x \in CohortKeys(more) : Speaks(CohortRows(more, x), x, bundle)} |->
                    CohortAnomaly(CohortRows(more, j), j, bundle)]
        BY <2>1, PredictedCohorts
    <3>3. QED
        BY <1>1, <3>1, <3>2
  <2>4. s \in Seq(R) /\ t \in Seq(R)
      BY <2>1, <2>2, CohortCounts
  <2>5. FlagsMore(s, t) /\ CohortKeys(log) = CohortKeys(more)
      BY <2>1, <2>2, FlaggedCohort
  <2>6. k \in CohortKeys(log) /\ Speaks(s, k, bundle)
        /\ before[k] = CohortAnomaly(s, k, bundle)
      BY <1>1, <2>3
  <2>7. \A x : x \in CohortKeys(more) /\ Speaks(CohortRows(more, x), x, bundle)
                  => x \in DOMAIN after
                     /\ after[x] = CohortAnomaly(CohortRows(more, x), x, bundle)
      BY <2>3
  <2> HIDE DEF s, t
  <2>8. FiredRules(t, k, bundle) = fired /\ fired \subseteq DOMAIN RULE_SEVERITY
    <3>1. FiredRules(s, k, bundle) = FiredRules(t, k, bundle)
        BY <2>4, <2>5, FlagsFireNothing
    <3>2. FiredRules(s, k, bundle) \subseteq DOMAIN RULE_SEVERITY
        BY DEF FiredRules
    <3>3. QED
        BY <3>1, <3>2
  <2>9. /\ Len(t) = n /\ n \in Nat
        /\ Outliers(s) \in Nat /\ Outliers(t) \in Nat /\ Outliers(s) <= Outliers(t)
        /\ CategoryOutliers(s, bundle) \in Nat /\ CategoryOutliers(t, bundle) \in Nat
        /\ CategoryOutliers(s, bundle) <= CategoryOutliers(t, bundle)
      BY <2>4, <2>5, FlaggedCounts
  <2> HIDE DEF fired, n
  <2>10. Speaks(t, k, bundle)
    <3>1. fired # {} \/ AtLeast(Outliers(s), n, 15)
        BY <2>6 DEF Speaks, Emitted, fired, n
    <3>2. AtLeast(Outliers(s), n, 15) => AtLeast(Outliers(t), n, 15)
        BY <2>9 DEF AtLeast
    <3>3. QED
        BY <2>8, <2>9, <3>1, <3>2 DEF Speaks, Emitted
  <2>11. k \in DOMAIN after /\ after[k] = CohortAnomaly(t, k, bundle)
      BY <2>5, <2>6, <2>7, <2>10 DEF t
  <2>12. before[k].rank
             = CombineSeverity(RuleRank(fired), FractionRank(Outliers(s), n),
                   Agreement(Outliers(s), CategoryOutliers(s, bundle), n))
      BY <2>6 DEF CohortAnomaly, fired, n
  <2>13. after[k].rank
             = CombineSeverity(RuleRank(fired), FractionRank(Outliers(t), n),
                   Agreement(Outliers(t), CategoryOutliers(t, bundle), n))
      BY <2>8, <2>9, <2>11 DEF CohortAnomaly
  <2>14. after[k].rank >= before[k].rank
      BY <2>8, <2>9, <2>12, <2>13, RanksGrow
  <2>15. QED
      BY <2>11, <2>14
<1>2. QED
    BY <1>1 DEF MoreOutliersNeverCalm

\* A spike is of more than what it is measured by: a rate that is not above zero, or
\* over the same rows, is none.
LEMMA SpikeRate ==
    ASSUME NEW num \in Nat, NEW n \in Nat, NEW base \in Nat, NEW baseN \in Nat,
           NEW tenths \in {20, 25}, NEW floor, Spike(num, n, base, baseN, tenths, floor)
    PROVE  base > 0 /\ 10 * baseN * num >= tenths * base * n
<1>1. base > 0 /\ 10 * num * baseN >= tenths * base * n
    BY DEF Spike
<1>2. 10 * num * baseN = 10 * baseN * num
    OBVIOUS
<1>3. QED
    BY <1>1, <1>2

\* How many elements two filters leave.
LEMMA KeptCount ==
    ASSUME NEW R, NEW s \in Seq(R), NEW D, NEW T
    PROVE  Cardinality(Positions(Kept(s, D), T)) = Cardinality(Positions(s, D \cap T))
<1>1. Kept(s, D) \in Seq(R)
    BY KeptType
<1>2. Len(Kept(Kept(s, D), T)) = Cardinality(Positions(Kept(s, D), T))
    BY <1>1, KeptType
<1>3. Len(Kept(s, D \cap T)) = Cardinality(Positions(s, D \cap T))
    BY KeptType
<1>4. QED
    BY <1>2, <1>3, KeptTwice

\* The members of P whose class is in K.
InClasses(P, class, K) == {x \in P : class[x] \in K}

\* Classes that have each their share of D have it together: the rate of a whole is no
\* less than that of the part where it is smallest.
LEMMA SharesAddUp ==
    ASSUME NEW P, IsFiniteSet(P), NEW D \in SUBSET P, NEW class, NEW a \in Nat, NEW b \in Nat,
           \A x \in P : a * Cardinality(InClasses(D, class, {class[x]}))
                            >= b * Cardinality(InClasses(P, class, {class[x]}))
    PROVE  a * Cardinality(D) >= b * Cardinality(P)
<1> DEFINE M == {class[x] : x \in P}
           bs(K) == Cardinality(InClasses(D, class, K))
           ps(K) == Cardinality(InClasses(P, class, K))
           Fair(K) == a * bs(K) >= b * ps(K)
           F == {K \in SUBSET M : Fair(K)}
           sizes == {Cardinality(K) : K \in F}
<1>1. IsFiniteSet(M)
  <2> DEFINE f == [x \in P |-> class[x]]
  <2>1. f \in Surjection(P, M)
      BY DEF Surjection
  <2> HIDE DEF M, f
  <2>2. QED
      BY <2>1, FS_Surjection
<1>2. ASSUME NEW K
      PROVE  /\ IsFiniteSet(InClasses(D, class, K)) /\ IsFiniteSet(InClasses(P, class, K))
             /\ bs(K) \in Nat /\ ps(K) \in Nat
  <2>1. InClasses(D, class, K) \subseteq P /\ InClasses(P, class, K) \subseteq P
      BY DEF InClasses
  <2>2. IsFiniteSet(InClasses(D, class, K)) /\ IsFiniteSet(InClasses(P, class, K))
      BY <2>1, FS_Subset
  <2>3. QED
      BY <2>2, FS_CardinalityType
<1>3. {} \in F
  <2>1. InClasses(D, class, {}) = {} /\ InClasses(P, class, {}) = {}
      BY DEF InClasses
  <2>2. bs({}) = 0 /\ ps({}) = 0
      BY <2>1, FS_EmptySet
  <2> HIDE DEF bs, ps
  <2>3. QED
      BY <2>2
<1>4. ASSUME NEW K \in F, NEW m \in M \ K
      PROVE  K \cup {m} \in F
  <2>1. PICK x \in P : m = class[x]
      BY <1>4
  <2>2. Fair(K) /\ Fair({m})
      BY <1>4, <2>1
  <2>3. ASSUME NEW S
        PROVE  /\ InClasses(S, class, K \cup {m})
                     = InClasses(S, class, K) \cup InClasses(S, class, {m})
               /\ InClasses(S, class, K) \cap InClasses(S, class, {m}) = {}
      BY <1>4 DEF InClasses
  <2>4. bs(K \cup {m}) = bs(K) + bs({m}) /\ ps(K \cup {m}) = ps(K) + ps({m})
    <3>1. ASSUME NEW S, NEW T, IsFiniteSet(S), IsFiniteSet(T), S \cap T = {}
          PROVE  Cardinality(S \cup T) = Cardinality(S) + Cardinality(T)
      <4>1. Cardinality(S \cup T) = Cardinality(S) + Cardinality(T) - Cardinality(S \cap T)
          BY <3>1, FS_Union
      <4>2. Cardinality(S \cap T) = 0
          BY <3>1, FS_EmptySet
      <4>3. Cardinality(S) \in Nat /\ Cardinality(T) \in Nat
          BY <3>1, FS_CardinalityType
      <4>4. QED
          BY <4>1, <4>2, <4>3
    <3>2. QED
        BY <1>2, <2>3, <3>1
  <2>5. Fair(K \cup {m})
    <3> DEFINE x1 == bs(K)
               x2 == bs({m})
               y1 == ps(K)
               y2 == ps({m})
    <3>1. /\ x1 \in Nat /\ x2 \in Nat /\ y1 \in Nat /\ y2 \in Nat
          /\ a * x1 >= b * y1 /\ a * x2 >= b * y2
        BY <1>2, <2>2
    <3> HIDE DEF x1, x2, y1, y2
    <3>2. a * (x1 + x2) >= b * (y1 + y2)
      <4>1. a * (x1 + x2) = a * x1 + a * x2 /\ b * (y1 + y2) = b * y1 + b * y2
          BY <3>1
      <4>2. a * x1 \in Nat /\ a * x2 \in Nat /\ b * y1 \in Nat /\ b * y2 \in Nat
          BY <3>1
      <4>3. QED
          BY <3>1, <4>1, <4>2
    <3>3. QED
        BY <2>4, <3>2 DEF x1, x2, y1, y2
  <2>6. K \cup {m} \subseteq M
      BY <1>4
  <2> HIDE DEF Fair, M
  <2>7. QED
      BY <2>5, <2>6
<1>5. \A K \in F : IsFiniteSet(K) /\ Cardinality(K) \in 0 .. Cardinality(M)
                  /\ Cardinality(M) \in Nat
  <2>1. \A K \in F : K \in SUBSET M
      OBVIOUS
  <2> HIDE DEF F, M
  <2>2. ASSUME NEW K \in F
        PROVE  /\ IsFiniteSet(K) /\ Cardinality(K) \in Nat /\ Cardinality(M) \in Nat
               /\ Cardinality(K) <= Cardinality(M)
      BY <1>1, <2>1, FS_Subset, FS_CardinalityType
  <2>3. QED
      BY <2>2
<1> HIDE DEF F
<1>6. PICK K \in F : \A L \in F : Cardinality(L) <= Cardinality(K)
  <2>1. sizes \in SUBSET (0 .. Cardinality(M)) /\ sizes # {} /\ Cardinality(M) \in Nat
      BY <1>3, <1>5
  <2> HIDE DEF sizes, M
  <2>2. Max(sizes) \in sizes /\ \A x \in sizes : x <= Max(sizes)
      BY <2>1, LargestOf
  <2>3. QED
      BY <2>2 DEF sizes
<1>7. K = M
  <2>1. K \subseteq M
      BY DEF F
  <2>2. ASSUME NEW m \in M \ K PROVE FALSE
    <3> HIDE DEF M
    <3>0. IsFiniteSet(K) /\ Cardinality(K) \in Nat
      <4>1. /\ IsFiniteSet(K) /\ Cardinality(K) \in 0 .. Cardinality(M)
            /\ Cardinality(M) \in Nat
          BY <1>5
      <4>2. QED
          BY <4>1
    <3>1. K \cup {m} \in F /\ IsFiniteSet(K) /\ Cardinality(K) \in Nat
        BY <1>4, <2>2, <3>0
    <3>2. Cardinality(K \cup {m}) = Cardinality(K) + 1
        BY <2>2, <3>1, FS_AddElement
    <3>3. Cardinality(K \cup {m}) <= Cardinality(K)
        BY <1>6, <3>1
    <3>4. QED
        BY <3>1, <3>2, <3>3
  <2> HIDE DEF M
  <2>3. QED
      BY <2>1, <2>2
<1>8. InClasses(D, class, M) = D /\ InClasses(P, class, M) = P
    BY DEF InClasses
<1>9. Fair(M)
    BY <1>7 DEF F
<1>10. QED
    BY <1>8, <1>9

\* The rows of a log in a category, and those of them in a set.
InCategory(log, c) == {r \in ScorableRows(log) : r.category = c}

\* A model raises a spike rule only when its rate of bad rows is tenths tenths of the
\* rate of its category.
Raised(log, k, T, tenths) ==
    LET of == {r \in ScorableRows(log) : Cohort(r) = k}
        all == InCategory(log, k[2])
        base == Cardinality(Positions(log, all \cap T))
    IN  /\ base > 0
        /\ 10 * Cardinality(Positions(log, all)) * Cardinality(Positions(log, of \cap T))
              >= tenths * base * Cardinality(Positions(log, of))

\* Not every model of a category has more than the rate of the category.
LEMMA SomeModelIsSpared ==
    ASSUME NEW R, NEW log \in Seq(R), NEW T, NEW tenths \in {20, 25},
           NEW q \in ScorableRows(log)
    PROVE  \E k \in CohortKeys(log) : k[2] = q.category /\ ~Raised(log, k, T, tenths)
<1> DEFINE c == q.category
           all == InCategory(log, c)
           P == Positions(log, all)
           D == Positions(log, all \cap T)
           a == 10 * Cardinality(P)
           b == tenths * Cardinality(D)
           class == [i \in DOMAIN log |-> Cohort(log[i])]
<1>1. SUFFICES ASSUME \A k \in CohortKeys(log) : k[2] = c => Raised(log, k, T, tenths)
               PROVE  FALSE
    OBVIOUS
<1>2. IsFiniteSet(P) /\ D \in SUBSET P
  <2>1. IsFiniteSet(P)
    <3> HIDE DEF all
    <3>1. QED
        BY KeptType
  <2>2. QED
      BY <2>1 DEF Positions
<1>3. /\ Cardinality(P) \in Nat /\ Cardinality(D) \in Nat /\ a \in Nat /\ b \in Nat
  <2> HIDE DEF P, D
  <2>1. Cardinality(P) \in Nat /\ Cardinality(D) \in Nat
      BY <1>2, FS_Subset, FS_CardinalityType
  <2>2. QED
      BY <2>1
<1>4. ASSUME NEW x \in P
      PROVE  /\ Cardinality(D) > 0
             /\ a * Cardinality(InClasses(D, class, {class[x]}))
                    >= b * Cardinality(InClasses(P, class, {class[x]}))
  <2> DEFINE k == Cohort(log[x])
             of == {r \in ScorableRows(log) : Cohort(r) = k}
  <2>1. x \in DOMAIN log /\ log[x] \in ScorableRows(log) /\ log[x].category = c
      BY DEF Positions, InCategory
  <2>2. k \in CohortKeys(log) /\ k[2] = c /\ class[x] = k
      BY <2>1 DEF CohortKeys, Cohort
  <2>3. Raised(log, k, T, tenths)
      BY <1>1, <2>2
  <2>4. of \subseteq all
      BY <2>2 DEF InCategory, Cohort
  <2>5. InClasses(P, class, {k}) = Positions(log, of)
      BY <2>4 DEF InClasses, Positions, InCategory
  <2>6. InClasses(D, class, {k}) = Positions(log, of \cap T)
      BY <2>4 DEF InClasses, Positions, InCategory
  <2>7. /\ Cardinality(D) > 0
        /\ 10 * Cardinality(P) * Cardinality(Positions(log, of \cap T))
              >= tenths * Cardinality(D) * Cardinality(Positions(log, of))
      BY <2>2, <2>3 DEF Raised
  <2> HIDE DEF k, of, P, D, class
  <2>8. QED
      BY <2>2, <2>5, <2>6, <2>7
<1>5. Cardinality(P) > 0 /\ Cardinality(D) > 0
  <2>1. PICK x \in DOMAIN log : log[x] = q
      BY DEF ScorableRows, Range
  <2>2. x \in P
      BY <2>1 DEF Positions, InCategory
  <2>3. Cardinality(P) # 0
    <3> HIDE DEF P
    <3>1. QED
        BY <1>2, <2>2, FS_EmptySet
  <2>4. Cardinality(D) > 0
      BY <1>4, <2>2
  <2> HIDE DEF P, D
  <2>5. QED
      BY <1>3, <2>3, <2>4
<1>6. a * Cardinality(D) >= b * Cardinality(P)
  <2> HIDE DEF P, D, a, b, class
  <2>1. QED
      BY <1>2, <1>3, <1>4, SharesAddUp
<1> DEFINE u == Cardinality(P)
           v == Cardinality(D)
<1>7. u \in Nat /\ v \in Nat /\ u > 0 /\ v > 0 /\ 10 * u * v >= tenths * v * u
    BY <1>3, <1>5, <1>6
<1> HIDE DEF P, D, u, v
<1> DEFINE p == u * v
<1>8. p \in Nat /\ p > 0 /\ 10 * u * v = 10 * p /\ tenths * v * u = tenths * p
    BY <1>7
<1> HIDE DEF p
<1>9. QED
    BY <1>7, <1>8

\* The rows of a category that the baselines are of.
CategoryRows(log, c) == Kept(log, InCategory(log, c))

\* A spike of a cohort's rows over those of its category is a rate above the category's.
LEMMA SpikeIsRaised ==
    ASSUME NEW R, NEW log \in Seq(R), NEW k, NEW T, NEW tenths \in {20, 25}, NEW floor,
           Spike(Cardinality(Positions(CohortRows(log, k), T)), Len(CohortRows(log, k)),
                 Cardinality(Positions(CategoryRows(log, k[2]), T)),
                 Len(CategoryRows(log, k[2])), tenths, floor)
    PROVE  Raised(log, k, T, tenths)
<1> DEFINE of == {r \in ScorableRows(log) : Cohort(r) = k}
           all == InCategory(log, k[2])
           num == Cardinality(Positions(log, of \cap T))
           n == Cardinality(Positions(log, of))
           base == Cardinality(Positions(log, all \cap T))
           baseN == Cardinality(Positions(log, all))
<1>1. /\ Cardinality(Positions(CohortRows(log, k), T)) = num
      /\ Len(CohortRows(log, k)) = n
  <2> HIDE DEF of
  <2>1. QED
      BY KeptCount, KeptType DEF CohortRows, of
<1>2. /\ Cardinality(Positions(CategoryRows(log, k[2]), T)) = base
      /\ Len(CategoryRows(log, k[2])) = baseN
    BY KeptCount, KeptType DEF CategoryRows
<1>3. num \in Nat /\ n \in Nat /\ base \in Nat /\ baseN \in Nat
  <2> HIDE DEF of, all
  <2>1. \A D : IsFiniteSet(Positions(log, D))
      BY KeptType
  <2>2. QED
      BY <2>1, FS_CardinalityType
<1>4. Spike(num, n, base, baseN, tenths, floor)
    BY <1>1, <1>2
<1> HIDE DEF num, n, base, baseN
<1>5. base > 0 /\ 10 * baseN * num >= tenths * base * n
    BY <1>3, <1>4, SpikeRate
<1>6. QED
    BY <1>5 DEF Raised, num, n, base, baseN

\* Whatever the corpus and the models in it: in every category some model raises neither
\* spike rule on the rows that the baselines are of (llm_train.py, llm_rules.py).
THEOREM CorpusSparesAModel ==
    ASSUME NEW R, NEW log \in Seq(R)
    PROVE  CorpusSparesSomeModel(log)
<1> DEFINE bundle == TrainLlmEnsemble(log)
           S == ScorableRows(log)
           scorable == Kept(log, S)
           found == PredictLlm(log, bundle)
           In(c) == Where(scorable, LAMBDA r : r.category = c)
           Raises(k, rule) == k \in DOMAIN found /\ rule \in found[k].rule_ids
<1>1. Where(log, IsScorable) = scorable
    BY DEF Where, ScorableRows
<1>2. scorable \in Seq(R) /\ Range(scorable) = S
  <2>1. Kept(log, S) \in Seq(R) /\ Range(Kept(log, S)) = Range(log) \cap S
      BY KeptType
  <2>2. QED
      BY <2>1 DEF ScorableRows
<1>3. found = [k \in {j \in CohortKeys(log) : Speaks(CohortRows(log, j), j, bundle)} |->
                  CohortAnomaly(CohortRows(log, k), k, bundle)]
    BY PredictedCohorts
<1>4. bundle.baselines = CategoryBaselines(Where(log, IsScorable))
    BY DEF TrainLlmEnsemble
<1>5. ASSUME NEW c \in Categories(scorable)
      PROVE  /\ c \in DOMAIN bundle.baselines
             /\ bundle.baselines[c]
                    = [n              |-> Len(In(c)),
                       errors         |-> CountOf(In(c), LAMBDA r : r.log_type # "LLM_REQUEST"),
                       content_filter |->
                           CountOf(In(c), LAMBDA r : r.finish_reason = "content_filter")]
    BY <1>1, <1>4 DEF CategoryBaselines
<1> HIDE DEF bundle
<1>6. CohortsOf(scorable) = CohortKeys(log) /\ Categories(scorable) = {r.category : r \in S}
    BY <1>2 DEF CohortsOf, CohortKeys, Categories, Range
<1>7. ASSUME NEW c PROVE In(c) = CategoryRows(log, c)
  <2> DEFINE C == {r \in Range(scorable) : r.category = c}
  <2>1. S \cap C = InCategory(log, c)
      BY <1>2 DEF InCategory
  <2>2. In(c) = Kept(scorable, C)
      BY DEF Where
  <2> HIDE DEF C, S
  <2>3. Kept(Kept(log, S), C) = Kept(log, S \cap C)
      BY KeptTwice
  <2>4. QED
      BY <2>1, <2>2, <2>3 DEF CategoryRows
<1> DEFINE errors == {r \in R : r.log_type # "LLM_REQUEST"}
           filtered == {r \in R : r.finish_reason = "content_filter"}
<1>8. ASSUME NEW rows \in Seq(R)
      PROVE  /\ CountOf(rows, LAMBDA r : r.log_type # "LLM_REQUEST")
                    = Cardinality(Positions(rows, errors))
             /\ CountOf(rows, LAMBDA r : r.finish_reason = "content_filter")
                    = Cardinality(Positions(rows, filtered))
  <2>1. \A i \in DOMAIN rows : rows[i] \in R
      BY LenProperties, ElementOfSeq
  <2>2. /\ {i \in DOMAIN rows : rows[i].log_type # "LLM_REQUEST"} = Positions(rows, errors)
        /\ {i \in DOMAIN rows : rows[i].finish_reason = "content_filter"}
               = Positions(rows, filtered)
      BY <2>1 DEF Positions
  <2>3. QED
      BY <2>2 DEF CountOf, Quantify
<1> HIDE DEF errors, filtered, S, scorable, In
<1>9. ASSUME NEW k \in CohortKeys(log)
      PROVE  /\ Raises(k, "LLM_ERROR_STORM") => Raised(log, k, errors, 20)
             /\ Raises(k, "LLM_CONTENT_FILTER_SPIKE") => Raised(log, k, filtered, 25)
  <2> DEFINE rows == CohortRows(log, k)
             c == k[2]
             all == CategoryRows(log, c)
             Rate(T, tenths, floor) ==
                Spike(Cardinality(Positions(rows, T)), Len(rows),
                      Cardinality(Positions(all, T)), Len(all), tenths, floor)
  <2>1. c \in Categories(scorable)
    <3>1. PICK q \in S : k = Cohort(q)
        BY DEF CohortKeys, S
    <3>2. QED
        BY <1>6, <3>1 DEF Cohort
  <2>2. rows \in Seq(R) /\ all \in Seq(R)
      BY CohortCounts, KeptType DEF CategoryRows
  <2>3. /\ c \in DOMAIN bundle.baselines
        /\ bundle.baselines[c].n = Len(all)
        /\ bundle.baselines[c].errors = Cardinality(Positions(all, errors))
        /\ bundle.baselines[c].content_filter = Cardinality(Positions(all, filtered))
    <3>1. In(c) = all
        BY <1>7
    <3> HIDE DEF all, c
    <3>2. /\ c \in DOMAIN bundle.baselines
          /\ bundle.baselines[c]
                = [n              |-> Len(all),
                   errors         |-> CountOf(all, LAMBDA r : r.log_type # "LLM_REQUEST"),
                   content_filter |->
                       CountOf(all, LAMBDA r : r.finish_reason = "content_filter")]
        BY <1>5, <2>1, <3>1
    <3>3. /\ CountOf(all, LAMBDA r : r.log_type # "LLM_REQUEST")
                = Cardinality(Positions(all, errors))
          /\ CountOf(all, LAMBDA r : r.finish_reason = "content_filter")
                = Cardinality(Positions(all, filtered))
        BY <1>8, <2>2
    <3>4. QED
        BY <3>2, <3>3
  <2>4. k \in DOMAIN found => found[k].rule_ids = FiredRules(rows, k, bundle)
      BY <1>3 DEF CohortAnomaly
  <2>5. "LLM_ERROR_STORM" \in FiredRules(rows, k, bundle) =>
            Spike(CountOf(rows, LAMBDA r : r.log_type # "LLM_REQUEST"), Len(rows),
                  bundle.baselines[c].errors, bundle.baselines[c].n, 20, 50)
    <3> HIDE DEF rows
    <3>1. QED
        BY <2>3 DEF FiredRules
  <2>6. "LLM_CONTENT_FILTER_SPIKE" \in FiredRules(rows, k, bundle) =>
            Spike(CountOf(rows, LAMBDA r : r.finish_reason = "content_filter"), Len(rows),
                  bundle.baselines[c].content_filter, bundle.baselines[c].n, 25, 30)
    <3> HIDE DEF rows
    <3>1. QED
        BY <2>3 DEF FiredRules
  <2> HIDE DEF found
  <2>7. /\ Raises(k, "LLM_ERROR_STORM") => Rate(errors, 20, 50)
        /\ Raises(k, "LLM_CONTENT_FILTER_SPIKE") => Rate(filtered, 25, 30)
    <3> HIDE DEF rows, c, all
    <3>1. QED
        BY <1>8, <2>2, <2>3, <2>4, <2>5, <2>6
  <2>8. \A T : \A tenths \in {20, 25} : \A floor :
            Rate(T, tenths, floor) => Raised(log, k, T, tenths)
      BY SpikeIsRaised
  <2> HIDE DEF Rate, Raises
  <2>9. QED
      BY <2>7, <2>8
<1>10. ASSUME NEW rule \in {"LLM_CONTENT_FILTER_SPIKE", "LLM_ERROR_STORM"},
              NEW c \in Categories(scorable)
       PROVE  \E k \in CohortsOf(scorable) : k[2] = c /\ ~Raises(k, rule)
  <2> DEFINE T == IF rule = "LLM_ERROR_STORM" THEN errors ELSE filtered
             tenths == IF rule = "LLM_ERROR_STORM" THEN 20 ELSE 25
  <2>1. PICK q \in ScorableRows(log) : q.category = c
      BY <1>6 DEF S
  <2>2. tenths \in {20, 25}
      OBVIOUS
  <2> HIDE DEF T, tenths
  <2>3. PICK k \in CohortKeys(log) : k[2] = c /\ ~Raised(log, k, T, tenths)
      BY <2>1, <2>2, SomeModelIsSpared
  <2> HIDE DEF Raises
  <2>4. ~Raises(k, rule)
      BY <1>9, <2>3 DEF T, tenths
  <2>5. QED
      BY <1>6, <2>3, <2>4
<1>11. QED
    BY <1>1, <1>10 DEF CorpusSparesSomeModel, bundle

-----------------------------------------------------------------------------
(* Verdicts of the LLM detector: the specification.                        *)

SomeTexts == {"LLM_REQUEST", "LLM_ERROR", "m", "n", "c", "d", "success", "error", "stop",
              "content_filter", NoValue}

TelemetryOf == LlmRowsOf(SomeTexts, {1, 10, 20, 50})

LogsAreTelemetry == area = "llm" => input \in Seq(TelemetryOf)

\* The states of the area are logs of telemetry.
LEMMA TelemetryOnly == Spec => []LogsAreTelemetry
<1>1. LlmRows \subseteq TelemetryOf
  <2>1. ASSUME NEW category \in {"c", "d"}, NEW g \in BOOLEAN, NEW b \in BOOLEAN
        PROVE  LlmRow(category, g, b) \in TelemetryOf
      BY DEF LlmRow, TelemetryOf, LlmRowsOf, SomeTexts
  <2>2. ASSUME NEW r \in TelemetryOf PROVE [r EXCEPT !.prompt_tokens = 50] \in TelemetryOf
      BY DEF TelemetryOf, LlmRowsOf
  <2>3. ASSUME NEW r \in TelemetryOf, NEW text \in SomeTexts
        PROVE  /\ [r EXCEPT !.log_type = text] \in TelemetryOf
               /\ [r EXCEPT !.status = text] \in TelemetryOf
               /\ [r EXCEPT !.finish_reason = text] \in TelemetryOf
               /\ [r EXCEPT !.model_id = text] \in TelemetryOf
      BY DEF TelemetryOf, LlmRowsOf
  <2>4. \A r : [r EXCEPT !.log_type = "LLM_ERROR", !.status = "error"]
                   = [[r EXCEPT !.log_type = "LLM_ERROR"] EXCEPT !.status = "error"]
      OBVIOUS
  <2>5. {"LLM_ERROR", "error", "content_filter", "n", NoValue} \subseteq SomeTexts
      BY DEF SomeTexts
  <2> DEFINE calm == LlmRow("c", FALSE, FALSE)
             flagged == LlmRow("c", TRUE, TRUE)
             own == LlmRow("c", FALSE, TRUE)
             other == LlmRow("d", TRUE, TRUE)
  <2>6. calm \in TelemetryOf /\ flagged \in TelemetryOf /\ own \in TelemetryOf
        /\ other \in TelemetryOf
      BY <2>1
  <2>7. LlmRows = {LlmRow("c", g, b) : g, b \in BOOLEAN} \cup
                  {[own EXCEPT !.prompt_tokens = 50],
                   [calm EXCEPT !.log_type = "LLM_ERROR", !.status = "error"],
                   [calm EXCEPT !.finish_reason = "content_filter"],
                   other, [calm EXCEPT !.model_id = "n"],
                   [flagged EXCEPT !.model_id = NoValue]}
      BY DEF LlmRows
  <2> HIDE DEF calm, flagged, own, other
  <2>8. {LlmRow("c", g, b) : g, b \in BOOLEAN} \subseteq TelemetryOf
      BY <2>1
  <2>9. /\ [own EXCEPT !.prompt_tokens = 50] \in TelemetryOf
        /\ [calm EXCEPT !.log_type = "LLM_ERROR", !.status = "error"] \in TelemetryOf
        /\ [calm EXCEPT !.finish_reason = "content_filter"] \in TelemetryOf
        /\ [calm EXCEPT !.model_id = "n"] \in TelemetryOf
        /\ [flagged EXCEPT !.model_id = NoValue] \in TelemetryOf
      BY <2>2, <2>3, <2>4, <2>5, <2>6
  <2>10. QED
      BY <2>6, <2>7, <2>8, <2>9
<1>2. Init => LogsAreTelemetry
    BY EmptySeq DEF Init, LogsAreTelemetry
<1>3. LogsAreTelemetry /\ [Next]_vars => LogsAreTelemetry'
  <2> SUFFICES ASSUME LogsAreTelemetry, [Next]_vars, area' = "llm"
               PROVE  input' \in Seq(TelemetryOf)
      BY DEF LogsAreTelemetry
  <2>1. CASE AddLlmRow
    <3>1. area = "llm" /\ \E e \in LlmRows : input' = Append(input, e)
        BY <2>1 DEF AddLlmRow, Add
    <3>2. QED
        BY <1>1, <3>1, AppendProperties DEF LogsAreTelemetry
  <2>2. CASE AddStoreRow \/ AddBatch \/ AddLogRow \/ AddToolRow
      BY <2>2 DEF AddStoreRow, AddBatch, AddLogRow, AddToolRow, Add
  <2>3. CASE UNCHANGED vars
      BY <2>3 DEF vars, LogsAreTelemetry
  <2>4. QED
      BY <2>1, <2>2, <2>3 DEF Next
<1>4. QED
    BY <1>2, <1>3, PTL DEF Spec

\* In every state of the specification a high verdict has grounds, and no verdict falls
\* when a forest flags one row more (llm_predict.py).
THEOREM VerdictsAlwaysGrounded == Spec => []LlmVerdictsAreGrounded
<1>1. LogsAreTelemetry => LlmVerdictsAreGrounded
    BY HighVerdictsHaveGrounds, OutliersNeverCalm
       DEF LogsAreTelemetry, LlmVerdictsAreGrounded, TelemetryOf
<1>2. QED
    BY <1>1, TelemetryOnly, PTL

\* In every state of the specification some model of every category is spared by the
\* spike rules on the rows of the baselines (llm_train.py, llm_rules.py).
THEOREM CorpusAlwaysSpared == Spec => []CorpusIsSpared
<1>1. LogsAreTelemetry => CorpusIsSpared
    BY CorpusSparesAModel DEF LogsAreTelemetry, CorpusIsSpared
<1>2. QED
    BY <1>1, TelemetryOnly, PTL

-----------------------------------------------------------------------------
(* Sorting.  Whatever the order, what InOrderOf returns is the sequence    *)
(* rearranged: every turn of its loop inserts one element somewhere.       *)

\* t is s with its elements taken in the order of b.
Rearranges(b, s, n, t) ==
    /\ b \in [1 .. n -> 1 .. n]
    /\ \A i, j \in 1 .. n : b[i] = b[j] => i = j
    /\ \A z \in 1 .. n : \E i \in 1 .. n : b[i] = z
    /\ t = [i \in 1 .. n |-> s[b[i]]]

OrderOp(before, sorted, x) ==
    InsertAt(sorted, Cardinality({i \in DOMAIN sorted : <<x, sorted[i]>> \notin before}) + 1, x)

\* After n turns: the first n elements.
OrderInv(s, n, sorted) == \E b : Rearranges(b, s, n, sorted)

Ordering == INSTANCE FoldFacts WITH Op <- OrderOp, Inv <- OrderInv

\* t with x at its place q.
WithAt(t, q, x) ==
    [i \in 1 .. Len(t) + 1 |-> IF i < q THEN t[i] ELSE IF i = q THEN x ELSE t[i - 1]]

\* InsertAt moves the elements from q on up by one.
LEMMA InsertedAt ==
    ASSUME NEW R, NEW t \in Seq(R), NEW x \in R, NEW q \in 1 .. Len(t) + 1
    PROVE  InsertAt(t, q, x) = WithAt(t, q, x)
<1> DEFINE n == Len(t)
           a == SubSeq(t, 1, q - 1)
           m == <<x>>
           z == SubSeq(t, q, n)
<1>1. n \in Nat /\ q \in Int /\ q - 1 \in Int /\ n \in Int /\ 1 \in Int /\ 1 <= q /\ q <= n + 1
      /\ \A i \in 1 .. n : t[i] \in R
    BY LenProperties, ElementOfSeq
<1> HIDE DEF n
<1>2. a \in Seq(R) /\ Len(a) = q - 1 /\ \A i \in 1 .. q - 1 : a[i] = t[i]
  <2>1. \A i \in 1 .. q - 1 : t[i] \in R
      BY <1>1
  <2>2. /\ a \in Seq(R) /\ Len(a) = IF 1 <= q - 1 THEN q - 1 - 1 + 1 ELSE 0
        /\ \A i \in 1 .. q - 1 - 1 + 1 : a[i] = t[1 + i - 1]
      BY <1>1, <2>1, SubSeqProperties
  <2> HIDE DEF a
  <2>3. QED
      BY <1>1, <2>2
<1>3. z \in Seq(R) /\ Len(z) = n - q + 1 /\ \A i \in 1 .. n - q + 1 : z[i] = t[q + i - 1]
  <2>1. \A i \in q .. n : t[i] \in R
      BY <1>1
  <2>2. /\ z \in Seq(R) /\ Len(z) = IF q <= n THEN n - q + 1 ELSE 0
        /\ \A i \in 1 .. n - q + 1 : z[i] = t[q + i - 1]
      BY <1>1, <2>1, SubSeqProperties
  <2> HIDE DEF z
  <2>3. QED
      BY <1>1, <2>2
<1>4. m \in Seq(R) /\ Len(m) = 1 /\ m[1] = x
    OBVIOUS
<1> HIDE DEF a, m, z
<1> DEFINE am == a \o m
           all == am \o z
<1>5. /\ am \in Seq(R) /\ Len(am) = q
      /\ \A i \in 1 .. q : am[i] = IF i <= q - 1 THEN a[i] ELSE m[i - (q - 1)]
  <2>1. /\ am \in Seq(R) /\ Len(am) = Len(a) + Len(m)
        /\ \A i \in 1 .. Len(a) + Len(m) : am[i] = IF i <= Len(a) THEN a[i] ELSE m[i - Len(a)]
      BY <1>2, <1>4, ConcatProperties
  <2> HIDE DEF am
  <2>2. Len(a) + Len(m) = q
      BY <1>1, <1>2, <1>4
  <2>3. QED
      BY <1>2, <2>1, <2>2
<1> HIDE DEF am
<1>6. /\ all \in Seq(R) /\ Len(all) = n + 1
      /\ \A i \in 1 .. n + 1 : all[i] = IF i <= q THEN am[i] ELSE z[i - q]
  <2>1. /\ all \in Seq(R) /\ Len(all) = Len(am) + Len(z)
        /\ \A i \in 1 .. Len(am) + Len(z) : all[i] = IF i <= Len(am) THEN am[i] ELSE z[i - Len(am)]
      BY <1>3, <1>5, ConcatProperties
  <2> HIDE DEF all
  <2>2. Len(am) + Len(z) = n + 1
      BY <1>1, <1>3, <1>5
  <2>3. QED
      BY <1>5, <2>1, <2>2
<1>7. InsertAt(t, q, x) = all
    BY DEF InsertAt, all, am, a, m, z, n
<1> HIDE DEF all
<1>8. ASSUME NEW i \in 1 .. n + 1
      PROVE  all[i] = IF i < q THEN t[i] ELSE IF i = q THEN x ELSE t[i - 1]
  <2>1. CASE i < q
    <3>1. i \in 1 .. q /\ i \in 1 .. q - 1 /\ i <= q /\ i <= q - 1
        BY <1>1, <2>1
    <3>2. QED
        BY <1>2, <1>5, <1>6, <2>1, <3>1
  <2>2. CASE i = q
    <3>1. i \in 1 .. q /\ ~(i <= q - 1) /\ i - (q - 1) = 1 /\ ~(i < q) /\ i <= q
        BY <1>1, <2>2
    <3>2. QED
        BY <1>4, <1>5, <1>6, <2>2, <3>1
  <2>3. CASE i > q
    <3>1. i - q \in 1 .. n - q + 1 /\ q + (i - q) - 1 = i - 1 /\ ~(i <= q) /\ ~(i < q) /\ i # q
        BY <1>1, <2>3
    <3>2. z[i - q] = t[i - 1]
        BY <1>3, <3>1
    <3>3. QED
        BY <1>6, <3>1, <3>2
  <2>4. QED
      BY <1>1, <2>1, <2>2, <2>3
<1>9. all = [i \in 1 .. n + 1 |-> all[i]]
    BY <1>1, <1>6, LenProperties
<1>10. QED
    BY <1>7, <1>8, <1>9 DEF n, WithAt

\* A turn of the loop.
LEMMA OrderTurn ==
    ASSUME NEW R, NEW s \in Seq(R), NEW before, NEW n \in 1 .. Len(s), NEW sorted,
           OrderInv(s, n - 1, sorted)
    PROVE  OrderInv(s, n, OrderOp(before, sorted, s[n]))
<1>1. PICK b : Rearranges(b, s, n - 1, sorted)
    BY DEF OrderInv
<1>2. /\ n \in Nat \ {0} /\ n - 1 \in Nat /\ Len(s) \in Nat /\ n <= Len(s)
      /\ \A i \in 1 .. Len(s) : s[i] \in R
    BY LenProperties, ElementOfSeq
<1>3. /\ b \in [1 .. n - 1 -> 1 .. n - 1]
      /\ \A i, j \in 1 .. n - 1 : b[i] = b[j] => i = j
      /\ \A z \in 1 .. n - 1 : \E i \in 1 .. n - 1 : b[i] = z
      /\ sorted = [i \in 1 .. n - 1 |-> s[b[i]]]
    BY <1>1 DEF Rearranges
<1>4. sorted \in Seq(R) /\ Len(sorted) = n - 1 /\ DOMAIN sorted = 1 .. n - 1
  <2>1. \A i \in 1 .. n - 1 : b[i] \in 1 .. Len(s)
    <3>1. 1 .. n - 1 \subseteq 1 .. Len(s)
        BY <1>2
    <3>2. \A i \in 1 .. n - 1 : b[i] \in 1 .. n - 1
        BY <1>3
    <3>3. QED
        BY <3>1, <3>2
  <2>2. sorted \in [1 .. n - 1 -> R]
      BY <1>2, <1>3, <2>1
  <2>3. sorted \in Seq(R)
      BY <1>2, <2>2, SeqDef
  <2>4. QED
      BY <1>2, <2>2, <2>3, LenProperties
<1> DEFINE places == {i \in DOMAIN sorted : <<s[n], sorted[i]>> \notin before}
           q == Cardinality(places) + 1
           c == [i \in 1 .. n |-> IF i < q THEN b[i] ELSE IF i = q THEN n ELSE b[i - 1]]
           t == OrderOp(before, sorted, s[n])
<1>5. q \in 1 .. n
  <2>1. IsFiniteSet(1 .. n - 1) /\ Cardinality(1 .. n - 1) = n - 1
    <3>1. IsFiniteSet(1 .. n - 1)
        BY <1>2, FS_Interval
    <3>2. Cardinality(1 .. n - 1) = IF 1 > n - 1 THEN 0 ELSE n - 1 - 1 + 1
        BY <1>2, FS_Interval
    <3>3. QED
        BY <1>2, <3>1, <3>2
  <2> DEFINE earlier == 1 .. n - 1
  <2>2. places \in SUBSET earlier
      BY <1>4
  <2> HIDE DEF places, earlier
  <2>3. IsFiniteSet(earlier) /\ Cardinality(earlier) = n - 1
      BY <2>1 DEF earlier
  <2>4. IsFiniteSet(places) /\ Cardinality(places) <= Cardinality(earlier)
      BY <2>2, <2>3, FS_Subset
  <2>5. Cardinality(places) \in Nat
      BY <2>4, FS_CardinalityType
  <2>6. QED
      BY <1>2, <2>3, <2>4, <2>5
<1>6. t = InsertAt(sorted, q, s[n])
    BY DEF OrderOp
<1> HIDE DEF q, t
<1>7. t = [i \in 1 .. n |-> IF i < q THEN sorted[i] ELSE IF i = q THEN s[n] ELSE sorted[i - 1]]
  <2>1. s[n] \in R /\ Len(sorted) + 1 = n /\ q \in 1 .. Len(sorted) + 1
      BY <1>2, <1>4, <1>5
  <2>2. InsertAt(sorted, q, s[n]) = WithAt(sorted, q, s[n])
      BY <1>4, <2>1, InsertedAt
  <2>3. QED
      BY <1>6, <2>1, <2>2 DEF WithAt
<1>8. /\ \A i \in 1 .. n : i < q => i \in 1 .. n - 1 /\ c[i] = b[i]
      /\ \A i \in 1 .. n : i > q => i - 1 \in 1 .. n - 1 /\ c[i] = b[i - 1]
      /\ c[q] = n /\ DOMAIN c = 1 .. n
      /\ \A i \in 1 .. n : i < q \/ i = q \/ i > q
      /\ \A i \in 1 .. n - 1 : b[i] \in 1 .. n - 1 /\ b[i] \in 1 .. n /\ b[i] # n
  <2>1. \A i \in 1 .. n : /\ i < q \/ i = q \/ i > q
                          /\ i < q => i \in 1 .. n - 1
                          /\ i > q => i - 1 \in 1 .. n - 1 /\ ~(i < q) /\ i # q
      BY <1>2, <1>5
  <2>2. /\ \A i \in 1 .. n : i < q => c[i] = b[i]
        /\ \A i \in 1 .. n : i > q => c[i] = b[i - 1]
      BY <2>1
  <2>3. c[q] = n
    <3>1. ~(q < q)
        BY <1>5
    <3>2. QED
        BY <1>5, <3>1
  <2>4. \A i \in 1 .. n - 1 : b[i] \in 1 .. n - 1 /\ b[i] \in 1 .. n /\ b[i] # n
    <3>1. \A z \in 1 .. n - 1 : z \in 1 .. n /\ z # n
        BY <1>2
    <3>2. \A i \in 1 .. n - 1 : b[i] \in 1 .. n - 1
        BY <1>3
    <3>3. QED
        BY <3>1, <3>2
  <2>5. DOMAIN c = 1 .. n
      OBVIOUS
  <2> HIDE DEF c
  <2>6. QED
      BY <2>1, <2>2, <2>3, <2>4, <2>5
<1> HIDE DEF c
<1>9. c \in [1 .. n -> 1 .. n]
  <2>1. \A i \in 1 .. n : c[i] \in 1 .. n
    <3>1. n \in 1 .. n
        BY <1>2
    <3>2. QED
        BY <1>8, <3>1
  <2>2. QED
      BY <2>1 DEF c
<1>10. ASSUME NEW i \in 1 .. n, NEW j \in 1 .. n, c[i] = c[j] PROVE i = j
  <2>1. CASE i = q \/ j = q
      BY <1>8, <1>10, <2>1
  <2>2. CASE i < q /\ j < q
      BY <1>3, <1>8, <1>10, <2>2
  <2>3. CASE i > q /\ j > q
    <3>1. i - 1 = j - 1
        BY <1>3, <1>8, <1>10, <2>3
    <3>2. QED
        BY <3>1
  <2>4. CASE i < q /\ j > q
    <3>1. i = j - 1
        BY <1>3, <1>8, <1>10, <2>4
    <3>2. QED
        BY <1>5, <2>4, <3>1
  <2>5. CASE i > q /\ j < q
    <3>1. i - 1 = j
        BY <1>3, <1>8, <1>10, <2>5
    <3>2. QED
        BY <1>5, <2>5, <3>1
  <2>6. QED
      BY <1>8, <2>1, <2>2, <2>3, <2>4, <2>5
<1>11. ASSUME NEW z \in 1 .. n PROVE \E i \in 1 .. n : c[i] = z
  <2>1. CASE z = n
      BY <1>5, <1>8, <2>1
  <2>2. CASE z # n
    <3>1. z \in 1 .. n - 1
        BY <1>2, <2>2
    <3>2. PICK i \in 1 .. n - 1 : b[i] = z
        BY <1>3, <3>1
    <3>3. CASE i < q
      <4>1. i \in 1 .. n
          BY <1>2
      <4>2. QED
          BY <1>8, <3>2, <3>3, <4>1
    <3>4. CASE ~(i < q)
      <4>1. i + 1 \in 1 .. n /\ i + 1 > q /\ i + 1 - 1 = i
          BY <1>2, <1>5, <3>4
      <4>2. QED
          BY <1>8, <3>2, <4>1
    <3>5. QED
        BY <3>3, <3>4
  <2>3. QED
      BY <2>1, <2>2
<1>12. t = [i \in 1 .. n |-> s[c[i]]]
  <2>1. ASSUME NEW i \in 1 .. n
        PROVE  s[c[i]] = IF i < q THEN sorted[i] ELSE IF i = q THEN s[n] ELSE sorted[i - 1]
    <3>1. CASE i < q
        BY <1>3, <1>8, <3>1
    <3>2. CASE i = q
        BY <1>5, <1>8, <3>2
    <3>3. CASE i > q
      <4>1. ~(i < q) /\ i # q
          BY <1>5, <3>3
      <4>2. QED
          BY <1>3, <1>8, <3>3, <4>1
    <3>4. QED
        BY <1>8, <3>1, <3>2, <3>3
  <2>2. QED
      BY <1>7, <2>1
<1>13. Rearranges(c, s, n, t)
    BY <1>9, <1>10, <1>11, <1>12 DEF Rearranges
<1>14. QED
    BY <1>13 DEF OrderInv, t

\* Sorting rearranges.
LEMMA SortingRearranges ==
    ASSUME NEW R, NEW s \in Seq(R), NEW before
    PROVE  OrderInv(s, Len(s), InOrderOf(before, s))
<1>1. Len(s) \in Nat /\ DOMAIN s = 1 .. Len(s)
    BY LenProperties
<1>2. OrderInv(s, 0, << >>)
  <2>1. \A x \in 1 .. 0 : FALSE
      OBVIOUS
  <2>2. Rearranges(<< >>, s, 0, << >>)
    <3>1. << >> \in [1 .. 0 -> 1 .. 0] /\ << >> = [i \in 1 .. 0 |-> s[<< >>[i]]]
        BY <2>1
    <3>2. QED
        BY <2>1, <3>1 DEF Rearranges
  <2>3. QED
      BY <2>2 DEF OrderInv
<1>3. \A n \in 1 .. Len(s) : \A y :
          OrderInv(s, n - 1, y) => OrderInv(s, n, OrderOp(before, y, s[n]))
    BY OrderTurn
<1>4. OrderInv(s, Len(s), Ordering!Fold(before, << >>, s))
    BY <1>1, <1>2, <1>3, Ordering!FoldKeeps
<1>5. InOrderOf(before, s) = Ordering!Fold(before, << >>, s)
    BY DEF InOrderOf, Ordering!Fold, Ordering!FoldLeft, Ordering!MapThenFoldSet, Ordering!Max,
           OrderOp, FoldLeft, MapThenFoldSet, Max
<1>6. QED
    BY <1>4, <1>5

-----------------------------------------------------------------------------
(* Sums over the rows of a frame.                                          *)

\* A sum is that of any part and that of the rest.
LEMMA TotalSplits ==
    ASSUME NEW f, IsFiniteSet(DOMAIN f), Keeping!OfNumbers(f), NEW A
    PROVE  /\ Total(f) = Total([x \in DOMAIN f \cap A |-> f[x]])
                             + Total([x \in DOMAIN f \ A |-> f[x]])
           /\ Total([x \in DOMAIN f \cap A |-> f[x]]) \in Nat
           /\ Total([x \in DOMAIN f \ A |-> f[x]]) \in Nat
<1> DEFINE a == [x \in DOMAIN f \cap A |-> f[x]]
           b == [x \in DOMAIN f \ A |-> f[x]]
<1>1. Keeping!IsFiniteSet(DOMAIN f)
    BY DEF IsFiniteSet, Keeping!IsFiniteSet
<1>2. /\ Keeping!SumOver(f) = Keeping!SumOver(Keeping!Part(f, DOMAIN f \cap A))
                                  + Keeping!SumOver(Keeping!Part(f, DOMAIN f \ A))
      /\ Keeping!SumOver(Keeping!Part(f, DOMAIN f \cap A)) \in Nat
      /\ Keeping!SumOver(Keeping!Part(f, DOMAIN f \ A)) \in Nat
    BY <1>1, Keeping!SumSplits
<1>3. Keeping!Part(f, DOMAIN f \cap A) = a /\ Keeping!Part(f, DOMAIN f \ A) = b
    BY DEF Keeping!Part
<1> HIDE DEF a, b
<1>4. /\ Total(f) = Keeping!SumOver(f) /\ Total(a) = Keeping!SumOver(a)
      /\ Total(b) = Keeping!SumOver(b)
    BY TotalIsSum
<1>5. Total(f) = Total(a) + Total(b) /\ Total(a) \in Nat /\ Total(b) \in Nat
    BY <1>2, <1>3, <1>4
<1>6. QED
    BY <1>5 DEF a, b

\* Zeros and ones sum up to the number of the ones.
LEMMA TotalCounts ==
    ASSUME NEW f, IsFiniteSet(DOMAIN f), \A x \in DOMAIN f : f[x] \in {0, 1}
    PROVE  Total(f) = Cardinality({x \in DOMAIN f : f[x] = 1})
<1>1. Keeping!IsFiniteSet(DOMAIN f)
    BY DEF IsFiniteSet, Keeping!IsFiniteSet
<1>2. Keeping!SumOver(f) = Keeping!Cardinality(Keeping!Ones(f, DOMAIN f))
    BY <1>1, Keeping!SumCounts
<1>3. QED
    BY <1>2, TotalIsSum DEF Keeping!Ones, Cardinality, Keeping!Cardinality

\* The sums of the classes that key makes of a domain sum up to the whole.
LEMMA TotalOfClasses ==
    ASSUME NEW f, NEW h, NEW key, IsFiniteSet(DOMAIN f), IsFiniteSet(DOMAIN h),
           Keeping!OfNumbers(f),
           \A x \in DOMAIN f : key[x] \in DOMAIN h,
           \A k \in DOMAIN h : h[k] = Total([x \in Keeping!Class(key, DOMAIN f, k) |-> f[x]])
    PROVE  Total(h) = Total(f)
<1>1. Keeping!IsFiniteSet(DOMAIN f) /\ Keeping!IsFiniteSet(DOMAIN h)
    BY DEF IsFiniteSet, Keeping!IsFiniteSet
<1>2. ASSUME NEW k \in DOMAIN h
      PROVE  h[k] = Keeping!SumOver(Keeping!Part(f, Keeping!Class(key, DOMAIN f, k)))
  <2> DEFINE p == [x \in Keeping!Class(key, DOMAIN f, k) |-> f[x]]
  <2>1. h[k] = Total(p)
      OBVIOUS
  <2>2. p = Keeping!Part(f, Keeping!Class(key, DOMAIN f, k))
      BY DEF Keeping!Part
  <2> HIDE DEF p
  <2>3. QED
      BY <2>1, <2>2, TotalIsSum
<1>3. Keeping!SumsOfClasses(h, f, key)
    BY <1>2 DEF Keeping!SumsOfClasses
<1>4. Keeping!SumOver(h) = Keeping!SumOver(f)
    BY <1>1, <1>3, Keeping!SumOfClasses
<1>5. QED
    BY <1>4, TotalIsSum

-----------------------------------------------------------------------------
(* Answers.  A tool lists one answer per group, in some order.             *)

\* t has the values of A on K, one for each element.
Covers(t, A, K) ==
    \E n \in Nat : \E c :
        /\ c \in [1 .. n -> K]
        /\ \A i, j \in 1 .. n : c[i] = c[j] => i = j
        /\ \A k \in K : \E i \in 1 .. n : c[i] = k
        /\ t = [i \in 1 .. n |-> A[c[i]]]

\* SetToSeq lists each element of a finite set once.
LEMMA SetIsListed ==
    ASSUME NEW K, IsFiniteSet(K), NEW A
    PROVE  /\ Covers([i \in DOMAIN SetToSeq(K) |-> A[SetToSeq(K)[i]]], A, K)
           /\ \A i \in DOMAIN SetToSeq(K) : SetToSeq(K)[i] \in K
<1> DEFINE ks == SetToSeq(K)
           n == Cardinality(K)
<1>1. n \in Nat
    BY FS_CardinalityType
<1>2. \E f \in [1 .. n -> K] : IsInjective(f)
  <2>1. PICK m \in Nat : ExistsBijection(1 .. m, K)
      BY FS_NatBijection
  <2>2. m = n
      BY <2>1, FS_CountingElements
  <2>3. PICK f \in Bijection(1 .. n, K) : TRUE
      BY <2>1, <2>2 DEF ExistsBijection
  <2>4. f \in [1 .. n -> K] /\ IsInjective(f)
      BY <2>3 DEF Bijection, Injection, IsInjective
  <2>5. QED
      BY <2>4
<1>3. ks \in [1 .. n -> K] /\ IsInjective(ks)
    BY <1>2 DEF SetToSeq
<1> HIDE DEF ks
<1>4. ks \in Injection(1 .. n, K)
    BY <1>3 DEF Injection, IsInjective
<1>5. IsFiniteSet(1 .. n) /\ Cardinality(1 .. n) = n
  <2>1. IsFiniteSet(1 .. n) /\ Cardinality(1 .. n) = IF 1 > n THEN 0 ELSE n - 1 + 1
      BY <1>1, FS_Interval
  <2> HIDE DEF n
  <2>2. QED
      BY <1>1, <2>1
<1>6. ks \in Surjection(1 .. n, K)
    BY <1>4, <1>5, FS_Injection
<1>7. \A k \in K : \E i \in 1 .. n : ks[i] = k
    BY <1>6 DEF Surjection
<1>8. \A i, j \in 1 .. n : ks[i] = ks[j] => i = j
    BY <1>4 DEF Injection, IsInjective
<1> HIDE DEF n
<1>9. DOMAIN ks = 1 .. n
    BY <1>3
<1>10. Covers([i \in DOMAIN ks |-> A[ks[i]]], A, K)
    BY <1>1, <1>3, <1>7, <1>8, <1>9 DEF Covers
<1>11. \A i \in DOMAIN ks : ks[i] \in K
    BY <1>3
<1>12. QED
    BY <1>10, <1>11 DEF ks

\* As many answers are listed as there are elements.
LEMMA ListType ==
    ASSUME NEW t, NEW A, NEW K, Covers(t, A, K), IsFiniteSet(K)
    PROVE  /\ t \in Seq({A[k] : k \in K})
           /\ Len(t) = Cardinality(K)
<1>1. PICK n \in Nat : \E c :
          /\ c \in [1 .. n -> K]
          /\ \A i, j \in 1 .. n : c[i] = c[j] => i = j
          /\ \A k \in K : \E i \in 1 .. n : c[i] = k
          /\ t = [i \in 1 .. n |-> A[c[i]]]
    BY DEF Covers
<1>2. PICK c :
          /\ c \in [1 .. n -> K]
          /\ \A i, j \in 1 .. n : c[i] = c[j] => i = j
          /\ \A k \in K : \E i \in 1 .. n : c[i] = k
          /\ t = [i \in 1 .. n |-> A[c[i]]]
    BY <1>1
<1>3. t \in [1 .. n -> {A[k] : k \in K}]
    BY <1>2
<1>4. t \in Seq({A[k] : k \in K}) /\ Len(t) = n
  <2>1. t \in Seq({A[k] : k \in K})
      BY <1>3, SeqDef
  <2>2. QED
      BY <1>3, <2>1, LenProperties
<1>5. c \in Bijection(1 .. n, K)
    BY <1>2 DEF Bijection, Injection, Surjection, IsInjective
<1>6. ExistsBijection(1 .. n, K)
    BY <1>5 DEF ExistsBijection
<1>7. Cardinality(K) = n
    BY <1>6, FS_CountingElements
<1>8. QED
    BY <1>4, <1>7

\* Sorted answers are the same answers.
LEMMA SortedLists ==
    ASSUME NEW t, NEW A, NEW K, Covers(t, A, K), NEW before
    PROVE  Covers(InOrderOf(before, t), A, K)
<1> DEFINE u == InOrderOf(before, t)
           R == {A[k] : k \in K}
<1>1. PICK n \in Nat : \E c :
          /\ c \in [1 .. n -> K]
          /\ \A i, j \in 1 .. n : c[i] = c[j] => i = j
          /\ \A k \in K : \E i \in 1 .. n : c[i] = k
          /\ t = [i \in 1 .. n |-> A[c[i]]]
    BY DEF Covers
<1>2. PICK c :
          /\ c \in [1 .. n -> K]
          /\ \A i, j \in 1 .. n : c[i] = c[j] => i = j
          /\ \A k \in K : \E i \in 1 .. n : c[i] = k
          /\ t = [i \in 1 .. n |-> A[c[i]]]
    BY <1>1
<1>3. t \in Seq(R) /\ Len(t) = n
  <2>1. t \in [1 .. n -> R]
      BY <1>2
  <2> HIDE DEF R
  <2>2. t \in Seq(R)
      BY <2>1, SeqDef
  <2>3. QED
      BY <2>1, <2>2, LenProperties
<1> HIDE DEF R
<1>4. OrderInv(t, n, u)
    BY <1>3, SortingRearranges
<1> HIDE DEF u
<1>5. PICK b : Rearranges(b, t, n, u)
    BY <1>4 DEF OrderInv
<1>6. /\ b \in [1 .. n -> 1 .. n]
      /\ \A i, j \in 1 .. n : b[i] = b[j] => i = j
      /\ \A z \in 1 .. n : \E i \in 1 .. n : b[i] = z
      /\ u = [i \in 1 .. n |-> t[b[i]]]
    BY <1>5 DEF Rearranges
<1> DEFINE d == [i \in 1 .. n |-> c[b[i]]]
<1>7. d \in [1 .. n -> K] /\ \A i, j \in 1 .. n : d[i] = d[j] => i = j
    BY <1>2, <1>6
<1>8. ASSUME NEW k \in K PROVE \E i \in 1 .. n : d[i] = k
  <2>1. PICK z \in 1 .. n : c[z] = k
      BY <1>2
  <2>2. PICK i \in 1 .. n : b[i] = z
      BY <1>6
  <2>3. QED
      BY <2>1, <2>2
<1>9. u = [i \in 1 .. n |-> A[d[i]]]
    BY <1>2, <1>6
<1> HIDE DEF d
<1>10. Covers(u, A, K)
    BY <1>7, <1>8, <1>9 DEF Covers
<1>11. QED
    BY <1>10 DEF u

\* What a list of answers sums up to.
Values(t) == [i \in DOMAIN t |-> OrZero(t[i].value)]

\* The answers listed sum up to what the elements have.
LEMMA ListTotal ==
    ASSUME NEW t, NEW A, NEW h, Covers(t, A, DOMAIN h), IsFiniteSet(DOMAIN h),
           Keeping!OfNumbers(h), \A k \in DOMAIN h : OrZero(A[k].value) = h[k]
    PROVE  Total(Values(t)) = Total(h)
<1> DEFINE K == DOMAIN h
           f == Values(t)
<1>1. PICK n \in Nat : \E c :
          /\ c \in [1 .. n -> K]
          /\ \A i, j \in 1 .. n : c[i] = c[j] => i = j
          /\ \A k \in K : \E i \in 1 .. n : c[i] = k
          /\ t = [i \in 1 .. n |-> A[c[i]]]
    BY DEF Covers
<1>2. PICK c :
          /\ c \in [1 .. n -> K]
          /\ \A i, j \in 1 .. n : c[i] = c[j] => i = j
          /\ \A k \in K : \E i \in 1 .. n : c[i] = k
          /\ t = [i \in 1 .. n |-> A[c[i]]]
    BY <1>1
<1>3. DOMAIN f = 1 .. n /\ \A i \in 1 .. n : f[i] = OrZero(A[c[i]].value)
    BY <1>2 DEF Values
<1> HIDE DEF f
<1>4. Keeping!Renames(c, f, h)
    BY <1>2, <1>3 DEF Keeping!Renames
<1>5. IsFiniteSet(DOMAIN f)
  <2>1. IsFiniteSet(1 .. n)
      BY FS_Interval
  <2>2. QED
      BY <1>3, <2>1
<1>6. Total(f) = Total(h)
    BY <1>4, <1>5, TotalRenamed
<1>7. QED
    BY <1>6 DEF f

-----------------------------------------------------------------------------
(* Metrics.  Each of those that add up is a sum over rows of what one row  *)
(* is worth.                                                               *)

Summed ==
    {"anomaly_count", "high_severity_count", "log_volume", "login_failure_count",
     "llm_token_total", "llm_cost_total"}

OneIf(b) == IF b THEN 1 ELSE 0

Worth(metric, r) ==
    CASE metric \in {"anomaly_count", "log_volume"} -> 1
      [] metric = "high_severity_count" -> OneIf(r.threat_level = "high")
      [] metric = "login_failure_count" -> OneIf(LoginFailed(r))
      [] metric = "llm_token_total" -> OrZero(r.llm_total_tokens)
      [] metric = "llm_cost_total" -> OrZero(r.llm_cost_usd)

\* The cells that are summed up are numbers or NULL.
IsPriced(r) == {r.llm_total_tokens, r.llm_cost_usd} \subseteq Nat \cup {NoValue}

WorthOf(metric, rows, I) == Total([i \in I |-> Worth(metric, rows[i])])

\* A row is worth a number.
LEMMA WorthIsNat ==
    ASSUME NEW r, IsPriced(r), NEW metric \in Summed
    PROVE  Worth(metric, r) \in Nat
<1>1. OrZero(r.llm_total_tokens) \in Nat /\ OrZero(r.llm_cost_usd) \in Nat
    BY DEF IsPriced, OrZero
<1>2. \A b : OneIf(b) \in Nat
    BY DEF OneIf
<1>3. QED
    BY <1>1, <1>2 DEF Worth, Summed

\* Rows that are chosen count one each.
LEMMA ChosenTotal ==
    ASSUME NEW R, NEW rows \in Seq(R), NEW set
    PROVE  Len(Kept(rows, set)) = Total([i \in DOMAIN rows |-> OneIf(rows[i] \in set)])
<1> DEFINE f == [i \in DOMAIN rows |-> OneIf(rows[i] \in set)]
<1>1. DOMAIN f = DOMAIN rows /\ \A i \in DOMAIN rows : f[i] = OneIf(rows[i] \in set)
    OBVIOUS
<1> HIDE DEF f
<1>2. IsFiniteSet(DOMAIN f)
  <2>1. DOMAIN rows = 1 .. Len(rows) /\ Len(rows) \in Nat
      BY LenProperties
  <2>2. IsFiniteSet(1 .. Len(rows))
      BY <2>1, FS_Interval
  <2>3. QED
      BY <1>1, <2>1, <2>2
<1>3. \A i \in DOMAIN f : f[i] \in {0, 1}
    BY <1>1 DEF OneIf
<1>4. Total(f) = Cardinality({i \in DOMAIN f : f[i] = 1})
    BY <1>2, <1>3, TotalCounts
<1>5. {i \in DOMAIN f : f[i] = 1} = Positions(rows, set)
    BY <1>1 DEF OneIf, Positions
<1>6. Len(Kept(rows, set)) = Cardinality(Positions(rows, set))
    BY KeptType
<1>7. QED
    BY <1>4, <1>5, <1>6 DEF f

\* SUM leaves out NULLs, which are worth nothing.
LEMMA ColumnTotal ==
    ASSUME NEW R, NEW rows \in Seq(R), NEW column,
           \A r \in R : r[column] \in Nat \cup {NoValue}
    PROVE  OrZero(SumOf(rows, column)) = Total([i \in DOMAIN rows |-> OrZero(rows[i][column])])
<1> DEFINE f == [i \in DOMAIN rows |-> OrZero(rows[i][column])]
           set == {r \in Range(rows) : r[column] # NoValue}
           clean == Kept(rows, set)
           I == Positions(rows, set)
           g == [j \in DOMAIN clean |-> clean[j][column]]
           a == [i \in DOMAIN f \cap I |-> f[i]]
           z == [i \in DOMAIN f \ I |-> f[i]]
<1>1. /\ DOMAIN rows = 1 .. Len(rows) /\ Len(rows) \in Nat
      /\ \A i \in DOMAIN rows : rows[i] \in R /\ rows[i][column] \in Nat \cup {NoValue}
    BY LenProperties, ElementOfSeq
<1>2. IsFiniteSet(DOMAIN rows)
  <2>1. IsFiniteSet(1 .. Len(rows))
      BY <1>1, FS_Interval
  <2>2. QED
      BY <1>1, <2>1
<1>3. DOMAIN f = DOMAIN rows /\ \A i \in DOMAIN rows : f[i] = OrZero(rows[i][column])
    OBVIOUS
<1>4. /\ I \subseteq DOMAIN rows
      /\ \A i \in DOMAIN rows : i \in I <=> rows[i][column] # NoValue
    BY DEF Positions, Range
<1> HIDE DEF f, I
<1>5. Keeping!OfNumbers(f)
    BY <1>1, <1>3 DEF Keeping!OfNumbers, OrZero
<1>6. Total(f) = Total(a) + Total(z) /\ Total(a) \in Nat /\ Total(z) \in Nat
    BY <1>2, <1>3, <1>5, TotalSplits
<1>7. Total(z) = 0
  <2>1. DOMAIN z = DOMAIN f \ I /\ \A i \in DOMAIN f \ I : z[i] = 0
      BY <1>3, <1>4 DEF OrZero
  <2> HIDE DEF z
  <2>2. IsFiniteSet(DOMAIN z)
      BY <1>2, <1>3, <2>1, FS_Subset
  <2>3. Total(z) = Cardinality({i \in DOMAIN z : z[i] = 1})
      BY <2>1, <2>2, TotalCounts
  <2>4. {i \in DOMAIN z : z[i] = 1} = {}
      BY <2>1
  <2>5. QED
      BY <2>3, <2>4, FS_EmptySet
<1>8. Total(g) = Total(a)
  <2>1. Filtered(rows, set, clean)
      BY KeptIsListed
  <2> HIDE DEF clean, set
  <2>2. PICK m \in 0 .. Len(rows) : \E e : Enumerates(e, m, I) /\ Left(rows, e, m, clean)
      BY <2>1 DEF Filtered, I
  <2>3. PICK e : Enumerates(e, m, I) /\ Left(rows, e, m, clean)
      BY <2>2
  <2>4. /\ clean = [j \in 1 .. m |-> rows[e[j]]] /\ m \in Nat
        /\ e \in [1 .. m -> I]
        /\ \A i \in I : \E j \in 1 .. m : e[j] = i
    <3>1. m \in Nat
        BY <1>1, <2>2
    <3>2. clean = [j \in 1 .. m |-> rows[e[j]]]
        BY <2>3 DEF Left
    <3>3. e \in [1 .. m -> I] /\ \A i \in I : \E j \in 1 .. m : e[j] = i
        BY <2>3 DEF Enumerates
    <3>4. QED
        BY <3>1, <3>2, <3>3
  <2>5. \A i, j \in 1 .. m : e[i] = e[j] => i = j
    <3>1. \A i, j \in 1 .. m : i < j => e[i] < e[j]
        BY <2>3 DEF Enumerates
    <3>2. \A i \in 1 .. m : e[i] \in Nat
      <4>1. I \subseteq Nat
          BY <1>1, <1>4
      <4>2. QED
          BY <2>4, <4>1
    <3>3. QED
        BY <3>1, <3>2
  <2>6. DOMAIN g = 1 .. m /\ \A j \in 1 .. m : g[j] = rows[e[j]][column]
      BY <2>4
  <2>7. DOMAIN a = I /\ \A i \in I : a[i] = rows[i][column]
      BY <1>3, <1>4 DEF OrZero
  <2> HIDE DEF g, a
  <2>8. \A j \in 1 .. m : e[j] \in I
      BY <2>4
  <2>9. Keeping!Renames(e, g, a)
      BY <2>4, <2>5, <2>6, <2>7, <2>8 DEF Keeping!Renames
  <2>10. Keeping!OfNumbers(a)
      BY <1>1, <1>4, <2>7 DEF Keeping!OfNumbers
  <2>11. IsFiniteSet(DOMAIN g) /\ IsFiniteSet(DOMAIN a)
    <3>1. IsFiniteSet(1 .. m)
        BY <2>4, FS_Interval
    <3>2. IsFiniteSet(I)
        BY <1>2, <1>4, FS_Subset
    <3>3. QED
        BY <2>6, <2>7, <3>1, <3>2
  <2>12. QED
      BY <2>9, <2>10, <2>11, TotalRenamed
<1>9. SumOf(rows, column) = IF clean = << >> THEN NoValue ELSE Total(g)
    BY DEF SumOf, Where
<1>10. Total(f) = Total(g)
  <2> HIDE DEF a, z, g
  <2>1. QED
      BY <1>6, <1>7, <1>8
<1>11. CASE clean = << >>
  <2>1. DOMAIN g = {}
      BY <1>11
  <2> HIDE DEF g
  <2>2. Total(g) = Cardinality({i \in DOMAIN g : g[i] = 1})
    <3>1. IsFiniteSet(DOMAIN g) /\ \A i \in DOMAIN g : g[i] \in {0, 1}
        BY <2>1, FS_EmptySet
    <3>2. QED
        BY <3>1, TotalCounts
  <2>3. {i \in DOMAIN g : g[i] = 1} = {}
      BY <2>1
  <2>4. Total(g) = 0
      BY <2>2, <2>3, FS_EmptySet
  <2>5. OrZero(SumOf(rows, column)) = 0
      BY <1>9, <1>11 DEF OrZero
  <2>6. QED
      BY <1>10, <2>4, <2>5 DEF f
<1>12. CASE clean # << >>
  <2>1. Total(g) \in Nat
      BY <1>6, <1>8
  <2> HIDE DEF clean, g
  <2>2. OrZero(Total(g)) = Total(g)
      BY <2>1, StatsAssumption DEF OrZero
  <2>3. QED
      BY <1>9, <1>10, <1>12, <2>2 DEF f
<1>13. QED
    BY <1>11, <1>12

\* A metric that adds up is what its rows are worth (_METRICS).
LEMMA MetricTotal ==
    ASSUME NEW R, NEW rows \in Seq(R), \A r \in R : IsPriced(r), NEW metric \in Summed
    PROVE  OrZero(MetricValue(metric, rows)) = WorthOf(metric, rows, DOMAIN rows)
<1>1. Len(rows) \in Nat /\ DOMAIN rows = 1 .. Len(rows)
    BY LenProperties
<1>2. ASSUME NEW n \in Nat PROVE OrZero(n) = n
    BY StatsAssumption DEF OrZero
<1>3. ASSUME NEW set, NEW q, q = CountOrNull(rows, Kept(rows, set))
      PROVE  OrZero(q) = Total([i \in DOMAIN rows |-> OneIf(rows[i] \in set)])
  <2>1. Len(Kept(rows, set)) = Total([i \in DOMAIN rows |-> OneIf(rows[i] \in set)])
      BY ChosenTotal
  <2>2. Kept(rows, set) \in Seq(R) /\ Len(Kept(rows, set)) = Cardinality(Positions(rows, set))
      BY KeptType
  <2>3. Len(Kept(rows, set)) \in Nat
      BY <2>2, LenProperties
  <2>4. CASE rows = << >>
    <3>1. Positions(rows, set) = {}
        BY <2>4 DEF Positions
    <3>2. Len(Kept(rows, set)) = 0
        BY <2>2, <3>1, FS_EmptySet
    <3>3. OrZero(q) = 0
        BY <1>3, <2>4 DEF CountOrNull, OrZero
    <3>4. QED
        BY <2>1, <3>2, <3>3
  <2>5. CASE rows # << >>
      BY <1>2, <1>3, <2>1, <2>3, <2>5 DEF CountOrNull
  <2>6. QED
      BY <2>4, <2>5
<1>4. CASE metric \in {"anomaly_count", "log_volume"}
  <2>1. MetricValue(metric, rows) = Len(rows)
      BY <1>4 DEF MetricValue
  <2>2. \A i \in DOMAIN rows : Worth(metric, rows[i]) = 1
      BY <1>4 DEF Worth
  <2> DEFINE f == [i \in DOMAIN rows |-> Worth(metric, rows[i])]
  <2>3. DOMAIN f = DOMAIN rows /\ \A i \in DOMAIN rows : f[i] = 1
      BY <2>2
  <2> HIDE DEF f
  <2>4. IsFiniteSet(1 .. Len(rows)) /\ Cardinality(1 .. Len(rows)) = Len(rows)
    <3>1. /\ IsFiniteSet(1 .. Len(rows))
          /\ Cardinality(1 .. Len(rows)) = IF 1 > Len(rows) THEN 0 ELSE Len(rows) - 1 + 1
        BY <1>1, FS_Interval
    <3>2. QED
        BY <1>1, <3>1
  <2>5. Total(f) = Cardinality({i \in DOMAIN f : f[i] = 1})
      BY <1>1, <2>3, <2>4, TotalCounts
  <2>6. {i \in DOMAIN f : f[i] = 1} = 1 .. Len(rows)
      BY <1>1, <2>3
  <2>7. Total(f) = Len(rows)
      BY <2>4, <2>5, <2>6
  <2>8. QED
      BY <1>1, <1>2, <2>1, <2>7 DEF WorthOf, f
<1>5. CASE metric = "high_severity_count"
  <2> DEFINE set == {r \in Range(rows) : r.threat_level = "high"}
  <2>1. MetricValue(metric, rows) = CountOrNull(rows, Kept(rows, set))
      BY <1>5 DEF MetricValue, Where
  <2>2. \A i \in DOMAIN rows : rows[i] \in set <=> rows[i].threat_level = "high"
      BY DEF Range
  <2> HIDE DEF set
  <2>3. \A i \in DOMAIN rows : Worth(metric, rows[i]) = OneIf(rows[i] \in set)
      BY <1>5, <2>2 DEF Worth, OneIf
  <2>4. [i \in DOMAIN rows |-> Worth(metric, rows[i])]
            = [i \in DOMAIN rows |-> OneIf(rows[i] \in set)]
      BY <2>3
  <2>5. QED
      BY <1>3, <2>1, <2>4 DEF WorthOf
<1>6. CASE metric = "login_failure_count"
  <2> DEFINE set == {r \in Range(rows) : LoginFailed(r)}
  <2>1. MetricValue(metric, rows) = CountOrNull(rows, Kept(rows, set))
      BY <1>6 DEF MetricValue, Where
  <2>2. \A i \in DOMAIN rows : rows[i] \in set <=> LoginFailed(rows[i])
      BY DEF Range
  <2> HIDE DEF set
  <2>3. \A i \in DOMAIN rows : Worth(metric, rows[i]) = OneIf(rows[i] \in set)
      BY <1>6, <2>2 DEF Worth, OneIf
  <2>4. [i \in DOMAIN rows |-> Worth(metric, rows[i])]
            = [i \in DOMAIN rows |-> OneIf(rows[i] \in set)]
      BY <2>3
  <2>5. QED
      BY <1>3, <2>1, <2>4 DEF WorthOf
<1>7. CASE metric = "llm_token_total"
  <2>1. MetricValue(metric, rows) = SumOf(rows, "llm_total_tokens")
      BY <1>7 DEF MetricValue
  <2>2. \A i \in DOMAIN rows : Worth(metric, rows[i]) = OrZero(rows[i]["llm_total_tokens"])
      BY <1>7 DEF Worth
  <2>3. \A r \in R : r["llm_total_tokens"] \in Nat \cup {NoValue}
      BY DEF IsPriced
  <2>4. OrZero(SumOf(rows, "llm_total_tokens"))
            = Total([i \in DOMAIN rows |-> OrZero(rows[i]["llm_total_tokens"])])
      BY <2>3, ColumnTotal
  <2>5. [i \in DOMAIN rows |-> Worth(metric, rows[i])]
            = [i \in DOMAIN rows |-> OrZero(rows[i]["llm_total_tokens"])]
      BY <2>2
  <2>6. QED
      BY <2>1, <2>4, <2>5 DEF WorthOf
<1>8. CASE metric = "llm_cost_total"
  <2>1. MetricValue(metric, rows) = SumOf(rows, "llm_cost_usd")
      BY <1>8 DEF MetricValue
  <2>2. \A i \in DOMAIN rows : Worth(metric, rows[i]) = OrZero(rows[i]["llm_cost_usd"])
      BY <1>8 DEF Worth
  <2>3. \A r \in R : r["llm_cost_usd"] \in Nat \cup {NoValue}
      BY DEF IsPriced
  <2>4. OrZero(SumOf(rows, "llm_cost_usd"))
            = Total([i \in DOMAIN rows |-> OrZero(rows[i]["llm_cost_usd"])])
      BY <2>3, ColumnTotal
  <2>5. [i \in DOMAIN rows |-> Worth(metric, rows[i])]
            = [i \in DOMAIN rows |-> OrZero(rows[i]["llm_cost_usd"])]
      BY <2>2
  <2>6. QED
      BY <2>1, <2>4, <2>5 DEF WorthOf
<1>9. QED
    BY <1>4, <1>5, <1>6, <1>7, <1>8 DEF Summed

-----------------------------------------------------------------------------
(* Groups.                                                                 *)

\* t is what is left of s at the positions I.
Takes(s, I, t) == \E m \in Nat : \E e : Enumerates(e, m, I) /\ Left(s, e, m, t)

\* A filter takes the positions of what it keeps.
LEMMA KeptTakes ==
    ASSUME NEW R, NEW s \in Seq(R), NEW set
    PROVE  Takes(s, Positions(s, set), Kept(s, set))
<1>1. Filtered(s, set, Kept(s, set))
    BY KeptIsListed
<1>2. 0 .. Len(s) \subseteq Nat
    BY LenProperties
<1>3. QED
    BY <1>1, <1>2 DEF Filtered, Takes

\* The metric of the rows that are taken is what they are worth.
LEMMA TakenWorth ==
    ASSUME NEW R, NEW rows \in Seq(R), \A r \in R : IsPriced(r), NEW metric \in Summed,
           NEW I, I \subseteq DOMAIN rows, NEW t, Takes(rows, I, t)
    PROVE  /\ t \in Seq(R) /\ IsFiniteSet(I)
           /\ OrZero(MetricValue(metric, t)) = WorthOf(metric, rows, I)
           /\ WorthOf(metric, t, DOMAIN t) = WorthOf(metric, rows, I)
<1>1. /\ DOMAIN rows = 1 .. Len(rows) /\ Len(rows) \in Nat
      /\ \A i \in DOMAIN rows : rows[i] \in R
    BY LenProperties, ElementOfSeq
<1>2. PICK m \in Nat : \E e : Enumerates(e, m, I) /\ Left(rows, e, m, t)
    BY DEF Takes
<1>3. PICK e : Enumerates(e, m, I) /\ Left(rows, e, m, t)
    BY <1>2
<1>4. t = [j \in 1 .. m |-> rows[e[j]]]
    BY <1>3 DEF Left
<1>5. /\ e \in [1 .. m -> I]
      /\ \A i \in I : \E j \in 1 .. m : e[j] = i
      /\ \A i, j \in 1 .. m : i < j => e[i] < e[j]
    BY <1>3 DEF Enumerates
<1>6. \A j \in 1 .. m : e[j] \in I /\ e[j] \in DOMAIN rows /\ e[j] \in Nat
  <2>1. \A i \in I : i \in DOMAIN rows /\ i \in Nat
      BY <1>1
  <2>2. QED
      BY <1>5, <2>1
<1>7. \A i, j \in 1 .. m : e[i] = e[j] => i = j
  <2>1. \A i, j \in 1 .. m : i < j => e[i] < e[j]
      BY <1>5
  <2>2. \A i \in 1 .. m : e[i] \in Nat
      BY <1>6
  <2>3. QED
      BY <2>1, <2>2
<1>8. t \in Seq(R) /\ DOMAIN t = 1 .. m
  <2>1. t \in [1 .. m -> R]
      BY <1>1, <1>4, <1>6
  <2>2. QED
      BY <2>1, SeqDef
<1>9. IsFiniteSet(I)
  <2>1. IsFiniteSet(1 .. Len(rows))
      BY <1>1, FS_Interval
  <2>2. QED
      BY <1>1, <2>1, FS_Subset
<1> DEFINE f == [j \in DOMAIN t |-> Worth(metric, t[j])]
           h == [i \in I |-> Worth(metric, rows[i])]
<1>10. DOMAIN f = 1 .. m /\ \A j \in 1 .. m : f[j] = Worth(metric, rows[e[j]])
    BY <1>4, <1>8
<1>11. DOMAIN h = I /\ \A i \in I : h[i] = Worth(metric, rows[i])
    OBVIOUS
<1> HIDE DEF f, h
<1>12. Keeping!Renames(e, f, h)
    BY <1>5, <1>6, <1>7, <1>10, <1>11 DEF Keeping!Renames
<1>13. Keeping!OfNumbers(h)
    BY <1>1, <1>11, WorthIsNat DEF Keeping!OfNumbers
<1>14. IsFiniteSet(DOMAIN f) /\ IsFiniteSet(DOMAIN h)
  <2>1. IsFiniteSet(1 .. m)
      BY FS_Interval
  <2>2. QED
      BY <1>9, <1>10, <1>11, <2>1
<1>15. Total(f) = Total(h)
    BY <1>12, <1>13, <1>14, TotalRenamed
<1>16. WorthOf(metric, t, DOMAIN t) = WorthOf(metric, rows, I)
    BY <1>15 DEF WorthOf, f, h
<1>17. OrZero(MetricValue(metric, t)) = WorthOf(metric, t, DOMAIN t)
    BY <1>8, MetricTotal
<1>18. QED
    BY <1>8, <1>9, <1>16, <1>17

WorthAdds(metric, rows, I, J) ==
    /\ WorthOf(metric, rows, I) = WorthOf(metric, rows, J) + WorthOf(metric, rows, I \ J)
    /\ WorthOf(metric, rows, J) \in Nat
    /\ WorthOf(metric, rows, I \ J) \in Nat

\* Disjoint positions are worth what each of them are.
LEMMA WorthSplits ==
    ASSUME NEW R, NEW rows \in Seq(R), \A r \in R : IsPriced(r), NEW metric \in Summed,
           NEW I, I \subseteq DOMAIN rows, NEW J, J \subseteq I
    PROVE  WorthAdds(metric, rows, I, J)
<1>1. /\ DOMAIN rows = 1 .. Len(rows) /\ Len(rows) \in Nat
      /\ \A i \in DOMAIN rows : rows[i] \in R
    BY LenProperties, ElementOfSeq
<1>2. IsFiniteSet(I)
  <2>1. IsFiniteSet(1 .. Len(rows))
      BY <1>1, FS_Interval
  <2>2. QED
      BY <1>1, <2>1, FS_Subset
<1> DEFINE f == [i \in I |-> Worth(metric, rows[i])]
           a == [i \in DOMAIN f \cap J |-> f[i]]
           b == [i \in DOMAIN f \ J |-> f[i]]
<1>3. DOMAIN f = I /\ \A i \in I : f[i] = Worth(metric, rows[i])
    OBVIOUS
<1> HIDE DEF f
<1>4. Keeping!OfNumbers(f)
    BY <1>1, <1>3, WorthIsNat DEF Keeping!OfNumbers
<1>5. Total(f) = Total(a) + Total(b) /\ Total(a) \in Nat /\ Total(b) \in Nat
    BY <1>2, <1>3, <1>4, TotalSplits
<1>6. a = [i \in J |-> Worth(metric, rows[i])] /\ b = [i \in I \ J |-> Worth(metric, rows[i])]
  <2>1. DOMAIN f \cap J = J /\ DOMAIN f \ J = I \ J
      BY <1>3
  <2>2. QED
      BY <1>3, <2>1
<1> HIDE DEF a, b
<1>7. QED
    BY <1>5, <1>6 DEF f, WorthOf, WorthAdds

\* t has an answer for each key, with what the rows of the key are worth.
Answers(t, rows, key, metric) ==
    \E A : /\ Covers(t, A, Range(key))
           /\ \A k \in Range(key) :
                 OrZero(A[k].value) = WorthOf(metric, rows, Keeping!Class(key, DOMAIN rows, k))

\* There is one answer for each group (GROUP BY).
LEMMA GroupsAnswer ==
    ASSUME NEW R, NEW rows \in Seq(R), \A r \in R : IsPriced(r), NEW metric \in Summed,
           NEW key, DOMAIN key = DOMAIN rows
    PROVE  /\ Answers(Groups(rows, key, metric), rows, key, metric)
           /\ IsFiniteSet(Range(key))
<1> DEFINE D == DOMAIN rows
           idx == [i \in D |-> i]
           At(k) == Where(idx, LAMBDA i : key[i] = k)
           Of(k) == [j \in DOMAIN At(k) |-> rows[At(k)[j]]]
           K == Range(key)
           A == [k \in K |-> [key |-> k, value |-> MetricValue(metric, Of(k))]]
           ks == SetToSeq(K)
           t == [i \in DOMAIN ks |-> A[ks[i]]]
<1>1. D = 1 .. Len(rows) /\ Len(rows) \in Nat
    BY LenProperties
<1>2. IsFiniteSet(K)
  <2>1. key \in Surjection(D, K) \/ K = {key[i] : i \in D}
      BY DEF Range
  <2>2. IsFiniteSet(D)
      BY <1>1, FS_Interval
  <2>3. [i \in D |-> key[i]] \in Surjection(D, K)
      BY DEF Range, Surjection
  <2> HIDE DEF D, K
  <2>4. QED
      BY <2>2, <2>3, FS_Surjection
<1>3. ASSUME NEW k \in K
      PROVE  OrZero(A[k].value) = WorthOf(metric, rows, Keeping!Class(key, DOMAIN rows, k))
  <2> DEFINE set == {i \in Range(idx) : key[i] = k}
             I == Keeping!Class(key, D, k)
             at == Kept(idx, set)
             of == [j \in DOMAIN at |-> rows[at[j]]]
  <2>1. idx \in Seq(D)
      BY <1>1, SeqDef
  <2>2. Positions(idx, set) = I
      BY DEF Positions, Range, Keeping!Class
  <2>3. At(k) = at
      BY DEF Where
  <2> HIDE DEF idx, set
  <2>4. Takes(idx, I, at)
      BY <2>1, <2>2, KeptTakes
  <2>5. I \subseteq D
      BY DEF Keeping!Class
  <2> HIDE DEF at, I
  <2>6. PICK m \in Nat : \E e : Enumerates(e, m, I) /\ Left(idx, e, m, at)
      BY <2>4 DEF Takes
  <2>7. PICK e : Enumerates(e, m, I) /\ Left(idx, e, m, at)
      BY <2>6
  <2>8. at = [j \in 1 .. m |-> idx[e[j]]] /\ e \in [1 .. m -> I]
      BY <2>7 DEF Left, Enumerates
  <2>9. DOMAIN at = 1 .. m /\ \A j \in 1 .. m : at[j] = e[j]
      BY <2>5, <2>8 DEF idx
  <2>10. of = [j \in 1 .. m |-> rows[e[j]]]
      BY <2>9
  <2>11. Takes(rows, I, of)
      BY <2>7, <2>10 DEF Takes, Left
  <2> HIDE DEF of
  <2>12. OrZero(MetricValue(metric, of)) = WorthOf(metric, rows, I)
      BY <2>5, <2>11, TakenWorth
  <2>13. A[k].value = MetricValue(metric, of)
      BY <2>3 DEF of
  <2>14. QED
      BY <2>12, <2>13 DEF I
<1> DEFINE before == {p \in Range(t) \X Range(t) :
                          /\ p[1].value # NoValue
                          /\ p[2].value = NoValue \/ p[1].value > p[2].value}
<1>4. Groups(rows, key, metric) = InOrderOf(before, t)
  <2>1. \A i \in DOMAIN ks : ks[i] \in K
      BY <1>2, SetIsListed
  <2>2. QED
      BY <2>1 DEF Groups, SortedBy
<1>5. Covers(t, A, K)
  <2> HIDE DEF A, K
  <2>1. QED
      BY <1>2, SetIsListed
<1> HIDE DEF t, before, A
<1>6. Covers(InOrderOf(before, t), A, K)
    BY <1>5, SortedLists
<1>7. QED
    BY <1>2, <1>3, <1>4, <1>6 DEF Answers

\* Sorting the answers again.
LEMMA AnswersSorted ==
    ASSUME NEW t, NEW rows, NEW key, NEW metric, Answers(t, rows, key, metric), NEW before
    PROVE  Answers(InOrderOf(before, t), rows, key, metric)
BY SortedLists DEF Answers

IsList(t) == \E S : t \in Seq(S)

\* Together the answers are what the rows are worth.
LEMMA AnswersTotal ==
    ASSUME NEW R, NEW rows \in Seq(R), \A r \in R : IsPriced(r), NEW metric \in Summed,
           NEW key, DOMAIN key = DOMAIN rows, IsFiniteSet(Range(key)),
           NEW t, Answers(t, rows, key, metric)
    PROVE  /\ Total(Values(t)) = OrZero(MetricValue(metric, rows))
           /\ Len(t) = Cardinality(Range(key))
           /\ IsList(t)
<1> DEFINE K == Range(key)
           D == DOMAIN rows
           f == [i \in D |-> Worth(metric, rows[i])]
           h == [k \in K |-> WorthOf(metric, rows, Keeping!Class(key, D, k))]
<1>1. /\ D = 1 .. Len(rows) /\ Len(rows) \in Nat
      /\ \A i \in D : rows[i] \in R
    BY LenProperties, ElementOfSeq
<1>2. IsFiniteSet(D)
    BY <1>1, FS_Interval
<1>3. PICK A : /\ Covers(t, A, K)
               /\ \A k \in K : OrZero(A[k].value) = WorthOf(metric, rows, Keeping!Class(key, D, k))
    BY DEF Answers
<1>4. Len(t) = Cardinality(K) /\ IsList(t)
    BY <1>3, ListType DEF IsList
<1>5. DOMAIN h = K /\ \A k \in K : OrZero(A[k].value) = h[k]
    BY <1>3
<1>6. ASSUME NEW k \in K
      PROVE  h[k] = Total([x \in Keeping!Class(key, D, k) |-> f[x]]) /\ h[k] \in Nat
  <2>1. Keeping!Class(key, D, k) \subseteq D
      BY DEF Keeping!Class
  <2>2. [x \in Keeping!Class(key, D, k) |-> f[x]]
            = [x \in Keeping!Class(key, D, k) |-> Worth(metric, rows[x])]
      BY <2>1
  <2>3. h[k] = WorthOf(metric, rows, Keeping!Class(key, D, k))
      OBVIOUS
  <2>4. WorthOf(metric, rows, Keeping!Class(key, D, k)) \in Nat
    <3>1. WorthAdds(metric, rows, D, Keeping!Class(key, D, k))
        BY <2>1, WorthSplits
    <3>2. QED
        BY <3>1 DEF WorthAdds
  <2> HIDE DEF h, f
  <2>5. QED
      BY <2>2, <2>3, <2>4 DEF WorthOf
<1>7. DOMAIN f = D /\ \A i \in D : f[i] \in Nat /\ key[i] \in K
  <2>1. \A i \in D : Worth(metric, rows[i]) \in Nat
      BY <1>1, WorthIsNat
  <2>2. QED
      BY <2>1 DEF Range
<1> HIDE DEF h, f, K
<1>8. Keeping!OfNumbers(f) /\ Keeping!OfNumbers(h)
    BY <1>5, <1>6, <1>7 DEF Keeping!OfNumbers
<1>9. Total(h) = Total(f)
    BY <1>2, <1>5, <1>6, <1>7, <1>8, TotalOfClasses DEF K
<1>10. Total(Values(t)) = Total(h)
    BY <1>3, <1>5, <1>8, ListTotal DEF K
<1>11. Total(f) = OrZero(MetricValue(metric, rows))
    BY MetricTotal DEF f, WorthOf
<1>12. QED
    BY <1>4, <1>9, <1>10, <1>11 DEF K

-----------------------------------------------------------------------------
(* Windows of time.                                                        *)

\* The times of a row are minutes or NULL.
IsDated(r) == {r.datetime, r.detected_at} \subseteq Int \cup {NoValue}

\* A database of one kind of rows.
IsDatabase(db, R) ==
    /\ \A r \in R : IsPriced(r) /\ IsDated(r)
    /\ \A table \in {"SECURITY_LOGS", "ANOMALIES"} : db[table] \in Seq(R)

\* The positions of the rows later than `from`.
Since(rows, column, from) ==
    {i \in DOMAIN rows : rows[i][column] # NoValue /\ rows[i][column] > from}

\* A window has the rows after its start.
LEMMA LaterTakes ==
    ASSUME NEW R, NEW db, NEW table, db[table] \in Seq(R), NEW now, NEW hours
    PROVE  Takes(db[table], Since(db[table], TIME_COLUMN[table], now - 60 * hours),
                 Later(db, table, now, hours))
<1> DEFINE rows == db[table]
           column == TIME_COLUMN[table]
           set == {r \in Range(rows) : r[column] # NoValue /\ r[column] > now - 60 * hours}
<1>1. Later(db, table, now, hours) = Kept(rows, set)
    BY DEF Later, Where
<1>2. Positions(rows, set) = Since(rows, column, now - 60 * hours)
    BY DEF Positions, Since, Range
<1> HIDE DEF set
<1>3. Takes(rows, Positions(rows, set), Kept(rows, set))
    BY KeptTakes
<1>4. QED
    BY <1>1, <1>2, <1>3

LeavesPrior(db, table, now, a, b) ==
    LET From(hours) == Since(db[table], TIME_COLUMN[table], now - 60 * hours)
    IN  /\ Takes(db[table], From(a + b) \ From(a), Prior(db, table, now, a, b))
        /\ From(a) \subseteq From(a + b)

\* Of the rows of a + b hours the prior window has those that the last a hours leave.
LEMMA PriorTakes ==
    ASSUME NEW R, NEW db, IsDatabase(db, R), NEW table \in {"SECURITY_LOGS", "ANOMALIES"},
           NEW now \in Int, NEW a \in Nat, NEW b \in Nat
    PROVE  LeavesPrior(db, table, now, a, b)
<1> DEFINE rows == db[table]
           column == TIME_COLUMN[table]
           late == {r \in Range(rows) : r[column] # NoValue /\ r[column] > now - 60 * (a + b)}
           later == Kept(rows, late)
           early == {r \in Range(later) : r[column] <= now - 60 * a}
           I == Since(rows, column, now - 60 * (a + b)) \ Since(rows, column, now - 60 * a)
<1>0. rows \in Seq(R) /\ \A r \in R : IsDated(r)
    BY DEF IsDatabase
<1>1. Prior(db, table, now, a, b) = Kept(later, early)
    BY DEF Prior, Later, Where
<1>2. Range(later) = Range(rows) \cap late
    BY <1>0, KeptType
<1>3. Kept(later, early) = Kept(rows, late \cap early)
  <2> HIDE DEF late, early, rows
  <2>1. QED
      BY <1>0, KeptTwice
<1>4. \A r \in Range(rows) : r[column] # NoValue => r[column] \in Int
  <2>1. \A r \in Range(rows) : IsDated(r)
    <3>1. \A i \in DOMAIN rows : rows[i] \in R
        BY <1>0, LenProperties, ElementOfSeq
    <3>2. QED
        BY <1>0, <3>1 DEF Range
  <2>2. column \in {"datetime", "detected_at"}
      BY DEF TIME_COLUMN
  <2>3. QED
      BY <2>1, <2>2 DEF IsDated
<1>5. now - 60 * (a + b) \in Int /\ now - 60 * a \in Int /\ now - 60 * (a + b) <= now - 60 * a
    OBVIOUS
<1>6. Positions(rows, late \cap early) = I
  <2>1. ASSUME NEW i \in DOMAIN rows PROVE rows[i] \in late \cap early <=> i \in I
    <3>1. rows[i] \in Range(rows)
        BY DEF Range
    <3> DEFINE v == rows[i][column]
    <3>2. v = NoValue \/ v \in Int
        BY <1>4, <3>1
    <3>3. rows[i] \in late \cap early
              <=> v # NoValue /\ v > now - 60 * (a + b) /\ v <= now - 60 * a
        BY <1>2, <3>1
    <3>4. i \in I <=> /\ v # NoValue /\ v > now - 60 * (a + b)
                      /\ ~(v # NoValue /\ v > now - 60 * a)
        BY DEF Since
    <3> HIDE DEF v, late, early, I
    <3>5. QED
        BY <1>5, <3>2, <3>3, <3>4
  <2>2. I \subseteq DOMAIN rows
      BY DEF Since
  <2> HIDE DEF I, late, early
  <2>3. QED
      BY <2>1, <2>2 DEF Positions
<1>7. Since(rows, column, now - 60 * a) \subseteq Since(rows, column, now - 60 * (a + b))
  <2>1. ASSUME NEW i \in DOMAIN rows, rows[i][column] # NoValue, rows[i][column] > now - 60 * a
        PROVE  rows[i][column] > now - 60 * (a + b)
    <3>1. rows[i][column] \in Int
        BY <1>4, <2>1 DEF Range
    <3> HIDE DEF column
    <3>2. QED
        BY <1>5, <2>1, <3>1
  <2>2. QED
      BY <2>1 DEF Since
<1> HIDE DEF I, late, early
<1>8. Takes(rows, Positions(rows, late \cap early), Kept(rows, late \cap early))
    BY <1>0, KeptTakes
<1>9. QED
    BY <1>1, <1>3, <1>6, <1>7, <1>8 DEF I, LeavesPrior

\* Moving the start of a window back by a minute adds rows.
LEMMA SinceGrows ==
    ASSUME NEW R, \A r \in R : IsDated(r), NEW rows \in Seq(R),
           NEW column \in {"datetime", "detected_at"}, NEW early \in Int, NEW late \in Int,
           early <= late
    PROVE  /\ Since(rows, column, late) \subseteq Since(rows, column, early)
           /\ Since(rows, column, early) \subseteq DOMAIN rows
<1>1. ASSUME NEW i \in DOMAIN rows, rows[i][column] # NoValue, rows[i][column] > late
      PROVE  rows[i][column] > early
  <2>1. rows[i] \in R
      BY LenProperties, ElementOfSeq
  <2>2. rows[i][column] \in Int
      BY <1>1, <2>1 DEF IsDated
  <2>3. QED
      BY <1>1, <2>2
<1>2. QED
    BY <1>1 DEF Since

-----------------------------------------------------------------------------
(* The helpers agree.                                                      *)

Window(db, metric, now, hours) ==
    OrZero(MetricValue(metric, Later(db, METRIC_TABLE[metric], now, hours)))

\* Each metric has its table.
LEMMA MetricTables ==
    ASSUME NEW metric \in Summed
    PROVE  /\ metric \in DOMAIN METRIC_TABLE
           /\ METRIC_TABLE[metric] \in {"SECURITY_LOGS", "ANOMALIES"}
BY DEF Summed, METRIC_TABLE

\* What a window is worth, by the positions of its rows.
LEMMA WindowWorth ==
    ASSUME NEW R, NEW db, IsDatabase(db, R), NEW metric \in Summed, NEW now \in Int,
           NEW hours \in Nat
    PROVE  /\ Window(db, metric, now, hours)
                  = WorthOf(metric, db[METRIC_TABLE[metric]],
                            Since(db[METRIC_TABLE[metric]],
                                  TIME_COLUMN[METRIC_TABLE[metric]], now - 60 * hours))
           /\ Later(db, METRIC_TABLE[metric], now, hours) \in Seq(R)
<1> DEFINE table == METRIC_TABLE[metric]
           rows == db[table]
           I == Since(rows, TIME_COLUMN[table], now - 60 * hours)
           t == Later(db, table, now, hours)
<1>1. rows \in Seq(R) /\ \A r \in R : IsPriced(r)
    BY MetricTables DEF IsDatabase
<1>2. Takes(rows, I, t)
    BY <1>1, LaterTakes
<1>3. I \subseteq DOMAIN rows
    BY DEF Since
<1> HIDE DEF rows, I, t
<1>4. t \in Seq(R) /\ OrZero(MetricValue(metric, t)) = WorthOf(metric, rows, I)
    BY <1>1, <1>2, <1>3, TakenWorth
<1>5. QED
    BY <1>4 DEF Window, rows, I, t

IsSpan(hours, most) == hours \in Nat /\ 1 <= hours /\ hours <= most

\* A span that is short enough is one that may be asked for.
LEMMA SpansAreValid ==
    ASSUME NEW hours, NEW most \in Nat, most <= 720, IsSpan(hours, most)
    PROVE  hours \in Nat /\ ValidHours(hours)
BY DEF IsSpan, ValidHours

SeriesSumsUp(db, now, metric, hours, bucket) ==
    Total(Values(TimeSeries(db, now, metric, hours, bucket).rows))
        = Window(db, metric, now, hours)

\* The buckets of a time series add up to the window.
LEMMA SeriesAgrees ==
    ASSUME NEW R, NEW db, IsDatabase(db, R), NEW metric \in Summed, NEW now \in Int,
           NEW hours, IsSpan(hours, 720), NEW bucket \in VALID_BUCKETS
    PROVE  SeriesSumsUp(db, now, metric, hours, bucket)
<1> DEFINE table == METRIC_TABLE[metric]
           rows == Later(db, table, now, hours)
           time == TIME_COLUMN[table]
           key == [i \in DOMAIN rows |-> (rows[i][time] \div bucket) * bucket]
           groups == Groups(rows, key, metric)
           before == {p \in Range(groups) \X Range(groups) : p[1].key < p[2].key}
<1>0. hours \in Nat /\ ValidHours(hours)
    BY SpansAreValid
<1>1. TimeSeries(db, now, metric, hours, bucket).rows = InOrderOf(before, groups)
    BY <1>0, MetricTables DEF TimeSeries, SortedBy
<1>2. rows \in Seq(R) /\ \A r \in R : IsPriced(r)
    BY <1>0, WindowWorth DEF IsDatabase
<1>3. DOMAIN key = DOMAIN rows
    OBVIOUS
<1> HIDE DEF rows, key
<1>4. Answers(groups, rows, key, metric) /\ IsFiniteSet(Range(key))
    BY <1>2, <1>3, GroupsAnswer
<1> HIDE DEF groups, before
<1>5. Answers(InOrderOf(before, groups), rows, key, metric)
    BY <1>4, AnswersSorted
<1>6. Total(Values(InOrderOf(before, groups))) = OrZero(MetricValue(metric, rows))
    BY <1>2, <1>3, <1>4, <1>5, AnswersTotal
<1>7. QED
    BY <1>1, <1>6 DEF SeriesSumsUp, Window, rows

\* A breakdown by d shows every value there is.
HasRoomFor(db, d) ==
    \A table \in {"SECURITY_LOGS", "ANOMALIES"} :
        Cardinality({r[d] : r \in Range(db[table])}) <= 50

BreakdownSumsUp(db, now, metric, d, hours) ==
    "rows" \in DOMAIN BreakdownBy(db, now, metric, d, hours, 50)
        => Total(Values(BreakdownBy(db, now, metric, d, hours, 50).rows))
               = Window(db, metric, now, hours)

\* So do the groups of a breakdown, when it has room for all of them.
LEMMA BreakdownAgrees ==
    ASSUME NEW R, NEW db, IsDatabase(db, R), NEW metric \in Summed, NEW now \in Int,
           NEW hours, IsSpan(hours, 720), NEW d, HasRoomFor(db, d)
    PROVE  BreakdownSumsUp(db, now, metric, d, hours)
<1> SUFFICES ASSUME "rows" \in DOMAIN BreakdownBy(db, now, metric, d, hours, 50)
             PROVE  Total(Values(BreakdownBy(db, now, metric, d, hours, 50).rows))
                        = Window(db, metric, now, hours)
    BY DEF BreakdownSumsUp
<1> DEFINE table == METRIC_TABLE[metric]
           rows == Later(db, table, now, hours)
           key == [i \in DOMAIN rows |-> rows[i][d]]
           t == Groups(rows, key, metric)
<1>1. BreakdownBy(db, now, metric, d, hours, 50).rows = FirstOf(t, 50)
  <2>1. "rows" \notin DOMAIN Error("validation")
      BY DEF Error
  <2>2. QED
      BY <2>1 DEF BreakdownBy
<1>2. rows \in Seq(R) /\ \A r \in R : IsPriced(r)
  <2>1. hours \in Nat
      BY SpansAreValid
  <2>2. QED
      BY <2>1, WindowWorth DEF IsDatabase
<1>3. db[table] \in Seq(R) /\ Cardinality({r[d] : r \in Range(db[table])}) <= 50
    BY MetricTables DEF IsDatabase, HasRoomFor
<1>4. Range(rows) \subseteq Range(db[table])
  <2> DEFINE set == {r \in Range(db[table]) :
                        r[TIME_COLUMN[table]] # NoValue /\ r[TIME_COLUMN[table]] > now - 60 * hours}
  <2>1. rows = Kept(db[table], set)
      BY DEF Later, Where
  <2> HIDE DEF set, rows
  <2>2. QED
      BY <1>3, <2>1, KeptType
<1>5. DOMAIN key = DOMAIN rows /\ Range(key) \subseteq {r[d] : r \in Range(db[table])}
    BY <1>4 DEF Range
<1> HIDE DEF rows, key
<1>6. Answers(t, rows, key, metric) /\ IsFiniteSet(Range(key))
    BY <1>2, <1>5, GroupsAnswer
<1> HIDE DEF t
<1>7. /\ Total(Values(t)) = OrZero(MetricValue(metric, rows))
      /\ Len(t) = Cardinality(Range(key))
      /\ IsList(t)
    BY <1>2, <1>5, <1>6, AnswersTotal
<1>8. Cardinality(Range(key)) <= 50 /\ Cardinality(Range(key)) \in Nat
  <2> DEFINE all == {r[d] : r \in Range(db[table])}
  <2>1. IsFiniteSet(all)
    <3>1. IsFiniteSet(Range(db[table]))
        BY <1>3, RangeIsFinite
    <3>2. [r \in Range(db[table]) |-> r[d]] \in Surjection(Range(db[table]), all)
        BY DEF Surjection
    <3> HIDE DEF all
    <3>3. QED
        BY <3>1, <3>2, FS_Surjection
  <2>2. Cardinality(all) <= 50 /\ Range(key) \subseteq all
      BY <1>3, <1>5
  <2> HIDE DEF all
  <2>3. Cardinality(Range(key)) <= Cardinality(all)
      BY <2>1, <2>2, FS_Subset
  <2>4. Cardinality(all) \in Nat /\ Cardinality(Range(key)) \in Nat
      BY <1>6, <2>1, FS_CardinalityType
  <2>5. QED
      BY <2>2, <2>3, <2>4
<1>9. FirstOf(t, 50) = t
  <2>1. Len(t) \in Nat /\ Len(t) <= 50
      BY <1>7, <1>8
  <2>2. Min({50, Len(t)}) = Len(t)
      BY <2>1 DEF Min
  <2>3. FirstOf(t, 50) = SubSeq(t, 1, Len(t))
      BY <2>2 DEF FirstOf
  <2>4. PICK S : t \in Seq(S)
      BY <1>7 DEF IsList
  <2>5. QED
      BY <2>3, <2>4, SubSeqFull
<1>10. QED
    BY <1>1, <1>7, <1>9 DEF Window, rows

Joined(db, metric, now, then, a, b) ==
    LET c == CompareWindows(db, now, then, metric, a, b)
    IN  /\ c.window_a + c.window_b >= Window(db, metric, then, a + b)
        /\ then = now => c.window_a + c.window_b = Window(db, metric, now, a + b)

\* A window and the one before it make up the long one, when both are asked at once;
\* when the second is asked later, no row of its long window is in neither.
LEMMA WindowsAgree ==
    ASSUME NEW R, NEW db, IsDatabase(db, R), NEW metric \in Summed, NEW now \in Int,
           NEW then \in Int, now <= then, NEW a, IsSpan(a, 360), NEW b, IsSpan(b, 360)
    PROVE  Joined(db, metric, now, then, a, b)
<1> DEFINE table == METRIC_TABLE[metric]
           rows == db[table]
           column == TIME_COLUMN[table]
           long == Since(rows, column, then - 60 * (a + b))
           shortNow == Since(rows, column, now - 60 * a)
           shortThen == Since(rows, column, then - 60 * a)
           prior == Prior(db, table, then, a, b)
           c == CompareWindows(db, now, then, metric, a, b)
<1>1. /\ rows \in Seq(R) /\ table \in {"SECURITY_LOGS", "ANOMALIES"}
      /\ \A r \in R : IsPriced(r) /\ IsDated(r)
    BY MetricTables DEF IsDatabase
<1>0. ValidHours(a) /\ ValidHours(b)
    BY SpansAreValid
<1>2. a \in Nat /\ b \in Nat /\ a + b \in Nat /\ then \in Int
    BY DEF IsSpan
<1>3. c.window_a = Window(db, metric, now, a) /\ c.window_b = OrZero(MetricValue(metric, prior))
    BY <1>0, MetricTables DEF CompareWindows, Window
<1>4. /\ Window(db, metric, now, a) = WorthOf(metric, rows, shortNow)
      /\ Window(db, metric, then, a + b) = WorthOf(metric, rows, long)
    BY <1>2, WindowWorth
<1>5. Takes(rows, long \ shortThen, prior) /\ shortThen \subseteq long
  <2>1. LeavesPrior(db, table, then, a, b)
      BY <1>1, <1>2, PriorTakes
  <2>2. QED
      BY <2>1 DEF LeavesPrior
<1>6. column \in {"datetime", "detected_at"}
    BY <1>1 DEF TIME_COLUMN
<1>7. /\ shortThen \subseteq shortNow /\ shortNow \subseteq DOMAIN rows
      /\ long \subseteq DOMAIN rows
      /\ then = now => shortThen = shortNow
  <2>1. /\ now - 60 * a \in Int /\ then - 60 * a \in Int /\ now - 60 * a <= then - 60 * a
        /\ then - 60 * (a + b) \in Int
      BY <1>2
  <2>2. \A r \in R : IsDated(r)
      BY <1>1
  <2>3. then - 60 * (a + b) <= then - 60 * (a + b)
      BY <2>1
  <2> HIDE DEF rows, column
  <2>4. shortThen \subseteq shortNow /\ shortNow \subseteq DOMAIN rows
      BY <1>1, <1>6, <2>1, <2>2, SinceGrows
  <2>5. long \subseteq DOMAIN rows
      BY DEF Since
  <2>6. QED
      BY <2>4, <2>5
<1> HIDE DEF rows, long, shortNow, shortThen, prior, c
<1> DEFINE W(I) == WorthOf(metric, rows, I)
<1>8. OrZero(MetricValue(metric, prior)) = W(long \ shortThen)
  <2>1. long \ shortThen \subseteq DOMAIN rows /\ \A r \in R : IsPriced(r)
      BY <1>1, <1>7
  <2>2. QED
      BY <1>1, <1>5, <2>1, TakenWorth
<1>9. ASSUME NEW I, I \subseteq DOMAIN rows, NEW J, J \subseteq I
      PROVE  W(I) = W(J) + W(I \ J) /\ W(J) \in Nat /\ W(I \ J) \in Nat
  <2>1. rows \in Seq(R) /\ \A r \in R : IsPriced(r)
      BY <1>1
  <2>2. WorthAdds(metric, rows, I, J)
      BY <1>9, <2>1, WorthSplits
  <2>3. QED
      BY <2>2 DEF WorthAdds
<1>10. /\ W(long) = W(shortThen) + W(long \ shortThen)
       /\ W(shortNow) = W(shortThen) + W(shortNow \ shortThen)
       /\ W(shortThen) \in Nat /\ W(long \ shortThen) \in Nat
       /\ W(shortNow \ shortThen) \in Nat
  <2> HIDE DEF W
  <2>1. QED
      BY <1>5, <1>7, <1>9
<1>11. /\ c.window_a = W(shortNow) /\ c.window_b = W(long \ shortThen)
       /\ Window(db, metric, then, a + b) = W(long)
    BY <1>3, <1>4, <1>8
<1>12. c.window_a + c.window_b >= Window(db, metric, then, a + b)
  <2> HIDE DEF W
  <2>1. QED
      BY <1>10, <1>11
<1>13. ASSUME then = now PROVE c.window_a + c.window_b = Window(db, metric, now, a + b)
  <2>1. W(shortNow) = W(shortThen)
      BY <1>7, <1>13
  <2> HIDE DEF W
  <2>2. QED
      BY <1>10, <1>11, <1>13, <2>1
<1>14. QED
    BY <1>12, <1>13 DEF Joined, c

\* The tools that answer one question agree on any database, for windows of up to 15
\* days, so that the long one is still valid.
THEOREM AnswersAgree ==
    ASSUME NEW R, NEW db, IsDatabase(db, R), NEW now \in Int,
           NEW spans, \A h \in spans : IsSpan(h, 360),
           NEW buckets \in SUBSET VALID_BUCKETS,
           NEW dimensions, \A d \in dimensions : HasRoomFor(db, d)
    PROVE  ToolsAgree(db, now, spans, buckets, dimensions)
<1> DEFINE Sum(answer) == Total([i \in DOMAIN answer.rows |-> OrZero(answer.rows[i].value)])
           WindowA(metric, t, h) == CompareWindows(db, t, t, metric, h, 1).window_a
<1>1. DOMAIN METRIC_TABLE \ {"mttd_p50", "mttd_p95"} = Summed
    BY DEF METRIC_TABLE, Summed
<1>2. ASSUME NEW answer PROVE Sum(answer) = Total(Values(answer.rows))
    BY DEF Values
<1>3. ASSUME NEW metric \in Summed, NEW t, NEW h, IsSpan(h, 720)
      PROVE  WindowA(metric, t, h) = Window(db, metric, t, h)
  <2>1. IsSpan(1, 720)
      BY DEF IsSpan
  <2>2. ValidHours(h) /\ ValidHours(1)
      BY <1>3, <2>1, SpansAreValid
  <2>3. QED
      BY <2>2, MetricTables DEF CompareWindows, Window
<1>4. ASSUME NEW h \in spans, NEW b \in spans PROVE IsSpan(h, 720) /\ IsSpan(h + b, 720)
  <2>1. IsSpan(h, 360) /\ IsSpan(b, 360)
      OBVIOUS
  <2>2. QED
      BY <2>1 DEF IsSpan
<1> HIDE DEF Sum, WindowA
<1>5. ASSUME NEW metric \in Summed, NEW h \in spans, NEW bucket \in buckets
      PROVE  Sum(TimeSeries(db, now, metric, h, bucket)) = WindowA(metric, now, h)
  <2>1. IsSpan(h, 720) /\ bucket \in VALID_BUCKETS
      BY <1>4
  <2>2. SeriesSumsUp(db, now, metric, h, bucket)
      BY <2>1, SeriesAgrees
  <2>3. QED
      BY <1>2, <1>3, <2>1, <2>2 DEF SeriesSumsUp
<1>6. ASSUME NEW metric \in Summed, NEW h \in spans, NEW d \in dimensions,
             "rows" \in DOMAIN BreakdownBy(db, now, metric, d, h, 50)
      PROVE  Sum(BreakdownBy(db, now, metric, d, h, 50)) = WindowA(metric, now, h)
  <2>1. IsSpan(h, 720) /\ HasRoomFor(db, d)
      BY <1>4
  <2>2. BreakdownSumsUp(db, now, metric, d, h)
      BY <2>1, BreakdownAgrees
  <2>3. QED
      BY <1>2, <1>3, <1>6, <2>1, <2>2 DEF BreakdownSumsUp
<1>7. ASSUME NEW metric \in Summed, NEW h \in spans, NEW then \in {now, now + 1},
             NEW c, c = CompareWindows(db, now, then, metric, h, h)
      PROVE  /\ c.window_a + c.window_b >= WindowA(metric, then, 2 * h)
             /\ then = now => c.window_a + c.window_b = WindowA(metric, now, 2 * h)
  <2>1. IsSpan(h, 360) /\ IsSpan(h + h, 720) /\ h + h = 2 * h
      BY <1>4 DEF IsSpan
  <2>2. then \in Int /\ now <= then
      OBVIOUS
  <2>3. Joined(db, metric, now, then, h, h)
      BY <2>1, <2>2, WindowsAgree
  <2>4. /\ WindowA(metric, then, 2 * h) = Window(db, metric, then, h + h)
        /\ WindowA(metric, now, 2 * h) = Window(db, metric, now, h + h)
      BY <1>3, <2>1
  <2>5. QED
      BY <1>7, <2>3, <2>4 DEF Joined
<1>8. QED
    BY <1>1, <1>5, <1>6, <1>7 DEF ToolsAgree, Sum, WindowA

-----------------------------------------------------------------------------
(* The helpers agree: the specification.                                   *)

\* Its inductive invariant.
ToolsStoreRows == area = "tools" => input \in Seq(ToolRows)

\* In every state the tools that answer one question agree (helpers.py).
THEOREM HelpersAlwaysAgree == Spec => []HelpersAgree
<1>1. Init => ToolsStoreRows
    BY EmptySeq DEF Init, ToolsStoreRows
<1>2. ToolsStoreRows /\ [Next]_vars => ToolsStoreRows'
  <2> SUFFICES ASSUME ToolsStoreRows, [Next]_vars, area' = "tools"
               PROVE  input' \in Seq(ToolRows)
      BY DEF ToolsStoreRows
  <2>1. CASE AddToolRow
    <3>1. area = "tools" /\ \E e \in ToolRows : input' = Append(input, e)
        BY <2>1 DEF AddToolRow, Add
    <3>2. QED
        BY <3>1, AppendProperties DEF ToolsStoreRows
  <2>2. CASE AddStoreRow \/ AddBatch \/ AddLogRow \/ AddLlmRow
      BY <2>2 DEF AddStoreRow, AddBatch, AddLogRow, AddLlmRow, Add
  <2>3. CASE UNCHANGED vars
      BY <2>3 DEF vars, ToolsStoreRows
  <2>4. QED
      BY <2>1, <2>2, <2>3 DEF Next
<1>3. \A r \in ToolRows : IsPriced(r) /\ IsDated(r) /\ r.log_type = "AUTH"
                          /\ r.source_ip \in {"a", "b", NoValue}
  <2>1. ASSUME NEW r \in ToolRows
        PROVE  \E time \in Int : \E ip \in {"a", "b", NoValue} : \E level :
                   r = ToolRow(time, ip, level)
      BY <2>1 DEF ToolRows, Now
  <2>2. ASSUME NEW time \in Int, NEW ip \in {"a", "b", NoValue}, NEW level
        PROVE  /\ IsPriced(ToolRow(time, ip, level)) /\ IsDated(ToolRow(time, ip, level))
               /\ ToolRow(time, ip, level).log_type = "AUTH"
               /\ ToolRow(time, ip, level).source_ip = ip
      BY DEF ToolRow, IsPriced, IsDated
  <2>3. QED
      BY <2>1, <2>2
<1>4. ToolsStoreRows => HelpersAgree
  <2> SUFFICES ASSUME input \in Seq(ToolRows)
               PROVE  ToolsAgree(Db, Now, {1, 2}, {30, 60}, {"source_ip", "log_type"})
      BY DEF ToolsStoreRows, HelpersAgree
  <2>1. Db["SECURITY_LOGS"] = input /\ Db["ANOMALIES"] = input
      BY DEF Db
  <2>2. IsDatabase(Db, ToolRows)
      BY <1>3, <2>1 DEF IsDatabase
  <2>3. ASSUME NEW d \in {"source_ip", "log_type"}
        PROVE  Cardinality({r[d] : r \in Range(input)}) <= 50
    <3> DEFINE K == {r[d] : r \in Range(input)}
               L == {"a", "b", NoValue, "AUTH"}
    <3>1. Range(input) \subseteq ToolRows
      <4>1. \A i \in DOMAIN input : input[i] \in ToolRows
          BY LenProperties, ElementOfSeq
      <4>2. QED
          BY <4>1 DEF Range
    <3>2. K \subseteq L
        BY <1>3, <3>1
    <3>3. IsFiniteSet(L) /\ Cardinality(L) <= 4
      <4> DEFINE listed == <<"a", "b", NoValue, "AUTH">>
      <4>1. listed \in Surjection(1 .. 4, L)
        <5>1. listed \in [1 .. 4 -> L]
            OBVIOUS
        <5>2. \A x \in L : \E i \in 1 .. 4 : listed[i] = x
          <6>1. listed[1] = "a" /\ listed[2] = "b" /\ listed[3] = NoValue /\ listed[4] = "AUTH"
              OBVIOUS
          <6> HIDE DEF listed
          <6>2. QED
              BY <6>1
        <5>3. QED
            BY <5>1, <5>2 DEF Surjection
      <4>2. /\ IsFiniteSet(1 .. 4)
            /\ Cardinality(1 .. 4) = 4
        <5>1. PICK n \in Nat : n = 4
            OBVIOUS
        <5>2. /\ IsFiniteSet(1 .. n)
              /\ Cardinality(1 .. n) = IF 1 > n THEN 0 ELSE n - 1 + 1
            BY FS_Interval
        <5>3. QED
            BY <5>1, <5>2
      <4>3. IsFiniteSet(L) /\ Cardinality(L) <= Cardinality(1 .. 4)
        <5> HIDE DEF L, listed
        <5>1. QED
            BY <4>1, <4>2, FS_Surjection
      <4> HIDE DEF L
      <4>4. QED
          BY <4>2, <4>3
    <3> HIDE DEF K, L
    <3>4. /\ Cardinality(K) <= Cardinality(L)
          /\ Cardinality(K) \in Nat /\ Cardinality(L) \in Nat
      <4>1. IsFiniteSet(K) /\ Cardinality(K) <= Cardinality(L)
          BY <3>2, <3>3, FS_Subset
      <4>2. QED
          BY <3>3, <4>1, FS_CardinalityType
    <3>5. QED
        BY <3>3, <3>4 DEF K
  <2>4. /\ \A h \in {1, 2} : IsSpan(h, 360)
        /\ {30, 60} \in SUBSET VALID_BUCKETS
        /\ Now \in Int
      BY DEF IsSpan, VALID_BUCKETS, Now
  <2>5. \A d \in {"source_ip", "log_type"} : HasRoomFor(Db, d)
      BY <2>1, <2>3 DEF HasRoomFor
  <2> DEFINE spans == {1, 2}
             buckets == {30, 60}
             dimensions == {"source_ip", "log_type"}
  <2> HIDE DEF spans, buckets, dimensions
  <2>6. ToolsAgree(Db, Now, spans, buckets, dimensions)
      BY <2>2, <2>4, <2>5, AnswersAgree DEF spans, buckets, dimensions
  <2>7. QED
      BY <2>6 DEF spans, buckets, dimensions
<1>5. QED
    BY <1>1, <1>2, <1>4, PTL DEF Spec
=============================================================================
