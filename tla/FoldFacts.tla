------------------------------- MODULE FoldFacts -------------------------------
(***************************************************************************)
(* What a loop over a sequence leaves behind: if a step of FoldLeft keeps  *)
(* an invariant, the fold ends in it.  The step and the invariant are      *)
(* constants, so that a module takes the facts for its own loop with       *)
(* INSTANCE FoldFacts WITH Op <- ..., Inv <- ...                           *)
(* The last part is about sums over a set, which are folds as well.        *)
(***************************************************************************)
EXTENDS SequencesExt, SequenceTheorems, FiniteSetTheorems, WellFoundedInduction, TLAPS

CONSTANTS
    Op(_, _, _),    \* one turn of the loop: a parameter, its state, an element
    Inv(_, _, _)    \* of the context, of the number of turns, of the state

Fold(p, base, seq) == FoldLeft(LAMBDA y, x : Op(p, y, x), base, seq)

\* A non-empty set of naturals has a smallest element.
LEMMA Smallest ==
    ASSUME NEW T, T \subseteq Nat, T # {}
    PROVE  \E x \in T : \A y \in T : x <= y
<1>1. PICK x \in T : \A y \in T : ~(<<y, x>> \in OpToRel(<, Nat))
    BY NatLessThanWellFounded, WFMin
<1>2. \A y \in T : ~(y < x)
    BY <1>1 DEF OpToRel
<1>3. QED
    BY <1>2

\* FoldLeft reads its result from a table over the subsets of the positions.
Row(p, base, seq, g, s) == IF s = {} THEN base ELSE Op(p, g[s \ {Max(s)}], seq[Max(s)])

IsTable(p, base, seq, g) == g = [s \in SUBSET DOMAIN seq |-> Row(p, base, seq, g, s)]

\* FoldLeft is the entry of all positions in that table.
LEMMA FoldIsTabled ==
    ASSUME NEW p, NEW base, NEW seq
    PROVE  Fold(p, base, seq) = (CHOOSE g : IsTable(p, base, seq, g))[DOMAIN seq]
BY DEF Fold, FoldLeft, MapThenFoldSet, IsTable, Row

\* A non-empty set of positions has a largest one, which is Max of it.
LEMMA LargestPosition ==
    ASSUME NEW n \in Nat, NEW s \in SUBSET (0 .. n), s # {}
    PROVE  Max(s) \in s /\ \A x \in s : x <= Max(s)
<1> DEFINE T == {n - x : x \in s}
<1>1. \A x \in s : x \in Nat /\ n - x \in Nat
    OBVIOUS
<1>2. T \subseteq Nat /\ T # {}
    BY <1>1
<1>3. PICK y \in T : \A z \in T : y <= z
    BY <1>2, Smallest
<1>4. PICK x \in s : y = n - x
    BY <1>3
<1>5. ASSUME NEW z \in s PROVE x >= z
  <2>1. n - z \in T
      OBVIOUS
  <2>2. n - x <= n - z
      BY <1>3, <1>4, <2>1
  <2> HIDE DEF T
  <2>3. QED
      BY <1>1, <2>2
<1>6. QED
    BY <1>4, <1>5 DEF Max

\* Without its last position a set of the first k positions is one of the first k - 1.
LEMMA LastRemoved ==
    ASSUME NEW n \in Nat, NEW s \in SUBSET (1 .. n), s # {}
    PROVE  s \ {Max(s)} \in SUBSET (1 .. (n - 1)) /\ n - 1 \in Nat
<1>1. Max(s) \in s /\ \A x \in s : x <= Max(s)
  <2>1. s \in SUBSET (0 .. n)
      OBVIOUS
  <2>2. QED
      BY <2>1, LargestPosition
<1> DEFINE m == Max(s)
<1>2. m \in s /\ \A x \in s : x <= m
    BY <1>1
<1> HIDE DEF m
<1>3. n - 1 \in Nat
    BY <1>2
<1>4. ASSUME NEW x \in s, x # m PROVE x \in 1 .. (n - 1)
    BY <1>2, <1>4
<1>5. QED
    BY <1>3, <1>4 DEF m

\* The table exists: the rows of the sets of the first k positions can be filled.
LEMMA TableExists ==
    ASSUME NEW p, NEW base, NEW seq, NEW n \in Nat, DOMAIN seq = 1 .. n
    PROVE  \E g : IsTable(p, base, seq, g)
<1> DEFINE Filled(g) == [s \in SUBSET (1 .. n) |-> Row(p, base, seq, g, s)]
           Right(g, k) == \A s \in SUBSET (1 .. k) :
                              s \in SUBSET (1 .. n) => g[s] = Row(p, base, seq, g, s)
           Bad == {k \in Nat : ~\E g : Right(g, k)}
<1>1. Bad = {}
  <2> SUFFICES ASSUME Bad # {} PROVE FALSE
      OBVIOUS
  <2>1. PICK k \in Bad : \A j \in Bad : k <= j
    <3>1. Bad \subseteq Nat
        OBVIOUS
    <3> HIDE DEF Bad
    <3>2. QED
        BY <3>1, Smallest
  <2>2. k # 0
    <3>1. SUBSET (1 .. 0) = {{}}
        OBVIOUS
    <3>2. Right([s \in {{}} |-> base], 0)
        BY <3>1 DEF Row
    <3>3. QED
        BY <2>1, <3>2
  <2>3. k \in Nat /\ k - 1 \in Nat /\ k - 1 \notin Bad
    <3>1. k \in Nat
        BY <2>1
    <3> HIDE DEF Bad
    <3>2. k - 1 \in Nat /\ k - 1 < k
        BY <2>2, <3>1
    <3>3. QED
        BY <2>1, <3>1, <3>2
  <2>4. PICK g : Right(g, k - 1)
      BY <2>3
  <2>5. ASSUME NEW s \in SUBSET (1 .. k), s \in SUBSET (1 .. n)
        PROVE  Filled(g)[s] = Row(p, base, seq, Filled(g), s)
    <3>1. CASE s = {}
        BY <3>1 DEF Row
    <3>2. CASE s # {}
      <4> DEFINE t == s \ {Max(s)}
      <4>1. t \in SUBSET (1 .. (k - 1)) /\ t \in SUBSET (1 .. n)
          BY <2>3, <2>5, <3>2, LastRemoved
      <4>2. Filled(g)[t] = g[t]
          BY <2>4, <4>1
      <4>3. QED
          BY <2>5, <3>2, <4>2 DEF Row
    <3>3. QED
        BY <3>1, <3>2
  <2>6. Right(Filled(g), k)
      BY <2>5
  <2>7. QED
      BY <2>1, <2>6
<1>2. PICK g : Right(g, n)
    BY <1>1
<1>3. \A s \in SUBSET (1 .. n) : g[s] = Row(p, base, seq, g, s)
    BY <1>2
<1>4. IsTable(p, base, seq, Filled(g))
  <2>1. ASSUME NEW s \in SUBSET (1 .. n)
        PROVE  Filled(g)[s] = Row(p, base, seq, Filled(g), s)
    <3>1. CASE s = {}
        BY <3>1 DEF Row
    <3>2. CASE s # {}
      <4> DEFINE t == s \ {Max(s)}
      <4>1. t \in SUBSET (1 .. n) /\ Filled(g)[t] = g[t]
          BY <1>3
      <4>2. QED
          BY <2>1, <3>2, <4>1 DEF Row
    <3>3. QED
        BY <3>1, <3>2
  <2>2. QED
      BY <2>1 DEF IsTable
<1>5. QED
    BY <1>4

\* The induction over the turns of the loop.
THEOREM FoldKeeps ==
    ASSUME NEW c, NEW p, NEW base, NEW seq, NEW n \in Nat, DOMAIN seq = 1 .. n,
           Inv(c, 0, base),
           \A k \in 1 .. n : \A y : Inv(c, k - 1, y) => Inv(c, k, Op(p, y, seq[k]))
    PROVE  Inv(c, n, Fold(p, base, seq))
<1> DEFINE g == CHOOSE h : IsTable(p, base, seq, h)
           Bad == {k \in 0 .. n : ~Inv(c, k, g[1 .. k])}
<1>1. IsTable(p, base, seq, g)
    BY TableExists
<1> HIDE DEF g
<1>2. ASSUME NEW k \in 0 .. n
      PROVE  g[1 .. k] = Row(p, base, seq, g, 1 .. k)
    BY <1>1 DEF IsTable
<1>3. Bad = {}
  <2> SUFFICES ASSUME Bad # {} PROVE FALSE
      OBVIOUS
  <2>1. PICK k \in Bad : \A j \in Bad : k <= j
    <3>1. Bad \subseteq Nat
        OBVIOUS
    <3> HIDE DEF Bad
    <3>2. QED
        BY <3>1, Smallest
  <2>2. k \in 0 .. n /\ ~Inv(c, k, g[1 .. k])
      BY <2>1
  <2>3. CASE k = 0
    <3>1. 1 .. k = {}
        BY <2>3
    <3>2. g[1 .. k] = base
        BY <1>2, <2>2, <3>1 DEF Row
    <3>3. QED
        BY <2>2, <2>3, <3>2
  <2>4. CASE k # 0
    <3>1. k \in 1 .. n /\ k - 1 \in 0 .. n /\ k - 1 < k
        BY <2>2, <2>4
    <3>2. k - 1 \notin Bad
      <4> HIDE DEF Bad
      <4>1. QED
          BY <2>1, <2>2, <3>1
    <3>3. Inv(c, k - 1, g[1 .. (k - 1)])
        BY <3>1, <3>2
    <3>4. Max(1 .. k) = k
      <4>1. 1 .. k \in SUBSET (0 .. k) /\ k \in 1 .. k /\ k \in Nat
        <5> HIDE DEF Bad
        <5>1. QED
            BY <3>1
      <4>2. Max(1 .. k) \in 1 .. k /\ \A x \in 1 .. k : x <= Max(1 .. k)
          BY <4>1, LargestPosition
      <4>3. QED
          BY <4>1, <4>2
    <3>5. (1 .. k) \ {k} = 1 .. (k - 1) /\ 1 .. k # {}
      <4> HIDE DEF Bad
      <4>1. k \in Nat \ {0}
          BY <3>1
      <4>2. k \in 1 .. k /\ \A x : x \in (1 .. k) \ {k} <=> x \in 1 .. (k - 1)
          BY <4>1
      <4>3. QED
          BY <4>2
    <3>6. g[1 .. k] = Op(p, g[1 .. (k - 1)], seq[k])
        BY <1>2, <2>2, <3>4, <3>5 DEF Row
    <3>7. QED
        BY <2>2, <3>1, <3>3, <3>6
  <2>5. QED
      BY <2>3, <2>4
<1>4. n \in 0 .. n
    OBVIOUS
<1>5. Inv(c, n, g[1 .. n])
    BY <1>3, <1>4
<1>6. QED
    BY <1>5, FoldIsTabled DEF g
-----------------------------------------------------------------------------
(* Sums, whatever the loop.  SumFunction and MapThenSumSet take the        *)
(* elements of the domain in the order CHOOSE gives them, from a table     *)
(* over its subsets.                                                       *)

Pick(s) == CHOOSE x \in s : TRUE

\* One row of the table, from the others.
SumRow(f, g, s) == IF s = {} THEN 0 ELSE f[Pick(s)] + g[s \ {Pick(s)}]

IsSumTable(f, g) == g = [s \in SUBSET DOMAIN f |-> SumRow(f, g, s)]

\* The sum of the values of f.
SumOver(f) == (CHOOSE g : IsSumTable(f, g))[DOMAIN f]

\* A non-empty set of finite sets has a smallest.
LEMMA SmallestSet ==
    ASSUME NEW B, B # {}, \A s \in B : IsFiniteSet(s)
    PROVE  \E s \in B : \A t \in B : Cardinality(s) <= Cardinality(t)
<1> DEFINE T == {Cardinality(s) : s \in B}
<1>1. T \subseteq Nat /\ T # {}
    BY FS_CardinalityType
<1>2. PICK x \in T : \A y \in T : x <= y
    BY <1>1, Smallest
<1>3. QED
    BY <1>2

LEMMA PickRemoves ==
    ASSUME NEW s, IsFiniteSet(s), s # {}
    PROVE  /\ Pick(s) \in s
           /\ IsFiniteSet(s \ {Pick(s)})
           /\ Cardinality(s \ {Pick(s)}) = Cardinality(s) - 1
           /\ Cardinality(s) \in Nat /\ Cardinality(s \ {Pick(s)}) \in Nat
           /\ ~(Cardinality(s) <= Cardinality(s \ {Pick(s)}))
<1> DEFINE t == s \ {Pick(s)}
<1>1. Pick(s) \in s
    BY DEF Pick
<1>2. IsFiniteSet(t) /\ Cardinality(t) = Cardinality(s) - 1
    BY <1>1, FS_RemoveElement
<1>3. Cardinality(s) \in Nat /\ Cardinality(t) \in Nat
    BY <1>2, FS_CardinalityType
<1> HIDE DEF t
<1>4. ~(Cardinality(s) <= Cardinality(t))
    BY <1>2, <1>3
<1>5. QED
    BY <1>1, <1>2, <1>3, <1>4 DEF t

\* The table exists: the rows of the sets of fewer than k elements can be filled.
LEMMA SumTableExists ==
    ASSUME NEW f, IsFiniteSet(DOMAIN f)
    PROVE  \E g : IsSumTable(f, g)
<1> DEFINE D == DOMAIN f
           Filled(g) == [s \in SUBSET D |-> SumRow(f, g, s)]
           Right(g, k) == /\ g = [s \in SUBSET D |-> g[s]]
                          /\ \A s \in SUBSET D : Cardinality(s) < k => g[s] = SumRow(f, g, s)
           Bad == {k \in Nat : ~\E g : Right(g, k)}
<1>1. \A s \in SUBSET D : IsFiniteSet(s) /\ Cardinality(s) \in Nat
                          /\ Cardinality(s) <= Cardinality(D)
    BY FS_Subset, FS_CardinalityType
<1>2. Bad = {}
  <2> SUFFICES ASSUME Bad # {} PROVE FALSE
      OBVIOUS
  <2>1. PICK k \in Bad : \A j \in Bad : k <= j
    <3>1. Bad \subseteq Nat
        OBVIOUS
    <3> HIDE DEF Bad
    <3>2. QED
        BY <3>1, Smallest
  <2>2. k # 0
    <3>1. Right([s \in SUBSET D |-> 0], 0)
        BY <1>1
    <3>2. QED
        BY <2>1, <3>1
  <2>3. k \in Nat /\ k - 1 \in Nat /\ k - 1 \notin Bad
    <3> HIDE DEF Bad
    <3>1. k \in Nat
        BY <2>1 DEF Bad
    <3>2. k - 1 \in Nat /\ k - 1 < k
        BY <2>2, <3>1
    <3>3. QED
        BY <2>1, <3>1, <3>2
  <2>4. PICK g : Right(g, k - 1)
      BY <2>3
  <2>5. ASSUME NEW s \in SUBSET D, Cardinality(s) < k
        PROVE  Filled(g)[s] = SumRow(f, Filled(g), s)
    <3>1. CASE s = {}
        BY <3>1 DEF SumRow
    <3>2. CASE s # {}
      <4> DEFINE t == s \ {Pick(s)}
      <4>1. t \in SUBSET D /\ Cardinality(t) < k - 1
          BY <1>1, <2>3, <2>5, <3>2, PickRemoves
      <4>2. Filled(g)[t] = g[t]
          BY <2>4, <4>1
      <4>3. QED
          BY <3>2, <4>2 DEF SumRow
    <3>3. QED
        BY <3>1, <3>2
  <2>6. Right(Filled(g), k)
      BY <2>5
  <2>7. QED
      BY <2>1, <2>6
<1>3. Cardinality(D) + 1 \in Nat
    BY FS_CardinalityType
<1>4. PICK g : Right(g, Cardinality(D) + 1)
    BY <1>2, <1>3
<1>5. ASSUME NEW s \in SUBSET D PROVE g[s] = SumRow(f, g, s)
  <2>1. Cardinality(s) < Cardinality(D) + 1
      BY <1>1, <1>3
  <2>2. QED
      BY <1>4, <2>1
<1>6. QED
    BY <1>4, <1>5 DEF IsSumTable

\* What the table holds: no subset is left out of it.
LEMMA SumTableRows ==
    ASSUME NEW f, NEW g, IsSumTable(f, g), NEW s \in SUBSET DOMAIN f
    PROVE  g[s] = SumRow(f, g, s)
BY DEF IsSumTable

LEMMA SumTableIsNat ==
    ASSUME NEW f, NEW g, IsSumTable(f, g), IsFiniteSet(DOMAIN f),
           \A x \in DOMAIN f : f[x] \in Nat
    PROVE  \A s \in SUBSET DOMAIN f : g[s] \in Nat
<1> DEFINE B == {s \in SUBSET DOMAIN f : g[s] \notin Nat}
<1>1. \A s \in SUBSET DOMAIN f : IsFiniteSet(s)
    BY FS_Subset
<1>2. SUFFICES ASSUME B # {} PROVE FALSE
    OBVIOUS
<1>3. PICK s \in B : \A t \in B : Cardinality(s) <= Cardinality(t)
    BY <1>1, <1>2, SmallestSet
<1>4. s \in SUBSET DOMAIN f /\ IsFiniteSet(s) /\ g[s] \notin Nat
    BY <1>1, <1>3
<1>5. g[s] = SumRow(f, g, s)
    BY <1>4, SumTableRows
<1>6. s # {}
    BY <1>4, <1>5 DEF SumRow
<1> DEFINE t == s \ {Pick(s)}
<1>7. t \in SUBSET DOMAIN f /\ ~(Cardinality(s) <= Cardinality(t)) /\ Pick(s) \in DOMAIN f
  <2>1. Pick(s) \in s /\ ~(Cardinality(s) <= Cardinality(t))
      BY <1>4, <1>6, PickRemoves
  <2>2. QED
      BY <1>4, <2>1
<1>8. t \notin B
    BY <1>3, <1>7
<1>9. g[t] \in Nat /\ f[Pick(s)] \in Nat
    BY <1>7, <1>8
<1>10. QED
    BY <1>4, <1>5, <1>6, <1>9 DEF SumRow

\* Whatever the order, an element adds what it is worth.
LEMMA SumTableAdds ==
    ASSUME NEW f, NEW g, IsSumTable(f, g), IsFiniteSet(DOMAIN f),
           \A x \in DOMAIN f : f[x] \in Nat
    PROVE  \A s \in SUBSET DOMAIN f : \A x \in s : g[s] = g[s \ {x}] + f[x]
<1> DEFINE D == DOMAIN f
           B == {s \in SUBSET D : \E x \in s : g[s] # g[s \ {x}] + f[x]}
<1>1. \A s \in SUBSET D : IsFiniteSet(s) /\ g[s] \in Nat
    BY FS_Subset, SumTableIsNat
<1>2. SUFFICES ASSUME B # {} PROVE FALSE
    OBVIOUS
<1>3. PICK s \in B : \A t \in B : Cardinality(s) <= Cardinality(t)
    BY <1>1, <1>2, SmallestSet
<1>4. PICK x \in s : g[s] # g[s \ {x}] + f[x]
    BY <1>3
<1> DEFINE p == Pick(s)
           t == s \ {p}
           u == s \ {x}
<1>5. s \in SUBSET D /\ IsFiniteSet(s) /\ s # {}
    BY <1>1, <1>3, <1>4
<1>6. p \in s /\ ~(Cardinality(s) <= Cardinality(t)) /\ Cardinality(s) \in Nat
    BY <1>5, PickRemoves
<1>7. ~(Cardinality(s) <= Cardinality(u))
  <2>1. Cardinality(u) = Cardinality(s) - 1
      BY <1>4, <1>5, FS_RemoveElement
  <2> HIDE DEF u
  <2>2. QED
      BY <1>6, <2>1
<1>8. g[s] = f[p] + g[t] /\ t \in SUBSET D /\ u \in SUBSET D
    BY <1>5, SumTableRows DEF SumRow
<1> HIDE DEF p
<1>9. f[p] \in Nat /\ f[x] \in Nat /\ g[t] \in Nat /\ g[u] \in Nat
    BY <1>1, <1>4, <1>5, <1>6, <1>8
<1>10. x # p
  <2>1. SUFFICES ASSUME x = p PROVE FALSE
      OBVIOUS
  <2>2. g[s] = f[x] + g[u] /\ g[s] # g[u] + f[x]
      BY <1>4, <1>8, <2>1
  <2> HIDE DEF u
  <2>3. QED
      BY <1>9, <2>2
<1>11. t \notin B /\ u \notin B
    BY <1>3, <1>6, <1>7
<1>12. x \in t /\ p \in u /\ t \ {x} = u \ {p} /\ t \ {x} \in SUBSET D
    BY <1>4, <1>6, <1>8, <1>10
<1>13. g[t] = g[t \ {x}] + f[x]
    BY <1>8, <1>11, <1>12
<1>14. g[u] = g[u \ {p}] + f[p]
    BY <1>8, <1>11, <1>12
<1>15. g[t \ {x}] \in Nat
    BY <1>1, <1>12
<1> HIDE DEF t, u
<1>16. g[s] = g[u] + f[x]
  <2>1. g[u] = g[t \ {x}] + f[p]
      BY <1>12, <1>14
  <2>2. QED
      BY <1>8, <1>9, <1>13, <1>15, <2>1
<1>17. QED
    BY <1>4, <1>16 DEF u

\* The tables of two functions agree on the sets on which the functions do.
LEMMA SumTablesAgree ==
    ASSUME NEW f, NEW g, IsSumTable(f, g), NEW h, NEW k, IsSumTable(h, k),
           IsFiniteSet(DOMAIN f), DOMAIN f \subseteq DOMAIN h,
           \A x \in DOMAIN f : f[x] = h[x]
    PROVE  \A s \in SUBSET DOMAIN f : g[s] = k[s]
<1> DEFINE B == {s \in SUBSET DOMAIN f : g[s] # k[s]}
<1>1. \A s \in SUBSET DOMAIN f : IsFiniteSet(s)
    BY FS_Subset
<1>2. SUFFICES ASSUME B # {} PROVE FALSE
    OBVIOUS
<1>3. PICK s \in B : \A t \in B : Cardinality(s) <= Cardinality(t)
    BY <1>1, <1>2, SmallestSet
<1>4. s \in SUBSET DOMAIN f /\ s \in SUBSET DOMAIN h /\ IsFiniteSet(s) /\ g[s] # k[s]
    BY <1>1, <1>3
<1>5. g[s] = SumRow(f, g, s) /\ k[s] = SumRow(h, k, s)
    BY <1>4, SumTableRows
<1>6. s # {}
    BY <1>4, <1>5 DEF SumRow
<1> DEFINE t == s \ {Pick(s)}
<1>7. t \in SUBSET DOMAIN f /\ ~(Cardinality(s) <= Cardinality(t)) /\ Pick(s) \in DOMAIN f
  <2>1. Pick(s) \in s /\ ~(Cardinality(s) <= Cardinality(t))
      BY <1>4, <1>6, PickRemoves
  <2>2. QED
      BY <1>4, <2>1
<1>8. t \notin B
    BY <1>3, <1>7
<1>9. g[t] = k[t] /\ f[Pick(s)] = h[Pick(s)]
    BY <1>7, <1>8
<1>10. QED
    BY <1>4, <1>5, <1>6, <1>9 DEF SumRow

\* The sum of a sequence grows by what is appended.
LEMMA SumAppends ==
    ASSUME NEW s \in Seq(Nat), NEW r \in Nat
    PROVE  /\ SumOver(s) \in Nat
           /\ SumOver(Append(s, r)) = SumOver(s) + r
<1> DEFINE t == Append(s, r)
           n == Len(s)
           g == CHOOSE g : IsSumTable(s, g)
           k == CHOOSE k : IsSumTable(t, k)
<1>1. /\ n \in Nat /\ DOMAIN s = 1 .. n /\ DOMAIN t = 1 .. (n + 1)
      /\ t[n + 1] = r /\ \A x \in 1 .. n : t[x] = s[x] /\ s[x] \in Nat
    BY LenProperties, AppendProperties, ElementOfSeq
<1> HIDE DEF t
<1> HIDE DEF n
<1>2. /\ IsFiniteSet(DOMAIN s) /\ IsFiniteSet(DOMAIN t) /\ DOMAIN s \subseteq DOMAIN t
      /\ n + 1 \in DOMAIN t /\ DOMAIN t \ {n + 1} = DOMAIN s
      /\ \A x \in DOMAIN s : s[x] \in Nat /\ s[x] = t[x]
  <2>1. IsFiniteSet(1 .. n) /\ IsFiniteSet(1 .. (n + 1))
      BY <1>1, FS_Interval
  <2>2. 1 .. n \subseteq 1 .. (n + 1) /\ n + 1 \in 1 .. (n + 1)
        /\ (1 .. (n + 1)) \ {n + 1} = 1 .. n
      BY <1>1
  <2>3. QED
      BY <1>1, <2>1, <2>2
<1>3. \A x \in DOMAIN t : t[x] \in Nat
  <2>1. \A x \in 1 .. (n + 1) : x \in 1 .. n \/ x = n + 1
      BY <1>1
  <2>2. QED
      BY <1>1, <2>1
<1>4. IsSumTable(s, g) /\ IsSumTable(t, k)
    BY <1>2, SumTableExists
<1> HIDE DEF g, k
<1>5. g[DOMAIN s] \in Nat
    BY <1>2, <1>4, SumTableIsNat
<1>6. k[DOMAIN t] = k[DOMAIN s] + r
  <2>1. \A d \in SUBSET DOMAIN t : \A x \in d : k[d] = k[d \ {x}] + t[x]
      BY <1>2, <1>3, <1>4, SumTableAdds
  <2>2. k[DOMAIN t] = k[DOMAIN t \ {n + 1}] + t[n + 1]
      BY <1>2, <2>1
  <2>3. QED
      BY <1>1, <1>2, <2>2
<1>7. g[DOMAIN s] = k[DOMAIN s]
    BY <1>2, <1>4, SumTablesAgree
<1>8. SumOver(s) = g[DOMAIN s] /\ SumOver(t) = k[DOMAIN t]
    BY DEF g, k, SumOver
<1>9. QED
    BY <1>5, <1>6, <1>7, <1>8 DEF t

\* b gives the elements of the domain of f the names of that of h, and their values stay.
Renames(b, f, h) ==
    /\ \A x \in DOMAIN f : b[x] \in DOMAIN h /\ f[x] = h[b[x]]
    /\ \A x, y \in DOMAIN f : b[x] = b[y] => x = y
    /\ \A z \in DOMAIN h : \E x \in DOMAIN f : b[x] = z

OfNumbers(f) == \A x \in DOMAIN f : f[x] \in Nat

\* A sum does not change when the domain is renamed.
LEMMA SumRenamed ==
    ASSUME NEW f, NEW h, NEW b, IsFiniteSet(DOMAIN f), IsFiniteSet(DOMAIN h),
           Renames(b, f, h), OfNumbers(h)
    PROVE  SumOver(f) = SumOver(h)
<1> DEFINE g == CHOOSE t : IsSumTable(f, t)
           k == CHOOSE t : IsSumTable(h, t)
           Image(s) == {b[x] : x \in s}
           B == {s \in SUBSET DOMAIN f : g[s] # k[Image(s)]}
<1>1. IsSumTable(f, g) /\ IsSumTable(h, k)
    BY SumTableExists
<1>2. SumOver(f) = g[DOMAIN f] /\ SumOver(h) = k[DOMAIN h]
    BY DEF SumOver
<1> HIDE DEF g, k
<1>3. \A s \in SUBSET DOMAIN f : IsFiniteSet(s)
    BY FS_Subset
<1>4. \A z \in DOMAIN h : h[z] \in Nat
    BY DEF OfNumbers
<1>5. \A s \in SUBSET DOMAIN h : \A z \in s : k[s] = k[s \ {z}] + h[z]
    BY ONLY <1>4, <1>1, IsFiniteSet(DOMAIN h), SumTableAdds
<1>6. \A s \in SUBSET DOMAIN h : k[s] \in Nat
    BY ONLY <1>4, <1>1, IsFiniteSet(DOMAIN h), SumTableIsNat
<1> USE DEF Renames
<1>7. B = {}
  <2>1. SUFFICES ASSUME B # {} PROVE FALSE
      OBVIOUS
  <2>2. PICK s \in B : \A t \in B : Cardinality(s) <= Cardinality(t)
      BY <1>3, <2>1, SmallestSet
  <2>3. s \in SUBSET DOMAIN f /\ IsFiniteSet(s) /\ g[s] # k[Image(s)]
      BY <1>3, <2>2
  <2>4. g[s] = SumRow(f, g, s)
      BY <1>1, <2>3, SumTableRows
  <2>5. s # {}
    <3>1. SUFFICES ASSUME s = {} PROVE FALSE
        OBVIOUS
    <3>2. Image(s) = {} /\ {} \in SUBSET DOMAIN h
        BY <3>1
    <3>3. k[{}] = SumRow(h, k, {})
        BY <1>1, SumTableRows
    <3>4. QED
        BY <2>3, <2>4, <3>1, <3>2, <3>3 DEF SumRow
  <2> DEFINE p == Pick(s)
             t == s \ {p}
  <2>6. p \in s /\ ~(Cardinality(s) <= Cardinality(t)) /\ t \in SUBSET DOMAIN f
      BY <2>3, <2>5, PickRemoves
  <2>7. g[s] = f[p] + g[t]
      BY <2>4, <2>5 DEF SumRow
  <2> HIDE DEF p
  <2>8. t \notin B
      BY <2>2, <2>6
  <2>9. g[t] = k[Image(t)]
      BY <2>6, <2>8
  <2>10. /\ Image(s) \in SUBSET DOMAIN h /\ b[p] \in Image(s)
         /\ Image(s) \ {b[p]} = Image(t) /\ Image(t) \in SUBSET DOMAIN h
      BY <2>3, <2>6
  <2>11. f[p] = h[b[p]] /\ h[b[p]] \in Nat
      BY <1>4, <2>3, <2>6
  <2> HIDE DEF Image, t, B
  <2>12. k[Image(s)] = k[Image(t)] + h[b[p]] /\ k[Image(t)] \in Nat
      BY <1>5, <1>6, <2>10
  <2>13. QED
      BY <2>3, <2>7, <2>9, <2>11, <2>12
<1>8. Image(DOMAIN f) = DOMAIN h
    OBVIOUS
<1>9. g[DOMAIN f] = k[Image(DOMAIN f)]
    BY <1>7
<1>10. k[DOMAIN h] \in Nat
    BY <1>6
<1>11. QED
    BY <1>2, <1>8, <1>9, <1>10

\* The part of f on a set.
Part(f, s) == [x \in s |-> f[x]]

LEMMA PartIsTabled ==
    ASSUME NEW f, NEW g, IsSumTable(f, g), IsFiniteSet(DOMAIN f), NEW s \in SUBSET DOMAIN f
    PROVE  SumOver(Part(f, s)) = g[s]
<1> DEFINE h == Part(f, s)
           k == CHOOSE t : IsSumTable(h, t)
<1>1. IsFiniteSet(s)
    BY FS_Subset
<1>2. DOMAIN h = s /\ \A x \in s : h[x] = f[x]
    BY DEF Part
<1> HIDE DEF h
<1>3. IsSumTable(h, k)
    BY <1>1, <1>2, SumTableExists
<1>4. SumOver(h) = k[s]
    BY <1>2 DEF SumOver
<1> HIDE DEF k
<1>5. \A t \in SUBSET s : k[t] = g[t]
    BY <1>1, <1>2, <1>3, SumTablesAgree
<1>6. QED
    BY <1>4, <1>5 DEF h

IsSplit(g, s, A) == g[s] = g[s \cap A] + g[s \ A]

\* A set has what is in another of its elements and what is not.
LEMMA SumTableSplits ==
    ASSUME NEW f, NEW g, IsSumTable(f, g), IsFiniteSet(DOMAIN f), OfNumbers(f), NEW A
    PROVE  \A s \in SUBSET DOMAIN f : IsSplit(g, s, A)
<1> DEFINE B == {s \in SUBSET DOMAIN f : ~IsSplit(g, s, A)}
<1>1. \A s \in SUBSET DOMAIN f : IsFiniteSet(s)
    BY FS_Subset
<1>2. \A z \in DOMAIN f : f[z] \in Nat
    BY DEF OfNumbers
<1>3. \A s \in SUBSET DOMAIN f : \A x \in s : g[s] = g[s \ {x}] + f[x]
    BY ONLY <1>2, IsSumTable(f, g), IsFiniteSet(DOMAIN f), SumTableAdds
<1>4. \A s \in SUBSET DOMAIN f : g[s] \in Nat
    BY ONLY <1>2, IsSumTable(f, g), IsFiniteSet(DOMAIN f), SumTableIsNat
<1>5. SUFFICES ASSUME B # {} PROVE FALSE
    OBVIOUS
<1>6. PICK s \in B : \A t \in B : Cardinality(s) <= Cardinality(t)
    BY <1>1, <1>5, SmallestSet
<1>7. s \in SUBSET DOMAIN f /\ IsFiniteSet(s) /\ g[s] # g[s \cap A] + g[s \ A]
    BY <1>1, <1>6 DEF IsSplit
<1>8. s # {}
  <2>1. SUFFICES ASSUME s = {} PROVE FALSE
      OBVIOUS
  <2>2. g[{}] = SumRow(f, g, {})
      BY SumTableRows
  <2>3. g[{}] = 0
      BY <2>2 DEF SumRow
  <2>4. s \cap A = {} /\ s \ A = {}
      BY <2>1
  <2>5. QED
      BY <1>7, <2>1, <2>3, <2>4
<1> DEFINE p == Pick(s)
           t == s \ {p}
<1>9. p \in s /\ ~(Cardinality(s) <= Cardinality(t)) /\ t \in SUBSET DOMAIN f
    BY <1>7, <1>8, PickRemoves
<1> HIDE DEF p
<1>10. t \notin B
    BY <1>6, <1>9
<1>11. g[t] = g[t \cap A] + g[t \ A]
    BY <1>9, <1>10 DEF IsSplit
<1>12. g[s] = g[t] + f[p] /\ f[p] \in Nat
    BY <1>2, <1>3, <1>7, <1>9
<1>13. g[t \cap A] \in Nat /\ g[t \ A] \in Nat
    BY <1>4, <1>9
<1>14. CASE p \in A
  <2>1. /\ s \cap A \in SUBSET DOMAIN f /\ p \in s \cap A
        /\ (s \cap A) \ {p} = t \cap A /\ s \ A = t \ A
      BY <1>7, <1>9, <1>14
  <2>2. g[s \cap A] = g[t \cap A] + f[p]
    <3>1. g[s \cap A] = g[(s \cap A) \ {p}] + f[p]
        BY <1>3, <2>1
    <3>2. QED
        BY <2>1, <3>1
  <2>3. g[s \ A] = g[t \ A]
      BY <2>1
  <2> HIDE DEF t
  <2>4. QED
      BY <1>7, <1>11, <1>12, <1>13, <2>2, <2>3
<1>15. CASE p \notin A
  <2>1. /\ s \ A \in SUBSET DOMAIN f /\ p \in s \ A
        /\ (s \ A) \ {p} = t \ A /\ s \cap A = t \cap A
      BY <1>7, <1>9, <1>15
  <2>2. g[s \ A] = g[t \ A] + f[p]
    <3>1. g[s \ A] = g[(s \ A) \ {p}] + f[p]
        BY <1>3, <2>1
    <3>2. QED
        BY <2>1, <3>1
  <2>3. g[s \cap A] = g[t \cap A]
      BY <2>1
  <2> HIDE DEF t
  <2>4. QED
      BY <1>7, <1>11, <1>12, <1>13, <2>2, <2>3
<1>16. QED
    BY <1>14, <1>15

\* A sum is that of any part and that of the rest.
LEMMA SumSplits ==
    ASSUME NEW f, IsFiniteSet(DOMAIN f), OfNumbers(f), NEW A
    PROVE  /\ SumOver(f) = SumOver(Part(f, DOMAIN f \cap A)) + SumOver(Part(f, DOMAIN f \ A))
           /\ SumOver(Part(f, DOMAIN f \cap A)) \in Nat
           /\ SumOver(Part(f, DOMAIN f \ A)) \in Nat
<1> DEFINE g == CHOOSE t : IsSumTable(f, t)
<1>1. IsSumTable(f, g)
    BY SumTableExists
<1>2. SumOver(f) = g[DOMAIN f]
    BY DEF SumOver
<1> HIDE DEF g
<1>3. \A z \in DOMAIN f : f[z] \in Nat
    BY DEF OfNumbers
<1>4. \A s \in SUBSET DOMAIN f : g[s] \in Nat
    BY ONLY <1>1, <1>3, IsFiniteSet(DOMAIN f), SumTableIsNat
<1>5. g[DOMAIN f] = g[DOMAIN f \cap A] + g[DOMAIN f \ A]
  <2>1. \A s \in SUBSET DOMAIN f : IsSplit(g, s, A)
      BY <1>1, SumTableSplits
  <2>2. QED
      BY <2>1 DEF IsSplit
<1>6. \A s \in SUBSET DOMAIN f : SumOver(Part(f, s)) = g[s]
    BY <1>1, PartIsTabled
<1>7. QED
    BY <1>2, <1>4, <1>5, <1>6

\* Zeros and ones sum up to the number of the ones.
Ones(f, s) == {x \in s : f[x] = 1}

LEMMA SumCounts ==
    ASSUME NEW f, IsFiniteSet(DOMAIN f), \A x \in DOMAIN f : f[x] \in {0, 1}
    PROVE  SumOver(f) = Cardinality(Ones(f, DOMAIN f))
<1> DEFINE g == CHOOSE t : IsSumTable(f, t)
           B == {s \in SUBSET DOMAIN f : g[s] # Cardinality(Ones(f, s))}
<1>1. IsSumTable(f, g)
    BY SumTableExists
<1>2. SumOver(f) = g[DOMAIN f]
    BY DEF SumOver
<1> HIDE DEF g
<1>3. \A s \in SUBSET DOMAIN f : IsFiniteSet(s) /\ IsFiniteSet(Ones(f, s))
  <2>1. \A s \in SUBSET DOMAIN f : Ones(f, s) \in SUBSET DOMAIN f
      BY DEF Ones
  <2>2. QED
      BY <2>1, FS_Subset
<1>4. B = {}
  <2>1. SUFFICES ASSUME B # {} PROVE FALSE
      OBVIOUS
  <2>2. PICK s \in B : \A t \in B : Cardinality(s) <= Cardinality(t)
      BY <1>3, <2>1, SmallestSet
  <2>3. s \in SUBSET DOMAIN f /\ IsFiniteSet(s) /\ g[s] # Cardinality(Ones(f, s))
      BY <1>3, <2>2
  <2>4. g[s] = SumRow(f, g, s)
      BY <1>1, <2>3, SumTableRows
  <2>5. s # {}
    <3>1. SUFFICES ASSUME s = {} PROVE FALSE
        OBVIOUS
    <3>2. Ones(f, s) = {}
        BY <3>1 DEF Ones
    <3>3. Cardinality({}) = 0
        BY FS_EmptySet
    <3>4. QED
        BY <2>3, <2>4, <3>1, <3>2, <3>3 DEF SumRow
  <2> DEFINE p == Pick(s)
             t == s \ {p}
  <2>6. p \in s /\ ~(Cardinality(s) <= Cardinality(t)) /\ t \in SUBSET DOMAIN f
      BY <2>3, <2>5, PickRemoves
  <2>7. g[s] = f[p] + g[t]
      BY <2>4, <2>5 DEF SumRow
  <2> HIDE DEF p
  <2>8. t \notin B
      BY <2>2, <2>6
  <2>9. g[t] = Cardinality(Ones(f, t))
      BY <2>6, <2>8
  <2>10. IsFiniteSet(Ones(f, t)) /\ Cardinality(Ones(f, t)) \in Nat
      BY <1>3, <2>6, FS_CardinalityType
  <2>11. CASE f[p] = 1
    <3>1. Ones(f, s) = Ones(f, t) \cup {p} /\ p \notin Ones(f, t)
        BY <2>6, <2>11 DEF Ones
    <3>2. Cardinality(Ones(f, t) \cup {p}) = Cardinality(Ones(f, t)) + 1
        BY <2>10, <3>1, FS_AddElement
    <3> HIDE DEF t
    <3>3. QED
        BY <2>3, <2>7, <2>9, <2>10, <2>11, <3>1, <3>2
  <2>12. CASE f[p] = 0
    <3>1. Ones(f, s) = Ones(f, t)
        BY <2>6, <2>12 DEF Ones
    <3> HIDE DEF t
    <3>2. QED
        BY <2>3, <2>7, <2>9, <2>10, <2>12, <3>1
  <2>13. QED
      BY <2>3, <2>6, <2>11, <2>12
<1>5. QED
    BY <1>2, <1>4

\* Twice a product is at most the sum of the squares.
LEMMA SquareOfDifference ==
    ASSUME NEW x \in Nat, NEW y \in Nat
    PROVE  x * x + y * y >= 2 * (x * y)
<1>1. (x - y) * (x - y) = (x * x + y * y) - 2 * (x * y)
    OBVIOUS
<1>2. (x - y) * (x - y) >= 0
    OBVIOUS
<1>3. x * x \in Nat /\ y * y \in Nat /\ x * y \in Nat
    OBVIOUS
<1>4. QED
    BY <1>1, <1>2, <1>3

\* A number x more in a sum G and in a sum of squares Q of n numbers: the distance of
\* their squares from any y.
LEMMA OneMoreFar ==
    ASSUME NEW n \in Nat, NEW G \in Nat, NEW Q \in Nat, NEW x \in Nat, NEW y \in Nat,
           Q + n * (y * y) >= 2 * (G * y)
    PROVE  (x * x + Q) + (n + 1) * (y * y) >= 2 * ((x + G) * y)
<1>1. (n + 1) * (y * y) = n * (y * y) + y * y /\ (x + G) * y = x * y + G * y
    OBVIOUS
<1>2. /\ n * (y * y) \in Nat /\ y * y \in Nat /\ x * x \in Nat
      /\ x * y \in Nat /\ G * y \in Nat
    OBVIOUS
<1>3. x * x + y * y >= 2 * (x * y)
    BY SquareOfDifference
<1>4. QED
    BY <1>1, <1>2, <1>3

\* And the sum of squares against the square of the sum.
LEMMA OneMoreSpread ==
    ASSUME NEW n \in Nat, NEW G \in Nat, NEW Q \in Nat, NEW x \in Nat,
           Q + n * (x * x) >= 2 * (G * x), n * Q >= G * G
    PROVE  (n + 1) * (x * x + Q) >= (x + G) * (x + G)
<1>1. (n + 1) * (x * x + Q) = n * (x * x) + n * Q + x * x + Q
    OBVIOUS
<1>2. (x + G) * (x + G) = x * x + 2 * (G * x) + G * G
    OBVIOUS
<1>3. /\ n * (x * x) \in Nat /\ n * Q \in Nat /\ x * x \in Nat /\ G * x \in Nat
      /\ G * G \in Nat
    OBVIOUS
<1>4. QED
    BY <1>1, <1>2, <1>3

\* The square of a sum is at most the sum of the squares times their number.
Squares(f) == [x \in DOMAIN f |-> f[x] * f[x]]

LEMMA SumOfSquares ==
    ASSUME NEW f, IsFiniteSet(DOMAIN f), OfNumbers(f)
    PROVE  /\ Cardinality(DOMAIN f) * SumOver(Squares(f)) >= SumOver(f) * SumOver(f)
           /\ SumOver(f) \in Nat /\ SumOver(Squares(f)) \in Nat
<1> DEFINE h == Squares(f)
           g == CHOOSE t : IsSumTable(f, t)
           q == CHOOSE t : IsSumTable(h, t)
           Far(s) == \A y \in Nat : q[s] + Cardinality(s) * (y * y) >= 2 * (g[s] * y)
           Spread(s) == Cardinality(s) * q[s] >= g[s] * g[s]
           B == {s \in SUBSET DOMAIN f : ~Far(s) \/ ~Spread(s)}
<1>1. DOMAIN h = DOMAIN f /\ \A x \in DOMAIN f : f[x] \in Nat /\ h[x] = f[x] * f[x]
    BY DEF Squares, OfNumbers
<1> HIDE DEF h
<1>2. IsSumTable(f, g) /\ IsSumTable(h, q)
    BY <1>1, SumTableExists
<1>3. SumOver(f) = g[DOMAIN f] /\ SumOver(h) = q[DOMAIN f]
    BY <1>1 DEF SumOver
<1> HIDE DEF g, q
<1>4. \A s \in SUBSET DOMAIN f : IsFiniteSet(s) /\ Cardinality(s) \in Nat
    BY FS_Subset, FS_CardinalityType
<1>5. \A s \in SUBSET DOMAIN f : g[s] \in Nat /\ q[s] \in Nat
  <2>1. \A x \in DOMAIN h : h[x] \in Nat
      BY <1>1
  <2>2. \A s \in SUBSET DOMAIN f : g[s] \in Nat
      BY <1>1, <1>2, SumTableIsNat
  <2>3. \A s \in SUBSET DOMAIN h : q[s] \in Nat
      BY <1>1, <1>2, <2>1, SumTableIsNat
  <2>4. QED
      BY <1>1, <2>2, <2>3
<1>6. B = {}
  <2>1. SUFFICES ASSUME B # {} PROVE FALSE
      OBVIOUS
  <2>2. PICK s \in B : \A t \in B : Cardinality(s) <= Cardinality(t)
      BY <1>4, <2>1, SmallestSet
  <2>3. s \in SUBSET DOMAIN f /\ IsFiniteSet(s) /\ ~(Far(s) /\ Spread(s))
      BY <1>4, <2>2
  <2>4. g[s] = SumRow(f, g, s) /\ q[s] = SumRow(h, q, s)
      BY <1>1, <1>2, <2>3, SumTableRows
  <2>5. s # {}
    <3>1. SUFFICES ASSUME s = {} PROVE FALSE
        OBVIOUS
    <3>2. g[s] = 0 /\ q[s] = 0 /\ Cardinality(s) = 0
        BY <2>4, <3>1, FS_EmptySet DEF SumRow
    <3>3. Far(s) /\ Spread(s)
        BY <3>2
    <3>4. QED
        BY <2>3, <3>3
  <2> DEFINE p == Pick(s)
             t == s \ {p}
  <2>6. /\ p \in s /\ ~(Cardinality(s) <= Cardinality(t)) /\ t \in SUBSET DOMAIN f
        /\ Cardinality(t) = Cardinality(s) - 1
      BY <2>3, <2>5, PickRemoves
  <2>7. g[s] = f[p] + g[t] /\ q[s] = h[p] + q[t]
      BY <2>4, <2>5 DEF SumRow
  <2> HIDE DEF p
  <2>8. t \notin B
      BY <2>2, <2>6
  <2>9. Far(t) /\ Spread(t)
      BY <2>6, <2>8
  <2> DEFINE n == Cardinality(t)
             x == f[p]
             G == g[t]
             Q == q[t]
  <2>10. /\ n \in Nat /\ x \in Nat /\ G \in Nat /\ Q \in Nat /\ Cardinality(s) = n + 1
         /\ g[s] = x + G /\ q[s] = x * x + Q
    <3>1. Cardinality(s) \in Nat /\ Cardinality(t) \in Nat
        BY <1>4, <2>3, <2>6
    <3>2. p \in DOMAIN f
        BY <2>3, <2>6
    <3>3. h[p] = f[p] * f[p] /\ f[p] \in Nat
        BY <1>1, <3>2
    <3>4. g[t] \in Nat /\ q[t] \in Nat
        BY <1>5, <2>6
    <3> HIDE DEF t
    <3>5. QED
        BY <2>6, <2>7, <3>1, <3>3, <3>4
  <2>11. /\ \A y \in Nat : Q + n * (y * y) >= 2 * (G * y)
         /\ n * Q >= G * G
      BY <2>9
  <2> HIDE DEF t, n, x, G, Q
  <2>12. Far(s)
    <3>1. ASSUME NEW y \in Nat
          PROVE  (x * x + Q) + (n + 1) * (y * y) >= 2 * ((x + G) * y)
        BY <2>10, <2>11, OneMoreFar
    <3>2. QED
        BY <2>10, <3>1
  <2>13. Spread(s)
    <3>1. (n + 1) * (x * x + Q) >= (x + G) * (x + G)
        BY <2>10, <2>11, OneMoreSpread
    <3>2. QED
        BY <2>10, <3>1
  <2>14. QED
      BY <2>3, <2>12, <2>13
<1>7. Spread(DOMAIN f)
    BY <1>6
<1>8. g[DOMAIN f] \in Nat /\ q[DOMAIN f] \in Nat
    BY <1>5
<1>9. QED
    BY <1>3, <1>7, <1>8 DEF h

\* h has the sums of the classes that key makes of the domain of f.
Class(key, D, k) == {x \in D : key[x] = k}

SumsOfClasses(h, f, key) ==
    /\ \A x \in DOMAIN f : key[x] \in DOMAIN h
    /\ \A k \in DOMAIN h : h[k] = SumOver(Part(f, Class(key, DOMAIN f, k)))

LEMMA SumOfClasses ==
    ASSUME NEW f, NEW h, NEW key, IsFiniteSet(DOMAIN f), IsFiniteSet(DOMAIN h), OfNumbers(f),
           SumsOfClasses(h, f, key)
    PROVE  SumOver(h) = SumOver(f)
<1> DEFINE g == CHOOSE t : IsSumTable(f, t)
           u == CHOOSE t : IsSumTable(h, t)
           Of(K) == {x \in DOMAIN f : key[x] \in K}
           B == {K \in SUBSET DOMAIN h : u[K] # g[Of(K)]}
<1>1. IsSumTable(f, g) /\ IsSumTable(h, u)
    BY SumTableExists
<1>2. SumOver(f) = g[DOMAIN f] /\ SumOver(h) = u[DOMAIN h]
    BY DEF SumOver
<1> HIDE DEF g, u
<1>3. \A K \in SUBSET DOMAIN h : IsFiniteSet(K)
    BY FS_Subset
<1>4. \A k \in DOMAIN h : h[k] = g[Class(key, DOMAIN f, k)]
  <2>1. \A s \in SUBSET DOMAIN f : SumOver(Part(f, s)) = g[s]
      BY <1>1, PartIsTabled
  <2>2. \A k : Class(key, DOMAIN f, k) \in SUBSET DOMAIN f
      BY DEF Class
  <2>3. QED
      BY <2>1, <2>2 DEF SumsOfClasses
<1>5. ASSUME NEW A PROVE \A s \in SUBSET DOMAIN f : g[s] = g[s \cap A] + g[s \ A]
  <2>1. \A s \in SUBSET DOMAIN f : IsSplit(g, s, A)
      BY <1>1, SumTableSplits
  <2>2. QED
      BY <2>1 DEF IsSplit
<1>6. B = {}
  <2>1. SUFFICES ASSUME B # {} PROVE FALSE
      OBVIOUS
  <2>2. PICK K \in B : \A L \in B : Cardinality(K) <= Cardinality(L)
      BY <1>3, <2>1, SmallestSet
  <2>3. K \in SUBSET DOMAIN h /\ IsFiniteSet(K) /\ u[K] # g[Of(K)]
      BY <1>3, <2>2
  <2>4. u[K] = SumRow(h, u, K)
      BY <1>1, <2>3, SumTableRows
  <2>5. K # {}
    <3>1. SUFFICES ASSUME K = {} PROVE FALSE
        OBVIOUS
    <3>2. Of(K) = {} /\ {} \in SUBSET DOMAIN f
        BY <3>1
    <3>3. g[{}] = SumRow(f, g, {})
        BY <1>1, SumTableRows
    <3>4. QED
        BY <2>3, <2>4, <3>1, <3>2, <3>3 DEF SumRow
  <2> DEFINE p == Pick(K)
             L == K \ {p}
  <2>6. p \in K /\ ~(Cardinality(K) <= Cardinality(L)) /\ L \in SUBSET DOMAIN h
      BY <2>3, <2>5, PickRemoves
  <2>7. u[K] = h[p] + u[L]
      BY <2>4, <2>5 DEF SumRow
  <2> HIDE DEF p
  <2>8. L \notin B
      BY <2>2, <2>6
  <2>9. u[L] = g[Of(L)]
      BY <2>6, <2>8
  <2>10. /\ Of(K) \cap Class(key, DOMAIN f, p) = Class(key, DOMAIN f, p)
         /\ Of(K) \ Class(key, DOMAIN f, p) = Of(L)
         /\ Of(K) \in SUBSET DOMAIN f
      BY <2>3, <2>6 DEF Class
  <2>11. h[p] = g[Class(key, DOMAIN f, p)]
      BY <1>4, <2>3, <2>6
  <2> HIDE DEF Of, L, B
  <2>12. g[Of(K)] = g[Of(K) \cap Class(key, DOMAIN f, p)] + g[Of(K) \ Class(key, DOMAIN f, p)]
      BY <1>5, <2>10
  <2>13. g[Of(K)] = h[p] + u[L]
      BY <2>9, <2>10, <2>11, <2>12
  <2>14. QED
      BY <2>3, <2>7, <2>13
<1>7. Of(DOMAIN h) = DOMAIN f
    BY DEF SumsOfClasses
<1>8. u[DOMAIN h] = g[Of(DOMAIN h)]
    BY <1>6
<1>9. QED
    BY <1>2, <1>7, <1>8
=============================================================================
