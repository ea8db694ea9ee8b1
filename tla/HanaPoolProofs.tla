---------------------------- MODULE HanaPoolProofs ----------------------------
(***************************************************************************)
(* Proofs about HanaPool, for every set of tasks, every size and every     *)
(* number of initialisations, refused connections and cancellations.       *)
(*                                                                         *)
(* That a connection has one holder rests on two things more: it is        *)
(* numbered when it is opened, so a new one is nobody's yet (Numbered),    *)
(* and a task that gives one back has one (Carried).  That no more are     *)
(* opened than the types allow is counted in tickets (Budget).  That none  *)
(* is lost rests on who may open them: as long as there is one queue, the  *)
(* lifespan alone (OneOpener), which fills it (Filling) before any task    *)
(* takes one.                                                              *)
(***************************************************************************)
EXTENDS HanaPool, FiniteSetTheorems, TLAPS

\* Connections are numbered as they are opened, and closed ones are in no queue.
Numbered ==
    /\ opened \in Nat
    /\ slots \in [Queues -> SUBSET (1 .. opened)]
    /\ closed \subseteq 1 .. opened
    /\ conn \in [Everyone -> 1 .. opened \cup {NoConn}]
    /\ \A q \in Queues : slots[q] \cap closed = {}

\* A task that uses a connection or gives one back holds one.
Carried ==
    \A t \in Everyone : pc[t] \in {"placing", "using", "releasing"} => conn[t] # NoConn

PoolInv ==
    /\ DOMAIN pc = Everyone
    /\ Numbered
    /\ Carried
    /\ OneHolder

-----------------------------------------------------------------------------

LEMMA PoolInvInit == Init => PoolInv
BY PoolAssumption DEF Init, PoolInv, Numbered, Carried, OneHolder

\* Steps that move no connection: somebody goes somewhere without one.
LEMMA BystandersKeepInv ==
    ASSUME PoolInv, UNCHANGED <<slots, opened, closed, conn>>,
           \/ UNCHANGED pc
           \/ \E t \in Everyone, where \in {"serving", "closing", "closed", "out", "opening",
                                            "getting"} : Goto(t, where)
           \/ \E t \in Everyone : pc[t] = "using" /\ Goto(t, "releasing")
    PROVE  PoolInv'
BY DEF PoolInv, Numbered, Carried, OneHolder, Goto

\* A new connection is nobody's.
LEMMA OpenedKeepsInv ==
    ASSUME PoolInv, NEW t \in Everyone, Opened(t)
    PROVE  PoolInv'
BY PoolAssumption DEF PoolInv, Numbered, Carried, OneHolder, Opened, Goto

\* A connection that is put into a queue leaves its task's hands.
LEMMA PutKeepsInv ==
    ASSUME PoolInv, NEW t \in Everyone, pc[t] \in {"placing", "releasing"},
           slots' = [slots EXCEPT ![waitOn[t]] = @ \cup {conn[t]}],
           conn' = [conn EXCEPT ![t] = NoConn],
           \E where \in {"opening", "serving", "getting", "out"} : Goto(t, where),
           UNCHANGED <<opened, closed>>
    PROVE  PoolInv'
<1> USE DEF PoolInv, Numbered
<1>1. conn[t] \in 1 .. opened /\ conn[t] # NoConn
    BY DEF Carried
<1>2. /\ slots' \in [Queues -> SUBSET (1 .. opened)]
      /\ \A q \in Queues : slots'[q] = IF q = waitOn[t] THEN slots[q] \cup {conn[t]}
                                                        ELSE slots[q]
    BY <1>1
<1>3. /\ conn' \in [Everyone -> 1 .. opened \cup {NoConn}]
      /\ \A u \in Everyone : conn'[u] = IF u = t THEN NoConn ELSE conn[u]
    OBVIOUS
<1>4. /\ NoConn \notin 1 .. opened
      /\ conn[t] \notin closed
      /\ \A q \in Queues : conn[t] \notin slots[q]
      /\ \A u \in Everyone : u # t => conn[u] # conn[t]
    BY <1>1, PoolAssumption DEF OneHolder
<1>5. Numbered'
    BY <1>2, <1>3, <1>4
<1>6. OneHolder'
  <2>1. \A u, v \in Everyone : conn'[u] = conn'[v] /\ conn'[u] # NoConn => u = v
      BY <1>3 DEF OneHolder
  <2>2. \A u \in Everyone, q \in Queues : conn'[u] \notin slots'[q]
      BY <1>2, <1>3, <1>4 DEF OneHolder
  <2>3. \A q, r \in Queues : q # r => slots'[q] \cap slots'[r] = {}
      BY <1>2, <1>4 DEF OneHolder
  <2>4. \A u \in Everyone : conn'[u] \notin closed'
      BY <1>3, <1>4 DEF OneHolder
  <2>5. QED
      BY <2>1, <2>2, <2>3, <2>4 DEF OneHolder
<1>7. Carried' /\ DOMAIN pc' = Everyone
    BY <1>3 DEF Carried, Goto
<1>8. QED
    BY <1>5, <1>6, <1>7

\* A connection that is taken from a queue is in nobody else's hands.
LEMMA GetKeepsInv ==
    ASSUME PoolInv, NEW t \in Everyone, Get(t), waitOn[t] \in Queues
    PROVE  PoolInv'
<1> USE DEF PoolInv, Numbered
<1>1. PICK c \in slots[waitOn[t]] : /\ conn' = [conn EXCEPT ![t] = c]
                                    /\ slots' = [slots EXCEPT ![waitOn[t]] = @ \ {c}]
    BY DEF Get
<1>2. /\ c \in 1 .. opened /\ c \notin closed
      /\ \A u \in Everyone : conn[u] # c
      /\ \A q \in Queues : q # waitOn[t] => c \notin slots[q]
    BY DEF OneHolder
<1>3. /\ slots' \in [Queues -> SUBSET (1 .. opened)]
      /\ \A q \in Queues : slots'[q] = slots[q] \ {c}
    BY <1>1, <1>2
<1>4. /\ conn' \in [Everyone -> 1 .. opened \cup {NoConn}]
      /\ \A u \in Everyone : conn'[u] = IF u = t THEN c ELSE conn[u]
    BY <1>1, <1>2
<1>5. opened' = opened /\ closed' = closed
    BY DEF Get
<1>6. Numbered'
    BY <1>3, <1>4, <1>5
<1>7. OneHolder'
  <2>1. \A u, v \in Everyone : conn'[u] = conn'[v] /\ conn'[u] # NoConn => u = v
      BY <1>2, <1>4 DEF OneHolder
  <2>2. \A u \in Everyone, q \in Queues : conn'[u] \notin slots'[q]
      BY <1>3, <1>4 DEF OneHolder
  <2>3. \A q, r \in Queues : q # r => slots'[q] \cap slots'[r] = {}
      BY <1>3 DEF OneHolder
  <2>4. \A u \in Everyone : conn'[u] \notin closed'
      BY <1>2, <1>4, <1>5 DEF OneHolder
  <2>5. QED
      BY <2>1, <2>2, <2>3, <2>4 DEF OneHolder
<1>8. Carried' /\ DOMAIN pc' = Everyone
  <2>1. c # NoConn
      BY <1>2, PoolAssumption
  <2>2. QED
      BY <1>4, <2>1 DEF Get, Carried, Goto
<1>9. QED
    BY <1>6, <1>7, <1>8

\* A cancelled task drops what it holds.
LEMMA DropKeepsInv ==
    ASSUME PoolInv, NEW t \in Everyone, CancelWaiting(t)
    PROVE  PoolInv'
<1> USE DEF PoolInv, Numbered
<1>1. /\ conn' \in [Everyone -> 1 .. opened \cup {NoConn}]
      /\ \A u \in Everyone : conn'[u] = IF u = t THEN NoConn ELSE conn[u]
    BY DEF CancelWaiting
<1>2. UNCHANGED <<slots, opened, closed>>
    BY DEF CancelWaiting
<1>3. NoConn \notin closed /\ \A q \in Queues : NoConn \notin slots[q]
  <2>1. NoConn \notin 1 .. opened
      BY PoolAssumption
  <2>2. closed \subseteq 1 .. opened /\ \A q \in Queues : slots[q] \subseteq 1 .. opened
      OBVIOUS
  <2>3. QED
      BY <2>1, <2>2
<1>4. OneHolder'
    BY <1>1, <1>2, <1>3 DEF OneHolder
<1>5. Carried' /\ DOMAIN pc' = Everyone
    BY <1>1 DEF CancelWaiting, Carried, Goto
<1>6. QED
    BY <1>1, <1>2, <1>4, <1>5

\* A connection is closed out of its queue.
LEMMA CloseKeepsInv ==
    ASSUME PoolInv, CloseOne, queue \in Queues
    PROVE  PoolInv'
<1> USE DEF PoolInv, Numbered
<1>1. PICK c \in slots[queue] : /\ slots' = [slots EXCEPT ![queue] = @ \ {c}]
                                /\ closed' = closed \cup {c}
    BY DEF CloseOne
<1>2. UNCHANGED <<opened, conn, pc>>
    BY DEF CloseOne
<1>3. /\ c \in 1 .. opened
      /\ \A u \in Everyone : conn[u] # c
      /\ \A q \in Queues : q # queue => c \notin slots[q]
    BY DEF OneHolder
<1>4. /\ slots' \in [Queues -> SUBSET (1 .. opened)]
      /\ \A q \in Queues : slots'[q] = slots[q] \ {c}
    BY <1>1, <1>3
<1>5. Numbered'
    BY <1>1, <1>2, <1>3, <1>4
<1>6. OneHolder' /\ Carried'
    BY <1>1, <1>2, <1>3, <1>4 DEF OneHolder, Carried
<1>7. QED
    BY <1>2, <1>5, <1>6

-----------------------------------------------------------------------------
(* The queues.                                                             *)

\* Who opens connections has made a queue, and who waits for one waits on a queue.
QueueInv ==
    /\ queue \in 0 .. MaxQueues
    /\ initialized => queue > 0
    /\ pc[Lifespan] = "closing" => queue > 0
    /\ \A t \in Everyone : pc[t] \in {"opening", "placing"} => queue > 0
    /\ \A t \in Everyone : pc[t] = "getting" => waitOn[t] \in Queues

LEMMA QueueInvStep ==
    ASSUME QueueInv, DOMAIN pc = Everyone, DOMAIN waitOn = Everyone, [Next]_poolVars
    PROVE  QueueInv' /\ DOMAIN waitOn' = Everyone
<1> USE PoolAssumption DEF QueueInv, Goto, Everyone, Queues
<1>1. CASE Startup \/ \E t \in Tasks : Acquire(t)
    BY <1>1 DEF Startup, Acquire, AcquireInitialized, Initialize
<1>2. ASSUME NEW t \in Everyone, Opened(t) \/ OpenFailed(t) \/ Placed(t)
      PROVE  QueueInv' /\ DOMAIN waitOn' = Everyone
    BY <1>2 DEF Opened, OpenFailed, Placed
<1>3. ASSUME NEW t \in Tasks, Get(t) \/ Finished(t) \/ Release(t) \/ Cancel(t)
      PROVE  QueueInv' /\ DOMAIN waitOn' = Everyone
    BY <1>3 DEF Get, Finished, Release, Cancel, CancelInUse, CancelWaiting
<1>4. CASE \/ \E c \in Conns : LateThreadEnds(c)
           \/ Shutdown \/ CloseOne \/ CloseDone \/ UNCHANGED poolVars
    BY <1>4 DEF LateThreadEnds, Shutdown, CloseOne, CloseDone, poolVars
<1>5. QED
    BY <1>1, <1>2, <1>3, <1>4 DEF Next

-----------------------------------------------------------------------------

LEMMA PoolInvStep ==
    ASSUME PoolInv, QueueInv, [Next]_poolVars
    PROVE  PoolInv'
<1> USE DEF Everyone
<1>1. CASE Startup \/ \E t \in Tasks : Acquire(t)
    BY <1>1, BystandersKeepInv DEF Startup, Acquire, AcquireInitialized, Initialize
<1>2. ASSUME NEW t \in Everyone, Opened(t) \/ OpenFailed(t) \/ Placed(t)
      PROVE  PoolInv'
  <2>1. CASE Opened(t)
      BY <2>1, OpenedKeepsInv
  <2>2. CASE OpenFailed(t)
      BY <2>2, BystandersKeepInv DEF OpenFailed
  <2>3. CASE Placed(t)
      BY <2>3, PutKeepsInv DEF Placed
  <2>4. QED
      BY <1>2, <2>1, <2>2, <2>3
<1>3. ASSUME NEW t \in Tasks, Get(t) \/ Finished(t) \/ Release(t) \/ Cancel(t)
      PROVE  PoolInv'
  <2>1. CASE Get(t)
      BY <2>1, GetKeepsInv DEF Get, QueueInv
  <2>2. CASE Finished(t) \/ CancelInUse(t)
      BY <2>2, BystandersKeepInv DEF Finished, CancelInUse
  <2>3. CASE Release(t)
      BY <2>3, PutKeepsInv DEF Release
  <2>4. CASE CancelWaiting(t)
      BY <2>4, DropKeepsInv
  <2>5. QED
      BY <1>3, <2>1, <2>2, <2>3, <2>4 DEF Cancel
<1>4. CASE Shutdown \/ CloseDone
    BY <1>4, BystandersKeepInv DEF Shutdown, CloseDone
<1>5. CASE CloseOne
  <2>1. queue \in Queues
      BY <1>5 DEF CloseOne, QueueInv, Queues
  <2>2. QED
      BY <1>5, <2>1, CloseKeepsInv
<1>6. CASE (\E c \in Conns : LateThreadEnds(c)) \/ UNCHANGED poolVars
    BY <1>6, BystandersKeepInv DEF LateThreadEnds, poolVars
<1>7. QED
    BY <1>1, <1>2, <1>3, <1>4, <1>5, <1>6 DEF Next

\* A connection is in one place: in one queue, once, or in the hands of one task, and
\* never used once close() closed it, whatever initialisations overlap, fail or are
\* cancelled.
THEOREM ConnectionsHaveOneHolder == Spec => []OneHolder
<1> DEFINE Inv == PoolInv /\ QueueInv /\ DOMAIN waitOn = Everyone
<1>1. Init => Inv
    BY PoolInvInit, PoolAssumption DEF Init, QueueInv, Queues, Everyone
<1>2. Inv /\ [Next]_poolVars => Inv'
    BY PoolInvStep, QueueInvStep DEF PoolInv
<1>3. Inv => OneHolder
    BY DEF PoolInv
<1>4. QED
    BY <1>1, <1>2, <1>3, PTL DEF Spec

-----------------------------------------------------------------------------
(* The connections an initialisation may still open.                       *)

\* A task in initialize has a ticket for each connection it has still to open.
Left(t) == IF pc[t] = "opening" THEN toOpen[t]
           ELSE IF pc[t] = "placing" THEN toOpen[t] - 1
           ELSE 0

Tickets == {p \in Everyone \X (1 .. Size) : p[2] <= Left(p[1])}

\* Each call of initialize hands out Size tickets, and a connection costs one.
Budget ==
    /\ IsFiniteSet(Tickets)
    /\ opened + Cardinality(Tickets) <= queue * Size

States == {"start", "serving", "closing", "closed", "out", "opening", "placing", "getting",
           "using", "releasing"}

\* What TypeOK says, without the number of connections.
LocalsOK ==
    /\ initialized \in BOOLEAN
    /\ queue \in 0 .. MaxQueues
    /\ opened \in Nat
    /\ pc \in [Everyone -> States]
    /\ waitOn \in [Everyone -> 0 .. MaxQueues]
    /\ toOpen \in [Everyone -> 0 .. Size]
    /\ failures \in 0 .. MaxOpenFailures
    /\ \A t \in Everyone : pc[t] \in {"opening", "placing"} => toOpen[t] > 0

LEMMA LocalsStep ==
    ASSUME LocalsOK, [Next]_poolVars
    PROVE  LocalsOK'
<1> USE PoolAssumption DEF LocalsOK, Goto, Everyone, States
<1>1. CASE Startup \/ \E t \in Tasks : Acquire(t)
    BY <1>1 DEF Startup, Acquire, AcquireInitialized, Initialize
<1>2. ASSUME NEW t \in Everyone, Opened(t) \/ OpenFailed(t) \/ Placed(t)
      PROVE  LocalsOK'
  <2>1. CASE Opened(t)
      BY <2>1 DEF Opened
  <2>2. CASE OpenFailed(t)
      BY <2>2 DEF OpenFailed
  <2>3. CASE Placed(t)
    <3>1. toOpen[t] \in 1 .. Size
        BY <2>3 DEF Placed
    <3>2. toOpen' \in [Everyone -> 0 .. Size]
      <4>1. toOpen[t] - 1 \in 0 .. Size
          BY <3>1
      <4>2. toOpen' = [toOpen EXCEPT ![t] = toOpen[t] - 1]
          BY <2>3 DEF Placed
      <4>3. QED
          BY <4>1, <4>2
    <3>3. pc' \in [Everyone -> States] /\ waitOn' \in [Everyone -> 0 .. MaxQueues]
        BY <2>3 DEF Placed
    <3>4. \A u \in Everyone : pc'[u] \in {"opening", "placing"} => toOpen'[u] > 0
      <4>1. pc'[t] = "opening" => toOpen'[t] > 0
          BY <2>3, <3>1 DEF Placed
      <4>2. pc'[t] # "placing"
          BY <2>3 DEF Placed
      <4>3. \A u \in Everyone : u # t => pc'[u] = pc[u] /\ toOpen'[u] = toOpen[u]
          BY <2>3 DEF Placed
      <4>4. QED
          BY <4>1, <4>2, <4>3
    <3>5. initialized' \in BOOLEAN /\ UNCHANGED <<queue, opened, failures>>
        BY <2>3 DEF Placed
    <3>6. QED
        BY <3>2, <3>3, <3>4, <3>5
  <2>4. QED
      BY <1>2, <2>1, <2>2, <2>3
<1>3. ASSUME NEW t \in Tasks, Get(t) \/ Finished(t) \/ Release(t) \/ Cancel(t)
      PROVE  LocalsOK'
  <2>1. CASE Get(t)
      BY <2>1 DEF Get
  <2>2. CASE Finished(t) \/ CancelInUse(t)
      BY <2>2 DEF Finished, CancelInUse
  <2>3. CASE Release(t)
      BY <2>3 DEF Release
  <2>4. CASE CancelWaiting(t)
      BY <2>4 DEF CancelWaiting
  <2>5. QED
      BY <1>3, <2>1, <2>2, <2>3, <2>4 DEF Cancel
<1>4. CASE \/ \E c \in Conns : LateThreadEnds(c)
           \/ Shutdown \/ CloseOne \/ CloseDone \/ UNCHANGED poolVars
    BY <1>4 DEF LateThreadEnds, Shutdown, CloseOne, CloseDone, poolVars
<1>5. QED
    BY <1>1, <1>2, <1>3, <1>4 DEF Next

LEMMA LeftIsNat == LocalsOK => \A t \in Everyone : Left(t) \in 0 .. Size
BY PoolAssumption DEF LocalsOK, Left

LEMMA TimesIsMonotonic ==
    ASSUME NEW a \in Nat, NEW b \in Nat, NEW n \in Nat, a <= b
    PROVE  a * n \in Nat /\ b * n \in Nat /\ a * n <= b * n
<1>1. PICK d \in Nat : b = a + d
    BY b - a \in Nat, b = a + (b - a)
<1>2. b * n = a * n + d * n
    BY <1>1
<1>3. a * n \in Nat /\ d * n \in Nat
    BY <1>1
<1>4. QED
    BY <1>2, <1>3

\* Tickets are only given away: whoever gives none out stays in the budget.
LEMMA FewerTickets ==
    ASSUME LocalsOK, LocalsOK', Budget, UNCHANGED opened, queue <= queue',
           \A u \in Everyone : Left(u)' <= Left(u)
    PROVE  Budget'
<1>0. (LocalsOK => \A t \in Everyone : Left(t) \in 0 .. Size)'
    BY LeftIsNat, PTL
<1>1. Tickets' \subseteq Tickets
  <2>1. SUFFICES ASSUME NEW u \in Everyone, NEW k \in 1 .. Size, k <= Left(u)'
                 PROVE  k <= Left(u)
      BY DEF Tickets
  <2>2. Left(u) \in Nat /\ Left(u)' \in Nat
      BY <1>0, LeftIsNat, PoolAssumption
  <2>3. QED
      BY <2>1, <2>2, PoolAssumption
<1>2. /\ IsFiniteSet(Tickets')
      /\ Cardinality(Tickets') <= Cardinality(Tickets)
      /\ Cardinality(Tickets') \in Nat /\ Cardinality(Tickets) \in Nat
    BY <1>1, FS_Subset, FS_CardinalityType DEF Budget
<1>3. queue \in Nat /\ queue' \in Nat /\ Size \in Nat
    BY PoolAssumption DEF LocalsOK
<1>4. queue * Size \in Nat /\ queue' * Size \in Nat /\ queue * Size <= queue' * Size
    BY <1>3, TimesIsMonotonic
<1>5. QED
    BY <1>2, <1>4 DEF Budget, LocalsOK

\* A call of initialize hands out Size tickets.
LEMMA InitializeKeepsBudget ==
    ASSUME LocalsOK, LocalsOK', Budget, NEW t \in Everyone, Initialize(t)
    PROVE  Budget'
<1> DEFINE New == {t} \X (1 .. Size)
<1>1. \A u \in Everyone : u # t => Left(u)' = Left(u)
    BY DEF Initialize, Goto, Left, LocalsOK
<1>2. Tickets' \subseteq Tickets \cup New
    BY <1>1 DEF Tickets
<1>3. IsFiniteSet(New) /\ Cardinality(New) = Size
  <2>1. IsFiniteSet(1 .. Size) /\ Cardinality(1 .. Size) = Size
      BY FS_Interval, PoolAssumption
  <2>2. IsFiniteSet({t}) /\ Cardinality({t}) = 1
      BY FS_Singleton
  <2>3. IsFiniteSet(New) /\ Cardinality(New) = 1 * Size
      BY <2>1, <2>2, FS_Product
  <2>4. QED
      BY <2>3, PoolAssumption
<1>4. /\ IsFiniteSet(Tickets \cup New)
      /\ Cardinality(Tickets \cup New) =
            Cardinality(Tickets) + Size - Cardinality(Tickets \cap New)
    BY <1>3, FS_Union DEF Budget
<1>5. IsFiniteSet(Tickets \cap New)
    BY <1>3, FS_Subset
<1>6. IsFiniteSet(Tickets') /\ Cardinality(Tickets') <= Cardinality(Tickets \cup New)
    BY <1>2, <1>4, FS_Subset
<1>7. /\ Cardinality(Tickets) \in Nat /\ Cardinality(Tickets') \in Nat
      /\ Cardinality(Tickets \cap New) \in Nat
    BY <1>5, <1>6, FS_CardinalityType DEF Budget
<1>8. Cardinality(Tickets') <= Cardinality(Tickets) + Size
    BY <1>4, <1>6, <1>7, PoolAssumption
<1>9. queue * Size \in Nat /\ queue' * Size = queue * Size + Size
  <2>1. queue \in Nat /\ queue' = queue + 1 /\ Size \in Nat
      BY PoolAssumption DEF Initialize, LocalsOK
  <2>2. (queue + 1) * Size = queue * Size + Size
      BY <2>1
  <2>3. QED
      BY <2>1, <2>2, TimesIsMonotonic
<1>10. opened' = opened /\ opened \in Nat
    BY DEF Initialize, LocalsOK
<1>11. QED
    BY <1>6, <1>7, <1>8, <1>9, <1>10, PoolAssumption DEF Budget

\* A connection costs the highest ticket of its task.
LEMMA OpenedKeepsBudget ==
    ASSUME LocalsOK, LocalsOK', Budget, NEW t \in Everyone, Opened(t)
    PROVE  Budget'
<1> DEFINE ticket == <<t, toOpen[t]>>
<1>1. \A u \in Everyone : Left(u)' = IF u = t THEN Left(t) - 1 ELSE Left(u)
  <2>1. Left(t)' = Left(t) - 1
      BY DEF Opened, Goto, Left, LocalsOK
  <2>2. \A u \in Everyone : u # t => Left(u)' = Left(u)
      BY DEF Opened, Goto, Left, LocalsOK
  <2>3. QED
      BY <2>1, <2>2
<1>2. Left(t) = toOpen[t] /\ toOpen[t] \in 1 .. Size
    BY PoolAssumption DEF Opened, Left, LocalsOK
<1>3. ticket \in Tickets
    BY <1>2 DEF Tickets
<1>4. Tickets' \subseteq Tickets \ {ticket}
  <2>1. SUFFICES ASSUME NEW u \in Everyone, NEW k \in 1 .. Size, k <= Left(u)'
                 PROVE  k <= Left(u) /\ ~(u = t /\ k = toOpen[t])
      BY DEF Tickets
  <2>2. CASE u = t
      BY <1>1, <1>2, <2>1, <2>2, PoolAssumption
  <2>3. CASE u # t
      BY <1>1, <2>1, <2>3
  <2>4. QED
      BY <2>2, <2>3
<1>5. /\ IsFiniteSet(Tickets \ {ticket})
      /\ Cardinality(Tickets \ {ticket}) = Cardinality(Tickets) - 1
    BY <1>3, FS_RemoveElement DEF Budget
<1>6. IsFiniteSet(Tickets') /\ Cardinality(Tickets') <= Cardinality(Tickets) - 1
    BY <1>4, <1>5, FS_Subset
<1>7. Cardinality(Tickets) \in Nat /\ Cardinality(Tickets') \in Nat
    BY <1>6, FS_CardinalityType DEF Budget
<1>8. queue' = queue /\ opened' = opened + 1 /\ opened \in Nat
    BY DEF Opened, LocalsOK
<1>9. queue * Size \in Nat
    BY TimesIsMonotonic, PoolAssumption DEF LocalsOK
<1>10. QED
    BY <1>6, <1>7, <1>8, <1>9 DEF Budget

LEMMA BudgetStep ==
    ASSUME LocalsOK, LocalsOK', Budget, [Next]_poolVars
    PROVE  Budget'
<1> DEFINE Fewer == /\ UNCHANGED opened /\ queue <= queue'
                    /\ \A u \in Everyone : Left(u)' <= Left(u)
<1>1. Fewer => Budget'
    BY FewerTickets
<1>2. queue \in Nat /\ \A u \in Everyone : Left(u) \in Nat
    BY LeftIsNat, PoolAssumption DEF LocalsOK
<1>3. ASSUME NEW t \in Everyone, Opened(t) \/ OpenFailed(t) \/ Placed(t)
      PROVE  Budget'
  <2>1. CASE Opened(t)
      BY <2>1, OpenedKeepsBudget
  <2>2. CASE OpenFailed(t)
    <3>1. \A u \in Everyone : Left(u)' = IF u = t THEN 0 ELSE Left(u)
        BY <2>2 DEF OpenFailed, Goto, Left, LocalsOK
    <3>2. UNCHANGED <<opened, queue>>
        BY <2>2 DEF OpenFailed
    <3>3. QED
        BY <1>1, <1>2, <3>1, <3>2
  <2>3. CASE Placed(t)
    <3>1. \A u \in Everyone : u # t => Left(u)' = Left(u)
        BY <2>3 DEF Placed, Goto, Left, LocalsOK
    <3>2. Left(t)' = Left(t)
      <4>1. Left(t) = toOpen[t] - 1 /\ toOpen[t] \in Nat
          BY <2>3, PoolAssumption DEF Placed, Left, LocalsOK
      <4>2. pc'[t] = "opening" \/ (pc'[t] \notin {"opening", "placing"} /\ toOpen[t] = 1)
          BY <2>3 DEF Placed, Goto, LocalsOK
      <4>3. toOpen'[t] = toOpen[t] - 1
          BY <2>3 DEF Placed, LocalsOK
      <4>4. QED
          BY <4>1, <4>2, <4>3 DEF Left
    <3>3. UNCHANGED <<opened, queue>>
        BY <2>3 DEF Placed
    <3>4. QED
        BY <1>1, <1>2, <3>1, <3>2, <3>3
  <2>4. QED
      BY <1>3, <2>1, <2>2, <2>3
<1>4. ASSUME NEW t \in Tasks,
             \/ AcquireInitialized(t) /\ pc[t] = "out"
             \/ Get(t) \/ Finished(t) \/ Release(t) \/ Cancel(t)
      PROVE  Budget'
  <2>1. \A u \in Everyone : Left(u)' = Left(u) \/ Left(u)' = 0
      BY <1>4 DEF AcquireInitialized, Get, Finished, Release, Cancel, CancelInUse,
                  CancelWaiting, Goto, Left, LocalsOK
  <2>2. UNCHANGED <<opened, queue>>
      BY <1>4 DEF AcquireInitialized, Get, Finished, Release, Cancel, CancelInUse,
                  CancelWaiting
  <2>3. QED
      BY <1>1, <1>2, <2>1, <2>2
<1>5. CASE \/ \E c \in Conns : LateThreadEnds(c)
           \/ Shutdown \/ CloseOne \/ CloseDone \/ UNCHANGED poolVars
  <2>1. \A u \in Everyone : Left(u)' = Left(u)
      BY <1>5 DEF LateThreadEnds, Shutdown, CloseOne, CloseDone, poolVars, Goto, Left, LocalsOK
  <2>2. UNCHANGED <<opened, queue>>
      BY <1>5 DEF LateThreadEnds, Shutdown, CloseOne, CloseDone, poolVars
  <2>3. QED
      BY <1>1, <1>2, <2>1, <2>2
<1>6. QED
    BY <1>3, <1>4, <1>5, InitializeKeepsBudget DEF Next, Startup, Acquire, Everyone

LEMMA OpenedInBudget ==
    ASSUME LocalsOK, Budget
    PROVE  opened \in 0 .. (MaxQueues * Size) /\ 1 .. opened \subseteq Conns
<1>1. Cardinality(Tickets) \in Nat
    BY FS_CardinalityType DEF Budget
<1>2. /\ queue * Size \in Nat /\ MaxQueues * Size \in Nat
      /\ queue * Size <= MaxQueues * Size
    BY TimesIsMonotonic, PoolAssumption DEF LocalsOK
<1>3. opened \in Nat /\ opened <= MaxQueues * Size
    BY <1>1, <1>2 DEF Budget, LocalsOK
<1>4. QED
    BY <1>2, <1>3 DEF Conns

-----------------------------------------------------------------------------
(* Threads.                                                                *)

\* Only tasks use connections, and a thread works on a connection in use.
Working == \A t \in Everyone : pc[t] = "using" => t \in Tasks /\ threads[conn[t]] > 0

ThreadsOK == threads \in [Conns -> 0 .. MaxThreads] /\ Working

LEMMA ThreadStarts ==
    ASSUME LocalsOK, Budget, PoolInv, ThreadsOK, NEW t \in Tasks,
           waitOn[t] \in Queues, Get(t)
    PROVE  ThreadsOK'
<1>1. PICK c \in slots[waitOn[t]] : /\ threads[c] < MaxThreads
                                    /\ conn' = [conn EXCEPT ![t] = c]
                                    /\ threads' = [threads EXCEPT ![c] = @ + 1]
    BY DEF Get
<1>2. c \in Conns
    BY OpenedInBudget DEF PoolInv, Numbered
<1>3. threads[c] \in 0 .. MaxThreads /\ threads[c] + 1 \in 0 .. MaxThreads
    BY <1>1, <1>2, PoolAssumption DEF ThreadsOK
<1>4. /\ threads' \in [Conns -> 0 .. MaxThreads]
      /\ \A d \in Conns : threads'[d] = IF d = c THEN threads[c] + 1 ELSE threads[d]
    BY <1>1, <1>2, <1>3 DEF ThreadsOK
<1>5. \A u \in Everyone : u # t => pc'[u] = pc[u] /\ conn'[u] = conn[u]
    BY <1>1 DEF Get, Goto, LocalsOK
<1>6. conn'[t] = c
    BY <1>1 DEF PoolInv, Numbered, Everyone
<1>7. ASSUME NEW u \in Everyone, pc'[u] = "using"
      PROVE  u \in Tasks /\ threads'[conn'[u]] > 0
  <2>1. CASE u = t
      BY <1>2, <1>3, <1>4, <1>6, <2>1
  <2>2. CASE u # t
    <3>1. pc[u] = "using" /\ conn'[u] = conn[u]
        BY <1>5, <1>7, <2>2
    <3>2. conn[u] \in Conns
        BY <3>1, OpenedInBudget DEF PoolInv, Numbered, Carried
    <3>3. u \in Tasks /\ threads[conn[u]] > 0 /\ threads[conn[u]] \in 0 .. MaxThreads
        BY <3>1, <3>2 DEF ThreadsOK, Working
    <3>4. QED
        BY <1>3, <1>4, <3>1, <3>2, <3>3
  <2>3. QED
      BY <2>1, <2>2
<1>8. QED
    BY <1>4, <1>7 DEF ThreadsOK, Working

\* A thread that ends leaves those of other connections alone.
LEMMA ThreadFinishes ==
    ASSUME LocalsOK, Budget, PoolInv, ThreadsOK, NEW t \in Tasks, Finished(t)
    PROVE  ThreadsOK'
<1> DEFINE c == conn[t]
<1>1. pc[t] = "using" /\ t \in Everyone /\ UNCHANGED conn
    BY DEF Finished, Everyone
<1>2. c \in Conns
    BY <1>1, OpenedInBudget DEF PoolInv, Numbered, Carried
<1>3. threads[c] \in 0 .. MaxThreads /\ threads[c] - 1 \in 0 .. MaxThreads
    BY <1>1, <1>2, PoolAssumption DEF ThreadsOK, Working
<1>4. /\ threads' \in [Conns -> 0 .. MaxThreads]
      /\ \A d \in Conns : d # c => threads'[d] = threads[d]
    BY <1>2, <1>3 DEF ThreadsOK, Finished
<1>5. \A u \in Everyone : pc'[u] = "using" => pc[u] = "using" /\ u # t
    BY DEF Finished, Goto, LocalsOK
<1>6. \A u \in Everyone : pc[u] = "using" /\ u # t => conn[u] # c /\ conn[u] \in Conns
    BY <1>1, OpenedInBudget DEF PoolInv, Numbered, Carried, OneHolder
<1>7. QED
    BY <1>1, <1>4, <1>5, <1>6 DEF ThreadsOK, Working

\* A thread nobody waits for is not the one of the connection's user.
LEMMA LateThreadFinishes ==
    ASSUME LocalsOK, PoolInv, ThreadsOK, NEW c \in Conns, LateThreadEnds(c)
    PROVE  ThreadsOK'
<1>1. threads[c] \in 0 .. MaxThreads /\ threads[c] > Cardinality(Users(c))
    BY DEF LateThreadEnds, ThreadsOK
<1>2. Users(c) = {} \/ \E u \in Tasks : Users(c) = {u}
    BY PoolAssumption DEF Users, PoolInv, OneHolder, Everyone, Conns
<1>3. threads[c] > 0 /\ \A u \in Users(c) : threads[c] > 1
  <2>1. CASE Users(c) = {}
      BY <1>1, <2>1, FS_EmptySet
  <2>2. CASE \E u \in Tasks : Users(c) = {u}
    <3>1. Cardinality(Users(c)) = 1
        BY <2>2, FS_Singleton
    <3>2. QED
        BY <1>1, <3>1, PoolAssumption
  <2>3. QED
      BY <1>2, <2>1, <2>2
<1>4. /\ threads' \in [Conns -> 0 .. MaxThreads]
      /\ \A d \in Conns : threads'[d] = IF d = c THEN threads[c] - 1 ELSE threads[d]
  <2>1. threads[c] - 1 \in 0 .. MaxThreads
      BY <1>1, <1>3, PoolAssumption
  <2>2. QED
      BY <2>1 DEF LateThreadEnds, ThreadsOK
<1>5. UNCHANGED <<pc, conn>>
    BY DEF LateThreadEnds
<1>6. ASSUME NEW u \in Everyone, pc[u] = "using"
      PROVE  u \in Tasks /\ threads'[conn[u]] > 0
  <2>1. u \in Tasks /\ threads[conn[u]] > 0
      BY <1>6 DEF ThreadsOK, Working
  <2>2. CASE conn[u] = c
      BY <1>1, <1>3, <1>4, <1>6, <2>1, <2>2 DEF Users
  <2>3. CASE conn[u] # c
      BY <1>4, <2>1, <2>3 DEF LateThreadEnds
  <2>4. QED
      BY <2>2, <2>3
<1>7. QED
    BY <1>4, <1>5, <1>6 DEF ThreadsOK, Working

LEMMA ThreadsStep ==
    ASSUME LocalsOK, Budget, PoolInv, QueueInv, ThreadsOK, [Next]_poolVars
    PROVE  ThreadsOK'
<1> DEFINE Others == /\ UNCHANGED threads
                     /\ \A u \in Everyone : pc'[u] = "using" =>
                            pc[u] = "using" /\ conn'[u] = conn[u]
<1>1. Others => ThreadsOK'
    BY DEF ThreadsOK, Working
<1>2. CASE Startup \/ \E t \in Tasks : Acquire(t)
    BY <1>1, <1>2 DEF Startup, Acquire, AcquireInitialized, Initialize, Goto, LocalsOK
<1>3. ASSUME NEW t \in Everyone, Opened(t) \/ OpenFailed(t) \/ Placed(t)
      PROVE  ThreadsOK'
  <2>1. Others
      BY <1>3 DEF Opened, OpenFailed, Placed, Goto, LocalsOK, PoolInv, Numbered
  <2>2. QED
      BY <1>1, <2>1
<1>4. ASSUME NEW t \in Tasks, Get(t) \/ Finished(t) \/ Release(t) \/ Cancel(t)
      PROVE  ThreadsOK'
  <2>1. CASE Get(t)
      BY <2>1, ThreadStarts DEF Get, QueueInv, Everyone
  <2>2. CASE Finished(t)
      BY <2>2, ThreadFinishes
  <2>3. CASE Release(t) \/ Cancel(t)
    <3>1. Others
        BY <2>3 DEF Release, Cancel, CancelInUse, CancelWaiting, Goto, LocalsOK, PoolInv,
                    Numbered
    <3>2. QED
        BY <1>1, <3>1
  <2>4. QED
      BY <1>4, <2>1, <2>2, <2>3
<1>5. CASE Shutdown \/ CloseOne \/ CloseDone \/ UNCHANGED poolVars
    BY <1>1, <1>5 DEF Shutdown, CloseOne, CloseDone, poolVars, Goto, LocalsOK
<1>6. QED
    BY <1>2, <1>3, <1>4, <1>5, LateThreadFinishes DEF Next

\* All that is proved of one state of the pool.
WholeInv ==
    /\ PoolInv
    /\ QueueInv
    /\ LocalsOK
    /\ Budget
    /\ ThreadsOK

LEMMA WholeInvariant == Spec => []WholeInv
<1>1. Init => WholeInv
  <2> SUFFICES ASSUME Init PROVE WholeInv
      OBVIOUS
  <2>1. LocalsOK
    <3>1. pc \in [Everyone -> States] /\ \A t \in Everyone : pc[t] \in {"start", "out"}
        BY DEF Init, States
    <3>2. /\ waitOn \in [Everyone -> 0 .. MaxQueues] /\ toOpen \in [Everyone -> 0 .. Size]
          /\ queue \in 0 .. MaxQueues /\ failures \in 0 .. MaxOpenFailures /\ opened \in Nat
        BY PoolAssumption DEF Init
    <3>3. initialized \in BOOLEAN
        BY DEF Init
    <3>4. QED
        BY <3>1, <3>2, <3>3 DEF LocalsOK
  <2>2. ThreadsOK
    <3>1. threads \in [Conns -> 0 .. MaxThreads]
        BY PoolAssumption DEF Init
    <3>2. Working
        BY DEF Init, Working
    <3>3. QED
        BY <3>1, <3>2 DEF ThreadsOK
  <2>3. Budget
    <3>1. Tickets = {}
        BY PoolAssumption DEF Init, Tickets, Left, Everyone
    <3>2. QED
        BY <3>1, FS_EmptySet, PoolAssumption DEF Budget, Init
  <2>4. QueueInv
      BY PoolAssumption DEF Init, QueueInv, Everyone
  <2>5. QED
      BY <2>1, <2>2, <2>3, <2>4, PoolInvInit DEF WholeInv
<1>2. WholeInv /\ [Next]_poolVars => WholeInv'
  <2> SUFFICES ASSUME WholeInv, [Next]_poolVars PROVE WholeInv'
      OBVIOUS
  <2> USE DEF WholeInv
  <2>1. LocalsOK'
      BY LocalsStep
  <2>2. Budget'
      BY <2>1, BudgetStep
  <2>3. ThreadsOK' /\ PoolInv'
      BY ThreadsStep, PoolInvStep
  <2>4. QueueInv'
      BY QueueInvStep DEF LocalsOK
  <2>5. QED
      BY <2>1, <2>2, <2>3, <2>4
<1>3. QED
    BY <1>1, <1>2, PTL DEF Spec

\* The pool's fields and its users' locals keep their types: no queue ever holds a
\* connection that was not opened, nobody opens more of them than the calls of
\* initialize asked for, and a thread that ends is one that was started.
THEOREM PoolTypeCorrect == Spec => []TypeOK
<1>1. WholeInv => TypeOK
  <2> SUFFICES ASSUME WholeInv PROVE TypeOK
      OBVIOUS
  <2>1. opened \in 0 .. (MaxQueues * Size) /\ 1 .. opened \subseteq Conns
      BY OpenedInBudget DEF WholeInv
  <2>2. /\ slots \in [Queues -> SUBSET Conns]
        /\ closed \subseteq Conns
        /\ conn \in [Everyone -> Conns \cup {NoConn}]
      BY <2>1 DEF WholeInv, PoolInv, Numbered
  <2>3. QED
      BY <2>1, <2>2 DEF WholeInv, LocalsOK, ThreadsOK, States, TypeOK
<1>2. QED
    BY <1>1, WholeInvariant, PTL

-----------------------------------------------------------------------------
(* The first queue: nothing is lost while one initialisation was enough.   *)

EmptyHanded ==
    \A t \in Everyone : pc[t] \notin {"placing", "using", "releasing"} => conn[t] = NoConn

\* The lifespan goes its own way, and makes the first queue.
LifespanInv ==
    /\ pc[Lifespan] \in {"start", "opening", "placing", "serving", "closing", "closed"}
    /\ queue = 0 => pc[Lifespan] = "start"
    /\ pc[Lifespan] = "start" =>
          queue = 0 /\ opened = 0 /\ closed = {} /\ slots = [q \in Queues |-> {}]

\* As long as the first queue is the only one, no task opens a connection: they come
\* when the lifespan has opened them all, or make another queue.
OneOpener ==
    queue <= 1 =>
        /\ \A t \in Tasks : pc[t] \notin {"opening", "placing"}
        /\ \A t \in Everyone : pc[t] \in {"getting", "placing", "releasing"} => waitOn[t] = 1
        /\ initialized \/ \A t \in Tasks : pc[t] = "out"
        /\ initialized => pc[Lifespan] \in {"serving", "closing", "closed"}

Filling ==
    /\ pc[Lifespan] = "opening" =>
          slots[1] = 1 .. opened /\ opened + toOpen[Lifespan] = Size
    /\ pc[Lifespan] = "placing" =>
          /\ slots[1] = 1 .. (opened - 1)
          /\ conn[Lifespan] = opened
          /\ opened + toOpen[Lifespan] = Size + 1

\* Each of the Size connections is in the queue or in somebody's hands.
Complete ==
    initialized /\ pc[Lifespan] = "serving" =>
        /\ opened = Size
        /\ \A c \in 1 .. Size : c \in slots[1] \/ \E t \in Everyone : conn[t] = c

FirstQueueInv ==
    /\ EmptyHanded
    /\ LifespanInv
    /\ OneOpener
    /\ queue = 1 => Filling /\ Complete

LEMMA EmptyHandedStep ==
    ASSUME EmptyHanded, LocalsOK, Numbered, [Next]_poolVars
    PROVE  EmptyHanded'
<1> USE DEF EmptyHanded, LocalsOK, Numbered, Goto, Everyone
<1>1. CASE Startup \/ \E t \in Tasks : Acquire(t)
    BY <1>1 DEF Startup, Acquire, AcquireInitialized, Initialize
<1>2. ASSUME NEW t \in Everyone, Opened(t) \/ OpenFailed(t) \/ Placed(t)
      PROVE  EmptyHanded'
    BY <1>2 DEF Opened, OpenFailed, Placed
<1>3. ASSUME NEW t \in Tasks, Get(t) \/ Finished(t) \/ Release(t) \/ Cancel(t)
      PROVE  EmptyHanded'
    BY <1>3 DEF Get, Finished, Release, Cancel, CancelInUse, CancelWaiting
<1>4. CASE \/ \E c \in Conns : LateThreadEnds(c)
           \/ Shutdown \/ CloseOne \/ CloseDone \/ UNCHANGED poolVars
    BY <1>4 DEF LateThreadEnds, Shutdown, CloseOne, CloseDone, poolVars
<1>5. QED
    BY <1>1, <1>2, <1>3, <1>4 DEF Next

LEMMA LifespanStep ==
    ASSUME LifespanInv, OneOpener, LocalsOK, [Next]_poolVars
    PROVE  LifespanInv'
<1> USE PoolAssumption DEF LifespanInv, LocalsOK, Goto, Everyone
<1>1. CASE Startup \/ \E t \in Tasks : Acquire(t)
    BY <1>1 DEF Startup, Acquire, AcquireInitialized, Initialize, Serving
<1>2. ASSUME NEW t \in Everyone, Opened(t) \/ OpenFailed(t) \/ Placed(t)
      PROVE  LifespanInv'
  <2>1. pc[Lifespan] # "start" /\ pc'[Lifespan] # "start"
      BY <1>2 DEF Opened, OpenFailed, Placed, OneOpener
  <2>2. pc'[Lifespan] \in {"opening", "placing", "serving", "closing", "closed"}
    <3>1. CASE t = Lifespan
        BY <1>2, <3>1 DEF Opened, OpenFailed, Placed
    <3>2. CASE t # Lifespan
        BY <1>2, <2>1, <3>2 DEF Opened, OpenFailed, Placed
    <3>3. QED
        BY <3>1, <3>2
  <2>3. queue' = queue
      BY <1>2 DEF Opened, OpenFailed, Placed
  <2>4. QED
      BY <2>1, <2>2, <2>3
<1>3. ASSUME NEW t \in Tasks, Get(t) \/ Finished(t) \/ Release(t) \/ Cancel(t)
      PROVE  LifespanInv'
  <2>1. pc[t] # "out" /\ t # Lifespan
      BY <1>3 DEF Get, Finished, Release, Cancel, CancelInUse, CancelWaiting
  <2>2. pc[Lifespan] # "start"
      BY <2>1 DEF OneOpener
  <2>3. queue' = queue /\ pc'[Lifespan] = pc[Lifespan]
      BY <1>3, <2>1 DEF Get, Finished, Release, Cancel, CancelInUse, CancelWaiting
  <2>4. QED
      BY <2>2, <2>3
<1>4. CASE \/ \E c \in Conns : LateThreadEnds(c)
           \/ Shutdown \/ CloseOne \/ CloseDone \/ UNCHANGED poolVars
    BY <1>4 DEF LateThreadEnds, Shutdown, CloseOne, CloseDone, poolVars
<1>5. QED
    BY <1>1, <1>2, <1>3, <1>4 DEF Next

LEMMA OneOpenerStep ==
    ASSUME OneOpener, LifespanInv, LocalsOK, QueueInv, [Next]_poolVars
    PROVE  OneOpener'
<1> USE PoolAssumption DEF OneOpener, LocalsOK, QueueInv, Goto, Everyone
<1>1. CASE Startup \/ \E t \in Tasks : Acquire(t)
    BY <1>1 DEF Startup, Acquire, AcquireInitialized, Initialize, Serving, LifespanInv
<1>2. ASSUME NEW t \in Everyone, Opened(t) \/ OpenFailed(t) \/ Placed(t)
      PROVE  OneOpener'
  <2>1. CASE queue <= 1
    <3>1. t = Lifespan
        BY <1>2, <2>1 DEF Opened, OpenFailed, Placed
    <3>2. CASE Opened(t)
        BY <2>1, <3>1, <3>2 DEF Opened
    <3>3. CASE OpenFailed(t)
        BY <2>1, <3>1, <3>3 DEF OpenFailed
    <3>4. CASE Placed(t)
        BY <2>1, <3>1, <3>4 DEF Placed
    <3>5. QED
        BY <1>2, <3>2, <3>3, <3>4
  <2>2. CASE ~(queue <= 1)
      BY <1>2, <2>2 DEF Opened, OpenFailed, Placed
  <2>3. QED
      BY <2>1, <2>2
<1>3. ASSUME NEW t \in Tasks, Get(t) \/ Finished(t) \/ Release(t) \/ Cancel(t)
      PROVE  OneOpener'
  <2>1. t # Lifespan /\ pc[t] # "out"
      BY <1>3 DEF Get, Finished, Release, Cancel, CancelInUse, CancelWaiting
  <2>2. UNCHANGED <<initialized, queue>> /\ pc'[Lifespan] = pc[Lifespan]
      BY <1>3, <2>1 DEF Get, Finished, Release, Cancel, CancelInUse, CancelWaiting
  <2>3. pc'[t] \notin {"opening", "placing"}
      BY <1>3 DEF Get, Finished, Release, Cancel, CancelInUse, CancelWaiting
  <2>4. \A u \in Everyone : u # t => pc'[u] = pc[u] /\ waitOn'[u] = waitOn[u]
      BY <1>3 DEF Get, Finished, Release, Cancel, CancelInUse, CancelWaiting
  <2>5. pc'[t] \in {"getting", "releasing"} => waitOn'[t] = queue
      BY <1>3 DEF Get, Finished, Release, Cancel, CancelInUse, CancelWaiting
  <2>6. queue <= 1 => initialized /\ queue = 1
      BY <1>3, <2>1
  <2>7. QED
      BY <2>1, <2>2, <2>3, <2>4, <2>5, <2>6
<1>4. CASE \/ \E c \in Conns : LateThreadEnds(c)
           \/ Shutdown \/ CloseOne \/ CloseDone \/ UNCHANGED poolVars
    BY <1>4 DEF LateThreadEnds, Shutdown, CloseOne, CloseDone, poolVars
<1>5. QED
    BY <1>1, <1>2, <1>3, <1>4 DEF Next

\* The lifespan fills the first queue with one connection after the other.
LEMMA LifespanFills ==
    ASSUME WholeInv, FirstQueueInv, queue = 1, NEW t \in Everyone,
           Opened(t) \/ OpenFailed(t) \/ Placed(t)
    PROVE  Filling' /\ Complete'
<1> USE DEF Everyone
<1>1. /\ t = Lifespan
      /\ ~initialized
    BY DEF FirstQueueInv, OneOpener, Opened, OpenFailed, Placed
<1>2. DOMAIN pc = Everyone /\ DOMAIN toOpen = Everyone /\ DOMAIN conn = Everyone
    BY DEF WholeInv, LocalsOK, PoolInv, Numbered
<1>3. toOpen[t] \in Nat /\ opened \in Nat /\ Size \in Nat
    BY PoolAssumption DEF WholeInv, LocalsOK
<1>4. CASE Opened(t)
  <2>1. /\ pc'[t] = "placing" /\ conn'[t] = opened + 1 /\ opened' = opened + 1
        /\ slots' = slots /\ toOpen' = toOpen
      BY <1>2, <1>4 DEF Opened, Goto
  <2>2. slots[1] = 1 .. opened /\ opened + toOpen[t] = Size
      BY <1>1, <1>4 DEF Opened, FirstQueueInv, Filling
  <2>3. 1 .. opened = 1 .. (opened' - 1) /\ opened' + toOpen[t] = Size + 1
      BY <1>3, <2>1, <2>2
  <2>4. QED
      BY <1>1, <2>1, <2>2, <2>3 DEF Filling, Complete
<1>5. CASE OpenFailed(t)
    BY <1>1, <1>2, <1>5 DEF OpenFailed, Goto, Filling, Complete
<1>6. CASE Placed(t)
  <2>1. slots[1] = 1 .. (opened - 1) /\ conn[t] = opened /\ opened + toOpen[t] = Size + 1
      BY <1>1, <1>6 DEF Placed, FirstQueueInv, Filling
  <2>2. waitOn[t] = 1 /\ 1 \in Queues
      BY <1>6 DEF Placed, FirstQueueInv, OneOpener, WholeInv, LocalsOK, Queues
  <2>3. opened > 0
      BY <1>3, <1>6, <2>1 DEF Placed, WholeInv, PoolInv, Numbered, Carried
  <2>4. slots'[1] = slots[1] \cup {opened}
      BY <1>6, <2>1, <2>2 DEF Placed, WholeInv, PoolInv, Numbered
  <2>5. slots'[1] = 1 .. opened
      BY <1>3, <2>1, <2>3, <2>4
  <2>6. opened' = opened /\ toOpen'[t] = toOpen[t] - 1
      BY <1>2, <1>6 DEF Placed
  <2>7. \/ toOpen[t] > 1 /\ pc'[t] = "opening" /\ initialized' = initialized
        \/ toOpen[t] = 1 /\ pc'[t] = "serving"
      BY <1>1, <1>2, <1>6 DEF Placed, Goto
  <2>8. CASE toOpen[t] > 1 /\ pc'[t] = "opening" /\ initialized' = initialized
    <3>1. opened' + toOpen'[t] = Size
        BY <1>3, <2>1, <2>6
    <3>2. QED
        BY <1>1, <2>5, <2>6, <2>8, <3>1 DEF Filling, Complete
  <2>9. CASE toOpen[t] = 1 /\ pc'[t] = "serving"
    <3>1. opened = Size
        BY <1>3, <2>1, <2>9
    <3>2. QED
        BY <1>1, <2>5, <2>6, <2>9, <3>1 DEF Filling, Complete
  <2>10. QED
      BY <2>7, <2>8, <2>9
<1>7. QED
    BY <1>4, <1>5, <1>6

\* While the pool serves, a task that gives a connection back finds room for it.
LEMMA RoomToRelease ==
    ASSUME WholeInv, FirstQueueInv, queue = 1, initialized, pc[Lifespan] = "serving",
           NEW t \in Tasks, pc[t] = "releasing"
    PROVE  HasRoom(waitOn[t])
<1>1. waitOn[t] = 1 /\ opened = Size /\ t \in Everyone /\ 1 \in Queues
    BY DEF FirstQueueInv, OneOpener, Complete, Everyone, WholeInv, LocalsOK, Queues
<1>2. conn[t] \in 1 .. Size /\ conn[t] \notin slots[1] /\ slots[1] \subseteq 1 .. Size
    BY <1>1 DEF WholeInv, PoolInv, Numbered, Carried, OneHolder
<1>3. IsFiniteSet(1 .. Size) /\ Cardinality(1 .. Size) = Size
    BY FS_Interval, PoolAssumption
<1>4. slots[1] \subseteq (1 .. Size) \ {conn[t]}
    BY <1>2
<1>5. /\ IsFiniteSet((1 .. Size) \ {conn[t]})
      /\ Cardinality((1 .. Size) \ {conn[t]}) = Size - 1
    BY <1>2, <1>3, FS_RemoveElement
<1>6. IsFiniteSet(slots[1]) /\ Cardinality(slots[1]) <= Size - 1
    BY <1>4, <1>5, FS_Subset
<1>7. Cardinality(slots[1]) \in Nat
    BY <1>6, FS_CardinalityType
<1>8. QED
    BY <1>1, <1>6, <1>7, PoolAssumption DEF HasRoom

\* Tasks move connections between the queue and their hands.
LEMMA TasksLoseNothing ==
    ASSUME WholeInv, FirstQueueInv, queue = 1, NEW t \in Tasks,
           Get(t) \/ Finished(t) \/ Release(t) \/ Cancel(t)
    PROVE  Filling' /\ Complete'
<1>1. t \in Everyone /\ t # Lifespan /\ Lifespan \in Everyone /\ pc[t] # "out"
    BY PoolAssumption
    DEF Everyone, Get, Finished, Release, Cancel, CancelInUse, CancelWaiting
<1>2. initialized /\ pc[Lifespan] \in {"serving", "closing", "closed"}
    BY <1>1 DEF FirstQueueInv, OneOpener
<1>3. DOMAIN pc = Everyone /\ DOMAIN conn = Everyone
    BY DEF WholeInv, PoolInv, Numbered
<1>4. pc'[Lifespan] = pc[Lifespan] /\ UNCHANGED <<initialized, opened>>
    BY <1>1, <1>3
    DEF Get, Finished, Release, Cancel, CancelInUse, CancelWaiting, Goto
<1>5. Filling'
    BY <1>2, <1>4 DEF Filling
<1>6. ASSUME pc[Lifespan] = "serving", NEW c \in 1 .. Size
      PROVE  c \in slots'[1] \/ \E u \in Everyone : conn'[u] = c
  <2>1. c \in slots[1] \/ \E u \in Everyone : conn[u] = c
      BY <1>2, <1>6 DEF FirstQueueInv, Complete
  <2>2. \A u \in Everyone : u # t => conn'[u] = conn[u]
      BY <1>1, <1>3 DEF Get, Finished, Release, Cancel, CancelInUse, CancelWaiting
  <2>3. pc[t] \in {"getting", "releasing"} => waitOn[t] = 1
      BY <1>1 DEF FirstQueueInv, OneOpener
  <2>4. 1 \in Queues /\ DOMAIN slots = Queues
      BY DEF WholeInv, LocalsOK, PoolInv, Numbered, Queues
  <2>5. c # NoConn
      BY PoolAssumption
  <2>6. CASE Get(t)
    <3>1. conn[t] = NoConn
        BY <1>1, <2>6 DEF Get, FirstQueueInv, EmptyHanded
    <3>2. \A d \in slots[1] : d \in slots'[1] \/ conn'[t] = d
        BY <1>1, <1>3, <2>3, <2>4, <2>6 DEF Get
    <3>3. QED
        BY <1>1, <2>1, <2>2, <2>5, <3>1, <3>2
  <2>7. CASE Finished(t) \/ CancelInUse(t)
      BY <2>1, <2>7 DEF Finished, CancelInUse
  <2>8. CASE Release(t)
    <3>1. slots'[1] = slots[1] \cup {conn[t]}
        BY <2>3, <2>4, <2>8 DEF Release
    <3>2. QED
        BY <2>1, <2>2, <3>1
  <2>9. CASE CancelWaiting(t)
    <3>1. pc[t] # "releasing"
        BY <1>2, <1>6, <2>9, RoomToRelease DEF CancelWaiting
    <3>2. conn[t] = NoConn
        BY <1>1, <2>9, <3>1 DEF CancelWaiting, FirstQueueInv, OneOpener, EmptyHanded
    <3>3. slots' = slots
        BY <2>9 DEF CancelWaiting
    <3>4. QED
        BY <2>1, <2>2, <2>5, <3>2, <3>3
  <2>10. QED
      BY <2>6, <2>7, <2>8, <2>9 DEF Cancel
<1>7. Complete'
    BY <1>2, <1>4, <1>6 DEF FirstQueueInv, Complete
<1>8. QED
    BY <1>5, <1>7

LEMMA FirstQueueStep ==
    ASSUME WholeInv, FirstQueueInv, [Next]_poolVars
    PROVE  FirstQueueInv'
<1>1. EmptyHanded' /\ LifespanInv' /\ OneOpener'
    BY EmptyHandedStep, LifespanStep, OneOpenerStep DEF WholeInv, PoolInv, FirstQueueInv
<1>2. ASSUME queue' = 1
      PROVE  Filling' /\ Complete'
  <2> USE <1>2
  <2>1. CASE Startup
    <3>1. queue = 0
        BY <2>1 DEF Startup, Initialize, WholeInv, LocalsOK
    <3>2. opened = 0 /\ slots = [q \in Queues |-> {}] /\ 1 \in Queues
        BY <2>1, PoolAssumption
        DEF Startup, FirstQueueInv, LifespanInv, Initialize, WholeInv, LocalsOK, Queues
    <3>3. /\ pc'[Lifespan] = "opening" /\ toOpen'[Lifespan] = Size
          /\ UNCHANGED <<opened, slots>>
        BY <2>1 DEF Startup, Initialize, Goto, WholeInv, LocalsOK, Everyone
    <3>4. slots'[1] = 1 .. opened' /\ opened' + toOpen'[Lifespan] = Size
        BY <3>2, <3>3, PoolAssumption
    <3>5. QED
        BY <3>3, <3>4 DEF Filling, Complete
  <2>2. CASE queue = 1
    <3> USE <2>2
    <3>1. ASSUME NEW t \in Tasks, Acquire(t)
          PROVE  Filling' /\ Complete'
      <4>1. AcquireInitialized(t)
          BY <3>1 DEF Acquire, Initialize
      <4>2. UNCHANGED <<initialized, opened, slots, conn, toOpen>>
          BY <4>1 DEF AcquireInitialized
      <4>3. pc'[Lifespan] = pc[Lifespan]
          BY <4>1, PoolAssumption DEF AcquireInitialized, Goto, WholeInv, LocalsOK, Everyone
      <4>4. QED
          BY <4>2, <4>3 DEF FirstQueueInv, Filling, Complete
    <3>2. ASSUME NEW t \in Everyone, Opened(t) \/ OpenFailed(t) \/ Placed(t)
          PROVE  Filling' /\ Complete'
        BY <3>2, LifespanFills
    <3>3. ASSUME NEW t \in Tasks, Get(t) \/ Finished(t) \/ Release(t) \/ Cancel(t)
          PROVE  Filling' /\ Complete'
        BY <3>3, TasksLoseNothing
    <3>4. CASE Shutdown \/ CloseOne \/ CloseDone
        BY <3>4 DEF Shutdown, CloseOne, CloseDone, Goto, WholeInv, LocalsOK, Everyone,
                    Filling, Complete
    <3>5. CASE (\E c \in Conns : LateThreadEnds(c)) \/ UNCHANGED poolVars
        BY <3>5 DEF LateThreadEnds, poolVars, FirstQueueInv, Filling, Complete
    <3>6. CASE Startup
        BY <3>6 DEF Startup, Initialize
    <3>7. QED
        BY <3>1, <3>2, <3>3, <3>4, <3>5, <3>6 DEF Next
  <2>3. Startup \/ queue' = queue \/ \E t \in Tasks : Acquire(t) /\ queue # 0
      BY DEF Next, Opened, OpenFailed, Placed, Get, Finished, Release, Cancel, CancelInUse,
             CancelWaiting, LateThreadEnds, Shutdown, CloseOne, CloseDone, poolVars,
             Acquire, Serving, FirstQueueInv, LifespanInv
  <2>4. CASE \E t \in Tasks : Acquire(t) /\ queue # 0
      BY <2>2, <2>4 DEF Acquire, AcquireInitialized, Initialize, WholeInv, LocalsOK
  <2>5. QED
      BY <2>1, <2>2, <2>3, <2>4
<1>3. QED
    BY <1>1, <1>2 DEF FirstQueueInv

\* No connection gets lost while the pool serves from its first queue, whatever is
\* cancelled, and wherever: those in the queue and those in use are the Size
\* connections that the pool opened.
THEOREM NothingGetsLost == Spec => []NothingLost
<1>1. Init => FirstQueueInv
    BY PoolAssumption
    DEF Init, FirstQueueInv, EmptyHanded, LifespanInv, OneOpener, Everyone
<1>2. WholeInv /\ FirstQueueInv /\ [Next]_poolVars => FirstQueueInv'
    BY FirstQueueStep
<1>3. WholeInv /\ FirstQueueInv => NothingLost
  <2> SUFFICES ASSUME WholeInv, FirstQueueInv, initialized, queue = 1,
                      pc[Lifespan] = "serving"
               PROVE  Cardinality(slots[queue] \cup Held) = Size
      BY DEF NothingLost, InitializedOnce
  <2>1. /\ opened = Size
        /\ \A c \in 1 .. Size : c \in slots[1] \/ \E t \in Everyone : conn[t] = c
      BY DEF FirstQueueInv, Complete
  <2>2. slots[1] \subseteq 1 .. Size
    <3>1. 1 \in Queues
        BY DEF WholeInv, LocalsOK, Queues
    <3>2. QED
        BY <2>1, <3>1 DEF WholeInv, PoolInv, Numbered
  <2>3. Held \subseteq 1 .. Size
      BY <2>1 DEF WholeInv, PoolInv, Numbered, Held
  <2>4. NoConn \notin 1 .. Size
      BY PoolAssumption
  <2>5. slots[1] \cup Held = 1 .. Size
      BY <2>1, <2>2, <2>3, <2>4 DEF Held
  <2>6. Cardinality(1 .. Size) = Size
      BY FS_Interval, PoolAssumption
  <2>7. QED
      BY <2>5, <2>6
<1>4. QED
    BY <1>1, <1>2, <1>3, WholeInvariant, PTL DEF Spec
=============================================================================
