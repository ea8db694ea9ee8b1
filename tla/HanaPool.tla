------------------------------ MODULE HanaPool ------------------------------
(***************************************************************************)
(* src/storage/pool.py: the asyncio pool of HANA connections.  Every await *)
(* is a point where another task may run, and the work on a connection is  *)
(* done by a thread (asyncio.to_thread) that nothing can stop.             *)
(*                                                                         *)
(* Tasks are the users of the repositories: the pipeline, API requests,    *)
(* agent tools.  The lifespan of the API initialises the pool before any   *)
(* of them runs, without requiring that it succeeds, and closes it at the  *)
(* end.  Connections are numbered in the order they were opened.           *)
(***************************************************************************)
EXTENDS Naturals, FiniteSets

CONSTANTS
    Tasks,
    Lifespan,           \* the lifespan's own task
    Size,               \* settings.hana_pool_size
    Cancellable,        \* tasks that run under asyncio.wait_for (agent tools)
    NoConn,
    MaxQueues,          \* bound: calls of initialize
    MaxOpenFailures,    \* bound: connections HANA refuses
    MaxThreads          \* bound: threads left at work on one connection

ASSUME PoolAssumption ==
    /\ Lifespan \notin Tasks
    /\ Size \in Nat \ {0}
    /\ Cancellable \subseteq Tasks
    /\ MaxQueues \in Nat
    /\ MaxOpenFailures \in Nat
    /\ MaxThreads \in Nat \ {0}
    /\ NoConn \notin Nat

Everyone == Tasks \cup {Lifespan}
Conns == 1 .. (MaxQueues * Size)
Queues == 1 .. MaxQueues

VARIABLES
    initialized,    \* _initialized
    queue,          \* _queue: the number of the current queue, 0 for None
    slots,          \* slots[q]: the connections in queue q
    opened,         \* connections opened so far
    closed,         \* connections closed by close()
    threads,        \* threads[c]: threads at work on connection c
    pc,             \* where each task is
    conn,           \* the connection in each task's hands
    waitOn,         \* the queue whose put or get each task called
    toOpen,         \* connections this task's initialize still has to open
    failures

poolVars == <<initialized, queue, slots, opened, closed, threads, pc, conn,
              waitOn, toOpen, failures>>

Init ==
    /\ initialized = FALSE
    /\ queue = 0
    /\ slots = [q \in Queues |-> {}]
    /\ opened = 0
    /\ closed = {}
    /\ threads = [c \in Conns |-> 0]
    /\ pc = [t \in Everyone |-> IF t = Lifespan THEN "start" ELSE "out"]
    /\ conn = [t \in Everyone |-> NoConn]
    /\ waitOn = [t \in Everyone |-> 0]
    /\ toOpen = [t \in Everyone |-> 0]
    /\ failures = 0

Goto(t, where) == pc' = [pc EXCEPT ![t] = where]

Serving == pc[Lifespan] \in {"serving", "closing", "closed"}
HasRoom(q) == Cardinality(slots[q]) < Size

-----------------------------------------------------------------------------
(* initialize                                                              *)

\* Mutant: one connection too many.
InitializeOneMore(t) ==
    /\ queue < MaxQueues
    /\ queue' = queue + 1
    /\ toOpen' = [toOpen EXCEPT ![t] = Size + 1]
    /\ Goto(t, "opening")
    /\ UNCHANGED <<initialized, slots, opened, closed, threads, conn, waitOn,
                   failures>>

\* A new queue replaces the old one before the first connection is opened.
Initialize(t) ==
    /\ queue < MaxQueues
    /\ queue' = queue + 1
    /\ toOpen' = [toOpen EXCEPT ![t] = Size]
    /\ Goto(t, "opening")
    /\ UNCHANGED <<initialized, slots, opened, closed, threads, conn, waitOn,
                   failures>>

Startup == pc[Lifespan] = "start" /\ Initialize(Lifespan)

\* The connect thread returns; put is called on the queue that is current now.
Opened(t) ==
    /\ pc[t] = "opening"
    /\ opened' = opened + 1
    /\ conn' = [conn EXCEPT ![t] = opened + 1]
    /\ waitOn' = [waitOn EXCEPT ![t] = queue]
    /\ Goto(t, "placing")
    /\ UNCHANGED <<initialized, queue, slots, closed, threads, toOpen, failures>>

\* The exception leaves initialize, and acquire with it; the lifespan logs it and
\* serves all the same.
OpenFailed(t) ==
    /\ pc[t] = "opening"
    /\ failures < MaxOpenFailures
    /\ failures' = failures + 1
    /\ toOpen' = [toOpen EXCEPT ![t] = 0]
    /\ Goto(t, IF t = Lifespan THEN "serving" ELSE "out")
    /\ UNCHANGED <<initialized, queue, slots, opened, closed, threads, conn, waitOn>>

\* The put takes effect; after the last one an acquire goes on to its get.
Placed(t) ==
    /\ pc[t] = "placing"
    /\ HasRoom(waitOn[t])
    /\ slots' = [slots EXCEPT ![waitOn[t]] = @ \cup {conn[t]}]
    /\ conn' = [conn EXCEPT ![t] = NoConn]
    /\ toOpen' = [toOpen EXCEPT ![t] = @ - 1]
    /\ \/ /\ toOpen[t] > 1
          /\ Goto(t, "opening")
          /\ UNCHANGED <<initialized, waitOn>>
       \/ /\ toOpen[t] = 1
          /\ initialized' = TRUE
          /\ Goto(t, IF t = Lifespan THEN "serving" ELSE "getting")
          /\ waitOn' = [waitOn EXCEPT ![t] = queue]
    /\ UNCHANGED <<queue, opened, closed, threads, failures>>

-----------------------------------------------------------------------------
(* acquire                                                                 *)

AcquireInitialized(t) ==
    /\ initialized
    /\ Goto(t, "getting")
    /\ waitOn' = [waitOn EXCEPT ![t] = queue]
    /\ UNCHANGED <<initialized, queue, slots, opened, closed, threads, conn, toOpen,
                   failures>>

Acquire(t) ==
    /\ pc[t] = "out"
    /\ Serving
    /\ AcquireInitialized(t) \/ (~initialized /\ Initialize(t))

\* get returns; the body of the `async with` starts its thread.
Get(t) ==
    /\ pc[t] = "getting"
    /\ \E c \in slots[waitOn[t]] :
          /\ threads[c] < MaxThreads
          /\ conn' = [conn EXCEPT ![t] = c]
          /\ slots' = [slots EXCEPT ![waitOn[t]] = @ \ {c}]
          /\ threads' = [threads EXCEPT ![c] = @ + 1]
    /\ Goto(t, "using")
    /\ UNCHANGED <<initialized, queue, opened, closed, waitOn, toOpen, failures>>

\* Mutant: no `finally`: an exception leaves without giving the connection back.
FinishedOrLost(t) ==
    /\ pc[t] = "using"
    /\ threads' = [threads EXCEPT ![conn[t]] = @ - 1]
    /\ \/ /\ waitOn' = [waitOn EXCEPT ![t] = queue]
          /\ Goto(t, "releasing")
          /\ UNCHANGED conn
       \/ /\ conn' = [conn EXCEPT ![t] = NoConn]
          /\ Goto(t, "out")
          /\ UNCHANGED waitOn
    /\ UNCHANGED <<initialized, queue, slots, opened, closed, toOpen, failures>>

\* The thread ends, with a result or an exception; `finally` calls put on the
\* queue that is current now.
Finished(t) ==
    /\ pc[t] = "using"
    /\ threads' = [threads EXCEPT ![conn[t]] = @ - 1]
    /\ waitOn' = [waitOn EXCEPT ![t] = queue]
    /\ Goto(t, "releasing")
    /\ UNCHANGED <<initialized, queue, slots, opened, closed, conn, toOpen, failures>>

Release(t) ==
    /\ pc[t] = "releasing"
    /\ HasRoom(waitOn[t])
    /\ slots' = [slots EXCEPT ![waitOn[t]] = @ \cup {conn[t]}]
    /\ conn' = [conn EXCEPT ![t] = NoConn]
    /\ Goto(t, "out")
    /\ UNCHANGED <<initialized, queue, opened, closed, threads, waitOn, toOpen, failures>>

-----------------------------------------------------------------------------
(* Cancellation, at the await where the task is suspended.                 *)

\* In the body: `finally` still puts the connection back; the thread goes on.
CancelInUse(t) ==
    /\ pc[t] = "using"
    /\ waitOn' = [waitOn EXCEPT ![t] = queue]
    /\ Goto(t, "releasing")
    /\ UNCHANGED <<initialized, queue, slots, opened, closed, threads, conn, toOpen,
                   failures>>

\* Anywhere else: the await raises, and a connection in the task's hands is lost.
\* A put that has room does not suspend.
CancelWaiting(t) ==
    /\ \/ pc[t] \in {"getting", "opening"}
       \/ pc[t] \in {"placing", "releasing"} /\ ~HasRoom(waitOn[t])
    /\ conn' = [conn EXCEPT ![t] = NoConn]
    /\ toOpen' = [toOpen EXCEPT ![t] = 0]
    /\ Goto(t, "out")
    /\ UNCHANGED <<initialized, queue, slots, opened, closed, threads, waitOn, failures>>

Cancel(t) == t \in Cancellable /\ (CancelInUse(t) \/ CancelWaiting(t))

Users(c) == {t \in Tasks : pc[t] = "using" /\ conn[t] = c}

\* A thread whose task was cancelled comes to its end.
LateThreadEnds(c) ==
    /\ threads[c] > Cardinality(Users(c))
    /\ threads' = [threads EXCEPT ![c] = @ - 1]
    /\ UNCHANGED <<initialized, queue, slots, opened, closed, pc, conn, waitOn, toOpen,
                   failures>>

-----------------------------------------------------------------------------
(* close                                                                   *)

Shutdown ==
    /\ pc[Lifespan] = "serving"
    /\ queue > 0
    /\ Goto(Lifespan, "closing")
    /\ UNCHANGED <<initialized, queue, slots, opened, closed, threads, conn, waitOn,
                   toOpen, failures>>

\* Mutant: a closed connection stays in the queue.
CloseOneInPlace ==
    /\ pc[Lifespan] = "closing"
    /\ \E c \in slots[queue] : closed' = closed \cup {c}
    /\ UNCHANGED <<initialized, queue, slots, opened, threads, pc, conn, waitOn, toOpen,
                   failures>>

CloseOne ==
    /\ pc[Lifespan] = "closing"
    /\ \E c \in slots[queue] :
          /\ slots' = [slots EXCEPT ![queue] = @ \ {c}]
          /\ closed' = closed \cup {c}
    /\ UNCHANGED <<initialized, queue, opened, threads, pc, conn, waitOn, toOpen,
                   failures>>

CloseDone ==
    /\ pc[Lifespan] = "closing"
    /\ slots[queue] = {}
    /\ Goto(Lifespan, "closed")
    /\ UNCHANGED <<initialized, queue, slots, opened, closed, threads, conn, waitOn,
                   toOpen, failures>>

-----------------------------------------------------------------------------

Moves(t) == Opened(t) \/ Placed(t) \/ Finished(t) \/ Release(t)

Next ==
    \/ Startup
    \/ \E t \in Everyone : Opened(t) \/ OpenFailed(t) \/ Placed(t)
    \/ \E t \in Tasks : Acquire(t) \/ Get(t) \/ Finished(t) \/ Release(t) \/ Cancel(t)
    \/ \E c \in Conns : LateThreadEnds(c)
    \/ Shutdown
    \/ CloseOne
    \/ CloseDone

Spec == Init /\ [][Next]_poolVars

\* Threads end, and the event loop resumes a task whose await is over; the getters
\* of an asyncio.Queue are served first come first served, so one that waits while
\* connections come back again and again is served.
FairSpec ==
    /\ Spec
    /\ \A t \in Everyone : WF_poolVars(Moves(t))
    /\ \A t \in Tasks : SF_poolVars(Get(t))
    /\ \A c \in Conns : WF_poolVars(LateThreadEnds(c))

-----------------------------------------------------------------------------
(* Properties.                                                             *)

\* Types of the pool's fields and of its users' locals.
TypeOK ==
    /\ initialized \in BOOLEAN
    /\ queue \in 0 .. MaxQueues
    /\ slots \in [Queues -> SUBSET Conns]
    /\ opened \in 0 .. (MaxQueues * Size)
    /\ closed \subseteq Conns
    /\ threads \in [Conns -> 0 .. MaxThreads]
    /\ pc \in [Everyone -> {"start", "serving", "closing", "closed", "out", "opening",
                            "placing", "getting", "using", "releasing"}]
    /\ conn \in [Everyone -> Conns \cup {NoConn}]
    /\ waitOn \in [Everyone -> 0 .. MaxQueues]
    /\ toOpen \in [Everyone -> 0 .. Size]
    /\ failures \in 0 .. MaxOpenFailures

\* A connection is in one place: in one queue, once, or in the hands of one task,
\* and never handed out after close() closed it, whatever initialisations overlap,
\* fail or are cancelled.
OneHolder ==
    /\ \A t, u \in Everyone : conn[t] = conn[u] /\ conn[t] # NoConn => t = u
    /\ \A t \in Everyone, q \in Queues : conn[t] \notin slots[q]
    /\ \A q, r \in Queues : q # r => slots[q] \cap slots[r] = {}
    /\ \A t \in Everyone : conn[t] \notin closed

Held == {conn[t] : t \in Everyone} \ {NoConn}

\* One initialisation was enough: no task had to start another one.
InitializedOnce == queue = 1

\* No connection gets lost while the pool serves, whatever is cancelled, and
\* wherever: those in the queue and those in use are always the Size connections
\* the pool opened.
NothingLost ==
    initialized /\ InitializedOnce /\ pc[Lifespan] = "serving"
    => Cardinality(slots[queue] \cup Held) = Size

\* A task that asks for a connection gets one, even if tasks are cancelled while
\* they use theirs, unless the pool is being closed or was initialised again.
AcquireIsServed ==
    \A t \in Tasks :
        pc[t] = "getting" ~>
            pc[t] # "getting" \/ pc[Lifespan] \in {"closing", "closed"} \/ ~InitializedOnce

\* "Fixed-size pool": its queue and its users never have more than Size open
\* connections between them.
FixedSize == queue > 0 => Cardinality(slots[queue] \cup Held) <= Size
=============================================================================
