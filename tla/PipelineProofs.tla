---------------------------- MODULE PipelineProofs ----------------------------
(***************************************************************************)
(* Proofs about the fetcher, about alert delivery and about the pipeline   *)
(* that composes them, for every set of windows, pages and dedup keys,     *)
(* every TTL and every number of attempts, faults and restarts.            *)
(*                                                                         *)
(* LogFetcher.  The properties of the runs are not inductive one by one.   *)
(* FetchInv adds what they rest on: windows are numbered in the order the  *)
(* server serves them, so what is acknowledged or announced is never ahead *)
(* of the server (WindowsInOrder), the pages read so far are those before  *)
(* the loop variable (PagesInOrder), and none of the announced window's is *)
(* missing (NoPageMissed).                                                 *)
(*                                                                         *)
(* AlertDelivery.  What is accepted is a firing only because a call that   *)
(* sends has fired its key (SendingFired): the type invariant rests on it. *)
(* With it the properties of the runs are inductive together.              *)
(*                                                                         *)
(* Pipeline.  A step of the pipeline is a step of the fetcher or leaves it *)
(* alone, and likewise for alert delivery: FetchInv and AlertInv carry     *)
(* over.  CycleInv adds what run_once knows at each of its awaits.  From   *)
(* these follow that the pipeline implements WindowLedger, and the safety  *)
(* properties of the cycle.                                                *)
(***************************************************************************)
EXTENDS Pipeline, RetrainProofs, FiniteSetTheorems

-----------------------------------------------------------------------------
(* LogFetcher.                                                             *)

WindowsInOrder ==
    /\ lastWindow # NoWindow => lastWindow <= apiWindow
    /\ infoWindow # NoWindow => infoWindow <= apiWindow
    /\ fpc \in {"idle", "info"} => infoWindow = NoWindow
    /\ fpc \in {"page", "raised"} /\ infoWindow # NoWindow /\ lastWindow # NoWindow
       => lastWindow < infoWindow

PagesInOrder ==
    /\ fpc = "info" => read = {} /\ page = 1
    /\ fpc = "page" => page <= totalPages
    /\ \A r \in read : r[1] <= apiWindow /\ (fpc = "page" => r[2] < page)

NoPageMissed ==
    fpc = "page" /\ infoWindow = apiWindow =>
        /\ totalPages = Clamped(PagesOf[infoWindow])
        /\ read = {infoWindow} \X (1 .. (page - 1))

FetchInv ==
    /\ FetchTypeOK
    /\ WindowsInOrder
    /\ PagesInOrder
    /\ OnePassOverThePages
    /\ NoPageMissed
    /\ FetchedWindowIsComplete

-----------------------------------------------------------------------------
(* Type correctness.                                                       *)

\* The clamp yields a page count within the circuit-breaker.
LEMMA ClampedRange ==
    ASSUME NEW n \in Nat
    PROVE  /\ Clamped(n) \in 0 .. MAX_PAGES_PER_WINDOW
           /\ Clamped(n) <= n
           /\ n > 0 => Clamped(n) >= 1
BY FetchAssumption DEF Clamped

\* Every step of the fetcher is one of its operations.
LEMMA FetchCases ==
    ASSUME FetchNext
    PROVE  \/ Roll \/ FetchAllLogs \/ TakeResult \/ ResetWindowStart \/ FetchRestart
           \/ \E w \in {apiWindow, NoWindow} : InfoSkip(w)
           \/ \E w \in {apiWindow, NoWindow} : InfoEmptyWindow(w)
           \/ \E w \in {apiWindow, NoWindow} : InfoPages(w)
           \/ \E rows \in SUBSET {<<apiWindow, page>>} : PageAnswered(rows)
           \/ PageOutOfRange \/ PageNotLoaded \/ InfoUnavailable
           \/ GetRetried \/ GetRaised
BY DEF FetchNext, FetchStep, FetchFault, Info

\* The initial state is of the types the module declares.
LEMMA FetchTypeInit == FetchInit => FetchTypeOK
BY FetchAssumption DEF FetchInit, FetchTypeOK, Windows, Rows, Exits

\* Every operation keeps the types.
LEMMA FetchTypeStep == FetchTypeOK /\ [FetchNext]_fetchVars => FetchTypeOK'
<1> SUFFICES ASSUME FetchTypeOK, [FetchNext]_fetchVars
             PROVE  FetchTypeOK'
    OBVIOUS
<1> USE FetchAssumption
<1>1. CASE Roll
      BY <1>1 DEF Roll, callVars, FetchTypeOK, Windows, Rows, Exits
<1>2. CASE FetchAllLogs
      BY <1>2 DEF FetchAllLogs, NoLocals, callVars, FetchTypeOK, Windows, Rows, Exits
<1>3. ASSUME NEW w \in {apiWindow, NoWindow}, InfoSkip(w) PROVE FetchTypeOK'
      BY <1>3 DEF InfoSkip, Return, callVars, FetchTypeOK, Windows, Rows, Exits
<1>4. ASSUME NEW w \in {apiWindow, NoWindow}, InfoEmptyWindow(w) PROVE FetchTypeOK'
      BY <1>4 DEF InfoEmptyWindow, Return, callVars, FetchTypeOK, Windows, Rows, Exits
<1>5. ASSUME NEW w \in {apiWindow, NoWindow}, InfoPages(w) PROVE FetchTypeOK'
  <2>1. Clamped(PagesOf[apiWindow]) \in 0 .. MAX_PAGES_PER_WINDOW
      BY ClampedRange DEF FetchTypeOK
  <2>2. QED
      BY <1>5, <2>1 DEF InfoPages, FetchTypeOK, Windows, Rows, Exits
<1>6. ASSUME NEW rows \in SUBSET {<<apiWindow, page>>}, PageAnswered(rows) PROVE FetchTypeOK'
  <2>1. {<<apiWindow, page>>} \subseteq Rows
      BY DEF FetchTypeOK, Rows
  <2>2. read' \subseteq Rows /\ collected' \subseteq Rows
      BY <1>6, <2>1 DEF PageAnswered, FetchTypeOK
  <2>3. page' \in 1 .. MAX_PAGES_PER_WINDOW
      BY <1>6 DEF PageAnswered, FetchTypeOK
  <2>4. QED
      BY <1>6, <2>2, <2>3
      DEF PageAnswered, CommitWindow, Return, FetchTypeOK, Windows, Exits
<1>7. CASE PageOutOfRange
      BY <1>7 DEF PageOutOfRange, CommitWindow, Return, callVars, FetchTypeOK, Windows, Rows, Exits
<1>8. CASE InfoUnavailable
      BY <1>8 DEF InfoUnavailable, Return, callVars, FetchTypeOK, Windows, Rows, Exits
<1>9. CASE PageNotLoaded
      BY <1>9 DEF PageNotLoaded, CommitWindow, Return, callVars, FetchTypeOK, Windows, Rows, Exits
<1>10. CASE GetRetried
      BY <1>10 DEF GetRetried, callVars, FetchTypeOK, Windows, Rows, Exits
<1>11. CASE GetRaised
      BY <1>11 DEF GetRaised, callVars, FetchTypeOK, Windows, Rows, Exits
<1>12. CASE TakeResult
      BY <1>12 DEF TakeResult, NoLocals, callVars, FetchTypeOK, Windows, Rows, Exits
<1>13. CASE ResetWindowStart
      BY <1>13 DEF ResetWindowStart, callVars, FetchTypeOK, Windows, Rows, Exits
<1>14. CASE FetchRestart
      BY <1>14 DEF FetchRestart, NoLocals, callVars, FetchTypeOK, Windows, Rows, Exits
<1>15. CASE UNCHANGED fetchVars
      BY <1>15 DEF fetchVars, callVars, FetchTypeOK, Windows, Rows, Exits
<1>16. QED
      BY <1>1, <1>2, <1>3, <1>4, <1>5, <1>6, <1>7, <1>8, <1>9, <1>10, <1>11, <1>12, <1>13,
         <1>14, <1>15, FetchCases

\* Type correctness of the fetcher: _last_window_start, the counters of the page
\* loop and of _get_with_retry and the frame under construction stay in range,
\* for any server.
THEOREM FetchTypeCorrect == FetchSpec => []FetchTypeOK
BY FetchTypeInit, FetchTypeStep, PTL DEF FetchSpec

-----------------------------------------------------------------------------
(* The inductive invariant, part by part.                                  *)

\* Nothing acknowledged or announced is ever ahead of the server.
LEMMA WindowsInOrderStep ==
    ASSUME FetchTypeOK, WindowsInOrder, [FetchNext]_fetchVars
    PROVE  WindowsInOrder'
<1> USE FetchAssumption
<1>1. CASE Roll
      BY <1>1 DEF Roll, callVars, FetchTypeOK, WindowsInOrder, Windows
<1>2. CASE FetchAllLogs
      BY <1>2 DEF FetchAllLogs, NoLocals, FetchTypeOK, WindowsInOrder, Windows
<1>3. ASSUME NEW w \in {apiWindow, NoWindow}, InfoSkip(w) PROVE WindowsInOrder'
      BY <1>3 DEF InfoSkip, Return, FetchTypeOK, WindowsInOrder, Windows
<1>4. ASSUME NEW w \in {apiWindow, NoWindow}, InfoEmptyWindow(w) PROVE WindowsInOrder'
      BY <1>4 DEF InfoEmptyWindow, Return, FetchTypeOK, WindowsInOrder, Windows
<1>5. ASSUME NEW w \in {apiWindow, NoWindow}, InfoPages(w) PROVE WindowsInOrder'
      BY <1>5 DEF InfoPages, FetchTypeOK, WindowsInOrder, Windows
<1>6. ASSUME NEW rows \in SUBSET {<<apiWindow, page>>}, PageAnswered(rows) PROVE WindowsInOrder'
      BY <1>6 DEF PageAnswered, CommitWindow, Return, FetchTypeOK, WindowsInOrder, Windows
<1>7. CASE PageOutOfRange
      BY <1>7 DEF PageOutOfRange, CommitWindow, Return, FetchTypeOK, WindowsInOrder, Windows
<1>8. CASE InfoUnavailable
      BY <1>8 DEF InfoUnavailable, Return, FetchTypeOK, WindowsInOrder, Windows
<1>9. CASE PageNotLoaded
      BY <1>9 DEF PageNotLoaded, CommitWindow, Return, FetchTypeOK, WindowsInOrder, Windows
<1>10. CASE GetRetried
      BY <1>10 DEF GetRetried, FetchTypeOK, WindowsInOrder, Windows
<1>11. CASE GetRaised
      BY <1>11 DEF GetRaised, FetchTypeOK, WindowsInOrder, Windows
<1>12. CASE TakeResult
      BY <1>12 DEF TakeResult, NoLocals, FetchTypeOK, WindowsInOrder, Windows
<1>13. CASE ResetWindowStart
      BY <1>13 DEF ResetWindowStart, callVars, FetchTypeOK, WindowsInOrder, Windows
<1>14. CASE FetchRestart
      BY <1>14 DEF FetchRestart, NoLocals, FetchTypeOK, WindowsInOrder, Windows
<1>15. CASE UNCHANGED fetchVars
      BY <1>15 DEF fetchVars, callVars, FetchTypeOK, WindowsInOrder, Windows
<1>16. QED
      BY <1>1, <1>2, <1>3, <1>4, <1>5, <1>6, <1>7, <1>8, <1>9, <1>10,
         <1>11, <1>12, <1>13, <1>14, <1>15, FetchCases

\* The pages read are those before the loop variable, each of them once, from
\* windows in order.
LEMMA PagesInOrderStep ==
    ASSUME FetchTypeOK, WindowsInOrder, PagesInOrder, OnePassOverThePages, [FetchNext]_fetchVars
    PROVE  PagesInOrder' /\ OnePassOverThePages'
<1> USE FetchAssumption
<1>1. CASE Roll
      BY <1>1 DEF Roll, callVars, FetchTypeOK, PagesInOrder, OnePassOverThePages, Windows, Rows
<1>2. CASE FetchAllLogs
      BY <1>2 DEF FetchAllLogs, NoLocals, FetchTypeOK, PagesInOrder, OnePassOverThePages,
         Windows, Rows
<1>3. ASSUME NEW w \in {apiWindow, NoWindow}, InfoSkip(w)
      PROVE  PagesInOrder' /\ OnePassOverThePages'
      BY <1>3 DEF InfoSkip, Return, FetchTypeOK, PagesInOrder, OnePassOverThePages, Windows, Rows
<1>4. ASSUME NEW w \in {apiWindow, NoWindow}, InfoEmptyWindow(w)
      PROVE  PagesInOrder' /\ OnePassOverThePages'
      BY <1>4 DEF InfoEmptyWindow, Return, FetchTypeOK, PagesInOrder, OnePassOverThePages,
         Windows, Rows
<1>5. ASSUME NEW w \in {apiWindow, NoWindow}, InfoPages(w)
      PROVE  PagesInOrder' /\ OnePassOverThePages'
      BY <1>5, ClampedRange DEF InfoPages, FetchTypeOK, PagesInOrder, OnePassOverThePages,
         Windows, Rows
<1>6. ASSUME NEW rows \in SUBSET {<<apiWindow, page>>}, PageAnswered(rows)
      PROVE  PagesInOrder' /\ OnePassOverThePages'
  <2> DEFINE new == <<apiWindow, page>>
  <2>1. /\ fpc = "page" /\ apiWindow' = apiWindow /\ totalPages' = totalPages
        /\ read' = read \cup {new}
      BY <1>6 DEF PageAnswered
  <2>2. \/ page < totalPages /\ page' = page + 1 /\ fpc' = "page"
        \/ fpc' = "returned"
      BY <1>6, <2>1 DEF PageAnswered, CommitWindow, Return
  <2>3. apiWindow \in Nat /\ page \in Nat /\ totalPages \in Nat
      BY DEF FetchTypeOK, Windows
  <2>4. \A r \in read : r[1] \in Nat /\ r[2] \in Nat /\ r[1] <= apiWindow /\ r[2] < page
      BY <2>1 DEF PagesInOrder, FetchTypeOK, Rows, Windows
  <2>5. new[1] = apiWindow /\ new[2] = page
      OBVIOUS
  <2>6. PagesInOrder'
      BY <2>1, <2>2, <2>3, <2>4, <2>5 DEF PagesInOrder
  <2>7. \A r, s \in read' : /\ r[2] = s[2] => r = s
                            /\ r[2] < s[2] => r[1] <= s[1]
    <3> SUFFICES ASSUME NEW r \in read', NEW s \in read'
                 PROVE  /\ r[2] = s[2] => r = s
                        /\ r[2] < s[2] => r[1] <= s[1]
        OBVIOUS
    <3>1. CASE r \in read /\ s \in read
        BY <3>1 DEF OnePassOverThePages
    <3>2. CASE r \in read /\ s = new
        BY <3>2, <2>3, <2>4, <2>5
    <3>3. CASE r = new /\ s \in read
        BY <3>3, <2>3, <2>4, <2>5
    <3>4. CASE r = new /\ s = new
        BY <3>4, <2>3, <2>5
    <3>5. QED
        BY <2>1, <3>1, <3>2, <3>3, <3>4
  <2>8. QED
      BY <2>6, <2>7 DEF OnePassOverThePages
<1>7. CASE PageOutOfRange
      BY <1>7 DEF PageOutOfRange, CommitWindow, Return, FetchTypeOK, PagesInOrder,
         OnePassOverThePages, Windows, Rows
<1>8. CASE InfoUnavailable
      BY <1>8 DEF InfoUnavailable, Return, FetchTypeOK, PagesInOrder, OnePassOverThePages,
         Windows, Rows
<1>9. CASE PageNotLoaded
      BY <1>9 DEF PageNotLoaded, CommitWindow, Return, FetchTypeOK, PagesInOrder,
         OnePassOverThePages, Windows, Rows
<1>10. CASE GetRetried
      BY <1>10 DEF GetRetried, FetchTypeOK, PagesInOrder, OnePassOverThePages, Windows, Rows
<1>11. CASE GetRaised
      BY <1>11 DEF GetRaised, FetchTypeOK, PagesInOrder, OnePassOverThePages, Windows, Rows
<1>12. CASE TakeResult
      BY <1>12 DEF TakeResult, NoLocals, FetchTypeOK, PagesInOrder, OnePassOverThePages,
         Windows, Rows
<1>13. CASE ResetWindowStart
      BY <1>13 DEF ResetWindowStart, callVars, FetchTypeOK, PagesInOrder, OnePassOverThePages,
         Windows, Rows
<1>14. CASE FetchRestart
      BY <1>14 DEF FetchRestart, NoLocals, FetchTypeOK, PagesInOrder, OnePassOverThePages,
         Windows, Rows
<1>15. CASE UNCHANGED fetchVars
      BY <1>15 DEF fetchVars, callVars, FetchTypeOK, PagesInOrder, OnePassOverThePages, Windows,
         Rows
<1>16. QED
      BY <1>1, <1>2, <1>3, <1>4, <1>5, <1>6, <1>7, <1>8, <1>9, <1>10,
         <1>11, <1>12, <1>13, <1>14, <1>15, FetchCases

\* None of the announced window's pages is skipped while the server stays on it.
LEMMA NoPageMissedStep ==
    ASSUME FetchTypeOK, WindowsInOrder, PagesInOrder, NoPageMissed,
           FetchedWindowIsComplete, [FetchNext]_fetchVars
    PROVE  NoPageMissed' /\ FetchedWindowIsComplete'
<1> USE FetchAssumption
<1>1. CASE Roll
      BY <1>1 DEF Roll, callVars, FetchTypeOK, WindowsInOrder, PagesInOrder, NoPageMissed,
         FetchedWindowIsComplete, Windows, Rows
<1>2. CASE FetchAllLogs
      BY <1>2 DEF FetchAllLogs, NoLocals, FetchTypeOK, WindowsInOrder, PagesInOrder, NoPageMissed,
         FetchedWindowIsComplete, Windows, Rows
<1>3. ASSUME NEW w \in {apiWindow, NoWindow}, InfoSkip(w)
      PROVE  NoPageMissed' /\ FetchedWindowIsComplete'
      BY <1>3 DEF InfoSkip, Return, FetchTypeOK, WindowsInOrder, PagesInOrder, NoPageMissed,
         FetchedWindowIsComplete, Windows, Rows
<1>4. ASSUME NEW w \in {apiWindow, NoWindow}, InfoEmptyWindow(w)
      PROVE  NoPageMissed' /\ FetchedWindowIsComplete'
      BY <1>4 DEF InfoEmptyWindow, Return, FetchTypeOK, WindowsInOrder, PagesInOrder, NoPageMissed,
         FetchedWindowIsComplete, Windows, Rows
<1>5. ASSUME NEW w \in {apiWindow, NoWindow}, InfoPages(w)
      PROVE  NoPageMissed' /\ FetchedWindowIsComplete'
  <2>1. /\ fpc = "info" /\ fpc' = "page" /\ infoWindow' = w /\ apiWindow' = apiWindow
        /\ totalPages' = Clamped(PagesOf[apiWindow]) /\ page' = page /\ read' = read
      BY <1>5 DEF InfoPages
  <2>2. page' = 1 /\ read' = {}
      BY <2>1 DEF PagesInOrder
  <2>3. {infoWindow'} \X (1 .. (page' - 1)) = {}
      BY <2>2
  <2>4. NoPageMissed'
      BY <2>1, <2>2, <2>3 DEF NoPageMissed
  <2>5. QED
      BY <2>1, <2>4 DEF FetchedWindowIsComplete
<1>6. ASSUME NEW rows \in SUBSET {<<apiWindow, page>>}, PageAnswered(rows)
      PROVE  NoPageMissed' /\ FetchedWindowIsComplete'
      BY <1>6 DEF PageAnswered, CommitWindow, Return, FetchTypeOK, WindowsInOrder, PagesInOrder,
         NoPageMissed,
         FetchedWindowIsComplete, Windows, Rows
<1>7. CASE PageOutOfRange
      BY <1>7 DEF PageOutOfRange, CommitWindow, Return, FetchTypeOK, WindowsInOrder,
         PagesInOrder, NoPageMissed,
         FetchedWindowIsComplete, Windows, Rows
<1>8. CASE InfoUnavailable
      BY <1>8 DEF InfoUnavailable, Return, FetchTypeOK, WindowsInOrder, PagesInOrder, NoPageMissed,
         FetchedWindowIsComplete, Windows, Rows
<1>9. CASE PageNotLoaded
      BY <1>9 DEF PageNotLoaded, CommitWindow, Return, FetchTypeOK, WindowsInOrder,
         PagesInOrder, NoPageMissed,
         FetchedWindowIsComplete, Windows, Rows
<1>10. CASE GetRetried
      BY <1>10 DEF GetRetried, FetchTypeOK, WindowsInOrder, PagesInOrder, NoPageMissed,
         FetchedWindowIsComplete, Windows, Rows
<1>11. CASE GetRaised
      BY <1>11 DEF GetRaised, FetchTypeOK, WindowsInOrder, PagesInOrder, NoPageMissed,
         FetchedWindowIsComplete, Windows, Rows
<1>12. CASE TakeResult
      BY <1>12 DEF TakeResult, NoLocals, FetchTypeOK, WindowsInOrder, PagesInOrder, NoPageMissed,
         FetchedWindowIsComplete, Windows, Rows
<1>13. CASE ResetWindowStart
      BY <1>13 DEF ResetWindowStart, callVars, FetchTypeOK, WindowsInOrder, PagesInOrder,
         NoPageMissed,
         FetchedWindowIsComplete, Windows, Rows
<1>14. CASE FetchRestart
      BY <1>14 DEF FetchRestart, NoLocals, FetchTypeOK, WindowsInOrder, PagesInOrder, NoPageMissed,
         FetchedWindowIsComplete, Windows, Rows
<1>15. CASE UNCHANGED fetchVars
      BY <1>15 DEF fetchVars, callVars, FetchTypeOK, WindowsInOrder, PagesInOrder, NoPageMissed,
         FetchedWindowIsComplete, Windows, Rows
<1>16. QED
      BY <1>1, <1>2, <1>3, <1>4, <1>5, <1>6, <1>7, <1>8, <1>9, <1>10,
         <1>11, <1>12, <1>13, <1>14, <1>15, FetchCases

-----------------------------------------------------------------------------
(* The theorems.                                                           *)

LEMMA FetchInvInit == FetchInit => FetchInv
BY FetchTypeInit
DEF FetchInit, FetchInv, WindowsInOrder, PagesInOrder, OnePassOverThePages,
    NoPageMissed, FetchedWindowIsComplete

LEMMA FetchInvStep == FetchInv /\ [FetchNext]_fetchVars => FetchInv'
BY FetchTypeStep, WindowsInOrderStep, PagesInOrderStep, NoPageMissedStep DEF FetchInv

\* The invariant of the fetcher, for every server and every interleaving of its
\* rolls, failures and restarts with the calls.
LEMMA FetchInvariance == FetchSpec => []FetchInv
BY FetchInvInit, FetchInvStep, PTL DEF FetchSpec

\* The window whose pages are being read, or were being read when a request raised,
\* is never the acknowledged one: a read that raised is repeated by the next poll.  (A
\* 503 does not raise, but ends the read, and acknowledges the window.)
THEOREM UnreadWindowStaysOpen == FetchSpec => []UnreadWindowIsOpen
<1>1. FetchInv => UnreadWindowIsOpen
    BY DEF FetchInv, FetchTypeOK, WindowsInOrder, UnreadWindowIsOpen, Windows
<1>2. QED
    BY <1>1, FetchInvariance, PTL

\* A read that ran to its end, with the server still on the announced window, asked
\* for every page the clamp allows and for no other.
THEOREM FetchedWindowComplete == FetchSpec => []FetchedWindowIsComplete
<1>1. FetchInv => FetchedWindowIsComplete
    BY DEF FetchInv
<1>2. QED
    BY <1>1, FetchInvariance, PTL

\* The frame under construction holds a page number once, in window order.
THEOREM PagesReadOnce == FetchSpec => []OnePassOverThePages
<1>1. FetchInv => OnePassOverThePages
    BY DEF FetchInv
<1>2. QED
    BY <1>1, FetchInvariance, PTL

\* Steps that reach the page loop or acknowledge a window respect the acknowledged
\* one.
LEMMA AdvanceStep ==
    ASSUME FetchInv, FetchNext, lastWindow # NoWindow
    PROVE  /\ fpc = "info" /\ fpc' = "page" /\ infoWindow' # NoWindow
              => infoWindow' > lastWindow
           /\ lastWindow' \notin {NoWindow, lastWindow} => lastWindow' > lastWindow
<1> DEFINE Advances == /\ fpc = "info" /\ fpc' = "page" /\ infoWindow' # NoWindow
                          => infoWindow' > lastWindow
                       /\ lastWindow' \notin {NoWindow, lastWindow}
                          => lastWindow' > lastWindow
<1> USE FetchAssumption
<1>1. CASE \/ Roll \/ FetchAllLogs \/ TakeResult \/ ResetWindowStart \/ FetchRestart
           \/ InfoUnavailable \/ GetRetried \/ GetRaised
    BY <1>1 DEF Roll, FetchAllLogs, TakeResult, ResetWindowStart, FetchRestart,
                InfoUnavailable, GetRetried, GetRaised, NoLocals, Return, callVars
<1>2. ASSUME NEW w \in {apiWindow, NoWindow},
             InfoSkip(w) \/ InfoEmptyWindow(w) \/ InfoPages(w)
      PROVE  Advances
    BY <1>2 DEF InfoSkip, InfoEmptyWindow, InfoPages, Return, FetchInv, FetchTypeOK,
                WindowsInOrder, Windows
<1>3. ASSUME NEW rows \in SUBSET {<<apiWindow, page>>}, PageAnswered(rows)
      PROVE  Advances
    BY <1>3 DEF PageAnswered, CommitWindow, Return, FetchInv, FetchTypeOK,
                WindowsInOrder, Windows
<1>4. CASE PageOutOfRange \/ PageNotLoaded
    BY <1>4 DEF PageOutOfRange, PageNotLoaded, CommitWindow, Return, FetchInv,
                FetchTypeOK, WindowsInOrder, Windows
<1>5. QED
    BY <1>1, <1>2, <1>3, <1>4, FetchCases

\* A window that was acknowledged is not read again before a reset or a restart, and
\* the acknowledged window only moves forward.
THEOREM WindowsAdvance == FetchSpec => AcknowledgedWindowsAdvance
<1>1. FetchInv /\ [FetchNext]_fetchVars =>
        [lastWindow # NoWindow =>
           /\ fpc = "info" /\ fpc' = "page" /\ infoWindow' # NoWindow
              => infoWindow' > lastWindow
           /\ lastWindow' \notin {NoWindow, lastWindow}
              => lastWindow' > lastWindow]_fetchVars
    BY AdvanceStep
<1>2. QED
    BY <1>1, FetchInvariance, PTL DEF FetchSpec, AcknowledgedWindowsAdvance

-----------------------------------------------------------------------------
(* AlertDelivery.                                                          *)

\* A call that is sending has marked its key as fired.
SendingFired == apc = "sending" => key \in Keys /\ fired[key] # Never

AlertInv ==
    /\ AlertTypeOK
    /\ SendingFired
    /\ CacheIsRecentFirings
    /\ SentWasAccepted

-----------------------------------------------------------------------------
(* The operators of the cache.                                             *)

\* What a lookup keeps: the entries still running, unchanged.
LEMMA UnexpiredFacts ==
    ASSUME AlertTypeOK
    PROVE  /\ DOMAIN Unexpired = {k \in DOMAIN cache : cache[k] > now}
           /\ \A k \in DOMAIN Unexpired : Unexpired[k] = cache[k]
BY DEF Unexpired, Restrict, AlertTypeOK

\* What a firing leaves: the entries still running and its own.
LEMMA MarkFacts ==
    ASSUME AlertTypeOK, NEW k \in Keys
    PROVE  /\ DOMAIN Mark(k) = DOMAIN Unexpired \cup {k}
           /\ Mark(k)[k] = now + ANOMALY_DEDUP_TTL
           /\ \A j \in DOMAIN Unexpired \ {k} : Mark(k)[j] = cache[j]
           /\ Mark(k) \in [DOMAIN Mark(k) -> 0 .. (MaxTime + ANOMALY_DEDUP_TTL)]
<1>1. \A j \in DOMAIN Unexpired : Unexpired[j] = cache[j]
                                  /\ cache[j] \in 0 .. (MaxTime + ANOMALY_DEDUP_TTL)
    BY UnexpiredFacts DEF AlertTypeOK
<1>2. now + ANOMALY_DEDUP_TTL \in 0 .. (MaxTime + ANOMALY_DEDUP_TTL)
    BY AlertAssumption DEF AlertTypeOK, Time
<1>3. QED
    BY <1>1, <1>2 DEF Mark

\* In a state of the invariant, a lookup suppresses exactly the keys whose last
\* firing is younger than the TTL.
LEMMA LookupFindsRecent ==
    ASSUME AlertTypeOK, CacheIsRecentFirings, NEW k \in Keys
    PROVE  ~ShouldFire(k) <=> fired[k] # Never /\ now < fired[k] + ANOMALY_DEDUP_TTL
BY UnexpiredFacts, AlertAssumption
DEF ShouldFire, CacheIsRecentFirings, AlertTypeOK, Time

-----------------------------------------------------------------------------
(* The inductive invariant.                                                *)

LEMMA AlertInvInit == AlertInit => AlertInv
BY AlertAssumption
DEF AlertInit, AlertInv, AlertTypeOK, SendingFired, CacheIsRecentFirings,
    SentWasAccepted, Time, Results

\* Calls of send_alert: the cache forgets what has expired and learns what fires.
LEMMA SendAlertKeepsInv ==
    ASSUME AlertInv, NEW k \in Keys, SendAlert(k)
    PROVE  AlertInv'
<1> USE AlertAssumption DEF AlertInv
<1>1. CASE Suppress(k)
  <2>1. DOMAIN Unexpired \subseteq DOMAIN cache
        /\ Unexpired \in [DOMAIN Unexpired -> 0 .. (MaxTime + ANOMALY_DEDUP_TTL)]
      BY UnexpiredFacts DEF AlertTypeOK, Unexpired, Restrict
  <2>2. AlertTypeOK'
      BY <1>1, <2>1 DEF Suppress, AlertTypeOK, Results
  <2>3. CacheIsRecentFirings'
      BY <1>1, UnexpiredFacts DEF Suppress, AlertTypeOK, CacheIsRecentFirings, Time
  <2>4. SendingFired' /\ SentWasAccepted'
      BY <1>1 DEF Suppress, SendingFired, SentWasAccepted
  <2>5. QED
      BY <2>2, <2>3, <2>4
<1>2. CASE Fire(k)
  <2>1. /\ DOMAIN cache' = DOMAIN Unexpired \cup {k}
        /\ cache'[k] = now + ANOMALY_DEDUP_TTL
        /\ \A j \in DOMAIN Unexpired \ {k} : cache'[j] = cache[j]
        /\ cache' \in [DOMAIN cache' -> 0 .. (MaxTime + ANOMALY_DEDUP_TTL)]
        /\ k \in Keys /\ DOMAIN Unexpired \subseteq Keys
      BY <1>2, MarkFacts, UnexpiredFacts DEF Fire, AlertTypeOK
  <2>2. /\ fired' \in [Keys -> Time \cup {Never}]
        /\ fired'[k] = now
        /\ \A j \in Keys \ {k} : fired'[j] = fired[j]
      BY <1>2 DEF Fire, AlertTypeOK
  <2>3. AlertTypeOK'
      BY <1>2, <2>1, <2>2 DEF Fire, AlertTypeOK, Results
  <2>4. CacheIsRecentFirings'
    <3>1. now' = now /\ now \in Nat /\ now # Never
        BY <1>2 DEF Fire, AlertTypeOK, Time
    <3>2. ASSUME NEW j \in Keys
          PROVE  /\ j \in DOMAIN cache' =>
                      fired'[j] # Never /\ cache'[j] = fired'[j] + ANOMALY_DEDUP_TTL
                 /\ fired'[j] # Never /\ now' < fired'[j] + ANOMALY_DEDUP_TTL
                    => j \in DOMAIN cache'
      <4>1. CASE j = k
          BY <4>1, <2>1, <2>2, <3>1
      <4>2. CASE j # k
        <5>1. j \in DOMAIN Unexpired <=> j \in DOMAIN cache /\ cache[j] > now
            BY UnexpiredFacts
        <5>2. /\ j \in DOMAIN cache =>
                   fired[j] # Never /\ cache[j] = fired[j] + ANOMALY_DEDUP_TTL
              /\ fired[j] # Never /\ now < fired[j] + ANOMALY_DEDUP_TTL
                 => j \in DOMAIN cache
            BY DEF CacheIsRecentFirings
        <5>3. QED
            BY <4>2, <5>1, <5>2, <2>1, <2>2, <3>1
      <4>3. QED
          BY <4>1, <4>2
    <3>3. QED
        BY <3>2 DEF CacheIsRecentFirings
  <2>5. SendingFired' /\ SentWasAccepted'
      BY <1>2 DEF Fire, SendingFired, SentWasAccepted, AlertTypeOK, Time
  <2>6. QED
      BY <2>3, <2>4, <2>5
<1>3. QED
    BY <1>1, <1>2 DEF SendAlert

\* POSTs: what is accepted is the firing in progress.
LEMMA PostKeepsInv ==
    ASSUME AlertInv, PostStep
    PROVE  AlertInv'
<1> USE AlertAssumption DEF AlertInv
<1>1. apc = "sending" /\ UNCHANGED <<now, cache, key, fired>>
    BY DEF PostStep, AlertFault, PostAnswered, PostRetryable, PostRaised, PostRefused
<1>2. <<key, fired[key]>> \in Keys \X Time
    BY <1>1 DEF SendingFired, AlertTypeOK
<1>3. /\ accepted' \in {accepted, accepted \cup {<<key, fired[key]>>}}
      /\ answered' \subseteq accepted'
      /\ result' = "sent" /\ result # "sent" => <<key, fired[key]>> \in accepted'
      /\ tries' \in 1 .. WEBHOOK_RETRY_MAX_ATTEMPTS
      /\ apc' \in {"sending", "done"}
      /\ result' \in Results
  <2>1. CASE PostAnswered
      BY <2>1 DEF PostAnswered, Accepting, Finish, AlertTypeOK, Results
  <2>2. ASSUME NEW yes \in BOOLEAN, PostRetryable(yes) PROVE <1>3!:
      BY <2>2 DEF PostRetryable, RetryOrGiveUp, Accepting, Finish, AlertTypeOK, Results
  <2>3. ASSUME NEW yes \in BOOLEAN, PostRaised(yes) PROVE <1>3!:
      BY <2>3 DEF PostRaised, Accepting, Finish, AlertTypeOK, Results
  <2>4. CASE PostRefused
      BY <2>4 DEF PostRefused, Finish, AlertTypeOK, Results
  <2>5. QED
      BY <2>1, <2>2, <2>3, <2>4 DEF PostStep, AlertFault
<1>4. AlertTypeOK'
    BY <1>1, <1>2, <1>3 DEF AlertTypeOK
<1>5. CacheIsRecentFirings' /\ SendingFired'
    BY <1>1 DEF CacheIsRecentFirings, SendingFired
<1>6. SentWasAccepted'
    BY <1>1, <1>3 DEF SentWasAccepted
<1>7. QED
    BY <1>4, <1>5, <1>6

\* The rest: the clock, the caller taking the answer, and a restart.
LEMMA OthersKeepInv ==
    ASSUME AlertInv, Tick \/ TakeAlertResult \/ AlertRestart \/ UNCHANGED alertVars
    PROVE  AlertInv'
<1> USE AlertAssumption
    DEF AlertInv, AlertTypeOK, SendingFired, CacheIsRecentFirings, SentWasAccepted
<1>1. CASE Tick
    BY <1>1 DEF Tick, Time
<1>2. CASE TakeAlertResult
    BY <1>2 DEF TakeAlertResult, Results
<1>3. CASE AlertRestart
    BY <1>3 DEF AlertRestart, Results
<1>4. CASE UNCHANGED alertVars
    BY <1>4 DEF alertVars
<1>5. QED
    BY <1>1, <1>2, <1>3, <1>4

LEMMA AlertInvariance == AlertSpec => []AlertInv
<1>1. AlertInv /\ [AlertNext]_alertVars => AlertInv'
    BY SendAlertKeepsInv, PostKeepsInv, OthersKeepInv DEF AlertNext, PostStep
<1>2. QED
    BY <1>1, AlertInvInit, PTL DEF AlertSpec

-----------------------------------------------------------------------------
(* The theorems.                                                           *)

\* Type correctness: the entries of the dedup cache, the attempt counter and the
\* outcome of send_alert stay in range, whatever the server answers.
THEOREM AlertTypeCorrect == AlertSpec => []AlertTypeOK
<1>1. AlertInv => AlertTypeOK
    BY DEF AlertInv
<1>2. QED
    BY <1>1, AlertInvariance, PTL

\* The cache is exactly the memory of the firings whose TTL still runs, over any
\* history of lookups, evictions and restarts.
THEOREM CacheIsMemory == AlertSpec => []CacheIsRecentFirings
<1>1. AlertInv => CacheIsRecentFirings
    BY DEF AlertInv
<1>2. QED
    BY <1>1, AlertInvariance, PTL

\* An alert reported as sent was accepted by the server, in this firing of it.
THEOREM SentMeansAccepted == AlertSpec => []SentWasAccepted
<1>1. AlertInv => SentWasAccepted
    BY DEF AlertInv
<1>2. QED
    BY <1>1, AlertInvariance, PTL

\* send_alert suppresses an alert exactly when its key fired less than the TTL ago.
THEOREM SuppressionIsExact == AlertSpec => SuppressedIffRecent
<1> DEFINE Exact ==
      \A k \in Keys :
          apc = "ready" /\ apc' # "ready" /\ key' = k
          => (result' = "suppressed"
              <=> fired[k] # Never /\ now < fired[k] + ANOMALY_DEDUP_TTL)
<1>1. ASSUME AlertInv, NEW k \in Keys, SendAlert(k)
      PROVE  Exact
    BY <1>1, LookupFindsRecent DEF SendAlert, Suppress, Fire, AlertInv
<1>2. ASSUME Tick \/ PostStep \/ TakeAlertResult \/ AlertRestart
      PROVE  Exact
    BY <1>2 DEF Tick, PostStep, AlertFault, PostAnswered, PostRetryable, PostRaised,
                PostRefused, TakeAlertResult, AlertRestart
<1>3. AlertInv /\ [AlertNext]_alertVars => [Exact]_alertVars
    BY <1>1, <1>2 DEF AlertNext, PostStep
<1>4. QED
    BY <1>3, AlertInvariance, PTL DEF AlertSpec, SuppressedIffRecent

-----------------------------------------------------------------------------
(* Pipeline.                                                               *)

\* While the frame is read and stored nothing is found yet.  Once it is stored it
\* stays so.
FrameInv ==
    /\ ppc \in {"fetching", "insert", "detect"} => found = {}
    /\ ppc \in {"detect", "respond", "send", "record"} => collected \subseteq logs \cup dropped

\* An anomaly that was found has its row, or waits for it, or is being sent.
RespondInv ==
    /\ found \subseteq AlertIds
    /\ ppc \in {"respond", "send", "record"} =>
          /\ todo \X {detectedAt} \subseteq found
          /\ found \subseteq Recorded \cup ((todo \cup {key}) \X {detectedAt})
    /\ ppc = "respond" => found \subseteq Recorded \cup (todo \X {detectedAt})
    /\ ppc \in {"send", "record"} => <<key, detectedAt>> \in found

\* The alert being sent fired no earlier than its anomaly was detected.
SentInv ==
    /\ webhookSent \in BOOLEAN
    /\ ppc \in {"respond", "send", "record"} => detectedAt \in Time /\ detectedAt <= now
    /\ ppc = "send" /\ (apc = "sending" \/ result = "sent") =>
          fired[key] \in Time /\ fired[key] >= detectedAt
    /\ ppc = "record" /\ webhookSent =>
          \E t \in Time : t >= detectedAt /\ <<key, t>> \in accepted

CycleInv ==
    /\ FrameInv
    /\ RespondInv
    /\ SentInv
    /\ AcknowledgedRowsAreStored
    /\ AcknowledgedAnomaliesAreRecorded
    /\ RecordedSentWasAccepted

PipelineInv == FetchInv /\ AlertInv /\ CycleInv

-----------------------------------------------------------------------------
(* The components inside the composition.                                  *)

\* Every step of the pipeline is a step of the fetcher or leaves it alone.
LEMMA PipelineFetches == [PipelineNext]_pipelineVars => [FetchNext]_fetchVars
<1> SUFFICES ASSUME PipelineNext PROVE [FetchNext]_fetchVars
    BY DEF pipelineVars, fetchVars
<1>1. CASE CycleStep
    BY <1>1 DEF CycleStep, Observe, Fetching, Fetched, InsertLogs, NoFeatures, Predict,
       Respond, Sending, Sent, SendRaised, InsertAnomaly, Done, FailCycle, FetchNext
<1>2. CASE CycleFault
    BY <1>2 DEF CycleFault, FetchingFault, InsertLogsFailed, PredictFailed, ReportFailed,
       SendingFault, InsertAnomalyFailed, FailCycle, FetchNext
<1>3. CASE WindowRolls \/ TimePasses \/ RetrainRuns \/ Restart
    BY <1>3 DEF WindowRolls, TimePasses, RetrainRuns, Restart, FetchNext
<1>4. QED
    BY <1>1, <1>2, <1>3 DEF PipelineNext

\* Every step of the pipeline is a step of alert delivery or leaves it alone.
LEMMA PipelineAlerts == [PipelineNext]_pipelineVars => [AlertNext]_alertVars
<1> SUFFICES ASSUME PipelineNext PROVE [AlertNext]_alertVars
    BY DEF pipelineVars, alertVars
<1>1. CASE CycleStep
    BY <1>1 DEF CycleStep, Observe, Fetching, Fetched, InsertLogs, NoFeatures, Predict,
       Respond, Sending, Sent, SendRaised, InsertAnomaly, Done, AlertNext
<1>2. CASE CycleFault
    BY <1>2 DEF CycleFault, FetchingFault, InsertLogsFailed, PredictFailed, ReportFailed,
       SendingFault, InsertAnomalyFailed, AlertNext
<1>3. CASE WindowRolls \/ TimePasses \/ RetrainRuns \/ Restart
    BY <1>3 DEF WindowRolls, TimePasses, RetrainRuns, Restart, AlertNext
<1>4. QED
    BY <1>1, <1>2, <1>3 DEF PipelineNext

\* The invariants of the two components hold in the pipeline.
LEMMA ComponentsInvariance == PipelineSpec => [](FetchInv /\ AlertInv)
<1>1. PipelineInit => FetchInv /\ AlertInv
    BY FetchInvInit, AlertInvInit DEF PipelineInit
<1>2. FetchInv /\ AlertInv /\ [PipelineNext]_pipelineVars => FetchInv' /\ AlertInv'
  <2>1. AlertInv /\ [AlertNext]_alertVars => AlertInv'
      BY SendAlertKeepsInv, PostKeepsInv, OthersKeepInv DEF AlertNext, PostStep
  <2>2. QED
      BY <2>1, PipelineFetches, PipelineAlerts, FetchInvStep
<1>3. QED
    BY <1>1, <1>2, PTL DEF PipelineSpec

-----------------------------------------------------------------------------
(* The inductive invariant of the cycle.                                   *)

LEMMA CycleInvInit == PipelineInit => CycleInv
BY DEF PipelineInit, FetchInit, CycleInv, FrameInv, RespondInv, SentInv,
       AcknowledgedRowsAreStored, AcknowledgedAnomaliesAreRecorded, RecordedSentWasAccepted

\* What a failing cycle leaves: nothing acknowledged, and the tables as they were or
\* larger by what is known of the new entries.
LEMMA FailCycleKeepsInv ==
    ASSUME CycleInv, FailCycle, RecordedSentWasAccepted'
    PROVE  CycleInv'
BY DEF CycleInv, FailCycle, ResetWindowStart, Leave, callVars, FrameInv, RespondInv, SentInv,
       AlertIds, AcknowledgedRowsAreStored, AcknowledgedAnomaliesAreRecorded

\* OBSERVE and ANALYZE.
LEMMA FrameStepsKeepInv ==
    ASSUME PipelineInv,
           \/ Observe \/ Fetching \/ FetchingFault \/ Fetched \/ NoFeatures
           \/ \E skipped, rejected \in SUBSET collected : InsertLogs(skipped, rejected)
           \/ \E keys \in SUBSET Keys : Predict(keys)
    PROVE  CycleInv'
<1> USE DEF PipelineInv, CycleInv, FrameInv, RespondInv, SentInv, Recorded,
            AcknowledgedRowsAreStored, AcknowledgedAnomaliesAreRecorded,
            RecordedSentWasAccepted, alertVars, tableVars
<1>1. CASE Observe
    BY <1>1 DEF Observe
<1>2. CASE Fetching \/ FetchingFault
    BY <1>2 DEF Fetching, FetchingFault, cycleVars
<1>3. CASE Fetched
    BY <1>3 DEF Fetched, TakeResult
<1>4. CASE NoFeatures
    BY <1>4 DEF NoFeatures, Leave, fetchVars, callVars
<1>5. ASSUME NEW skipped \in SUBSET collected, NEW rejected \in SUBSET collected,
             InsertLogs(skipped, rejected)
      PROVE  CycleInv'
    BY <1>5 DEF InsertLogs, fetchVars, callVars
<1>6. ASSUME NEW keys \in SUBSET Keys, Predict(keys) PROVE CycleInv'
    BY <1>6 DEF Predict, fetchVars, callVars, AlertInv, AlertTypeOK, AlertIds, Time
<1>7. QED
    BY <1>1, <1>2, <1>3, <1>4, <1>5, <1>6

\* The row of the anomaly in hand says what is true of it.
LEMMA CurrentRowIsTrue ==
    ASSUME SentInv, RecordedSentWasAccepted, ppc = "record", accepted' = accepted,
           InsertRow(CurrentRow) \/ anomalies' = anomalies
    PROVE  RecordedSentWasAccepted'
<1> SUFFICES ASSUME NEW a \in anomalies', a.sent
             PROVE  \E t \in Time : t >= a.id[2] /\ <<a.id[1], t>> \in accepted
    BY DEF RecordedSentWasAccepted
<1>1. CASE a \in anomalies
    BY <1>1 DEF RecordedSentWasAccepted
<1>2. CASE a = CurrentRow
  <2>1. a.sent = webhookSent /\ a.id[1] = key /\ a.id[2] = detectedAt
      BY <1>2 DEF CurrentRow
  <2>2. QED
      BY <2>1 DEF SentInv
<1>3. QED
    BY <1>1, <1>2 DEF InsertRow

\* An insert leaves one more ALERT_ID, or none when it was there.
LEMMA RecordedGrows ==
    ASSUME NEW a, InsertRow(a)
    PROVE  Recorded' = Recorded \cup {a.id}
<1>1. CASE a.id \in Recorded
    BY <1>1 DEF InsertRow, Recorded
<1>2. CASE a.id \notin Recorded
    BY <1>2 DEF InsertRow, Recorded
<1>3. QED
    BY <1>1, <1>2

\* RESPOND: report, alert, record, up to the tail of the cycle.
LEMMA RespondStepsKeepInv ==
    ASSUME PipelineInv,
           (\E k \in Keys : Respond(k)) \/ Sending \/ SendingFault \/ Sent \/ InsertAnomaly \/ Done
    PROVE  CycleInv'
<1> USE DEF PipelineInv, CycleInv, FrameInv, RespondInv, SentInv, Recorded,
            AcknowledgedRowsAreStored, AcknowledgedAnomaliesAreRecorded,
            RecordedSentWasAccepted, fetchVars, callVars, tableVars, cycleVars
<1>1. ASSUME NEW k \in Keys, Respond(k) PROVE CycleInv'
    BY <1>1 DEF Respond, SendAlert, Suppress, Fire, AlertInv, AlertTypeOK, Time
<1>2. CASE Sending \/ SendingFault
    BY <1>2 DEF Sending, SendingFault, AlertFault, PostAnswered, PostRetryable, PostRaised,
       PostRefused, Accepting, Finish, RetryOrGiveUp
<1>3. CASE Sent
    BY <1>3 DEF Sent, TakeAlertResult, AlertInv, SentWasAccepted
<1>4. CASE InsertAnomaly
  <2>1. RecordedSentWasAccepted'
      BY <1>4, CurrentRowIsTrue DEF InsertAnomaly, alertVars
  <2>2. Recorded' = Recorded \cup {<<key, detectedAt>>}
    <3> HIDE DEF Recorded
    <3>1. CurrentRow.id = <<key, detectedAt>>
        BY DEF CurrentRow
    <3>2. QED
        BY <1>4, <3>1, RecordedGrows DEF InsertAnomaly
  <2> HIDE DEF Recorded
  <2>3. /\ UNCHANGED <<found, todo, detectedAt, key, collected, logs, dropped, now,
                        webhookSent>>
        /\ ppc = "record" /\ ppc' = "respond"
      BY <1>4 DEF InsertAnomaly, alertVars
  <2>4. RespondInv'
      BY <2>2, <2>3
  <2>5. QED
      BY <2>1, <2>3, <2>4
<1>5. CASE Done
    BY <1>5 DEF Done, Leave, alertVars
<1>6. QED
    BY <1>1, <1>2, <1>3, <1>4, <1>5

\* Exceptions, and what happens beside the cycle.
LEMMA OtherStepsKeepInv ==
    ASSUME PipelineInv,
           \/ SendRaised \/ PredictFailed \/ ReportFailed \/ InsertAnomalyFailed
           \/ \E stored \in SUBSET collected : InsertLogsFailed(stored)
           \/ WindowRolls \/ TimePasses \/ RetrainRuns \/ Restart \/ UNCHANGED pipelineVars
    PROVE  CycleInv'
<1> USE DEF PipelineInv, CycleInv
<1>1. CASE \/ SendRaised \/ PredictFailed \/ ReportFailed \/ InsertAnomalyFailed
           \/ \E stored \in SUBSET collected : InsertLogsFailed(stored)
  <2>1. FailCycle
      BY <1>1 DEF SendRaised, PredictFailed, ReportFailed, InsertAnomalyFailed, InsertLogsFailed
  <2>2. accepted' = accepted
      BY <1>1 DEF SendRaised, PredictFailed, ReportFailed, InsertAnomalyFailed,
         InsertLogsFailed, TakeAlertResult, alertVars
  <2>3. \/ anomalies' = anomalies
        \/ ppc = "record" /\ (InsertRow(CurrentRow) \/ anomalies' = anomalies)
      BY <1>1 DEF SendRaised, PredictFailed, ReportFailed, InsertAnomalyFailed,
         InsertLogsFailed, tableVars
  <2>4. RecordedSentWasAccepted'
      BY <2>2, <2>3, CurrentRowIsTrue DEF RecordedSentWasAccepted
  <2>5. QED
      BY <2>1, <2>4, FailCycleKeepsInv
<1> USE DEF FrameInv, RespondInv, SentInv, Recorded, AcknowledgedRowsAreStored,
            AcknowledgedAnomaliesAreRecorded, RecordedSentWasAccepted, cycleVars, tableVars
<1>2. CASE WindowRolls
    BY <1>2 DEF WindowRolls, Roll, callVars, alertVars
<1>3. CASE TimePasses
    BY <1>3 DEF TimePasses, Tick, fetchVars, callVars, AlertInv, AlertTypeOK, Time
<1>4. CASE RetrainRuns
    BY <1>4 DEF RetrainRuns, fetchVars, callVars, alertVars
<1>5. CASE Restart
    BY <1>5 DEF Restart, FetchRestart, AlertRestart, Leave
<1>6. CASE UNCHANGED pipelineVars
    BY <1>6 DEF pipelineVars, fetchVars, callVars, alertVars
<1>7. QED
    BY <1>1, <1>2, <1>3, <1>4, <1>5, <1>6

LEMMA CycleInvStep == PipelineInv /\ [PipelineNext]_pipelineVars => CycleInv'
BY FrameStepsKeepInv, RespondStepsKeepInv, OtherStepsKeepInv
DEF PipelineNext, CycleStep, CycleFault

\* The invariant of the pipeline, for every interleaving of its cycles with the
\* server, the clock, the retrain task, every failure and every restart.
LEMMA PipelineInvariance == PipelineSpec => []PipelineInv
<1>1. PipelineInit => CycleInv
    BY CycleInvInit
<1>2. PipelineInv /\ [PipelineNext]_pipelineVars => CycleInv'
    BY CycleInvStep
<1>3. QED
    BY <1>1, <1>2, ComponentsInvariance, PTL DEF PipelineSpec, PipelineInv

-----------------------------------------------------------------------------
(* Types.                                                                  *)

\* The frame is finite, so its number of rows is a number.
LEMMA FrameIsFinite ==
    ASSUME FetchTypeOK
    PROVE  Cardinality(collected) \in Nat
<1>1. IsFiniteSet(0 .. MaxWindow) /\ IsFiniteSet(1 .. MAX_PAGES_PER_WINDOW)
    BY FetchAssumption, FS_Interval
<1>2. IsFiniteSet(Rows)
    BY <1>1, FS_Product DEF Rows, Windows
<1>3. QED
    BY <1>2, FS_Subset, FS_CardinalityType DEF FetchTypeOK

\* Every step of the pipeline is a step of Retrain or leaves it alone.
LEMMA PipelineRetrains ==
    ASSUME [PipelineNext]_pipelineVars
    PROVE  \/ EndCycle(Cardinality(collected))
           \/ RetrainTaskStep \/ RetrainRestart \/ UNCHANGED retrainVars
<1>1. CASE CycleStep
    BY <1>1 DEF CycleStep, Observe, Fetching, Fetched, InsertLogs, NoFeatures, Predict,
       Respond, Sending, Sent, SendRaised, InsertAnomaly, Done, FailCycle
<1>2. CASE CycleFault
    BY <1>2 DEF CycleFault, FetchingFault, InsertLogsFailed, PredictFailed, ReportFailed,
       SendingFault, InsertAnomalyFailed, FailCycle
<1>3. CASE WindowRolls \/ TimePasses \/ RetrainRuns \/ Restart
    BY <1>3 DEF WindowRolls, TimePasses, RetrainRuns, Restart
<1>4. QED
    BY <1>1, <1>2, <1>3 DEF PipelineNext, pipelineVars

\* The types of the cycle's own variables and of the tables.
CycleTypeOK ==
    /\ ppc \in {"idle", "fetching", "insert", "detect", "respond", "send", "record"}
    /\ todo \subseteq Keys
    /\ detectedAt \in Time
    /\ logs \subseteq Rows
    /\ anomalies \subseteq [id : AlertIds, sent : BOOLEAN]
    /\ dropped \subseteq Rows
    /\ faults \in 0 .. MaxFaults

LEMMA CycleTypeStep ==
    ASSUME PipelineInv, CycleTypeOK, [PipelineNext]_pipelineVars
    PROVE  CycleTypeOK'
<1> USE PipelineAssumption, AlertAssumption
    DEF CycleTypeOK, cycleVars, tableVars, Leave, FailCycle, Fault
<1>1. CASE \/ Observe \/ Fetching \/ FetchingFault \/ Fetched \/ NoFeatures \/ Sending
           \/ SendingFault \/ Sent \/ SendRaised \/ PredictFailed \/ ReportFailed \/ Done
           \/ WindowRolls \/ TimePasses \/ RetrainRuns \/ Restart \/ UNCHANGED pipelineVars
    BY <1>1 DEF Observe, Fetching, FetchingFault, Fetched, NoFeatures, Sending, SendingFault,
       Sent, SendRaised, PredictFailed, ReportFailed, Done, WindowRolls, TimePasses,
       RetrainRuns, Restart, pipelineVars, Time
<1>2. ASSUME NEW skipped \in SUBSET collected, NEW rejected \in SUBSET collected,
             InsertLogs(skipped, rejected)
      PROVE  CycleTypeOK'
    BY <1>2 DEF InsertLogs, PipelineInv, FetchInv, FetchTypeOK
<1>3. ASSUME NEW stored \in SUBSET collected, InsertLogsFailed(stored) PROVE CycleTypeOK'
    BY <1>3 DEF InsertLogsFailed, PipelineInv, FetchInv, FetchTypeOK, Time
<1>4. ASSUME NEW keys \in SUBSET Keys, Predict(keys) PROVE CycleTypeOK'
    BY <1>4 DEF Predict, PipelineInv, AlertInv, AlertTypeOK
<1>5. ASSUME NEW k \in Keys, Respond(k) PROVE CycleTypeOK'
    BY <1>5 DEF Respond
<1>6. CASE InsertAnomaly \/ InsertAnomalyFailed
  <2>1. CurrentRow \in [id : AlertIds, sent : BOOLEAN]
      BY <1>6 DEF InsertAnomaly, InsertAnomalyFailed, CurrentRow, PipelineInv, CycleInv,
         RespondInv, SentInv
  <2>2. anomalies' \subseteq [id : AlertIds, sent : BOOLEAN]
      BY <1>6, <2>1 DEF InsertAnomaly, InsertAnomalyFailed, InsertRow
  <2>3. QED
      BY <1>6, <2>2 DEF InsertAnomaly, InsertAnomalyFailed, Time
<1>7. QED
    BY <1>1, <1>2, <1>3, <1>4, <1>5, <1>6 DEF PipelineNext, CycleStep, CycleFault

\* Type correctness of the composition: the locals of run_once, the two tables, the
\* retrain task and both components stay in range.
THEOREM PipelineTypeCorrect == PipelineSpec => []PipelineTypeOK
<1> DEFINE Types == CycleTypeOK /\ RetrainTypeOK /\ OneRetrainAtATime
<1>1. PipelineInit => Types
  <2>1. PipelineInit => CycleTypeOK
      BY PipelineAssumption, AlertAssumption DEF PipelineInit, CycleTypeOK, Time
  <2>2. QED
      BY <2>1, RetrainInitOK DEF PipelineInit
<1>2. PipelineInv /\ Types /\ [PipelineNext]_pipelineVars => Types'
  <2> SUFFICES ASSUME PipelineInv, Types, [PipelineNext]_pipelineVars PROVE Types'
      OBVIOUS
  <2>1. RetrainTypeOK' /\ OneRetrainAtATime'
    <3>1. Cardinality(collected) \in Nat
        BY FrameIsFinite DEF PipelineInv, FetchInv
    <3>2. QED
        BY <3>1, PipelineRetrains, EndCycleOK, RetrainTaskOK
  <2>2. QED
      BY <2>1, CycleTypeStep
<1>3. PipelineInv /\ Types => PipelineTypeOK
    BY DEF PipelineInv, FetchInv, AlertInv, CycleInv, RespondInv, SentInv, CycleTypeOK,
       PipelineTypeOK
<1>4. QED
    BY <1>1, <1>2, <1>3, PipelineInvariance, PTL DEF PipelineSpec

-----------------------------------------------------------------------------
(* The safety properties of the cycle.                                     *)

\* Between cycles an acknowledged window means that the rows of the frame just
\* processed are stored or were refused on their own account, whatever failed on the
\* way.  (What a 503 or a 422 left unread is in no frame.)
THEOREM AcknowledgedRowsStored == PipelineSpec => []AcknowledgedRowsAreStored
<1>1. PipelineInv => AcknowledgedRowsAreStored
    BY DEF PipelineInv, CycleInv
<1>2. QED
    BY <1>1, PipelineInvariance, PTL

\* Between cycles an acknowledged window means that every anomaly found in the frame
\* just processed has its row, whatever failed on the way: the acknowledgement comes
\* first, and a cycle that fails takes it back.
THEOREM AcknowledgedAnomaliesRecorded == PipelineSpec => []AcknowledgedAnomaliesAreRecorded
<1>1. PipelineInv => AcknowledgedAnomaliesAreRecorded
    BY DEF PipelineInv, CycleInv
<1>2. QED
    BY <1>1, PipelineInvariance, PTL

\* A row that says WEBHOOK_SENT stands for an alert the endpoint accepted, by a firing
\* no earlier than the detection.
THEOREM RecordedSentAccepted == PipelineSpec => []RecordedSentWasAccepted
<1>1. PipelineInv => RecordedSentWasAccepted
    BY DEF PipelineInv, CycleInv
<1>2. QED
    BY <1>1, PipelineInvariance, PTL

-----------------------------------------------------------------------------
(* The refinement.                                                         *)

\* What the ledger sees of an empty process.
LEMMA LedgerInitially == PipelineInit => Ledger!LedgerInit
BY DEF PipelineInit, FetchInit, Ledger!LedgerInit

\* A failing cycle leaves no window settled.
LEMMA FailCycleUnsettles ==
    ASSUME FailCycle
    PROVE  /\ (IF ppc' = "idle" THEN lastWindow' ELSE NoWindow) = NoWindow
           /\ UNCHANGED <<collected, found>>
BY DEF FailCycle, ResetWindowStart, Leave, callVars

\* OBSERVE opens the ledger and shows it rows; ANALYZE stores them and finds.
LEMMA FrameStepsKeepLedger ==
    ASSUME PipelineInv, PipelineInv',
           \/ Observe \/ Fetching \/ FetchingFault \/ Fetched \/ NoFeatures
           \/ \E skipped, rejected \in SUBSET collected : InsertLogs(skipped, rejected)
           \/ \E keys \in SUBSET Keys : Predict(keys)
    PROVE  [Ledger!LedgerNext]_(Ledger!ledgerVars)
<1> USE DEF tableVars
<1>1. CASE Observe
  <2>1. Ledger!Open
      BY <1>1 DEF Observe, FetchAllLogs, Ledger!Open
  <2>2. QED
      BY <2>1 DEF Ledger!LedgerNext
<1>2. CASE Fetching \/ FetchingFault
  <2>1. collected' \in SUBSET Rows
      BY DEF PipelineInv, FetchInv, FetchTypeOK
  <2>2. Ledger!Show(collected')
      BY <1>2 DEF Fetching, FetchingFault, cycleVars, Ledger!Show
  <2>3. QED
      BY <2>1, <2>2 DEF Ledger!LedgerNext
<1>3. CASE Fetched \/ NoFeatures
  <2>1. UNCHANGED <<collected, found, logs, dropped, anomalies, lastWindow>> /\ ppc # "idle"
      BY <1>3 DEF Fetched, NoFeatures, TakeResult, fetchVars, callVars
  <2>2. CASE ppc' = "idle" /\ lastWindow # NoWindow
    <3>1. collected \subseteq logs \cup dropped /\ found = {}
        BY <1>3, <2>2 DEF Fetched, NoFeatures, PipelineInv, CycleInv, FrameInv
    <3>2. Ledger!Settle(lastWindow)
        BY <2>1, <2>2, <3>1 DEF Ledger!Settle, Ledger!Complete
    <3>3. lastWindow \in Windows
        BY <2>2 DEF PipelineInv, FetchInv, FetchTypeOK
    <3>4. QED
        BY <3>2, <3>3 DEF Ledger!LedgerNext
  <2>3. CASE ppc' # "idle" \/ lastWindow = NoWindow
      BY <2>1, <2>3 DEF Ledger!ledgerVars
  <2>4. QED
      BY <2>2, <2>3
<1>4. ASSUME NEW skipped \in SUBSET collected, NEW rejected \in SUBSET collected,
             InsertLogs(skipped, rejected)
      PROVE  Ledger!LedgerNext
  <2>1. Ledger!Store(collected \ (skipped \cup rejected), skipped \cup rejected)
      BY <1>4 DEF InsertLogs, fetchVars, callVars, Ledger!Store
  <2>2. QED
      BY <2>1 DEF Ledger!LedgerNext
<1>5. ASSUME NEW keys \in SUBSET Keys, Predict(keys) PROVE Ledger!LedgerNext
  <2>1. found' \in SUBSET AlertIds
      BY DEF PipelineInv, CycleInv, RespondInv
  <2>2. Ledger!Find(found')
      BY <1>5 DEF Predict, fetchVars, callVars, Ledger!Find
  <2>3. QED
      BY <2>1, <2>2 DEF Ledger!LedgerNext
<1>6. QED
    BY <1>1, <1>2, <1>3, <1>4, <1>5

\* RESPOND records what was found, at most once, and its end settles the window.
LEMMA RespondStepsKeepLedger ==
    ASSUME PipelineInv,
           (\E k \in Keys : Respond(k)) \/ Sending \/ SendingFault \/ Sent
           \/ InsertAnomaly \/ InsertAnomalyFailed \/ Done
    PROVE  [Ledger!LedgerNext]_(Ledger!ledgerVars)
<1> USE DEF tableVars, fetchVars, callVars
<1>1. CASE (\E k \in Keys : Respond(k)) \/ Sending \/ SendingFault \/ Sent
    BY <1>1 DEF Respond, Sending, SendingFault, Sent, cycleVars, Ledger!ledgerVars
<1>2. CASE InsertAnomaly \/ InsertAnomalyFailed
  <2>1. /\ ppc = "record" /\ UNCHANGED <<collected, found, logs, dropped>>
        /\ (IF ppc' = "idle" THEN lastWindow' ELSE NoWindow) = NoWindow
        /\ InsertRow(CurrentRow) \/ UNCHANGED anomalies
      BY <1>2, FailCycleUnsettles DEF InsertAnomaly, InsertAnomalyFailed
  <2>2. CASE UNCHANGED anomalies
      BY <2>1, <2>2 DEF Ledger!ledgerVars
  <2>3. CASE InsertRow(CurrentRow) /\ CurrentRow.id \notin Recorded
    <3>1. CurrentRow.id \in found /\ CurrentRow.id \in AlertIds
        BY <2>1 DEF PipelineInv, CycleInv, RespondInv, CurrentRow
    <3>2. /\ \A a \in anomalies : a.id # CurrentRow.id
          /\ anomalies' = anomalies \cup {CurrentRow}
        BY <2>3 DEF InsertRow, Recorded
    <3>3. CurrentRow = [id |-> CurrentRow.id, sent |-> webhookSent]
        BY DEF CurrentRow
    <3>4. Ledger!Record(CurrentRow.id, webhookSent)
        BY <2>1, <3>1, <3>2, <3>3 DEF Ledger!Record
    <3>5. webhookSent \in BOOLEAN
        BY DEF PipelineInv, CycleInv, SentInv
    <3>6. QED
        BY <3>1, <3>4, <3>5 DEF Ledger!LedgerNext
  <2>4. QED
      BY <2>1, <2>2, <2>3 DEF InsertRow
<1>3. CASE Done
  <2>1. /\ UNCHANGED <<collected, found, logs, dropped, anomalies, lastWindow>>
        /\ ppc = "respond" /\ ppc' = "idle" /\ todo = {}
      BY <1>3 DEF Done, Leave
  <2>2. collected \subseteq logs \cup dropped /\ found \subseteq Recorded
      BY <2>1 DEF PipelineInv, CycleInv, FrameInv, RespondInv
  <2>3. Ledger!Complete
      BY <2>2 DEF Ledger!Complete, Recorded
  <2>4. CASE lastWindow = NoWindow
      BY <2>1, <2>4 DEF Ledger!ledgerVars
  <2>5. CASE lastWindow # NoWindow
    <3>1. lastWindow \in Windows
        BY <2>5 DEF PipelineInv, FetchInv, FetchTypeOK
    <3>2. Ledger!Settle(lastWindow)
        BY <2>1, <2>3 DEF Ledger!Settle
    <3>3. QED
        BY <3>1, <3>2 DEF Ledger!LedgerNext
  <2>6. QED
      BY <2>4, <2>5
<1>4. QED
    BY <1>1, <1>2, <1>3

\* Exceptions keep what was stored; a restart forgets what was shown.
LEMMA OtherStepsKeepLedger ==
    ASSUME PipelineInv,
           \/ SendRaised \/ PredictFailed \/ ReportFailed
           \/ \E stored \in SUBSET collected : InsertLogsFailed(stored)
           \/ WindowRolls \/ TimePasses \/ RetrainRuns \/ Restart \/ UNCHANGED pipelineVars
    PROVE  [Ledger!LedgerNext]_(Ledger!ledgerVars)
<1> USE DEF tableVars
<1>1. CASE SendRaised \/ PredictFailed \/ ReportFailed
    BY <1>1, FailCycleUnsettles DEF SendRaised, PredictFailed, ReportFailed, Ledger!ledgerVars
<1>2. ASSUME NEW stored \in SUBSET collected, InsertLogsFailed(stored)
      PROVE  Ledger!LedgerNext
  <2>1. Ledger!Store(stored, {})
      BY <1>2, FailCycleUnsettles DEF InsertLogsFailed, Ledger!Store
  <2>2. QED
      BY <2>1 DEF Ledger!LedgerNext
<1>3. CASE WindowRolls \/ TimePasses \/ RetrainRuns \/ UNCHANGED pipelineVars
    BY <1>3 DEF WindowRolls, Roll, TimePasses, RetrainRuns, pipelineVars, fetchVars,
       callVars, cycleVars, Ledger!ledgerVars
<1>4. CASE Restart
  <2>1. Ledger!Open
      BY <1>4 DEF Restart, FetchRestart, Leave, Ledger!Open
  <2>2. QED
      BY <2>1 DEF Ledger!LedgerNext
<1>5. QED
    BY <1>1, <1>2, <1>3, <1>4

\* The pipeline implements WindowLedger: of every window it leaves settled the frame is
\* complete, and SECURITY_LOGS and ANOMALIES only ever grow, one row per ALERT_ID.
THEOREM PipelineKeepsLedger == PipelineSpec => KeepsLedger
<1>1. PipelineInv /\ PipelineInv' /\ [PipelineNext]_pipelineVars
      => [Ledger!LedgerNext]_(Ledger!ledgerVars)
    BY FrameStepsKeepLedger, RespondStepsKeepLedger, OtherStepsKeepLedger
    DEF PipelineNext, CycleStep, CycleFault
<1>2. QED
    BY <1>1, LedgerInitially, PipelineInvariance, PTL
    DEF PipelineSpec, KeepsLedger, Ledger!LedgerSpec
=============================================================================
