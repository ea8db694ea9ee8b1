----------------------------- MODULE LogFetcher -----------------------------
(***************************************************************************)
(* src/ingestion/sap_log_fetcher.py: fetch_all_logs reads the SAP log API  *)
(* (/info, then /logs/current page by page) one window at a time, retries  *)
(* each GET, and remembers in _last_window_start the last window it read   *)
(* so that the next poll skips it.                                         *)
(*                                                                         *)
(* The server is external: it publishes the windows 0, 1, 2, ... and may   *)
(* move to the next one between any two requests.  A row of the data is a  *)
(* page of a window: <<w, p>> stands for all the rows on it.               *)
(***************************************************************************)
EXTENDS Naturals, FiniteSets

CONSTANTS
    MaxWindow,                  \* bound: the server publishes windows 0..MaxWindow
    PagesOf,                    \* PagesOf[w]: total_pages that /info announces for window
                                \* w; 0 stands for a missing, null or negative one too
    MAX_PAGES_PER_WINDOW,
    FETCH_RETRY_MAX_ATTEMPTS,   \* RETRY_MAX_ATTEMPTS of the fetcher
    NoWindow                    \* Python's None

Windows == 0 .. MaxWindow

ASSUME FetchAssumption ==
    /\ MaxWindow \in Nat
    /\ PagesOf \in [Windows -> Nat]
    /\ MAX_PAGES_PER_WINDOW \in Nat \ {0}
    /\ FETCH_RETRY_MAX_ATTEMPTS \in Nat \ {0}
    /\ NoWindow \notin Windows

VARIABLES
    apiWindow,      \* the window the server serves now
    lastWindow,     \* _last_window_start
    fpc,            \* where the call is: "idle", "info", "page", "returned", "raised"
    attempt,        \* _get_with_retry's attempt
    infoWindow,     \* window_start read from /info by this call
    totalPages,     \* total_pages after the clamp
    page,           \* the loop variable
    read,           \* pages answered with 200 (pages_fetched counts them)
    collected,      \* pages whose rows are in the frame being built or returned
    exit            \* the log line the call left with

serverVars == <<apiWindow>>
callVars == <<fpc, attempt, infoWindow, totalPages, page, read, collected, exit>>
fetchVars == <<apiWindow, lastWindow, callVars>>

Rows == Windows \X (1 .. MAX_PAGES_PER_WINDOW)
Exits == {"none", "info_unavailable", "skip_duplicate_window", "empty_window",
          "window_fetched", "page_out_of_range", "page_not_loaded"}

\* Mutant: the page count is taken as announced.
Unclamped(n) == n

Clamped(n) == IF n > MAX_PAGES_PER_WINDOW THEN MAX_PAGES_PER_WINDOW ELSE n

FetchInit ==
    /\ apiWindow = 0
    /\ lastWindow = NoWindow
    /\ fpc = "idle"
    /\ attempt = 1
    /\ infoWindow = NoWindow
    /\ totalPages = 0
    /\ page = 1
    /\ read = {}
    /\ collected = {}
    /\ exit = "none"

\* The SAP server publishes the next 30-minute window.
Roll ==
    /\ apiWindow < MaxWindow
    /\ apiWindow' = apiWindow + 1
    /\ UNCHANGED <<lastWindow, callVars>>

-----------------------------------------------------------------------------
(* The call and its caller.                                                *)

\* The locals of a call that has not started or has ended.
NoLocals ==
    /\ attempt' = 1
    /\ infoWindow' = NoWindow
    /\ totalPages' = 0
    /\ page' = 1
    /\ read' = {}
    /\ exit' = "none"

\* fetch_all_logs is called.
FetchAllLogs ==
    /\ fpc = "idle"
    /\ fpc' = "info"
    /\ collected' = {}
    /\ NoLocals
    /\ UNCHANGED <<apiWindow, lastWindow>>

\* The caller receives the frame (collected) or the exception.
TakeResult ==
    /\ fpc \in {"returned", "raised"}
    /\ fpc' = "idle"
    /\ NoLocals
    /\ UNCHANGED <<apiWindow, lastWindow, collected>>

\* reset_window_start: the caller could not process the frame it got.
ResetWindowStart ==
    /\ fpc = "idle"
    /\ collected # {}
    /\ lastWindow' = NoWindow
    /\ UNCHANGED <<apiWindow, callVars>>

\* The process restarts: the module's globals and the call in progress are lost.
FetchRestart ==
    /\ lastWindow' = NoWindow
    /\ fpc' = "idle"
    /\ collected' = {}
    /\ NoLocals
    /\ UNCHANGED apiWindow

-----------------------------------------------------------------------------
(* GET /info.                                                              *)

Return(why) ==
    /\ fpc' = "returned"
    /\ exit' = why

\* 503, a body that is not an object, or a total_pages that is not a number:
\* an empty frame, and nothing is acknowledged.
InfoUnavailable ==
    /\ fpc = "info"
    /\ Return("info_unavailable")
    /\ UNCHANGED <<apiWindow, lastWindow, attempt, infoWindow, totalPages, page,
                   read, collected>>

\* /info names window w: the current one, or none when the field is missing (and
\* then there is nothing to compare with).
InfoSkip(w) ==
    /\ fpc = "info"
    /\ w # NoWindow
    /\ w = lastWindow
    /\ infoWindow' = w
    /\ Return("skip_duplicate_window")
    /\ UNCHANGED <<apiWindow, lastWindow, attempt, totalPages, page, read, collected>>

InfoEmptyWindow(w) ==
    /\ fpc = "info"
    /\ w = NoWindow \/ w # lastWindow
    /\ PagesOf[apiWindow] = 0
    /\ infoWindow' = w
    /\ lastWindow' = w
    /\ Return("empty_window")
    /\ UNCHANGED <<apiWindow, attempt, totalPages, page, read, collected>>

\* Mutants: the window is acknowledged before its pages are read; a window that
\* was acknowledged is read again.
InfoPagesCommitted(w) ==
    /\ fpc = "info"
    /\ w = NoWindow \/ w # lastWindow
    /\ PagesOf[apiWindow] > 0
    /\ infoWindow' = w
    /\ lastWindow' = w
    /\ totalPages' = Clamped(PagesOf[apiWindow])
    /\ fpc' = "page"
    /\ attempt' = 1
    /\ UNCHANGED <<apiWindow, page, read, collected, exit>>

InfoPagesAgain(w) ==
    /\ fpc = "info"
    /\ PagesOf[apiWindow] > 0
    /\ infoWindow' = w
    /\ totalPages' = Clamped(PagesOf[apiWindow])
    /\ fpc' = "page"
    /\ attempt' = 1
    /\ UNCHANGED <<apiWindow, lastWindow, page, read, collected, exit>>

InfoPages(w) ==
    /\ fpc = "info"
    /\ w = NoWindow \/ w # lastWindow
    /\ PagesOf[apiWindow] > 0
    /\ infoWindow' = w
    /\ totalPages' = Clamped(PagesOf[apiWindow])
    /\ fpc' = "page"
    /\ attempt' = 1
    /\ UNCHANGED <<apiWindow, lastWindow, page, read, collected, exit>>

Info(w) == InfoSkip(w) \/ InfoEmptyWindow(w) \/ InfoPages(w)

-----------------------------------------------------------------------------
(* GET /logs/current?page=page.                                            *)

\* Mutant: only the first window is remembered.
CommitFirstWindow(why) ==
    /\ lastWindow' = IF lastWindow = NoWindow THEN infoWindow ELSE lastWindow
    /\ Return(why)

\* The statement after the loop.
CommitWindow(why) ==
    /\ lastWindow' = infoWindow
    /\ Return(why)

\* Mutant: the loop stops one page early.
PageAnsweredShort(rows) ==
    /\ fpc = "page"
    /\ page <= PagesOf[apiWindow]
    /\ rows \subseteq {<<apiWindow, page>>}
    /\ read' = read \cup {<<apiWindow, page>>}
    /\ collected' = collected \cup rows
    /\ \/ /\ page + 1 < totalPages
          /\ page' = page + 1
          /\ attempt' = 1
          /\ UNCHANGED <<lastWindow, fpc, exit>>
       \/ /\ page + 1 >= totalPages
          /\ CommitWindow("window_fetched")
          /\ UNCHANGED <<page, attempt>>
    /\ UNCHANGED <<apiWindow, infoWindow, totalPages>>

\* The server answers with the page of the window it serves now; parsing keeps
\* the rows, or drops every one of them and the frame is skipped as empty.
PageAnswered(rows) ==
    /\ fpc = "page"
    /\ page <= PagesOf[apiWindow]
    /\ rows \subseteq {<<apiWindow, page>>}
    /\ read' = read \cup {<<apiWindow, page>>}
    /\ collected' = collected \cup rows
    /\ \/ /\ page < totalPages
          /\ page' = page + 1
          /\ attempt' = 1
          /\ UNCHANGED <<lastWindow, fpc, exit>>
       \/ /\ page >= totalPages
          /\ CommitWindow("window_fetched")
          /\ UNCHANGED <<page, attempt>>
    /\ UNCHANGED <<apiWindow, infoWindow, totalPages>>

\* 422: the window rolled to one with fewer pages than /info announced.
PageOutOfRange ==
    /\ fpc = "page"
    /\ page > PagesOf[apiWindow]
    /\ CommitWindow("page_out_of_range")
    /\ UNCHANGED <<apiWindow, attempt, infoWindow, totalPages, page, read, collected>>

\* 503: the page is not loaded yet.
PageNotLoaded ==
    /\ fpc = "page"
    /\ CommitWindow("page_not_loaded")
    /\ UNCHANGED <<apiWindow, attempt, infoWindow, totalPages, page, read, collected>>

-----------------------------------------------------------------------------
(* _get_with_retry, for either request.                                    *)

\* Mutants: no limit to the attempts; the loop starts over at page 1.
GetRetriedForever ==
    /\ fpc \in {"info", "page"}
    /\ attempt' = 1 + (attempt % FETCH_RETRY_MAX_ATTEMPTS)
    /\ UNCHANGED <<apiWindow, lastWindow, fpc, infoWindow, totalPages, page, read,
                   collected, exit>>

GetRestarted ==
    /\ fpc \in {"info", "page"}
    /\ attempt < FETCH_RETRY_MAX_ATTEMPTS
    /\ attempt' = attempt + 1
    /\ page' = 1
    /\ UNCHANGED <<apiWindow, lastWindow, fpc, infoWindow, totalPages, read,
                   collected, exit>>

\* Time-out, read or connect error, 5xx or 429 with attempts left.
GetRetried ==
    /\ fpc \in {"info", "page"}
    /\ attempt < FETCH_RETRY_MAX_ATTEMPTS
    /\ attempt' = attempt + 1
    /\ UNCHANGED <<apiWindow, lastWindow, fpc, infoWindow, totalPages, page, read,
                   collected, exit>>

\* A 4xx, a body that is not JSON or any other error at once; a transient one
\* when it was the last attempt.  The frames collected so far go with the call.
GetRaised ==
    /\ fpc \in {"info", "page"}
    /\ fpc' = "raised"
    /\ collected' = {}
    /\ UNCHANGED <<apiWindow, lastWindow, attempt, infoWindow, totalPages, page,
                   read, exit>>

-----------------------------------------------------------------------------

FetchStep ==
    \/ Info(apiWindow)
    \/ \E rows \in SUBSET {<<apiWindow, page>>} : PageAnswered(rows)
    \/ PageOutOfRange

\* What the network and the server may do wrong.
FetchFault ==
    \/ InfoEmptyWindow(NoWindow)
    \/ InfoPages(NoWindow)
    \/ InfoUnavailable
    \/ PageNotLoaded
    \/ GetRetried
    \/ GetRaised

FetchNext ==
    \/ Roll
    \/ FetchAllLogs
    \/ FetchStep
    \/ FetchFault
    \/ TakeResult
    \/ ResetWindowStart
    \/ FetchRestart

\* The event loop keeps running a call that was started, and every request is
\* answered or times out (HTTP_TIMEOUT_SECONDS).  Nothing obliges the server to
\* roll, the caller to call or reset, or the platform to restart.
FetchSpec ==
    FetchInit /\ [][FetchNext]_fetchVars /\ WF_fetchVars(FetchStep \/ FetchFault)

-----------------------------------------------------------------------------
(* Properties.                                                             *)

\* Types of fetch_all_logs' globals and locals.
FetchTypeOK ==
    /\ apiWindow \in Windows
    /\ lastWindow \in Windows \cup {NoWindow}
    /\ fpc \in {"idle", "info", "page", "returned", "raised"}
    /\ attempt \in 1 .. FETCH_RETRY_MAX_ATTEMPTS
    /\ infoWindow \in Windows \cup {NoWindow}
    /\ totalPages \in 0 .. MAX_PAGES_PER_WINDOW
    /\ page \in 1 .. MAX_PAGES_PER_WINDOW
    /\ read \subseteq Rows
    /\ collected \subseteq Rows
    /\ exit \in Exits

\* While its pages are being read, and after the read raised, the window /info
\* named is not acknowledged: the next poll reads it again from page 1.
UnreadWindowIsOpen ==
    fpc \in {"page", "raised"} /\ infoWindow # NoWindow => lastWindow # infoWindow

\* A call that read its window to the end, with the server still on that window,
\* has asked for every page of it the clamp allows, and no page of another one.
FetchedWindowIsComplete ==
    fpc = "returned" /\ exit = "window_fetched" /\ infoWindow = apiWindow
    => read = {infoWindow} \X (1 .. Clamped(PagesOf[infoWindow]))

\* The frame holds a page number once: no retry and no roll in mid-loop makes
\* the loop collect two pages with one number, and later pages never come from
\* an earlier window.
OnePassOverThePages ==
    \A r, s \in read :
        /\ r[2] = s[2] => r = s
        /\ r[2] < s[2] => r[1] <= s[1]

\* A window once acknowledged is not read again by this process unless it was
\* reset: while something is acknowledged, the page loop is entered only for a
\* newer window (or an unnamed one), and the acknowledged window moves forward.
AcknowledgedWindowsAdvance ==
    [][lastWindow # NoWindow =>
         /\ fpc = "info" /\ fpc' = "page" /\ infoWindow' # NoWindow
            => infoWindow' > lastWindow
         /\ lastWindow' \notin {NoWindow, lastWindow} => lastWindow' > lastWindow]_fetchVars

\* Every call ends: retries and pages are bounded whatever the server answers.
CallEnds == fpc \in {"info", "page"} ~> fpc \in {"idle", "returned", "raised"}

\* The docstring of fetch_all_logs: a 503 on /logs/current returns an empty frame
\* and the next poll retries the window.
NotLoadedWindowIsRetried ==
    fpc = "returned" /\ exit = "page_not_loaded"
    => collected = {} /\ (infoWindow = NoWindow \/ lastWindow # infoWindow)
=============================================================================
