---------------------------- MODULE AlertDelivery ----------------------------
(***************************************************************************)
(* src/alerting/deduplication.py and src/alerting/sap_webhook.py:          *)
(* send_alert asks the TTL cache whether an alert with this key may fire,  *)
(* then POSTs it to the SAP /alert endpoint with retries.  The pipeline is *)
(* the one caller and waits for each answer.                               *)
(*                                                                         *)
(* Time is the clock in minutes (the grain of an ALERT_ID).  A key stands  *)
(* for AlertDeduper.key_for's tuple: detector, entity and threat level.    *)
(***************************************************************************)
EXTENDS Naturals, FiniteSets, Functions

CONSTANTS
    Keys,                        \* dedup keys
    ANOMALY_DEDUP_TTL,           \* settings.anomaly_dedup_ttl_seconds
    WEBHOOK_RETRY_MAX_ATTEMPTS,  \* RETRY_MAX_ATTEMPTS of the webhook
    MaxTime,                     \* bound: the clock stops here
    Never,                       \* a key that has not fired in this process
    NoKey                        \* no alert has been handed to send_alert

Time == 0 .. MaxTime

ASSUME AlertAssumption ==
    /\ ANOMALY_DEDUP_TTL \in Nat
    /\ WEBHOOK_RETRY_MAX_ATTEMPTS \in Nat \ {0}
    /\ MaxTime \in Nat
    /\ Never \notin Nat
    /\ NoKey \notin Keys

VARIABLES
    now,        \* utcnow()
    cache,      \* AlertDeduper._cache: key -> expiry
    apc,        \* send_alert: "ready", "sending", "done"
    key,        \* the key of the alert being sent
    tries,      \* _send_with_retry's attempt
    result,     \* how the last call ended
    fired,      \* history: when each key last fired in this process
    accepted,   \* history: <<key, time fired>> of the alerts the server accepted
    answered    \* history: those of them whose 2xx answer came back

alertVars == <<now, cache, apc, key, tries, result, fired, accepted, answered>>

Results == {"none", "sent", "suppressed", "failed", "raised"}

AlertInit ==
    /\ now = 0
    /\ cache = << >>
    /\ apc = "ready"
    /\ key = NoKey
    /\ tries = 1
    /\ result = "none"
    /\ fired = [k \in Keys |-> Never]
    /\ accepted = {}
    /\ answered = {}

Tick ==
    /\ now < MaxTime
    /\ now' = now + 1
    /\ UNCHANGED <<cache, apc, key, tries, result, fired, accepted, answered>>

-----------------------------------------------------------------------------
(* AlertDeduper.should_fire: one critical section.                         *)

\* Mutant: an entry lives on at its very expiry.
UnexpiredOrDue == Restrict(cache, {k \in DOMAIN cache : cache[k] >= now})

\* _evict_expired
Unexpired == Restrict(cache, {k \in DOMAIN cache : cache[k] > now})

ShouldFire(k) == k \notin DOMAIN Unexpired

\* The key is marked as fired before anything is sent.
Mark(k) == [j \in DOMAIN Unexpired \cup {k} |->
                IF j = k THEN now + ANOMALY_DEDUP_TTL ELSE Unexpired[j]]

-----------------------------------------------------------------------------
(* send_alert, up to its first await.                                      *)

Suppress(k) ==
    /\ apc = "ready"
    /\ ~ShouldFire(k)
    /\ cache' = Unexpired
    /\ key' = k
    /\ apc' = "done"
    /\ result' = "suppressed"
    /\ UNCHANGED <<now, tries, fired, accepted, answered>>

Fire(k) ==
    /\ apc = "ready"
    /\ ShouldFire(k)
    /\ cache' = Mark(k)
    /\ fired' = [fired EXCEPT ![k] = now]
    /\ key' = k
    /\ tries' = 1
    /\ apc' = "sending"
    /\ result' = "none"
    /\ UNCHANGED <<now, accepted, answered>>

SendAlert(k) == Suppress(k) \/ Fire(k)

-----------------------------------------------------------------------------
(* _send_with_retry: one POST per step.                                    *)

Finish(r) ==
    /\ apc' = "done"
    /\ result' = r
    /\ UNCHANGED tries

\* Another attempt after a back-off, or False after the last one.
RetryOrGiveUp ==
    \/ /\ tries < WEBHOOK_RETRY_MAX_ATTEMPTS
       /\ tries' = tries + 1
       /\ UNCHANGED <<apc, result>>
    \/ /\ tries >= WEBHOOK_RETRY_MAX_ATTEMPTS
       /\ Finish("failed")

\* Did this POST reach the server and was it accepted there?
Accepting(yes) ==
    accepted' = IF yes THEN accepted \cup {<<key, fired[key]>>} ELSE accepted

\* 2xx
PostAnswered ==
    /\ apc = "sending"
    /\ Accepting(TRUE)
    /\ answered' = answered \cup {<<key, fired[key]>>}
    /\ Finish("sent")
    /\ UNCHANGED <<now, cache, key, fired>>

\* 5xx, 429, connect or read error, or a time-out: when the answer is what was
\* lost, the server has accepted the alert all the same.
PostRetryable(yes) ==
    /\ apc = "sending"
    /\ Accepting(yes)
    /\ RetryOrGiveUp
    /\ UNCHANGED <<now, cache, key, fired, answered>>

\* Mutant: a status below 500 counts as sent.
PostRefusedTaken ==
    /\ apc = "sending"
    /\ Finish("sent")
    /\ UNCHANGED <<now, cache, key, fired, accepted, answered>>

\* Any other status below 500: no retry.
PostRefused ==
    /\ apc = "sending"
    /\ Finish("failed")
    /\ UNCHANGED <<now, cache, key, fired, accepted, answered>>

\* An error the except clauses do not name leaves send_alert as an exception.
PostRaised(yes) ==
    /\ apc = "sending"
    /\ Accepting(yes)
    /\ Finish("raised")
    /\ UNCHANGED <<now, cache, key, fired, answered>>

\* The caller receives the boolean, or the exception.
TakeAlertResult ==
    /\ apc = "done"
    /\ apc' = "ready"
    /\ tries' = 1
    /\ result' = "none"
    /\ UNCHANGED <<now, cache, key, fired, accepted, answered>>

\* The process restarts: the cache and the call are lost; the alerts the server
\* accepted are not.
AlertRestart ==
    /\ cache' = << >>
    /\ apc' = "ready"
    /\ key' = NoKey
    /\ tries' = 1
    /\ result' = "none"
    /\ fired' = [k \in Keys |-> Never]
    /\ UNCHANGED <<now, accepted, answered>>

-----------------------------------------------------------------------------

AlertFault ==
    \/ \E yes \in BOOLEAN : PostRetryable(yes) \/ PostRaised(yes)
    \/ PostRefused

PostStep == PostAnswered \/ AlertFault

AlertNext ==
    \/ Tick
    \/ \E k \in Keys : SendAlert(k)
    \/ PostAnswered
    \/ AlertFault
    \/ TakeAlertResult
    \/ AlertRestart

AlertSpec == AlertInit /\ [][AlertNext]_alertVars

-----------------------------------------------------------------------------
(* Properties.                                                             *)

\* Types of the cache, of the call and of the history.
AlertTypeOK ==
    /\ now \in Time
    /\ DOMAIN cache \subseteq Keys
    /\ cache \in [DOMAIN cache -> 0 .. (MaxTime + ANOMALY_DEDUP_TTL)]
    /\ apc \in {"ready", "sending", "done"}
    /\ key \in Keys \cup {NoKey}
    /\ tries \in 1 .. WEBHOOK_RETRY_MAX_ATTEMPTS
    /\ result \in Results
    /\ fired \in [Keys -> Time \cup {Never}]
    /\ accepted \subseteq Keys \X Time
    /\ answered \subseteq accepted

\* The cache is exactly the memory of the firings whose TTL still runs: every
\* entry is a firing plus the TTL, and no firing younger than that is forgotten,
\* whichever keys were looked up and evicted in between.
CacheIsRecentFirings ==
    \A k \in Keys :
        /\ k \in DOMAIN cache =>
             fired[k] # Never /\ cache[k] = fired[k] + ANOMALY_DEDUP_TTL
        /\ fired[k] # Never /\ now < fired[k] + ANOMALY_DEDUP_TTL => k \in DOMAIN cache

\* should_fire over any history: an alert is suppressed when its key fired less
\* than the TTL ago in this process, and only then.
SuppressedIffRecent ==
    [][\A k \in Keys :
          apc = "ready" /\ apc' # "ready" /\ key' = k
          => (result' = "suppressed"
              <=> fired[k] # Never /\ now < fired[k] + ANOMALY_DEDUP_TTL)]_alertVars

\* send_alert reports an alert as sent only when the server accepted this very
\* firing of it, after however many attempts.
SentWasAccepted ==
    result = "sent" => <<key, fired[key]>> \in accepted
=============================================================================
