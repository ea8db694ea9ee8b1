# A TLA+ model of the SAP threat detector

The service (`src/`) polls the SAP log API for one 30-minute window of logs at a
time, stores the rows in HANA, scores them with two detectors, reports and alerts
what they find, and retrains its model in the background.  A FastAPI process hosts
the loop, the probes, the dashboard's data and a conversational agent.

This directory models what its correctness depends on.  One half is order: what is
acknowledged when, what survives a failure or a restart, who holds a connection,
which tasks are alive, what a conversation still contains.  The other half is the
data the steps work on: features, verdicts, inserts, and the answers of the agent's
tools, as operators.  `PROJECT.json` maps every definition to its lines.

## 1. Inventory

Paths are relative to `src/src/`.

| component | state it keeps | operations | talks to |
|---|---|---|---|
| SAP log fetcher, `ingestion/sap_log_fetcher.py` | `_last_window_start`, the HTTP client | `fetch_all_logs`, `fetch_info`, `_get_with_retry`, `reset_window_start` | SAP `/info`, `/logs/current` |
| Log parser, `ingestion/log_parser.py`, `model/schema.py` | none | envelopes, column aliases, schema check | fetcher, detectors |
| Alert delivery, `alerting/sap_webhook.py`, `alerting/deduplication.py` | the TTL cache of dedup keys | `send_alert`, `_send_with_retry`, `should_fire`, `post_alert_message` | SAP `/alert` |
| Incident reports, `alerting/incident_report.py` | files | write a report | pipeline |
| Pipeline cycle, `pipeline.py: run_once` | its locals | OBSERVE, ANALYZE, DETECT, RESPOND | all of the above, the repositories |
| Background retrain, `pipeline.py: _retrain` | `_log_buffer`, `_cycle_count`, `_retraining` | trim, start, train, register | training, the model registry, HANA |
| Service lifecycle, `api/main.py: lifespan`, `pipeline.py: run_forever` | the tasks, `_stop`, `_consecutive_errors` | start, stop, signal, back-off, `/health`, `/ready` | everything |
| HANA pool, `storage/pool.py` | `_queue`, `_initialized`, the connections | `initialize`, `acquire`, `close` | hdbcli threads |
| Repositories and migrations, `storage/` | the tables SECURITY_LOGS, ANOMALIES, MODEL_VERSIONS | inserts, queries, `apply_schema` | the pool |
| Model registry, `model/versioning.py` | bundles, manifests and pointer files on disk | save, load, current version | training, detector |
| SAP detector, `model/features.py`, `predict.py`, `dbscan_detector.py`, `evaluate.py` | the active pair of models, a sliding context of batches | `predict` | registry |
| LLM detector, `model/llm_*.py` | a bundle | train, predict | registry |
| Agent, `agent/agent.py`, `dashboard/pages/5_Agent.py` | the conversation, the chat log, alert drafts, the breaker of the tool loop | ask, dispatch, trim, approve | tools, webhook |
| Agent tools, `agent/tools.py`, `helpers.py`, `truncation.py`, `api/agent_routes.py` | none | queries and analyses | repositories, pool |
| Metrics, `common/metrics.py` | counters and MTTD samples under one lock | record, `snapshot` | everyone |
| Configuration, dashboard, scripts, workflows | none that changes at run time | formatting and I/O | |

### How they interact

The pipeline is one asyncio task.  It awaits the fetcher, then the log repository,
runs the detectors on the event loop, and for each anomaly writes a report, awaits
`send_alert`, and awaits `insert_anomaly`.  The repositories borrow connections from
the pool, which API requests and agent tools borrow from too.  At the tail of a
successful cycle `run_once` may create the `_retrain` task, whose thread writes
bundles and pointer files that the next `predict` reads.  The lifespan creates the
pipeline task and others and tears them down.  The server's window rolls on its own
clock, at any point of all this.  The agent runs inside a Streamlit script that the
analyst may interrupt at any of its calls.

The contract between `run_once` and the fetcher is implicit and is the heart of the
system: `fetch_all_logs` acknowledges a window as soon as it has read it
(`sap_log_fetcher.py:206`), before anything is done with its rows, and *every*
failing exit of `run_once` has to undo that with `reset_window_start`
(`pipeline.py:186-188`).

### What is hard

* the window rolls between `/info` and a page, or between two pages;
* a call fails after part of its effect: some chunks stored, a row committed and the
  answer lost, an alert accepted and the answer lost;
* the process restarts between two awaits: HANA keeps its rows, the server keeps its
  alerts, the acknowledged window and the dedup cache are gone;
* the dedup cache remembers a firing that was never delivered;
* the retrain task runs while cycles end, and its flag must come down on each path;
* its thread writes a bundle and three pointer files while cycles load them;
* tasks queue for connections, are cancelled while a thread works on theirs, and
  initialise the pool again after a failed start;
* a stop request or a cancellation meets the loop at any await, or after its death, or
  with a retrain still running that no one waits for;
* a write fails or the process dies with a file opened and still empty;
* a conversation is trimmed by counting entries, while turns run out of iterations
  and the page adds entries of its own; the script dies between a post and its mark;
* training and serving compute the same features in two different ways, and so do
  HANA and the in-memory store, and the agent's overlapping tools.

`PROJECT.json` lists these as hazards, each at its line, with the properties that
would catch it going wrong.

### What makes each component correct

* **Fetcher**: a window is acknowledged only when it was read, every page once, and
  is not read twice; every call ends.
* **Alert delivery**: suppressed exactly when the key fired less than a TTL ago;
  "sent" means accepted.
* **Pipeline**: between cycles, an acknowledged window means the rows and the
  anomalies of its frame are in HANA; a row that says "sent" is true; the pipeline
  catches up.
* **Retrain and registry**: one retrain at a time, over the newest batches that fit the
  cap; once a process has served it finds a model; a replaced one is not used.
* **Pool**: one holder per connection, none lost, nobody starves.
* **Service**: a clean stop, probes that can be believed, and termination.
* **Agent**: calls and results stay paired, the trail of tools is true, only the newest
  draft can be approved, the page comes back.
* **Functions**: training sees what serving sees; a verdict has grounds; an
  acknowledged batch is stored once; tools that answer one question agree; the
  numbers are what the docstrings say.

## 2. Modules

| module | what it is |
|---|---|
| `LogFetcher` | `fetch_all_logs` request by request, with the external server |
| `AlertDelivery` | `send_alert`, its cache and its retry loop, with the external endpoint |
| `Retrain` | the tail of `run_once` and the `_retrain` task |
| `Pipeline` | EXTENDS the three above and composes them into `run_once`, with HANA's two tables |
| `WindowLedger` | what `Pipeline` promises of the windows, whatever fails; `Pipeline` implements it |
| `ModelRegistry` | bundles, pointer files and the active pair |
| `ModelLifecycle` | `Retrain` composed with `ModelRegistry`, the bootstrap and the cycles that load |
| `HanaPool` | the pool, its users, cancellation and threads that outlive their task |
| `Service` | lifespan, `run_forever`, signals, the retrain task beside them, the probes |
| `Agent` | `Agent.run` and the page that drives it |
| `Stats` | filters, sorting, and exact mean, variance and percentiles, for the next four |
| `SapDetector`, `LlmDetector` | features, training data, rules and verdicts as functions |
| `Repositories` | inserts, queries and migrations as functions of the tables |
| `AgentTools` | the tools, `run_custom_query`'s guards, truncation, compaction, dispatch |
| `LogParser`, `AlertText`, `Metrics` | parsing and frames; messages, reports and ids; the metrics |
| `MCLogFetcher`, `MCPipeline`, `MCFunctions` | instances for TLC; `MCFunctions` enumerates the inputs of the functions |
| `*Proofs`, `FoldFacts` | theorems, see section 4 |

Each module of a component defines its actions without the rest of the world
(`FetchAllLogs`, `SendAlert`, `EndCycle`, `BeginSave`); `Pipeline` and `ModelLifecycle`
conjoin them with what happens around them and with the frame conditions of the
others.  So a component is the same text whether it is checked alone against every
caller, or under the one caller the program has.

### State and code

* `LogFetcher`: `lastWindow` is `_last_window_start`; `infoWindow`, `totalPages`,
  `page` and `attempt` are the locals of `fetch_all_logs` and `_get_with_retry`;
  `collected` is the frame.  A page `<<w, p>>` stands for all its rows.  A request is
  one step: its answer (`InfoPages`, `PageAnswered`, ...), a retry (`GetRetried`) or an
  exception (`GetRaised`).  `Roll` is the server's own step.
* `AlertDelivery`: `cache` is `AlertDeduper._cache`.  `should_fire` is one step
  because it runs under its lock with no await; each POST is one step, which may be
  accepted whether or not the answer comes back.  `fired`, `accepted` and `answered`
  are history variables.  One unit of `now` is a minute, the grain of an ALERT_ID.
* `Retrain`: `buffer` holds the sizes of the frames; `cyclePhase` is `_cycle_count`
  modulo the retrain period, the only way the counter is read; `training` and
  `registering` count the `_retrain` tasks on either side of `await to_thread`.
* `Pipeline`: `ppc` is the await `run_once` is at.  `FailCycle` is the except clause:
  `reset_window_start` and raise.  OBSERVE is outside the try block, so `Fetched`
  with an exception leaves without a reset.  `logs` and `anomalies` are the tables;
  `dropped` and `found` are history.  `InsertLogsFailed(stored)` leaves any part
  of the batch stored, since the repository commits per chunk.
* `ModelRegistry`: a version is the number of its save.  `write_text` is two steps, of
  a manifest and of a pointer alike, since it truncates before it writes: a version is
  listed from the moment its manifest is opened (`manifests`), and complete once that is
  written (`bundles`).  `SaveFailed` may come before any of these steps and leaves the
  file as the step before left it, an opened one empty.  `active` is the pair
  `_active_legacy`, `_active_modern`.
* `ModelLifecycle`: `_load_models` is two steps, `LoadLegacy` and `LoadModern`, beside
  which the thread may save; `reset_active_model` (`Swap`) runs on the event loop and
  never between them.  `AtStartup` is the lifespan's test for a model; the process may
  die anywhere, in a save too, and the next one starts on an empty disk (`Redeploy`, as
  on Cloud Foundry) or on the one left behind (`Restart`).  `fresh` and `finished` are
  history.
* `HanaPool`: `queue` numbers the `asyncio.Queue` objects, because `initialize`
  replaces `_queue` and the tasks that wait on the old one stay there (`waitOn`).
  `threads[c]` counts the threads inside hdbcli, which a cancellation does not stop.
* `Service`: `loop` is where `run_forever` is, `cancel` a cancellation not yet
  delivered, `errors` is `_consecutive_errors`.  A cycle is its outcome, and the retrain
  it may start: `retrain` is that task, which trains, waits for a connection or holds
  one, whatever the lifespan does.
* `Agent`: a message is its kind.  `msgs`, `iteration`, `blocks`, `sqlFailures` are
  `run`'s locals; `history`, `chat` and `drafts` the page's session.  What the model
  answers, and whether a tool fails, is a choice.  `outcomes`, `delivered`, `approved`
  and `disturbed` are history.
* `SapDetector` has the two z-scores of `features.py` apart: `AddGlobalFeatures` is
  that of serving, which asks for a positive deviation, `WithZScores` that of training,
  which asks for one of zero; and their chains of filters, `WindowedRows` being
  training's.
* The functions have no variables.  Numbers are exact: a ratio is a numerator with a
  known denominator, a z-score a pair.  What the fitted forests say is an argument.

Definitions marked `Mutant` are plausible bugs in the definition that follows them;
nothing in the specifications uses them.

## 3. Runs

| run | question | distinct states |
|---|---|---|
| `fetch` | the fetcher against rolls, every failure and restarts, for any caller | 948 |
| `cycle` | the whole cycle with fetcher, alerts and retrain: rows, anomalies, sent flags, progress, and that it implements `WindowLedger` | 777 519 |
| `lifecycle` | retrain task, its buffer under batches of one and three rows, and the registry under saves that fail or die at any file and restarts on either disk | 444 121 |
| `pool` | three tasks on one connection; initialisations that overlap, fail and are cancelled | 12 006 |
| `service` | start, loop, signals, shutdown, and a retrain beside them | 714 |
| `agent` | three turns of two iterations, with interruptions and approvals | 723 579 |
| `functions` | detectors, inserts and tools over every input up to four elements | 24 875 |
| `not_loaded`, `sent_row`, `pool_size`, `backoff`, `agent_pairing` | the findings of section 6 | counterexamples |

`functions` grows an input one element at a time, in one of five areas, and checks
every prefix.  When `MCFunctions` is loaded TLC also evaluates its assumptions: the
remaining operators over their own small domains (column aliases, evidence, metric
summaries, message lengths, truncation, compaction, migrations that stop half-way,
outliers of the clustering, z-scores), and one input each for five of the divergences
of section 6.

### Bounds, and why they are enough

* **Windows**: in `fetch`, four with 3, 0, 1 and 1 pages under a clamp of 2: a clamped
  window, an empty one, a shorter one after a roll (out of range) and one more to
  return to.  In `cycle`, two of one page: a frame can show either, or be cut short
  by the roll.  The theorems lift both bounds.
* **Attempts**: 3 as in the code where the retry loop is the subject, 2 in the
  compositions, where only "some attempt before the last" and "the last" differ.
* **Clock**: in `cycle` TTL 1 within 0..1: a firing that has and one that has not
  expired, and two detections of an anomaly in one minute and in two.
* **Faults and restarts**: one in `cycle`, a fault *or* a restart: a request that
  failed, a partial insert, a lost answer, the end of the process.  The properties
  relate one interrupted cycle to its retry; the theorems lift the bound.  `lifecycle`
  bounds the saves of a disk (four) and the cycles of a process (four), neither failures
  nor restarts.
* **Pool**: one connection for three tasks, of which one may be cancelled, so that
  always some wait; three initialisations and two refused connections for a failed
  start, an overlap and one more.  `MaxThreads` stops the count of threads on one
  connection at 2.
* **Retrain**: a cap of two rows, four cycles with batches of one and three, a retrain
  every second cycle: batches below the cap, at it when two meet, above it, two frames
  dropped at once and a frame that is larger than the cap.  Four saves are the
  bootstrap's two and a retrain's two, and the proofs lift that bound.
* **Service**: `MAX_EXPONENT = 3` in `service`, since only reaching it matters; the
  real 1023 in `backoff`.
* **Agent**: a history of two rounds, so that a third turn is trimmed; two iterations,
  two tools per answer and a breaker of two, so that each can trip in mid-answer.
* **Functions**: four rows, or four batches with a context of two minutes: rows of two
  groups on both sides of a window's edge, and batches that leave the context.  LLM rows
  are of two models in one category, so that a corpus may have several.

`RETRAIN_EVERY` is 1 in `cycle`: every completed cycle may start a retrain.

Deadlock is checked except in `pool`, where after `close` every waiter waits for ever,
in the runs of `Service`, where a stopped process has no step, and in `functions`,
where an input stops growing.

### Fairness

* `FetchSpec`, `AlertSpec`: a request in flight is answered, fails or times out
  (`HTTP_TIMEOUT_SECONDS`), so the call takes *some* step; which one is not fair.
* `FairPipelineSpec`: weak fairness of the non-faulty steps of the cycle.  Faults and
  restarts are bounded by constants, the server's roll and the clock likewise.
  The property is thus about what happens once the environment behaves.  The steps
  of the retrain task need no fairness there: they never block a cycle.
* `ModelLifecycle!Spec`: the thread's writes return or raise, training ends; a cycle
  that has loaded one slot loads the other.  `RetrainEnds` also needs that the calls to
  HANA that register the new models return or raise, and no time-out of the code sees
  to that: the connections of the pool have none (`pool.py:146-157`).  The property is
  thus about a HANA that answers.
* `HanaPool!FairSpec`: weak fairness for threads and resumptions; strong fairness for
  `Get`, because the getters of an `asyncio.Queue` are woken first come first served.
* `Service!FairSpec`: weak fairness of what the event loop does by itself: a task that
  can move moves, a sleep ends, an await that is over returns.  None for a signal, a
  shutdown or the start; none for the end of a cycle, of a retrain or of the closing of
  a connection, which may wait for HANA for ever.  So `StopEndsLoop` promises two
  things: a cancellation always ends the loop, also in a call that never returns; a
  signal alone ends it if no cycle lasts for ever.  `ShutdownEnds` is about the await of
  the pipeline task, not about the closing of the connections after it.
* `Agent!FairSpec`: the API, a tool and a post return, raise or time out.  The analyst
  and Streamlit need do nothing.

## 4. Proofs

`tlapm` checks every proof to the last leaf, for every value of the constants that
satisfies the named assumptions; TLC evaluates those on the runs' instances.

`PipelineProofs`, about the fetcher, from `FetchAssumption` (naturals, at least one page and attempt,
`NoWindow` no window):

* `FetchTypeCorrect`: types, by one step lemma.
* The safety properties are not inductive alone.  That an unread window is open rests
  on the order of acknowledged, announced and served windows (`WindowsInOrder`);
  that a finished read is complete rests on what has been read in mid-loop
  (`NoPageMissed`); that pages are read once rests on every page read so far lying
  before the loop variable and no later than the server (`PagesInOrder`).  `FetchInv`
  is the conjunction, preserved part by part by one lemma each.
* `UnreadWindowStaysOpen`, `FetchedWindowComplete`, `PagesReadOnce` follow from it, and
  `WindowsAdvance`, an action property, from it and `AdvanceStep`.

`PipelineProofs`, about alert delivery, from `AlertAssumption`:

* The type invariant itself is not inductive: the history of accepted alerts is well
  typed because a call that sends has fired its key (`SendingFired`).  `AlertInv`
  conjoins it with the properties, and is preserved by calls, POSTs and the rest.
* `AlertTypeCorrect`, `CacheIsMemory`, `SentMeansAccepted` follow, and
  `SuppressionIsExact`, which adds that a lookup in such a state suppresses exactly the
  keys whose firing is younger than the TTL (`LookupFindsRecent`).

`PipelineProofs`, about the composition, from the assumptions of its parts:

* Every step of the pipeline is a step of the fetcher or leaves it alone
  (`PipelineFetches`), and likewise for the alerts (`PipelineAlerts`); so `FetchInv`
  and `AlertInv` hold of the composition without being proved again.
* `CycleInv` says what `run_once` knows at each of its awaits: what the frame holds
  (`FrameInv`), which anomalies are still to do (`RespondInv`), and why the flag about
  to be written is true (`SentInv`).  From it come `AcknowledgedRowsStored`,
  `AcknowledgedAnomaliesRecorded`, `RecordedSentAccepted` and `PipelineTypeCorrect`.
* `PipelineKeepsLedger`: the pipeline implements `WindowLedger`, step by step, under
  the mapping in which a window is settled when it is acknowledged *and* the cycle is
  over.  That mapping is the point: in mid-cycle `lastWindow` already names the
  window, and the promise is only kept because every failing exit resets it.

These theorems speak of the frame that was just processed.  A 503 or a 422 ends the read
of a window with pages unread and acknowledges it, and those are in no frame
(`not_loaded`): "acknowledged" is not "everything the server had".  The ledger says
neither that windows come in order nor that one is settled once; the order of
acknowledgements is `WindowsAdvance`'s, and a reset or a restart repeats a window.

`RetrainProofs` and `ModelLifecycleProofs`:

* What a retrain sums up: `SumFunction` is one of the sums of `FoldFacts`
  (`SumIsTabled`), and so a row more adds its count (`SumAppends`).
* The trimming loop always finds a first frame to keep, and keeps the longest run of
  newest frames within the limit (`TrimmedIsLongest`).  That trimming the buffer a
  frame at a time equals trimming all frames of the process (`BufferStaysLongest`,
  for `BufferIsLongestSuffix`) is `CycleKeepsLongest`: a frame that was dropped can
  never fit again, as sums of rows only grow (`RowsGrow`).
* `OneRetrainTask`: the tail of a cycle starts a task only when none is alive, and each
  way out of the task takes the flag down once.
* `ServedStaysServed` (`ModelsStayServed`) rests on `DiskOrder`: what a pointer names is
  complete (`FilesInOrder`), and a save that is past its manifest has a complete bundle
  (`SavesInOrder`); so a pointer that is neither absent nor empty can be followed
  (`LoadFinds`), on a disk that an earlier process left in mid-save too.  The pair is
  dropped only when `latest.txt` exists (`ServedPairStays`), and then it is a version or
  empty: empty for an instant, or for good after a write that failed.  That is the
  exception the property makes, for a feature set without a pointer of its own.
* `RetrainedModelsReplaceOld` (`RetrainedModelsAreUsed`) rests on `SaveOrder` (a retrain
  comes after the bootstrap's save, so that there is one save at a time, `SaveIsAlone`,
  and takes a newer tag than all before) and
  `PointersForward` (no pointer names anything older than what a finished retrain put
  in its place).  A cycle that loads beside the thread may get a new model early, but
  never an old one after `Swap` has dropped the pair.
* `LifecycleTypeCorrect`: types of everything, from the two invariants.

`HanaPoolProofs`, for every size of the pool and any number of tasks:

* `ConnectionsHaveOneHolder`, from three facts: connections are numbered as they are
  opened, so a new one is nobody's (`Numbered`); a task that gives one back has one
  (`Carried`); and a queue in use was created (`QueueInv`).
* `PoolTypeCorrect`.  The hard part is that `opened` stays within the bound: every call
  of `initialize` hands out `Size` tickets and a connection costs one, so that what is
  opened and what is still to be opened fit in the queues made so far (`Budget`).
  That a thread's counter never goes below zero needs that a task in `using` has a
  thread at work (`Working`).
* `NothingGetsLost` (`NothingLost`) follows the first queue: the lifespan fills it with
  consecutive connections (`Filling`), no task opens one meanwhile or makes a queue
  without being counted (`OneOpener`), and from then on each of the `Size` connections
  is in the queue or in a hand (`Complete`); `release` always finds room, since the
  connection it brings is not in the queue (`RoomToRelease`).

`AgentProofs`, for any number of turns, iterations and tools and any breaker limit:

* `AgentTypeCorrect`: `TypeInv`, with what a turn (`TurnInv`) and a post (`PostInv`) may
  rely on; a post that is under way has a pending draft.
* `DraftsStayCurrent` (`DraftsAreCurrent`): a draft waits only between two turns, as a
  new turn makes every pending one obsolete before it asks (`DraftInv`).
* `RequestsStayPaired` (`RequestIsPairedUnlessDisturbed`): an undisturbed history has
  even length, the model speaks at even places and every call is followed by its
  results (`InOrder`, `PairInv`).  A request is odd and the cap is even, so a cut one
  begins at an even place (`CutIsEven`), where there are no results (`TrimmedIsPaired`).
* `TrailStaysTrue` (`TrailIsTrue`): the started entries are numbered by counting
  (`StartedIn`), the n-th of them is the n-th outcome, and an entry marked as failed
  is the one that was just started (`NewOutcomeIsTruthful`).  The breaker
  marks the *last* entry as skipped if it is a query's, and that one may really have
  run; it does no harm because the query that opened the breaker failed, and is shown
  as failed already (`TrailInv`, `SkippedIsTruthful`).

`FoldFacts` and `FunctionsProofs`, for inputs of any length:

* `FoldKeeps` is the induction for loops: if each turn of a `FoldLeft` keeps an
  invariant of the number of turns and the state, the result is in it.  The library's
  induction theorems take an operator parameter, which the provers cannot instantiate;
  here the turn and the invariant are the constants of `FoldFacts`, and a proof takes
  an instance of the module for each of its loops.  `FoldLeft` is one table over the
  subsets of the positions; that there is such a table (`TableExists`) and that its
  rows follow each other is proved by a smallest counterexample.
* A sum is such a table as well.  Two tables agree up to the smallest set on which they
  would differ (`SumTablesAgree`), an element adds what it is worth in whatever order
  they are taken (`SumTableAdds`), and the names of the elements do not matter
  (`SumRenamed`).  A sum is that of any part and that of the rest (`SumSplits`), and of
  the sums of the classes of its elements (`SumOfClasses`); of zeros and ones it is
  the number of the ones (`SumCounts`).
* `Kept`, the fold that is every filter of the model, lists the elements it keeps by
  their ascending positions (`KeptIsListed`), and there is only one such list
  (`OneList`).  So filters that keep the same elements leave the same (`KeptSame`), and
  two filters are the filter of both (`KeptTwice`).
* `AcknowledgedLogsStored` (`AcknowledgedLogsAreStored`), by way of
  `EveryBatchIsStored`, which says it of a batch of any rows.  `Inserted` is the
  invariant of both loops of `_bulk_insert_sync`: each row so far is counted once, those
  that the database takes are stored or have their LOG_ID in the table, none is there
  twice, and nothing that was stored is gone.  The fallback keeps it row by row
  (`ExecuteRowLands`, `LoopInserts`), a chunk keeps it wherever `executemany` stopped and
  whether or not the driver kept the rows before (`ChunkInserts`), and the chunks follow
  each other and together are the rows (`ChunksSplit`).  A table that some of the rows
  are already in is as good a start as an empty one: that is why a window inserted
  again after an error is completed.
* `ContextStaysRecent` (`ContextIsRecent`), by way of `PredictRemembers`, for batches
  in order of time: the count is at least the current run of recent batches in which the
  address is elevated, and at most all of them.  (The code counts the latter and its
  docstring names the former; assumption `RunsAreAddedUp` of `MCFunctions`.) The deque
  is pruned from its left end and only by a batch that has features; `ContextInv` says
  which batches it lists (`Holds`): those with features that no later one with features
  made too old (`Remembered`). Appending and pruning keep the list in order
  (`AppendedLists`, `PrunedLists`), so the calls from the first recent one on are all
  the recent ones, and counting calls is counting batches (`CountListed`).

* `TrainingAlwaysMatches` (`TrainingMatchesServing`), by way of
  `TrainingSeesWhatServingSees`, for any log and windows of any length.  Training filters
  and times the whole frame and cuts it by window and address (`TrainingRows`); serving
  filters the window and cuts it by address (`ServingRows`); both are one filter of the
  log.  A row's z-scores compare it with the rows of its window in one and with all of
  its batch in the other, which are the same under other names (`ZScoreRenamed`); and
  they are two pieces of code, of which one guards against a deviation of zero and the
  other asks for a positive one (`GlobalIsZScore`).  That these are the same condition
  is that n times a sum of squares is no less than the square of the sum, by induction
  over the rows (`SumOfSquares` in `FoldFacts`).
* `VerdictsAlwaysGrounded` (`LlmVerdictsAreGrounded`), from two theorems for any log
  and whatever was learnt.  `HighVerdictsHaveGrounds` follows a rank of 3 back through
  `_combine_severity` (`Combined`) to the rules and fractions it came from (`Grounds`).
  `OutliersNeverCalm`: a row that its forest flags more stays in its cohort
  (`FlaggedCohort`), changes the mind of no rule (`FlagsFireNothing`) and raises each
  count or leaves it (`FlaggedCounts`), and the combination grows in all of its arguments
  (`RanksGrow`).
* `CorpusAlwaysSpared` (`CorpusIsSpared`), by way of `CorpusSparesAModel`, for any corpus
  with any number of models.  A baseline is the rate of a category, a cohort is one
  model in it, so on the training rows themselves a model that is worse than the others
  can raise a spike; but the category is made of its cohorts, and their rates cannot all
  be above the rate of the whole (`SharesAddUp`).

* `HelpersAlwaysAgree` (`HelpersAgree`), by way of `AnswersAgree`, for any tables whose
  metrics are numbers or NULL.  Each metric that adds up, a count or a SUM that leaves
  NULLs out, is a sum over the rows of what one row is worth (`Worth`, `MetricTotal`).
  GROUP BY makes one answer for each class of rows (`GroupsAnswer`), so the answers add
  up to the window (`AnswersTotal`); sorting them, however the order is defined and
  whatever ties, only rearranges them (`SortingRearranges`), and that is why ORDER BY
  before the cut does no harm while at most 50 groups exist, the largest number a
  breakdown may show.  A window is the set of positions of its rows (`LaterTakes`), the
  prior one of the same length is the one twice as long without the recent one
  (`PriorTakes`), and a clock that has
  moved on between the two queries only takes rows from the recent one (`SinceGrows`).
  The windows are up to 360 hours, so that the two together are still a valid question.
  That the code takes windows of different lengths too is the assumption
  `WindowsDiffer` of `MCFunctions`.
  The proof rests on `StatsAssumption`, that None is not a number.

`ServiceProofs`: `ServiceTypeCorrect`, which needs that the exponent is in range
whenever the loop goes on (`BackoffInRange`), and `ShutdownIsClean`, which needs the
order of the lifespan's phases (`LifespanOrder`).  It is about the tasks the lifespan
itself started, and about connections, which are never closed under the pipeline or
under a retrain that is using one; the retrain itself may outlive the shutdown
(section 6).

Model-checked only:

* every liveness property (`CallEnds`, `EventuallyCaughtUp`, `RetrainEnds`,
  `AcquireIsServed`, `HealthMeansCycles`, `StopEndsLoop`, `ShutdownEnds`,
  `ScriptEnds`): liveness under fairness is out of the proof system's reach;
* the assumptions of `MCFunctions`.

## 5. Not modelled

* Mock modes (`SAP_MOCK`), log lines, the wording of reports and messages.
* `poll_logs` and `activate`, which nothing in the service calls; `fetch_logs`, one
  page of rows for an agent tool.
* What the Isolation Forests and the scaler compute, and cross-validation: numeric.
  Their outcome is an argument, or a choice (`Predict`, `NoFeatures`, `PredictFailed`).
* The LLM bootstrap and the keep-alive task, which end in a log line whatever happens.
* The clean-up of a cell's text by the parser; start-up configuration and proxies.
* The dashboard's read-only pages, one-shot scripts and CI workflows.
* The HTTP server around the lifespan; in particular what it does once
  `run_forever` has replaced its SIGTERM handler (`pipeline.py:373-378`).
* The errors of `_run_select`: a helper returns the error of its query, of two queries
  the first one's, and what the model does with an error is in `Agent`.
* A start-up in which the pool's initialisation failed is in `HanaPool`, not in
  `Service`: there the acquire of a retrain that outlives the shutdown would open the
  pool again.
* Latencies.  A tick of the clock may come anywhere.  Time-outs are those of Python
  3.11 (`requires-python`), where `asyncio.TimeoutError` is `TimeoutError`.

## 6. Findings

With a run (`PROJECT.json`, "findings"):

* **not_loaded**: a 503 on a page ends the loop and the window is acknowledged,
  although the docstring promises that the next poll retries it.
* **sent_row**: when `insert_anomaly` fails after the alert was accepted, the retry
  finds it suppressed, and the only row says WEBHOOK_SENT false.
* **pool_size**: after a failed start two tasks initialise the pool at once and open
  twice its fixed size.
* **backoff**: `2.0 ** n` overflows at the 1024th error in a row, inside the except
  clause: the loop is over.
* **agent_pairing**: a turn that runs out of iterations, or an approved alert, changes
  the parity of the history; from then on the trimmed request can begin with tool
  results whose call was cut off.

Shown by an assumption of `MCFunctions`, an input on which the code does not do what is
said of it.  No property of `functions` claims it:

* `RunsAreAddedUp`: `_update_context` announces counts of consecutive elevated batches
  (`predict.py:45-46` and 58-59) and adds up all elevated ones in the window (67-72):
  elevated, not, elevated counts two.
* `DisagreementIsCalm`: `llm_train.py:21-22` says that disagreement of the two forests
  escalates; `_combine_severity` (`llm_predict.py:342-347`) escalates on agreement, as
  its own module's docstring (23-24) says, and that is what `HighHasGrounds` follows.
* `NamelessRowsCollide`: rows without `_id` in a frame that has the column carry NaN,
  which is not None, and all get the LOG_ID "nan" (`repositories.py:222`).  All but the
  first violate the unique index and are swallowed as duplicates of it, where
  `ARCHITECTURE.md:180` says that rows are deduplicated by their `_id`.
  `AcknowledgedLogsAreStored` leaves these rows out.
* `WindowsDiffer`: `compare_windows` is announced as two windows of equal length
  (`helpers.py:149-150` and 161, `schemas.py:228`); the prior one has a length of its own,
  24 hours against one by default.  `CONVERSATIONAL_AGENT.md:364-371` has it begin `b`
  hours ago, where the code begins `a + b` hours ago.
* `LevelFilter`: `get_recent_anomalies` takes HIGH, MEDIUM or LOW in any case, but HANA
  stores the levels in lower case and the query compares with the upper-case argument:
  it finds nothing, where the in-memory store finds them.

Noticed while modelling, without a run:

* The lifespan's docstring (`main.py:277`) says it tears the pipeline down on shutdown.
  The retrain task that `run_once` creates (`pipeline.py:172`) is neither cancelled nor
  awaited: it goes on training after `pool.close`, and a connection it holds then stays
  open, since `close` closes what is queued.  `Service` has the task, and `StoppedCleanly`
  does not claim its end.
* `ARCHITECTURE.md:236-237` says that `/ready` checks pipeline health.  It reads
  `is_running`, which is the stop event only (`pipeline.py:295`), so it finds a pipeline
  healthy whose task has died; `/health` (`main.py:368-369`) does look at the task
  (`HealthMeansCycles`).
* A write of `latest.txt` that fails after the file was opened leaves it empty
  (`versioning.py:141-142`).  The slot without a pointer of its own then finds no model
  until something is saved again, although `predict.py:236-238` says that both slots
  resolve to a single model on disk.  `ModelsStayServed` excepts this case by name.
* `deduplication.py:12-13` says the first alert fires and repeats are suppressed; the
  key is marked (74) before the send, so the "repeat" of an alert that failed to go
  out is suppressed as well.
* `incident_report.py:93` prints `webhook_sent` with default True, before the alert is
  sent (`pipeline.py:143-149`): the line always says True.  The id inside an LLM
  anomaly's report differs from the one in its file name.
* A timed-out agent tool (`agent.py:374-378`) puts its pooled connection back
  (`pool.py:91-92`) while its thread still works on it; `tools.py:528-531` explains
  why one tool takes a connection of its own for this very reason.
* An alert that was accepted can be approved again if the page's script is stopped
  between the post and the mark (`5_Agent.py:281`).
* The two windows of `compare_windows` are two queries with a clock each, so rows may be
  in both by the time in between.
* A model that is worse than the others of its category raises a spike rule on the very
  rows its baseline was learnt from, since baselines are per category and cohorts per
  model.
* A process that starts on a disk with a listed version starts no bootstrap, even if its
  manifest is empty because a save died; with no other version every load raises
  (`JSONDecodeError`, which `load_for_feature_set` does not catch).
* `/info` without a usable `total_pages` (missing, null, negative) counts as an empty
  window and is acknowledged (`sap_log_fetcher.py:163-171`); `PagesOf` is 0 there.
* With `limit=0` the in-memory `recent_*` queries return everything.  A LIMIT of the
  model's own at the end of a custom query is replaced by the cap plus one.
* A window that is read again, and every call of `/predict`, counts in the context too.
* `_combine_severity`'s docstring says that the low threshold decides; the code compares
  with 0.20 where that threshold is 0.15.  The comments on the number of features (16
  and 13) are one off.  An LLM bundle's metadata has no `version_tag`, so the model
  version of an LLM anomaly is "unknown".
* `normalize_columns` gives two aliases of one column the same name.
* The clustering's docstring says outliers score strongly negative; a far outlier
  raises the score of a nearer one above that.

## 7. What is left

* The retrain of a `Service` whose pool never started.
* `/predict` requests beside the loop, which share its active pair and its context.
* The LLM bootstrap as a second writer of the LLM registry.
