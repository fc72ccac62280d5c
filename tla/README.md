# A TLA+ model of the realtime fraud detection pipeline

The repository is a streaming fraud scorer: a producer writes transactions to
Kafka, a feature engine turns them into online features (Redis) and snapshot rows
(Postgres), a scoring API answers requests with the models of a candidate pool, a
feedback simulator labels predictions, and a drift monitor retrains. This directory
models the parts of it whose correctness depends on interleavings, failures and
restarts; TLC checks them on small instances and TLAPS proves the central
invariants for every value of the constants.

Paths below are relative to `src/`.

## 1. Inventory

| Component | State it keeps | Operations | Hard behaviour |
|---|---|---|---|
| **Producer** `producer/main.py` | none | `publish` to Kafka, waits for the acknowledgement | a send whose reply is lost is sent again |
| **Feature engine** `feature_engine/main.py`, `common/kafka_reader.py` | Kafka position and committed offset; rolling history, last seen and features in Redis; dead letter list; two row buffers; the connection | `read_batch`, `compute_and_store`, `enqueue`, `flush` (from two threads), `commit`, `close`, SIGTERM | two threads in `flush`, partial inserts, put-back rows, commit before the rows are stored, poison pills, restarts |
| **Candidate pool** `training/train.py`, table `model_registry_meta` | one row per model version: AUC, `is_active` | a training run: register, verify, promote and deactivate in one transaction | overlapping runs, a run that dies in between, equal AUCs |
| **Hot reload** `serving/model_registry.py`, `serving/main.py` | per gunicorn worker: current models, `last_reload_error` | `load_initial`, `maybe_reload` from the poll loop and from `POST /admin/reload` | checks that overlap in threads, stale rows, unloadable models, worker restarts |
| **Scoring and micro-batching** `serving/scoring.py`, `serving/main.py` | per worker: table of batchers by `id(model)`, their queues, alpha/beta of each model | `score`, `pick_model`, `_get_batcher`, `_process_loop`, `update_metrics` | swaps between two awaits, cancelled loops, reused addresses, batch limits |
| **Drift monitor** `monitoring/drift.py` | tables `drift_baseline_stats`, `drift_events`; the transaction of a check | `run_once`, `establish_baseline`, `check_drift`, `cooldown_active`, `trigger_retrain` | a training process that hangs, fails or outlives its limit; a transaction held open meanwhile |
| **Feature store client** `serving/redis_features.py`, `serving/circuit_breaker.py` | per worker: cache with a time to live | `get_feature_vector` | a slow read overwrites a newer entry, a hash that expires |
| **Prediction log** `serving/main.py`, `serving/db_async.py` | tables `predictions`, `transactions`; alpha and beta of each model | insert, SHAP backfill, `update_metrics` | writes after the answer, workers that die with them, requests sent again, an update by `txn_id` before its row |
| **Feedback** `feedback/simulate_labels.py` | table `labels`, `predictions.label_confirmed_at` | `run_once`: select, insert, update in one transaction | delays drawn anew in each pass, rollback, two instances on one transaction |
| **Graph features** `graph_features/` | Neo4j | best effort reads and writes | errors become zeros |
| Flink job, Redis Streams reader, dashboards, ONNX helpers, load tests | – | – | demonstrations, read-only or unused code |

Interactions: producer → Kafka → feature engine → Redis/Postgres; scoring reads
Redis and writes `predictions`; training reads `feature_snapshots` and `labels` and
writes `model_registry_meta`; every scoring worker polls that table; the drift
monitor reads `feature_snapshots`, `predictions` and the table, and starts training
as a child process. All components meet in tables and topics, none in memory, which
is why each can be modelled with the others reduced to the rows it reads.

What makes each one correct:

* feature engine: no message is lost except where the code gives it up; a malformed
  one is in the dead letter queue before its offset is committed; the writer neither
  loses nor doubles a row; every message is settled in the end;
* candidate pool: a model leaves the pool only for better ones; the pool stays
  bounded; serving's query returns every model that is clearly one of the best there have been;
* hot reload: a worker that is up always has loadable models; it shows an error while it cannot
  follow the pool; a swap takes out a best model only with rows older than that model; it ends up
  with the best of the pool;
* scoring: a result is of the model it was asked of; a request handed to a batcher
  is at one place until it is answered; running batchers answer;
* drift monitor: checks never stop; drift that stays is acted on; the measure of drift misses
  no value and is blind only where the quantiles of the baseline are too few;
* online features: a snapshot row holds what the transactions before it imply; what
  serving reads is not older than the cache allows;
* prediction log and feedback: what was answered is logged, what is flagged is
  explained; a confirmed prediction has its label, and a label stays; the bandit
  counts what is there, and in the end all of it.

## 2. Modules

| Module | Models | Composition |
|---|---|---|
| `FeatureEngine` | consumer loop, both threads of the snapshot writer, commit, DLQ, SIGTERM, crash and restart | Kafka, Redis and Postgres are variables of it |
| `FeatureEngineProof` | theorems about `FeatureEngine` | extends it and TLAPS |
| `Delivery` | abstract: an offset is done, held or delivered again | `FeatureEngine` implements it: `DeliverySpec`, with `Settled` messages for `done` and the writer's `Custody` for `held` |
| `FeatureEngineDelivery` | the proof of that refinement | extends `FeatureEngineProof` |
| `OnlineFeatures` | `compute_and_store`, the keys of one user in Redis, the cache of a scoring worker | the loop and the writer of `FeatureEngine` are reduced to commit, flush and crash |
| `ModelRegistry` | the table and the training runs that write it | used by the next two |
| `ModelRegistryProof` | theorems about `ModelRegistry` | extends it and TLAPS |
| `ModelReload` | the workers' model handles | extends `ModelRegistry`: promotions are its `Training` steps |
| `Scoring` | abstract: a request has models chosen, asks each once, is given one result of each by itself | `ModelBatcher` implements it: `ScoringSpec` |
| `ModelBatcher` | requests, batchers and the table of batchers of one worker | a swap is an action of its environment |
| `PredictionLog` | the tables `predictions` and `labels` and the four programs that meet there | scoring is a choice of model and flag, ingest one action |
| `ModelReloadProof`, `ModelBatcherProof`, `OnlineFeaturesProof`, `PredictionLogProof`, `DriftMonitorProof` | theorems about the module each is named for | extend it and TLAPS; `ModelReloadProof` extends `ModelRegistryProof`, `DriftMonitorProof` the `MC` module, with the measure in it |
| `DriftMonitor` | the loop, its transaction and the training process | a promotion by hand or by the child |
| `Psi` | the stability index by which a check compares samples of one feature | operators; `MCDriftMonitor` puts them into the checks of `DriftMonitor` |
| `MC*` | small instances for TLC (symmetry, fixed inputs) | `ModelReload` needs none: its `.cfg` says all |

### FeatureEngine

An offset stands for a message; its kind (`Valid`, `Rejected` by Postgres,
`Malformed` for pydantic, `Undecodable` for the deserializer) is all the properties
tell apart. `pc` is the line of `main` the consumer thread is at: `ReadBatch`
(`read_batch`), `ComputeAndStore`, `Refused`/`DeadLetter`, `Enqueue`, `Commit`,
and after SIGTERM `LeaveLoop`, `Join`, `Exit` (`finally: close`). `flush[t]` is the
call of `flush` that thread `t` is in: `FlushBegin` takes over both buffers under
the lock, `InsertPage` is one statement of `execute_values` (autocommitted: the
connection is), `InsertFails`/`ReplyLost`, `Reconnect` and `Requeue` are the
handler. `Die` is the end of the process, by `Crash`, by an exception that leaves
`main`, or at `Exit`. `Join` gives up waiting after a while, so it may be taken when the other thread has not
ended; that is no fault. Rows that die in memory are remembered in `dropped`, messages
the generic handler passes over in `skipped`.

### ModelRegistry

A run of `train.py` goes through `Train`, `Select` and `Update` (the two parts of
the UPDATE: what its snapshot makes it choose, and the row locks), `Commit` (with
the INSERT), or `RegisterInactive` when the artifact could not be verified, or
`Abort`. `TopSets(S, n)` is `ORDER BY auc DESC LIMIT n` with equal AUCs in any order.

### ModelReload

Every caller ("startup", "poll", "admin") of a worker has one check under way:
`Fetch` (the query), `Compare` (versions read under the lock), `LoadAndSwap`,
`LoadFails`, and `ClearError`, which the code does after it has released the lock.
An admin request goes through `Compare` without stopping there (`force`). A check remembers in `known` which
versions were promoted when it read the registry: no guard reads it, the properties do.

### ModelBatcher

One action is what the event loop runs between two awaits: `Receive` (models read
once per request), `Pick`, `Submit` (`_get_batcher` and the put), `Complete`; `Take`
(the sleep of 5 ms begins) and `Infer` for a batcher. A cancel that meets a batcher
in `queue.get` ends it; one that meets it in the sleep is caught there and the
batcher goes on. `Swap` comes from a thread, between any two actions, and may put a new
model at the address of one that nothing refers to any more (`Referenced`).

`Scoring` is what is left of this without batchers, table, addresses and swaps: of a
request, the models `chosen` (`parts`), those `asked` (`parts` without `left`), the `results`
(`answers`) and whether it is open. `Pick` is its `Choose`, `Submit` its `Ask`, `Complete` its
`End`, and `Infer` its `Compute` for up to `MaxBatch` requests that wait for the model. It
promises no end: a request in a cancelled batcher stays open (section 5).

### DriftMonitor

`Begin` opens the transaction of `run_once` and reads the active model;
`BaselineFails`, `LiveFails`, `NoRetrain` and `Retrain` are the ways its first part
ends; `Returns`, `TimesOut` and `RecordFails` the ways a training ends for it;
`Raises` is every rollback. The training process is `ChildPromotes`/`ChildEnds`.
Time is a `Tick`; timestamps are ages that stop at `Horizon`. Because the window of
a baseline ends at the model's `created_at` and `computed_at` is the insert time,
whether it has rows enough is fixed at promotion (`models[m].rows`).

### Psi

A sample is a sorted sequence of small numbers. `Cuts` are its quantiles without
repetition, kept as multiples of `1 / NumBuckets` so that the interpolation of
`np.quantile` is exact; `Split` is the treatment of a constant baseline, `Edges` the
pinning of the outer edges to infinity, `Finite` the sentinels that are stored for them, `Counts`
`np.histogram`, `Prob` the clip at `EPS`. The index is a sum of terms `(l - b) * ln(l / b)`, none of them negative,
so it is zero exactly when all probabilities agree (`PsiIsZero`). Logarithms are out of reach, but
`ln(l / b) >= (l - b) / l` for `l > b`, so a term is at least `(l - b)^2 / max(l, b)`: when that is `PSI_THRESHOLD` (a quarter)
in one bucket, the index of this feature and hence `max_psi` is too, and `drift_detected` is set (`DriftDetected`).
`MeasureSound` says of every check that goes on to compare: every live value is counted, and in the same bucket with
computed and with stored edges; the probabilities are positive, so the index is a number; it is zero for
the baseline's own traffic; and for traffic wholly above the baseline's range it is not zero when there are three
different quantiles or more, and drift for certain when no more than half of the baseline is in
the last bucket, while it is zero with fewer quantiles. Below the range one quantile is enough as well. What the index is in
between, and so whether drift is detected when most of the baseline is at that end, is not said.

### OnlineFeatures

`Vector` is the middle of `compute_and_store`, on what its first pipeline has read,
`Store` the second pipeline; a ratio (mean, deviation, z-score) is the counts per amount
it is computed from. Graph and pure per-message features are left out. `ComputeFails` is the
generic handler: an exception before, between or after the pipelines passes the message over.
`Lookup`, `Reply` and `Resume` are `get_feature_vector` cut at its await. Times to live
expire at a `Tick`. `Reference` computes the vector from the topic itself.
What `SnapshotsExact` leaves out is named there: a row of a message that is itself
delivered again (`again`), one after a failed computation (`~whole`), one computed so late that
the history has expired (`~Timely`), entries trimmed by a message that was ahead
(`Trimmed`) and equal members (`Twins`).

### PredictionLog

`Score` is the request up to the answer or the first write; `Write`, `WriteFails` and
`Explain` are its tasks, in the order of `score` and of starlette's background tasks.
A pass of the simulator is `Select`, `Skip`/`Confirm` per row, `CommitPass`; it is one
transaction, so its labels and updates are kept in `pass[l]` until the commit, and a
second pass waits for its row locks. `ReadMetrics` and `ApplyMetrics` are the two halves
of `update_metrics`. `swallowed` and `lost` remember what the code logs and forgets.

## 3. Runs

| Run | Configuration | Shows |
|---|---|---|
| `engine_safety` | three messages of three kinds, batches and buffers of two, pages of one row, two faults, one SIGTERM: 3.6 million states | `Accounted`, `MalformedNeverLost`, `RowsHeldOnce`, `CleanRunLosesOnlyInFlight`, `SnapshotsAreBacked`, `RowsLeaveOnlyStored`, and the refinement `DeliverySpec` |
| `engine_liveness` | two messages, two faults, one SIGTERM | `EverythingSettles` |
| `engine_refused_row` | a valid and a refused row, no faults | violated: `ValidSettles` |
| `pool` | six versions, three AUCs, LIMIT 3 and 2 as in the code, two runs that overlap: 140 thousand states up to symmetry | `PoolKeepsBest`, `HistoricalBestServed`, `ActiveBounded` |
| `reload` | three versions, one of them unloadable, two runs that overlap, a worker with its start-up, poll and admin checks, two faults: 490 thousand states | `AlwaysServes`, `SwapsKeepBest`, `FailureShown`, `ServesBest` |
| `batcher` | two requests, shadow mode, two swaps, three addresses, batches of one: 1.3 million states | `TableRuns`, `InOnePlace`, and the refinement `ScoringSpec` |
| `batcher_liveness` | two requests, A/B mode, one swap, batches of two | `StrandedBySwap`, `RunningOnesAnswer` |
| `batcher_dropped` | the same | violated: `NoRequestDropped` |
| `drift` | three models, cooldown longer than the interval, time limit of two ticks, two faults | `ChecksGoOn`, `DriftRetrains`; `MeasureSound` for all samples of up to five rows over four values, four buckets and an `EPS` of 1/3, large enough to clip a bucket that is not empty |
| `prediction_log` | two requests, two transactions of which Postgres refuses one, two labellers, limit one, one fault, both modes and both ways of writing: 1.0 million states | `AnsweredIsLogged`, `FlaggedIsExplained`, `ConfirmedHasLabel`, `TallyIsBacked`, `LabelsStable` |
| `prediction_live` | one request, two transactions, one labeller, a clock of three, one fault | `EveryTransactionLabelled`, `TallyCatchesUp` |
| `online_features` | three instances in one run (`Bounds`): three messages with timestamps in any order; three in time while the history expires; two messages and two readers; one fault each: 3.1 million states | `SnapshotsExact`, `CountsOthersOnce`, `StaleAtMost` |

Each property has a mutated definition in its module (`\* Mutant:`) that stands for
a plausible bug of the code and that makes the property fail under the same
configuration.

**Bounds.** They are the constants whose comment says `bound`. Three messages with
buffers of two give a full buffer, a batch that is not full and a message that
arrives during a flush; pages of one row give a flush that stops in the middle; two
faults give a fault during the recovery from a fault. Six versions fill the pool of
three, overflow it by two runs that do not see each other and replace members again, with ties (three AUCs). In `reload` three versions and
a pool of two are enough for rows that are old when they are swapped in, as a check and a promotion overlap, and one of the
versions does not load. Two swaps
and three addresses are the least with which an address is used by two models. Two
requests and batches of one leave one waiting in the queue. In `drift` the cooldown
(3) is longer than the interval (1) and than the time limit (2), so that skipped
checks, a training under way and its age all differ. In `online_features` a day
is two ticks and an hour one, so three messages can be in, at and beyond both limits;
`bound` is a variable so that one run has instances that differ in what is large. In `prediction_log`
the limit of one makes two transactions compete, and two requests are a transaction scored
twice or two scored once. Two workers were not needed:
no property relates two, as each has its own handle.

**Deadlock** is not checked where a bound (messages, versions, requests) lets the
model run out of work; in `DriftMonitor` it is, since the monitor never stops.

**Fairness.** `FeatureEngine`: the two threads, a supervisor that starts the process again
(`restart: unless-stopped`, docker-compose.yml:115), and Postgres coming back.
`ModelReload`: the poll loop and a thread that has been started (not the admin, who may
never ask). `ModelBatcher`: the event loop runs what is ready. `PredictionLog`: time, the
tasks of the event loop, the poll loop that updates the metrics and the simulator's loop.
`DriftMonitor`: time and
the monitor's loop; nothing of the training process, which may hang. No fault and
no operator action is fair.

## 4. Proofs

| Theorem | Statement |
|---|---|
| `FeatureEngineProof!TypeOKAlways` | `Spec => []TypeOK` |
| `Invariance` | `Spec => []IInv`, the invariant the next three and the refinement rest on |
| `NothingUntracked` | `Spec => []Accounted` |
| `DeadLetterComplete` | `Spec => []MalformedNeverLost` |
| `FlushLosesNothing` | `Spec => RowsLeaveOnlyStored` |
| `CommitsAdvance` | `Spec => CommittedNeverFalls` |
| `AlwaysHeldOnce` | `Spec => []RowsHeldOnce` |
| `AlwaysBacked` | `Spec => []SnapshotsAreBacked` |
| `CleanRunsLoseOnlyInFlight` | `Spec => CleanRunLosesOnlyInFlight` |
| `FeatureEngineDelivery!ImplementsDelivery` | `Spec => DeliverySpec`: the feature engine implements `Delivery` |
| `OnlineFeaturesProof!TypeCorrect` | `Spec => []TypeOK` |
| `NeverTooStale` | `Spec => []StaleAtMost` |
| `AlwaysCountsOnce` | `Spec => []CountsOthersOnce` |
| `RowsAreExact` | `Spec => []SnapshotsExact` |
| `ModelRegistryProof!RegistryTypeCorrect` | `SpecRegistry => []RegistryTypeOK` |
| `PoolKeepsTheBest` | `SpecRegistry => []PoolKeepsBest`, for any number of overlapping runs |
| `PoolIsBounded` | `SpecRegistry => []ActiveBounded`, for any number of overlapping runs |
| `ServesHistoricalBest` | `SpecRegistry => []HistoricalBestServed`, for any number of overlapping runs |
| `ModelReloadProof!PoolUntouched` | `Spec => SpecRegistry`: what is proved of the registry holds with its readers |
| `ReloadTypeCorrect` | `Spec => []TypeOK` |
| `AlwaysServesModels` | `Spec => []AlwaysServes`, with admin reloads and overlapping training runs |
| `SwapsKeepTheBest` | `Spec => SwapsKeepBest`, with admin reloads and overlapping training runs |
| `ModelBatcherProof!TypeAlways` | `Spec => []TypeOK` |
| `TableAlwaysRuns` | `Spec => []TableRuns` |
| `AlwaysScoredByItsModel` | `Spec => []ScoredByItsModel` |
| `AlwaysInOnePlace` | `Spec => []InOnePlace` |
| `OnlySwapsStrand` | `Spec => []StrandedBySwap` |
| `ImplementsScoring` | `Spec => ScoringSpec`: the batchers implement `Scoring` |
| `PromiseKept`, `OneResultAlways` | `Promise!Spec => []Promise!OneResultEach`: what `Scoring` promises, and so `Spec => []Promise!OneResultEach` |
| `PredictionLogProof!TypeCorrect`, `ConfirmedIsLabelled`, `LabelsNeverChange` | `Spec => []TypeOK`, `Spec => []ConfirmedHasLabel`, `Spec => LabelsStable`, for any number of labellers |
| `AnswersAreLogged`, `FlagsAreExplained` | `Spec => []AnsweredIsLogged`, `Spec => []FlaggedIsExplained`, for any number of requests |
| `AlwaysBackedTally` | `Spec => []TallyIsBacked` |
| `DriftMonitorProof!MonitorTypeCorrect` | `Spec => []TypeOK` |
| `CountsEveryValue`, `PsiAlwaysFinite`, `BaselineIsNoDrift`, `SeesOutOfRange` | `EveryValueCounted`, `PsiIsFinite`, `SameIsNoDrift`, `OutOfRange`: of samples of any length, any values, any number of buckets, any `EPS` up to a half |
| `MeasureAlwaysSound` | `Spec => []MeasureSound` |

*Feature engine.* `Accounted` speaks of committed messages and is not inductive: a
commit makes a whole batch committed at once. The invariant `IInv` says the same of
every message the loop is *done with* (`HandledAccounted`), with the order of the
three cursors (`CursorsOK`), that the writer holds only such messages
(`CustodyRead`), that idle threads hold nothing (`IdleEmpty`) and that what a thread
has sent of the snapshots is stored (`SentStored`), without which leaving a flush
could not be shown to lose nothing. `TypeInv` is proved first, with one lemma per
group of actions; the `Custody*` lemmas say what each operation does to the set of
rows the writer holds.

*Writer.* `RowsHeldOnce` speaks of three lists at once. `HeldApart` splits it: each list has
distinct rows and no two share one. A flush step then only takes the buffer over, puts the
rows back, gives them up or leaves the lists alone (`FlushLists`), and `Enqueue` appends an
offset beyond all that are held. `Backed` adds to `SnapshotsAreBacked` that what the writer
holds is in Redis and that of a flush the pages sent, and all of them in its second
statement, are in `transactions`. `CleanRun` is what holds as long as nothing has failed: no flush is in its handler, and nobody
fills the buffer after the loop has been left. So what the process leaves behind when it ends, its last flush being
over, is in the flush of a background thread that outlasted the join (`CleanLoss`).

*Delivery.* Under `done <- Done` (the settled offsets), `held <- Custody`, every step of the
feature engine is a step of `Delivery` or leaves its variables alone: `Produce` arrives, `Enqueue`
takes, `Commit` and `CommitFails` commit (by `HandledAccounted` only what is done or held), and every
other step settles: `GivenUpSettled` shows that a row leaves the writer only when its snapshot is
stored or, when the process ends, through the cases `Settled` names. It rests on `IInv`.

*Registry.* `BestInv` says that an inactive promoted version, and every victim of
an open transaction, is outranked by `Pool` promoted ones; outranking only grows,
because AUCs do not change and `promoted` only grows (`OutrankedStays`). `ActiveBounded` needs the
order of the snapshots, which no variable keeps: a run that commits brings in one row and takes out only what its
snapshot found. `BoundInv` says that there is such an order (`Snapshots`): sets `upto[r]`, each
within the other, of the runs no newer than `r`, and a set `old` of those that a commit has overtaken.
The newest snapshot left `Pool` rows, and whatever was inserted since comes from a run that
was under way with it, of which there are at most `MaxRunning`. `HistoricalBestServed` follows from `BestInv`: a model that
is clearly one of the best `Serve <= Pool` cannot be outranked by `Pool` promoted ones (`OutrankedUnclear`), so it
is active, and whatever `Serve` rows are best among the active ones contain it (`ClearServed`).

*Reload.* `ServeInv` says of every check under way what its rows are worth (`CheckOK`): promoted, not
empty, at most `Serve`, and past the load none of those the check has read is unloadable; only
start-up checks run while a worker is down. Rows fetched long ago stay good because `promoted` only grows, so admin reloads that overlap
do no harm to `AlwaysServes`. `CheckOK` says further that a check's rows contain every model known to it that is clearly
one of the best: it is one of a top set when it reads (`HistoricalBestServed`), and a model that is clear later was clear before
(`ClearBefore`), so what a swap takes out and is clear was unknown to its check (`SwapStep`). This is as much as the code has: an admin
reload between a poll's query and its swap may be undone by older models, and section 5 has the stronger statements that fail.

*Batchers.* The table is keyed by address, and an address can be used again. `UniqueAddress` says that of what
anything still refers to no two are at one address, `OrphansIdle` that a batcher the table has
lost waits only with nothing in its queue: the cancel it missed came in its sleep, when it can still be in use.
Together with `TableRuns` they are inductive. On top of them `HeldInv` says
that a job is in one batcher at one position (`HeldOnce`), that what is held is pending and for that batcher's
model (`HeldPending`), that what is pending is held (`HandedOver`), and why a batcher has ended
(`EndedBySwap`). The three properties follow from it.

*Scoring.* `ImplementsScoring` takes the step of each action to the step of `Scoring` named above, and
`Swap`, `UpdateMetrics`, `Receive` and `Take` to none. `Infer` is the hard one: its jobs are pending and of the
batcher's model (`HeldInv`), so each is of a request that waits, and they are at most `MaxBatch`, since a batcher that
sleeps has one job in its batch (`SleepsWithOne`) and takes `MaxBatch - 1` more. `Complete` needs
that a request that scores has picked some model (`PickedOK`). `PromiseKept` is then about `Scoring` alone, and
says of every request what `ScoredByItsModel` says, and that no second result comes.

*Online features.* `StaleAtMost` needs the age of every vector on its way: a reply says what was in
the hash at most `Lag` ago (`FetchFresh`), a cache entry at most `CacheTTL` and `Lag` ago (`CacheFresh`).
`CountsOthersOnce` rests on members being of reached messages, with one member per message, so that the window of a
vector maps into the others' transactions; the lemmas on finite sets bound it. `SnapshotsExact` is about a
window of a set that grows, expires and is trimmed. `HistoryInv` says that keys
outlive what is computed in time (`Keeps`), that a transaction whose computation did not fail is
in the history, past every window, or trimmed by a message a day ahead (`Complete`), and that
`last_seen` is of the message before (`LastSeen`). Then a row is exact when it is made (`NewIsExact`), and stays
so because later messages do not change what `Reference` looks at (`ExactStays`).

*Labels.* What a labelling pass will commit is in `pass[l]`, so `ConfirmedHasLabel` needs an
invariant of open passes (`LabelInv`): passes touch different transactions (`Apart`, the row locks), what a pass
will label has no label yet (`GivenOK`: nobody else can commit one meanwhile), and a row it has updated belongs to a
transaction that is labelled or will be in the same commit (`MarksLabelled`). `GivenOK` is also why
labels never change.

*Log.* `AnsweredIsLogged` speaks of answered requests only, and a request is answered after its
writes. `LogInv` says of every request received that each row it owes is logged, given up or still
to do, unless its worker died (`WritesAccounted`), that a dead request has nothing left to do
(`LostIdle`), and that the explanation is the last task (`ShapLast`): the row of a flagged
request cannot come after its explanation. A write accounted for stays so, because nothing is taken
out of `rows`, `explained` or `swallowed` (`StepsGrow`, `LoggedStays`).

*Tally.* A query result can be applied after the next one, so `TallyInv` says of every result that is still pending,
and not only of the tally, that the tables back it. They stay backed because predictions, flags and labels stay (`LabelsStay`), and a
larger finite set counts no less.

*Measure.* The statements about `Psi` need inductions, each done by a least counterexample: over positions
(`Ascending`: the ends of a sorted sample are its least and greatest value) and over the subsets of the buckets (`OneSum`:
one function satisfies the recursion by which `Total` is defined, and the number of rows in a set
of buckets satisfies it, so the counts of the buckets add up to the rows, `BucketsAddUp`). `QuantileBetween` puts all
quantiles between the first and the last value, which are quantiles themselves; so `InnerCuts` knows what is left
without the two outermost: nothing of two, something strictly between of three or more, and of a constant
baseline the value itself. `BucketAtTheEnds` places a value at or beyond an end of the baseline accordingly. What the index
then is takes one bucket: where all live rows are, the live probability is 1 and that of the baseline less if one of its rows is elsewhere, and
at most a half if half of them are (`AllInOne`: `EPS <= 1/2` is all it needs of the clip), so that the one term is
`(1 - 1/2)^2` or more (`ElsewhereShows`). Two samples that are both all in one bucket agree in every bucket, the clipped ones
included (`TogetherIsZero`). A sample taken twice has twice the rows in each bucket
(`Doubled`).

Assumptions: each module names one or two on its constants (`SizesAssumption`, `KindsAssumption`,
`PoolAssumption`, `ReloadAssumption`, `BatcherAssumption`, `LogAssumption`, `WindowAssumption`, ...): sizes and bounds are naturals,
limits of windows and pools are not zero, and the requests of a behaviour are a finite set, as those of one process
are at any time. The runs that extend a module evaluate them. No theorem listed has hypotheses of its own.

Every stronger invariant was checked on the instances of its run before it was proved.

Only model-checked: all liveness
(`EverythingSettles`, `ServesBest`, `FailureShown`, `RunningOnesAnswer`, `ChecksGoOn`, `DriftRetrains`,
`EveryTransactionLabelled`, `TallyCatchesUp`), as fairness and ENABLED are outside what the
prover handles. Every other property of a passing run is a theorem. No module uses RECURSIVE
operators, so that each can be proved about.

## 5. Where the code and its documentation disagree

Shown by the runs marked *violated*:

* **Refused rows.** One row that Postgres refuses (a `currency` longer than
  CHAR(3)) is put back in front of the buffer for ever; no row behind it is stored
  (feature_engine/main.py:303).
* **Dropped requests.** `_get_batcher` cancels batchers of models the calling request
  has not read while other requests wait in their queues (scoring.py:125).

Also stated in the modules, under "What the repository says and the code does not
do", and refuted by TLC, but without a standing run:
`SwapsImprove` (a check that read the registry before a promotion swaps older
models back in after another check has swapped newer ones, model_registry.py:226),
`ExplainsScorer` (the model to explain is picked a second time after the await,
serving/main.py:322), `TwinsCounted` (two transactions of a user with the same
timestamp, amount and merchant are one member of the history, feature_engine/main.py:439,
which has no txn_id prefix although the docstring at :329 says so), `LabelledIsConfirmed` (a
prediction written after its transaction was labelled never gets its `label_confirmed_at`),
`CountsOnce` (a transaction scored twice counts twice for Thompson sampling), `DecodableSettles` (an undecodable record
stops the partition), `NotBlockedPerEvent` (after a failed flush the consumer flushes at each
event), `CommittedIsProcessed` (a message whose processing raised is committed),
`ActiveAtMostFour` (two overlapping runs leave five active rows), `ChallengerServed` (a
promoted model may be none of the two served), `OnlyVerifiedRows` (an unverified model
gets an inactive row), `BadPromotionHarmless` (a worker that restarts
with an unloadable model among the best stays down), `FailureVisible` with admin
requests (the error is cleared outside the lock, model_registry.py:249; and a check that finds nothing to do returns at :230-231 without
clearing an old one), `BestOfAllServed` (in a pool no larger than what is served, two runs that break a tie
differently take two of the best out), `NoStorm` (a training that fails
is started again inside the cooldown), `WaitingHelps` (a model with an empty baseline
window is never judged). To see a trace, put the definition into the configuration
of its module: as it is for the two of `DriftMonitor` and for `CommittedIsProcessed`,
`NotBlockedPerEvent`, `ActiveAtMostFour`, `ChallengerServed`, `OnlyVerifiedRows`, `FailureVisible` and
`BadPromotionHarmless`; with a non-empty `Undecodable` for `DecodableSettles`, `Unloadable = {}` for `SwapsImprove`,
`Pool = 2` for `BestOfAllServed`, and `Mode = "ab_test"` for `ExplainsScorer`. Two more show in exact statements
that hold. The cases of `OutOfRange` in `Psi` with fewer quantiles: a feature with two values (`is_foreign_ip`,
`is_card_not_present`, `is_high_risk_category`, `impossible_travel_flag`) has one bucket, unless a quantile is interpolated
between the two, and its index is then zero whatever comes; and traffic above a constant baseline is not seen either, while
the docstring of `_quantile_edges` calls an out-of-range value a drift signal. And `again`
in `SnapshotsExact`: a message delivered a second time (its snapshot not stored the
first time) finds its own entry and its own `last_seen`, counts itself and loses its travel flag. A third is `CleanRunLosesOnlyInFlight`: a stop without any failure may lose the rows that a background
flush has in hand when the join runs out (feature_engine/main.py:314). And not
expressible in `ModelReload` as it is: `POST /admin/reload` reloads one of the four
workers, while the module comment takes it for a reload of the service.

## 6. Not modelled

* Numbers: PSI beyond when it is zero and when it is certain to reach the default threshold, the KS statistic, training, inference, the draws of Thompson
  sampling, the statistics of amounts beyond the counts they are made of.
* Several Kafka partitions and group rebalances; the topic is one sequence.
* The breaker of the feature store client: `pybreaker` calls the coroutine function, gets a
  coroutine and counts a success, so it never opens; a failed read is a failed read.
* Eviction from a full cache (`_CACHE_MAX_USERS`) and several users: a user's keys are independent.
* A malformed message that `json.dumps` cannot write: it ends the process at every restart,
  as an undecodable one stops the partition.
* Hazards no property speaks of: the buffers of the writer have no limit while
  Postgres is away (feature_engine/main.py:304); a request is scored with the features of the last
  transaction the engine has processed, and not with its own among them (scoring.py:156); the monitor
  judges the newest active model, which need not be one of the two served (drift.py:134).
* The ONNX file all training runs of one container write to one path (train.py:416).
* Neo4j (best effort, errors become zeros). Dashboards, load tests, the Flink job, the Redis
  Streams reader and the ONNX helpers, which no service uses or which only read.

## 7. Plan

(M) a module, (P) proofs.

1. (M) `DriftMonitor` composed with `ModelRegistry`: the monitor judges the newest model,
   serving serves the best.
2. (P) An abstract specification of the pool (a set that gains models and loses none but the worst)
   and the proof that `ModelRegistry` implements it.
