# UTTG: verification project

TLA+ models of the parts of UTTG where processes, callbacks, leases, transactions
and retries meet, TLC configurations that check them on small instances, and TLAPS
proofs of the most important results for every value of the constants. The
reference is the source; each definition that models code is mapped to its lines
in `PROJECT.json` ("map").

## 1. Inventory of the system

| Component | State it keeps | Operations | Interacts through | Module |
|---|---|---|---|---|
| **Cache layer** `core/cache_layer.py` | per key: entry (value, stored time, expiry) and lock (token, expiry) in Valkey; per process: background refresh tasks | `cached`, `_schedule_refresh`, `_compute_and_store`, `invalidate`, three Lua scripts | shared Valkey; calls of the routers; snapshots of the database | `CacheLayer` |
| **Scheduler loop** `ingestion/scheduler.py` 84-179, 516-545 | slot key per job in Valkey; failure counter per replica; `provider_health` row | `_acquire_slot`, job, `_hold_slot`, `_provider_health`, `_retry_delay` | replicas share Valkey and PostgreSQL; the job calls a provider client | `SchedulerJob` |
| **Ingestion jobs** `scheduler.py` 182-513, with the parsers' order and filters | tables of satellites, elements, weather, approaches, launches | one job per provider; launch sources are tried in turn | provider clients, database, health rows | `IngestionJobs` |
| **Event publication** `scheduler.py` 62-81, `core/queue.py` | the EVENTS stream | `_publish_event` | from a job, after its commit, to the worker | `IngestionJobs` |
| **Webhook worker** `ingestion/worker.py` | tasks of a batch; delivery rows; messages of a JetStream consumer | fetch, dispatch with retries, record, dead letter, ack/term | JetStream redelivers; HTTP to the receiver | `WebhookWorker` |
| **Webhook registry** `api/routers/webhooks.py` | webhook rows, idempotency keys in Valkey | create, list, get, update, delete | requests of one owner race each other; worker and publisher read the rows | `WebhookRegistry` |
| **Provider transport** `providers/transport.py` | failure counter and circuit key in Valkey, semaphore and clients of a process | `get_bytes`, `_record_failure`, `_clear_failures`, `close` | sibling calls of one run, earlier runs | `ProviderCalls` |
| **Rate limiter** `core/rate_limit.py` | counter per client, class and minute | one script | every request of every replica | `RequestPipeline` |
| **Request analytics** `core/analytics.py` | bounded queue, writer task, minute buckets | enqueue, batch, flush, drain at shutdown | middleware, database | `RequestPipeline` |
| **Routers, response meta** `api/routers/{satellite,orbital}.py`, `api/utils.py`, `core/capabilities.py` | none of their own | reads of the catalogue, `build_meta`, `tag_enabled` | tables of the jobs, values of the cache, health rows | `CatalogReads` (partly) |
| Space-Track budgets `providers/spacetrack.py` | counters per minute and hour, cooldown keys | `_guard_global`, `get_satcat`, ... | the SATCAT job | cooldown only, in `SchedulerJob` |
| Webhook secrets, identity, SSRF check, middleware, errors, metrics, OpenAPI, migrations, deployment, web front ends, tests | none that steps of two actors share | | | not modelled, see 5 |

What makes it hard, component by component, and what correct means:

* **Cache layer.** The lock is a lease nobody renews, a computation can outlive
  it, be cancelled without giving it back, or lose the reply of the script that
  stored its value. Correct means: what enters an entry never goes back in
  time; a lock is taken only from a caller that lost it; waiters get the fill
  they waited for; answers have bounded age; one computation per key; every
  call ends.
* **Scheduler loop.** Replicas share one slot whose value is the same for all,
  so nobody can tell its own lease from another's. Correct means: one replica
  runs the job; a crash costs a lease, not an interval; nobody starts earlier
  than the last finisher asked; health shows the last run; the job never stops
  being run.
* **Ingestion jobs and events.** Two jobs upsert the same satellites in
  different orders, so that PostgreSQL may abort either; the second launch
  source numbers launches differently; the publication follows the commit and
  swallows its exceptions. Correct means: no foreign key fails; neither job
  erases what only the other knows; the upcoming launches are those of one
  answer; no event precedes its commit or is sent twice; health names the
  source that answered; every run ends.
* **Webhook worker.** JetStream repeats what is not acknowledged in time,
  `gather` abandons the siblings of a task that raised, acknowledgements get
  lost, processes die. Correct means: nothing is acknowledged that was not
  settled; a dead letter was really exhausted; every message is settled.
* **Webhook registry.** Count check, idempotency key and insert are three
  commands on two stores; updates read, await DNS, and write. Correct means: a
  key makes one webhook; a failed request frees its key; an update never
  undoes a deletion it did not mean to; the owner's limit.
* **Provider transport.** `INCR` and `EXPIRE` are two commands, the circuit is
  checked once before the wait for the semaphore, and the first exception of a
  run closes the transport under the calls still under way. Correct means: the
  circuit opens only after its failures, shields the provider while it is
  open, and closes again.
* **Rate limiter.** The window is read from the replica's clock before the
  script is sent, and the key expires a minute after its creation, not at the
  end of the window. Correct means: no more than the quota passes, nobody is
  turned away below it.
* **Analytics.** A full queue drops, two writers lock buckets in the order of
  their batches, a commit's answer may be lost, the drain at shutdown has a
  timeout. Correct means: every request is counted once or known to be lost;
  the drain ends, with nothing left behind unless it was cut off.
* **Reads.** Pages of one walk, and the rows and the health of one response,
  are cached at different moments. Correct means: a walk misses nothing that
  was there before; what a response says of its age, its providers and its
  element sets is true.

The full list, with the line where each hazard bites and the properties that
watch it, is in `PROJECT.json` ("hazards").

## 2. Modules

| Module | What it is |
|---|---|
| `CacheContract` | abstract specification: what the cache promises, without locks, leases, tokens or clocks |
| `CacheLayer`, `MCCacheLayer`, `CacheLayerProofs` | `core/cache_layer.py`, one action per Valkey command or turn of the event loop |
| `SchedulerJob`, `MCSchedulerJob`, `SchedulerJobProofs` | `_run_guarded` of one job in every replica |
| `IngestionJobs`, `MCIngestionJobs`, `IngestionJobsProofs` | the bodies of the six jobs and `_publish_event`, statement by statement |
| `WebhookWorker`, `MCWebhookWorker`, `WebhookWorkerProofs` | `run_worker` and `_handle_message` |
| `WebhookRegistry`, `MCWebhookRegistry`, `WebhookRegistryProofs` | the requests that create, update and delete one owner's webhooks |
| `ProviderCalls`, `MCProviderCalls`, `ProviderCallsProofs` | the calls of one run through `get_bytes` |
| `RequestPipeline`, `MCRequestPipeline`, `RequestPipelineProofs` | the rate limiter before a request and its metric after it |
| `CatalogReads`, `MCCatalogReads`, `CatalogReadsProofs` | the reads of satellites and element sets, with their meta data |

`MC...` modules define the instances that TLC checks, `...Proofs` hold TLAPS
proofs. The models meet in what they assume of each other: `IngestionJobs`
begins a run of a job only when none is under way, which is what `SchedulerJob`
shows (`SingleRunner`); its messages are the ones `WebhookWorker` handles, and
`active` there is what `WebhookRegistry` changes; the shortest pause in
`ProviderCalls` is the shortest delay of `SchedulerJob`; `CatalogReads` reads
the tables of `IngestionJobs` through answers of the age that
`CacheAnswersBounded` allows (a stale time and a lease); the cooldown of the SATCAT client is part of
`SchedulerJob`.
Operators named `X_Slip...` are plausible mistakes in `X` (a dropped `NX`, a
missing token check, an off-by-one). Nothing uses them; each property is known
to fail when one of them is put in the place of its original ("mutants").

### CacheLayer

Time is in whole seconds, like the scripts' `now`. `data[k]` is the hash
`cache:v1:k` with its expiry, `lock[k]` the string `cache:v1:lock:k`; a call
and its uuid4 token are one thing, a member of `Call`. The cached value is the
version of the database it was computed from (`superseded[k]` lists when each
version stopped being current). `call[c].pc` walks through the awaits of
`cached()`: `read` (the script `_READ_LUA` is under way), `wait` (the polling
loop), `compute`, `store`, `unlock`, `end`; `since` is the time the code read
before the pending command. `Read` is the whole script with the Python that
follows it up to the next await, `Store` is `_STORE_LUA` with what follows,
`Unlock` is `_UNLOCK_LUA`. A background refresh is the same record with
`background = TRUE`; its caller has been answered.

Faults: a command raises before or after it was executed (`valkey`), a process
stops or its tasks are cancelled (`stop`), keys are evicted (`evict`; Valkey
runs with `volatile-lfu`), somebody calls `invalidate` (`invalidate`).

`floor[k]` is a history variable: the newest version stored or, at the last
invalidation, current. The contract's `Install` accepts no version below it.

### SchedulerJob

The slot, the client's cooldown and the sleeps are counted down in seconds.
`loop[r].pc` is the position in `_run_guarded`: `acquire` and `ttl` are the two
commands of `_acquire_slot`, `fetch` and `commit` the job, `failed`, `publish`
(the `provider.degraded` event) and `hold_retry`, `hold_interval` and `report`
what follows it. The job is a fetch
and one transaction; a cooldown left by an earlier fetch makes the fetch fail
before anything is sent (`get_satcat`). The jitter is every delay between 0.8
and 1.2 of the base. History variables: `quiet` (how long the last executed hold
forbids a start), `broken` (the run that finished last failed), `announced` (the
last run was published as degraded), `overdue` (time since a crash interrupted a
run).

### WebhookWorker

`queue[m]` is the state of a message in the consumer, `task[m][s]` a running
`_handle_message` for one of its deliveries (`MaxSlots` at a time). `Raise` is
an exception out of `_handle_message`: the batch's other tasks become orphans
and the worker fetches again. `AckWaitExpires` is JetStream's redelivery.
`Post` and `Record` are one attempt and its row; `Ack` may be lost. A webhook
may be deleted or enabled at any time (`ToggleWebhook`) but is read once per
dispatch (`Load`), as in the code.

### WebhookRegistry

`row[q]` is the webhook made by creation `q`, `held` the idempotency keys in
Valkey, `create[q]` and `update[u]` the positions of the requests between their
awaits. `CountActive`, `Claim` (`SET NX`), `EncryptFails`, `Commit`, `Release`
(the except clause) and `BuildMeta` are the steps of `create_webhook` in the
order of the code; `Load` and `Write` those of an update or a deletion, with
the name resolution of a new URL between them. `Written` is what the ORM's
commit leaves in the column: only changed attributes are in its UPDATE. A
commit may fail, or get through with its reply lost; commands of Valkey may
raise before or after they were executed; requests may be cancelled.

### IngestionJobs

`run[j].todo` is the list of the statements a run still has to execute, each a
`Write` of one row with the rows its foreign key needs, the columns it fills and
the columns of its `DO UPDATE SET` (none for `DO NOTHING`). `Writes(j)` is every
list that the job can make of a reply: SATCAT in the order of the catalogue
number, CelesTrak in the order of the file with duplicates kept out of the
satellites but not of the element sets, NOAA without the newest minute of Kp and
within the look-back, the two approach services with bodies before approaches.
`Upsert` is one row, which waits (`Blocks`) for a transaction that wrote the row
before; `Deadlock` is PostgreSQL's answer to two that wait for each other.
`Commit` makes the rows visible (`Merged`), `Announce` reads the active webhooks,
`Publish` and `PublishFails` are the messages one by one. The launch job has its
own steps: `BeginLaunches`, `Answers`, `Replace` (upsert and deletion in one
transaction), `SourceFails`, `Blame`, `Praise`. Of the columns only groups that
two jobs treat differently are told apart (`name`, `cospar`, `catalog`). Rows and
replies are small sets; a crash drops all runs. History variables: `commits`,
`offered` (the last committed answer), `tried` (what the last launch run found).

### ProviderCalls

A tick is 48 s, the shortest pause between two runs (60 s less the jitter); TTLs
are counted down in ticks, `Window` = 300 s and `Open` = 600 s rounded down to 6
and 12. `call[c].pc` is the position in `get_bytes`: `check` (the circuit),
`queue` (the semaphore), `read`, `sleep`, `clear`, and `incr`, `expire`, `set`,
the commands of `_record_failure`. `Read` has every outcome of one client's
reply: success, 4xx, no connection (`NextClient`), failures that are retried, a
body too large. `run` = `raised` is the exception that `gather` passes on;
`Close` then closes the transport under the sibling calls (`ReadClosed`).
History variables: `recorded` (failures by their age), `passed` (attempts begun
since the circuit opened). Both are saturated by bounds that lie above what the
properties ask (`Counted`, `Leak`).

### RequestPipeline

`minute` is `int(time.time() // 60)`. `ArriveLimited` reads it, `Count` is the
script of the limiter (`FixedWindow`) at any later time, `CountFails` a request
that gets 503 because the script did not run or because it ran and its reply was
lost, `Expire` the end of the key a minute after it was made, `Evict` its end by
`volatile-lfu` at any time. Requests of one client in one class are alike and are counted
(`counting`, `serving`), which is what makes them many at little cost.
`Finish` is the middleware's `finally` with `put_nowait`; `Get`, `Seal`,
`Upsert`, `Commit`, `BatchFails` and `Deadlock` are the writer, whose rows come in
the order of the batch's first metrics; `BeginStop`, `Joined` and `JoinTimesOut`
are `stop_analytics_writer`. History variables: `verdicts` (per minute:
admitted, rejected, admitted late, counted but unanswered, and the evictions of
the key), `finished`, `lost`.

### CatalogReads

`known`, `elements` and `health` are the tables with the time each row was
stored, so that the query's result at an earlier time can be told. The cache is
reduced to two facts. An answer is what the query returned at some moment less
than a stale time and a lease ago (`Reach`, `Moments`): the snapshot is taken
under the lock and stored before the lock ends. The age told with it is another
thing (`Ages`): it counts from the clock after the computation to the reader's
clock before its script, and is 0 for whoever computed or waited. A request is
one step. `GetPage` is one request of a client that
follows `next_cursor`; `GetSatellite`, `GetLatest` and `GetTle` are the handlers
of those routes, `Respond` adds `build_meta` with a health map of its own age.
A row of health that changed after the moment read may have said either: of
earlier states nothing is kept.

## 3. What TLC checks

| Run | Shows | Instance and why it is enough |
|---|---|---|
| `cache_safety` | `SnapshotInv`, `StoresNeverGoBack`, `HolderKeepsLock`, `CacheAnswersBounded`; the refinement `ImplementsContract` | three interchangeable calls for one key in processes of their own, computations as long as the lease and commands that take up to a second, so that a store comes after its lease, every fault, two versions, five seconds: enough for a late owner, a new owner and a third caller, a refresh, and an entry that goes from fresh to stale to gone |
| `cache_live` | `SingleFlight`, `RefreshesLimited`, `WaitersGetTheFill`, `EveryCallEnds`, `LockComesFree` | three calls in two processes for two keys, on entries that earlier processes left there, stale or too stale to serve but not yet dropped because their store was delayed (so that refreshes for both keys meet the limit 1, and a caller waits beside a leftover), commands that take up to two seconds, stops and lost commands; computations shorter than the lease, as the default settings have it |
| `scheduler_job` | `SingleRunner`, `CrashRetriesSoon`, `HealthShowsLastRun`, `StartsArePaced`, `JobRunsForever` | two replicas, two crashes, a command, health row or event lost before or after its execution; lease 3, interval 8, first retry 2, runs of at most 2 seconds: the order lease, retry, interval of the code's 900, 60 and 3600 and more, so that a lease ends while another replica waits, in a retry and in a rest |
| `ingestion` | `ParentsComeFirst`, `CatalogKept`, `UpcomingIsLastAnswer`, `EventsFollowCommits`, `LaunchHealthTold`, `RunsEnd` | the deployments are the pairs of jobs that share tables (SATCAT with CelesTrak, JPL with NASA), NOAA alone, and the launch job with two sources or one; two satellites, so that two transactions can hold a row each; three minutes, one of them past the look-back; two runs where the earlier run's rows matter; one fault anywhere |
| `worker_queue` | `SettleInv`, `AckImpliesSettled`, `DeadLettersAreExhausted`, `OneDeliveryAtATime`, `EveryMessageSettles` | two workers, a good and a malformed message, batches of two, two attempts, two deliveries of a message at a time, one fault; a sibling task is abandoned, and a dispatch meets the redelivery of its message |
| `registry_safety` | `OneWebhookPerKey`, `KeysAreFreed`, `NoResurrection` | three creations, two with the same key; an activation, a change of the URL and a deletion of one webhook; every fault at every step. A second key shows that requests with different keys leave each other alone |
| `provider_circuit` | `CircuitShields`, `OpeningsAreEarned`, `CircuitCloses` | the code's own threshold, attempts and times, two calls for a semaphore of one, two clients, runs without end, one fault. A second call is what passes the check before the circuit opens and what reads from a closed transport |
| `pipeline` | `QuotaPerMinute`, `RejectedOverQuota`, `Accounted`, `JoinedMeansWritten`, `DrainEnds` | two replicas; three limited requests against a quota of one over two minutes (used up, rejected, late), or four free ones for two buckets with a queue of one and batches of two (a queue that is full, two writers that block each other); one fault, which may be a lost reply of the script or the eviction of the counter; each replica stops at any time |
| `catalog_reads` | `WalkFindsAll`, `TlesAreAsTold`, `OutageTold` | two satellites in pages of one (two full pages and an empty one), two element sets in either order of epochs, two interchangeable providers, element sets that become too old; health and TLE lists are kept two seconds, the rest one, with a lease of two and a delay of one, in five seconds: answers are of moments up to three seconds back (health that changed at the start is steady at the end), and the age told is off by the computation, by the delay either way, or 0 |

Runs that end in a violation, each a disagreement between a document and the
code, told in `PROJECT.json` ("findings"):

| Run | Disagreement |
|---|---|
| `scheduler_satcat` | a crash should cost minutes, but the SATCAT client sets its own cooldown of a day before the rows are committed |
| `worker_attempts` | `webhook_max_attempts` before the dead letter, but a redelivery starts counting again |
| `registry_limit` | the limit is a maximum, but creations that overlap all count before any of them inserts, and an update activates without counting |

Promises that hold only under a condition the documents leave out are checked
under it:

* One computation per key while `cache_compute_timeout_seconds` is below the
  lease of 15 s (the setting allows 60), and one replica per job while the job
  takes less than the lease of 900 s (nothing bounds it). Neither survives the
  eviction of the lock's key, which `volatile-lfu` permits.
* A caller that waited gets what was stored after it began to wait, or
  (`WaitersGetTheFill`) a leftover that became too stale to serve less than
  `MaxDelay` seconds ago: an entry is dated before its script runs and kept the
  stale time from then on, and the polling loop looks at no age.
* `OpeningsAreEarned` speaks of steps up to the first fault: a failure or a
  crash between `INCR` and `EXPIRE` leaves a counter without an end.
* `QuotaPerMinute` speaks of requests whose script runs in the minute they were
  counted for; a later one may find the key expired and be counted from one.
  Each eviction of the counter, which has an expiry and so is open to
  `volatile-lfu`, gives the client the quota once more.
* `RejectedOverQuota` counts a request whose script ran but whose reply was lost
  as one that used the quota: the client got 503 for it.
* `TlesAreAsTold` allows for what the age leaves out: the computation (less than
  a lease) and the delays of the commands (`Behind`), and where the age told is
  0 the whole time a value may be kept.
* `LaunchHealthTold` and `HealthShowsLastRun` speak of behaviours in which nothing
  was lost but what the providers failed to answer: health rows and events are
  written on a best-effort basis.
* A drain that is cut off by its timeout loses what is left (`JoinTimesOut`).
* The back-off counter belongs to a replica, so failures that alternate between
  replicas do not add up (`StartsArePaced` is about the delay the last finisher
  asked for).

Bounds are constants: `MaxTime`, `LastStart` (in `CacheLayer` no call starts
later; in `cache_live` `MaxTime` is late enough for the last call and its lock to
end, so that liveness is not cut off), `MaxMinute`, `MaxDelay`,
`MaxVersion`, `MaxElements`, `MaxRecords`, `MaxRuns`, `MaxCrashes`, `MaxLost`,
`MaxFaults`, `MaxSlots`, `Loads`, `Changes` (what changes in one behaviour: sets
of tables, with or without the walk), `JobLimit`, `MaxFailures` (past it the delay is the interval
whatever the count: assumed in `SchedulerAssumption`), and `OverdueMax`, past
every promise. `CHECK_DEADLOCK FALSE` stands only in runs whose calls, runs or
requests all come to an end.

Fairness.
* `CacheLayer`: time passes, ready tasks run, Valkey answers, the deadline of
  the waiting loop and `wait_for` fire; nothing makes `compute()` return,
  nothing makes a waiter find a value.
* `SchedulerJob`: time passes, each replica takes its next step, what stopped is
  restarted (the orchestrator's `restart_policy`).
* `IngestionJobs`: a run that has begun goes on, since requests and statements
  have timeouts and PostgreSQL resolves deadlocks; nothing makes a run begin or
  a source answer rather than fail.
* `WebhookWorker`: tasks run on (every call they await has a timeout), workers
  fetch, the ack wait runs out; faults are bounded, so a failure that lasts for
  ever, such as a missing encryption key, is outside `EveryMessageSettles`.
* `ProviderCalls`: time passes, calls and the job's end go on; nothing makes a
  run start or a provider answer.
* `RequestPipeline`: the writer goes on and a join whose queue is done returns.
  Its timeout has no fairness: `DrainEnds` does not lean on it.
* `WebhookRegistry` and `CatalogReads` have no liveness property: a request that
  is never answered has nobody waiting for what it holds but the key, whose day
  is longer than any behaviour of the model; reads hold nothing.

## 4. What is proved

`CacheLayerProofs` proves for every set of keys, calls and processes, every
lease, timeout and limit, and every combination of faults:

* `CacheTypeCorrect`: `Spec => []TypeOK`.
* `SnapshotInvariant`: `Spec => [](TypeOK /\ SnapshotInv)`.
* `StoresMonotone`: `Spec => StoresNeverGoBack`.
* `LocksAreKept`: `Spec => HolderKeepsLock`.
* `CacheKeepsContract`: `Spec => ImplementsContract`, the refinement of
  `CacheContract`.
* `OneComputation`: `Spec => []SingleFlight`, if `ComputeTimeout < Lease` and
  neither evictions nor `invalidate` remove locks.
* `AnswersAreBounded`: `Spec => CacheAnswersBounded`.
* `RefreshesAreLimited`: `Spec => []RefreshesLimited`.
* `WaitersAreServedAnew`: `Spec => WaitersGetTheFill`.

`StoresNeverGoBack` is an action property and says nothing of why it holds; the
inductive invariant does. `SnapshotInv`: if a call owns its key's lock and has
taken its snapshot, the snapshot is at least the floor. The lock is granted
only to calls that have no snapshot yet (`read`), the snapshot is then the
current version, which bounds the floor, and the floor rises only by a store of
the owner itself, or by `Invalidate`, which also takes the lock away. A call
that lost its lock may hold an old snapshot, but then the token check keeps it
out. `CurrentGrows` (versions are only ever added) and `TypeStep` are the
lemmas under it.

The refinement maps the database's versions, the entry's version, the version
each call found when it was made, and the version it was answered. `Read` and
`WaitHit` are `Serve`, `Store` is `Compute` whether the token check lets it
install its value or not, `Publish`, `Invalidate`, `Evict` and the expiry in
`Tick` are `Supersede`, `Discard` and `Forget`; everything else shows nothing.
That a value computed is no older than the call, that a call is answered once
though its refresh goes on, and that an entry has a version is `ProgressInv`,
kept by `ProgressStep`; `AbstractCall` is the mapping of a call's steps.

For single flight, `FlightInv`: a computation owns its lock, the lock ends a
lease after the computation began, and the clock has not passed
`ComputeTimeout` since then. The delay of commands plays no part, because lease
and computation begin together.

For the age of answers, `AgeInv`: an owner's snapshot was still current when its
lock was granted, and a store happens before the lock expires, so that what it
writes was current less than a lease before; the entry then lasts a stale time.
`CurrentAtStays` says that a later publication takes nothing from this.

For the refresh limit, `RefreshInv`: the tasks a process counts are finitely many,
and those that compute are at most the limit. A task starts computing only in the
turn that compares the number of all tasks with the limit; a call that reads is
not yet a task, so that the one that is added was not counted.

For the waiters, `WaitInv`: a command takes at most `MaxDelay`, so that an entry is
gone that long after it became too stale to serve. A call therefore waits only
when there is no entry, or beside such a leftover; what is written while it waits
has an expiry that starts after it began to (`Awaited`). No delay is assumed away.

The proofs use only `CallAssumption` and the typing part of `TimeAssumption`;
except for `OneComputation` no relation between timeouts, delays and lease is
assumed, which is the point: the tokens work even
when single flight is lost.

`SchedulerJobProofs` proves for every number of replicas, every lease, interval,
delay and fault:

* `SlotInvariant`: `Spec => []SlotInv`.
* `OneRunner`: `Spec => []SingleRunner`, if `JobLimit < Lease`.
* `RunsArePaced`: `Spec => StartsArePaced`.
* `HealthIsOfLastRun`: `Spec => []HealthShowsLastRun`, if `JobLimit < Lease` and
  `JobLimit < Interval`.
* `CrashedRunsRetrySoon`: `Spec => []CrashRetriesSoon`, if `Cooldown = 0`,
  `JobLimit < Lease` and `JobLimit < Interval`.

The slot's value tells nobody whose it is, so the argument is about time
(`LeaseInv`): what is left of the lease and the time its holder has used add up
to at least the lease. A run shorter than the lease therefore always has some of
it left, and `SET NX` refuses everybody else. `StartsArePaced` needs only
`quiet <= slot`, which every hold keeps whoever executes it. For health, `AloneInv`
says the same of the report after a success, which the interval protects, and
`ToldInv` what the row says, and whether `provider.degraded` is out, at each
position of the loop.

For crashes, two bounds have to be kept together. `NapInv`: a replica that rests
wakes at most a lease and a minimal wait after the slot is free, because the
longest sleep is that of the replica that set the slot; while somebody is busy,
the slot is a lease at most. `WokenInv`: since an interrupted run nobody was busy
with anything but asking the provider again, and while nobody is, the time that
has passed and what is left of the slot, or of any replica's sleep, stay within
the bound. The hypothesis on the cooldown is the one the SATCAT client does not
meet (`scheduler_satcat`).

`WebhookRegistryProofs` proves for all creations, updates, keys and faults, from
`RegistryAssumption`:

* `RegistryInvariant`: `Spec => []RegistryInv`.
* `OneWebhook`: `Spec => []OneWebhookPerKey`.
* `FailedKeysAreFreed`: `Spec => []KeysAreFreed`.
* `DeletedStaysDeleted`: `Spec => NoResurrection`.

`KeyInv`: a creation owns its key from `SET NX` until the except clause deletes
it, and for ever once its webhook is there; a key has one owner. `RowInv` says at
which positions of a request the row is there, `FreedInv` that a key nobody left
behind belongs to such a request or webhook.

`WebhookWorkerProofs` proves for every number of messages, workers, attempts,
simultaneous deliveries and faults, from `WorkerAssumption`:

* `WorkerTypeCorrect`: `Spec => []TypeOK`.
* `SettleInvariant`: `Spec => [](TypeOK /\ SettleInv)`.
* `AcksAreSettled`: `Spec => []AckImpliesSettled`.
* `DeadLettersExhausted`: `Spec => []DeadLettersAreExhausted`.
* `DeliveriesOneAtATime`: `Spec => []OneDeliveryAtATime`.

`AckImpliesSettled` alone is not inductive: an acknowledgement is sent by a task
whose reason was recorded some steps before. `SettleInv` adds that each task
waiting to acknowledge or to publish a dead letter already has its reason on
record. It holds because the reasons are only ever added (`ReasonsStay`), a step
takes a task to one of these points only together with the reason
(`NewlyEnding`, from what each action does to the tasks: `FetchTasks`,
`RaiseTasks`, `CrashTasks`, `StepMoves`), and only a task at such a point
acknowledges or dead-letters (`NewlySettled`). Nothing is assumed of the ack
wait or of the number of deliveries. `BatchInv` is what `OneDeliveryAtATime`
needs: until something raises no task is an orphan, so that a worker that fetches
has no task left, and a fetch takes each message once.

`IngestionJobsProofs` proves for all finite sets of satellites, bodies, epochs and
minutes and all launches, webhooks, replies, deployments and faults, from
`IngestionAssumption`:

* `EventsAfterCommits`: `Spec => []EventsFollowCommits`. What was sent for a
  webhook is bounded by what was committed, but a run between its commit and
  its last message may still add one; `SentInv` counts the message a run owes
  (`Owes`) as sent. A commit is the only step after which a run owes, and
  `Publish` takes the webhook off the list with its message, as does the run's
  end after a failure, where the message may or may not have been stored.
* `UpcomingFollowsAnswer`: `Spec => []UpcomingIsLastAnswer`. The rows still to
  come and the last answer's coincide after each `Replace`; the clock moves only
  forward, so that it takes from both alike (`LaunchTick`); no other job writes
  launches.
* `HealthOfLaunchSources`: `Spec => []LaunchHealthTold`. `Told` says for each
  position of the launch job which sources have failed and what the rows say of
  them: sources are tried in the order of their numbers, those before the one in
  turn have been blamed, and a run that found an answer praised its source before
  it announces anything. It holds as long as no health row was lost.
* `ParentsAlwaysFirst`: `Spec => []ParentsComeFirst`. First, about the lists alone:
  in every list a job can make of a reply of any length, each statement's parents
  are written by an earlier statement (`InTurn`). It is shown for sequences that
  are filtered, mapped and concatenated, job by job, without induction. Then, about
  the transactions: what a run still has to write finds its parents among the rows,
  in what its transaction wrote, or further up its list (`Fits`); no row
  is ever removed but launches, which no statement depends on.
* `CatalogSurvives`: `Spec => CatalogKept`. A row that exists loses a column only
  through a SET clause that has it and a statement that does not fill it; no
  statement of either job is like that for the catalogue's columns, and a row that
  is not there has nothing to lose, which is a part of `WriteInv`.

`RequestPipelineProofs` proves for every quota, number of requests, replicas and
faults, from `PipelineAssumption`:

* `LimitInvariant`: `Spec => []LimitInv`, and from it
* `QuotaHolds`: `Spec => []QuotaPerMinute`,
* `RejectionsAreEarned`: `Spec => []RejectedOverQuota`;
* `JoinedIsWritten`: `Spec => []JoinedMeansWritten`;
* `EveryRequestCounted`: `Spec => []Accounted`, for finitely many replicas.

`KeyInv` says what the key of a minute knows: during the minute its count, and a
quota for each eviction (`Extra`), bound what was admitted, because a key made in
its own minute cannot expire before the minute ends; afterwards nothing is admitted
in time. For rejections it says that either the quota has been used, or the count
is at most the number of requests that took a place of it (`Placed`: admitted, late,
or counted and unanswered), which an expired or evicted key only makes truer.

`DrainInv`: what `task_done` has not yet ticked off is the queue and the batch,
until the timeout discards both, and whoever joined has nothing to tick off.
`WayInv` adds that the rows in a writer's transaction and those still to follow are
the totals of its batch (`RowsInv`), so that a commit adds to each bucket what the
batch had of it, and a failure loses that. Each step then moves the metrics of one
replica between its queue, its batch, the buckets and the lost (`WayMoves`,
`Balance`), and the others keep theirs; the sum over all replicas is a cardinality
of tagged positions, for which the facts on finite sets suffice.

`CatalogReadsProofs` proves for every catalogue, page size, stale times, lease,
delay, providers and changes of the tables, from `ReadsAssumption`:

* `WalksAreComplete`: `Spec => []WalkFindsAll`. The invariant `WalkInv`: whatever
  was stored before the oldest page the client could be given, and is not past
  the cursor, has been seen; what was seen is not past the cursor. A page is a
  prefix of what follows the cursor (`FirstIsPrefix`), and a page that is not
  full is all of it (`ShortIsAll`), both from the existence of a least and a
  greatest element in finite sets of numbers.
* `OutagesAreTold`: `Spec => []OutageTold`. When every row of health is older
  than what the cache may hold, the health map that `build_meta` reads is the
  set of the active providers (`SteadyIsActive`).
* `TlesAreNewest`: `Spec => []TlesAreAsTold`. `ElementsInv`: epochs are not in the
  future and a satellite has one row of an epoch. Of each satellite with a row there
  is then exactly one newest, so that the list is as long as the set of first
  satellites, which are all there are or exactly the limit (`FirstIsFull`).
  `BehindTheMoment` is about the clock: from the age told, the lease and the delay
  it follows how far back the list's moment may be, and that it is not within that
  age.

`ProviderCallsProofs` proves for every finite, non-empty set of calls, every
threshold, number of attempts and clients, every window not longer than the time a
circuit stays open, and every fault, from `CallsAssumption`:

* `OpenCircuitsShield`: `Spec => []CircuitShields`. `ShieldInv`: while the circuit
  is open, the attempts made and those still before the calls that are past the
  check (`Pending`) are together at most what may leak. An attempt moves one from
  the second to the first, whoever finds the circuit open has none, and the call
  that opened it has made its last. Only a read of the circuit that failed lets
  another call pass, and the bound grows with the faults.
* `EveryOpeningEarned`: `Spec => OpeningsAreEarned`. `EarnInv`, as long as nothing
  failed: the count of a key with an expiry is at most the failures since the key
  was made (`KeyEarned`), all of them in the window because the key ends with it; a
  key without an expiry has a call that is about to set it, and no time passes
  before that (`CallEarned`). After a fault the key may stay for ever, and the
  statement is false.

All safety and action properties of the runs that pass are thereby proved, each
from the assumptions that its module declares and, for `OneComputation`, `OneRunner`, `HealthIsOfLastRun` and
`CrashedRunsRetrySoon`, from the hypotheses named above, which the configurations
of their runs meet.

Only model-checked are the properties that need fairness, which is out of the
prover's reach: `EveryCallEnds` and `LockComesFree` (cache), `JobRunsForever`
(scheduler), `RunsEnd` (jobs), `EveryMessageSettles` (worker), `DrainEnds`
(analytics) and `CircuitCloses` (transport); and the three violations, which are
single behaviours that TLC exhibits. What a recursive definition computes for
every input would need induction over data and is out of reach, too: `2 ^ n` of
the retry delay enters `SchedulerAssumption` instead.

## 5. Not modelled

* **Space-Track budgets.** The counters per minute and hour guard a client that
  sends one request a day; only its cooldown matters to another component, and
  that is in `SchedulerJob`.
* **`ensure_event_stream`.** Two processes that start at once may both try to
  create the stream; what JetStream answers the second is not in the
  repository.
* **The other routers.** Launches, weather, objects and history are read-only
  queries of the form `CatalogReads` has; insights, passes and positions are
  floating-point arithmetic of orbits, out of TLC's reach.
* **Webhook secrets, client identity, SSRF check, settings.** Pure functions of
  their arguments, of the request, or of DNS; the models see only that they may
  raise.
* **Middleware, errors, metrics, OpenAPI.** Wrapping of one request; the metric
  it leaves is in `RequestPipeline`.
* **Parsers beyond order and filters; migrations, indexes, retention policies;
  deployment, web front ends, tests.** Text formats, configuration and
  presentation. The eviction policy of Valkey is an action of `CacheLayer` and of
  `RequestPipeline`.

What could be proved next: that the models meet as section 2 says, for instance
that the ages `CatalogReads` allows its answers follow from `AnswersAreBounded`,
and that a refinement of each job by an atomic one explains `CatalogReads`' tables;
weaker hypotheses for `CrashedRunsRetrySoon`, with the bound that holds when
commands are lost.
