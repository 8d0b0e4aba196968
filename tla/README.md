# Verification of relay-gateway

This directory holds TLA+ models of the gateway's own logic, the TLC
configurations that check them on small instances, and TLAPS proofs of the
properties that matter most for every instance. `PROJECT.json` is the index: it
maps each definition to the lines it models, each property to the runs that
check it, and each hazard of the code to the properties that would catch it.

To reproduce a check: `tlc -workers 2 -config <cfg> <module>`, with the pairs
from the table of runs below, and `tlapm <module>Proofs.tla`.

## 1. The system

relay-gateway is one Go process in front of many AI providers, with one SQLite
database and one directory of media files. Requests come in over HTTP; eight
background workers and one model discovery run beside them (`main.go`). SQLite
serialises the write transactions, so a transaction is the unit of atomicity of
everything durable; a mutex is that of everything in memory. Between two
transactions of the same handler, and around every call of a provider, anything
may happen, the death of the process included.

### Inventory

| Component | State | Operations | Hard behaviour | What makes it correct |
|---|---|---|---|---|
| Task row (`db/task.go`, `db/task_lease.go`) | `task_runs`: status, poll count, lease, next poll, deadline, result | claim, renew, fenced commit, release, reschedule | leases expire under slow holders | accounting is never lost or doubled, nor above a budget that could be read; the status only moves forward |
| Background poller (`task/poller.go`, `task/profile_poller.go`) | a lease token, an answer | claim due, poll, persist, project, commit | three transactions per poll, heartbeats, crashes | every background task whose definition can be loaded leaves the queue |
| Client status requests (`router/profile_status.go`) | the row read first, the answer | settle, claim, poll, persist, enqueue, project | decides on a row that is stale by its claim | a task with required media succeeds only with its media |
| Media library (`db/media*.go`, `task/media_*.go`, `media/store.go`) | assets, objects with reference counts, two kinds of job, files | ensure, claim, fetch, commit, revoke, purge, delete, reconcile | file operations and transactions interleave, crashes between them | what is available is in the store; a revocation is final; no file is lost track of |
| Circuit breaker (`service/dispatcher.go`, `service/profile_executor.go`) | failures, cooldown, probe, epoch per channel | acquire, finish, reset, remove | leases of earlier cycles report late, saves in between | one probe at a time, and it is never forgotten |
| Model discovery (`service/dispatcher.go`, `db/channel_probe.go`) | remote models, generation, refresh goroutine, note | refresh, snapshot, conditional commit, publish, stop | saves and manual tests during a fetch | nothing of a former configuration is stored or routed |
| Start and shutdown (`main.go`, `shutdown.go`) | phase, budgets | drain, join, close | requests start work while the workers stop | the database is closed in a quiet process |
| Profile submission (`router/profile_idempotency.go`, `profile_execution.go`, `profile_image_execution.go`) | keyed locks, the reservation row | look up, lock, reserve, submit, project, replay | paid submissions, crashes between provider and row | at most one submission of an operation and body under a key |
| Gateway wait (`protocol/async.go`, `db/task.go`) | attempt, deadline, delay, observations | check, poll, sleep, persist the batch | a deadline or a departure during a poll, overflow of delays | polls are bounded and counted, the last answer decides |
| Mapping recovery journal (`router/async_task_recovery.go`) | pending entries, an append-only file | enqueue, replay, acknowledge, truncate | torn lines, crashes, unreadable file | what a client was told of is recovered |
| Task-mapping cache (`db/task_mapping_cache.go`) | recent mappings | publish, get, invalidate, purge | publication races deletion | it says what is stored or journaled |
| Legacy lifecycle (`router/legacy_task_lifecycle.go`) | projections of legacy tasks | ensure, record poll | two requests project one task | one run per task, a mapping keeps its channel |
| Login admission and sessions (`security/`, `router/auth_routes.go`) | failure buckets with reservations; the account; sessions | begin, finish, cancel, evict; login, validate, revoke, update | parallel attempts, a full table, a change during a login | attempts of a key stay within the limit, counting those in flight; sessions carry the credentials in force |
| Profile catalog (`db/profile.go`, `db/profile_snapshot.go`, console handlers) | profiles, revisions, bindings, archive | draft, publish, retire, bind, enable, delete | checks and writes in separate statements | a task keeps its content; enabled bindings are published and do not overlap |
| Channel selection and failover (`service/dispatcher.go`, `router/profile_direct.go`, executors) | scheduling pools | weighted round robin, failover, key rotation | the number of pools is bounded; uncertain failures | turns are fair; nothing uncertain is asked again |
| Audit log (`audit/audit.go`) | rows of calls, the task summary on the creation's row | open, record, fold, reconcile, delete | late polls, a reconciliation next to new polls | a poll is counted once; the summary of a task moves forward |
| Not modelled, or by its outcomes only | | routes, media transfer, profile executor, adapters, migrations, backups, metrics, web console, helpers | | see section 7 |

### Interactions

* A submission takes a channel of the dispatcher, reserves the row, asks the
  provider once, projects the answer and registers the mapping; an asynchronous
  task is then polled by the background poller or by status requests under a
  lease, or, under `gateway_wait`, by the submission itself.
* A successful poll creates assets and jobs; the materializer's last commit
  completes the task in the same transaction.
* Every provider call of the dispatcher and of the profile executor takes a
  lease on the channel's breaker and reports to it.
* A save of a channel refreshes the channel cache, resets the breaker, moves
  the configuration generation and asks for a refresh of the models.
* A mapping the database does not take in time goes to the journal, and from
  there to the tables; the cache is told of either.
* Every status query opens an entry of the audit log, and folds it into the
  entry of the creation once it is answered.
* The shutdown stops the workers, drains the requests, joins the refresh twice
  and closes the database.

## 2. The modules

| Module | Models | Checked by | Proofs |
|---|---|---|---|
| `TaskPolling` | one task row and everyone who writes it | `MCTaskPolling` | `TaskPollingProofs` |
| `TaskContract` | what a task promises to the client that reads it; no leases, workers or media jobs | `TaskPolling` implements it | `TaskPollingProofs` |
| `MediaLibrary` | assets, objects, jobs, files, pollers, reconciler | `MCMedia`, `MCMediaLibrary`, `MCSettling` | `MediaLibraryProofs` |
| `ChannelBreaker` | the breaker of one channel, its map entry and the generation | itself | `ChannelBreakerProofs` |
| `ModelSync` | discovery for one channel, management requests, shutdown and restart | `MCModelSync` | `ModelSyncProofs` |
| `Gateway` | what requests go through and leave behind: `Routing`, `Submission`, `GatewayWait`, `Accounts`, `AuditLog` and `Catalog`, composed | `MCGateway` | `GatewayProofs` |
| `Submission` | the submissions under one Idempotency-Key | `MCGateway` | `SubmissionProofs`, `GatewayProofs` |
| `GatewayWait` | the loop of `gateway_wait` and its delays | `MCGateway`, `MCSettling` | `GatewayProofs` |
| `TaskMappings` | mappings, runs, aliases, the cache and the journal | `MCTaskMappings` | `TaskMappingsProofs` |
| `Accounts` | login admission, the account, its sessions | `MCGateway` | `AccountsProofs`, `GatewayProofs` |
| `Catalog` | one profile, its revisions, the bindings of one channel | `MCGateway` | `GatewayProofs` |
| `AuditLog` | the log of one asynchronous task | `MCGateway` | `GatewayProofs` |
| `Routing` | candidates, turns and failover of a request | `MCGateway` | `GatewayProofs` |

Constants carry named assumptions in the module that declares them. Where a
module is only instantiated, the assumption is a definition that the
instantiating module asserts for its values (`InstancesOK` in `MCGateway`) and
that the theorems take as a hypothesis (`GatewayAssumption` in `Gateway`). Each module has one action per transaction,
critical section or file operation, with the name of the function or method it
stands for, and definitions marked "Seeded bug" beside some of them: the same
definition as a plausible mistake would write it. They are used by no
specification; each property of each passing run is known to fail when one of
them takes its original's place.

Four MC modules, `MCGateway`, `MCTaskMappings`, `MCTaskPolling` and `MCSettling`, have a variable
`part` that says what a behaviour is about: the states are the sum of the parts,
not their product. `MCSettling` has an instance for each part; `MCTaskMappings` and `MCTaskPolling`
keep a behaviour within its part (`WithinPart`). `MCGateway` extends `Gateway` and lets one of its components move:
`PartsSpec` is made of the steps of `Gateway`, each part within the requests,
routes, accounts, fleets or revisions that `WithinSubmission`, `WithinAccounts`,
`WithinLog`, `WithinCatalog` and `WithinRouting` name.
`MCMedia` is one library with a `part` that says which of its assets and
goroutines a behaviour uses.

### Gateway

The six components have no row, lock or map in common: `Next` is a step of one
of them, and the properties are those of the components under one name each.
In the program they are different tables and different objects of one process,
so every interleaving of their steps is a behaviour. It is the module the
theorems about them are stated for, and TLC checks it part by part.

### TaskPolling and TaskContract

The row (`status`, `count`, `owner`, `lease`, `wait`, `deadline`, `result`) is
`db.TaskRun`; times are countdowns. A handler (`proc`) is what a poller or a
request holds between its transactions. Workers run `ClaimDue`, then `Poll`,
`WorkerPersist`, `WorkerProject`, `WorkerCommit`; status requests run
`StatusRead`, `Settle` or `ClaimPoll`, then `Poll`, `ClientPersist`,
`ClientEnqueue`, `ClientProject` and `Release`. What comes before the budget may
fail: `WorkerUnprepared` is the observation of a worker that could not load
profile, operation or retention, or whose context has ended, and `ClientUnread`
the poll of a request that got an operation without a budget; both count a poll
however many there are (`blind` is history: how many). `loads` is whether the
definition can be loaded at all, and `DefinitionLost` the end of that. `Fence` is the predicate of
`WithTaskRunLeaseContext`. The heartbeat is `Renew`, and `RenewFails` a renewal
that fails for another reason; `Crash` ends a handler between any two
transactions. The provider (`ProviderFinishes`) and the library
(`MediaStored`, `MediaRevoked`, `MediaPurged`, one value for the batch of the
task's assets) do what they like.

Two vocabularies meet in an answer. `NormalizeTaskStatus` turns the words it
knows into statuses and passes the rest through, so that a word may be unknown
(`other`) or one that the gateway gives a meaning of its own (`PassedThrough`);
SuccessValues and FailureValues of the profile decide the outcome, the payload
and the media, and any other word leaves the outcome pending, a normalised
`completed` included (`Answers`).

`TaskContract` has a status that moves forward, polls beyond the budget only
where it could not be read, and a rule for each way to end; to succeed is to
have the outcome as well as the status. `ImplementsContract` is the refinement, with
`wasReady` (all assets were stored at one time) for its `stored`.

### MediaLibrary

Assets, objects and both kinds of job are rows; `files` is the object store,
`worker` and `remover` what each goroutine holds. A storage key and the id of
the object row derive from the same claim token, so one value names both, and a
key nothing mentions stands for a fresh one. A lease token is its worker,
because a worker holds one claim at a time and a restarted process cannot use
an earlier one. Retry delays are left out: a job that waits for its next
attempt may be claimed at once.

`Materialize` writes the file; `CommitMediaMaterialization` is the one
transaction that makes object, asset and job agree, and completes the task;
`DiscardUncommitted` deletes the file of a refused commit, if the deletion
succeeds. `RequestPurge`, `Expire` and `RetryDeletion` are the management
requests and the retention scanner; `RemoverStep` is one pass of the deletion
poller. `ScanFiles` and `RemoveOrphan` are the reconciler. Its safety window is
an assumption of the model (`Age`): a file is old only when the claim that
wrote it has ended, since the window is longer than a fetch may take.

Assets that share an object (`Shared`) come from a database of an earlier
version: this one gives each asset its own object, and `ref_count` remains.

### ChannelBreaker

One value per breaker ever made for the channel, because a request may report
to a breaker that was removed from the map. `turns` is history: it counts the
openings and resets, so that `OldRequestsHarmless` can say what an old lease is
without the epoch that the code uses to decide it. `failCount` stops at
`Threshold`, the only value it is compared with.

### ModelSync

A list of models is the discovery inputs of the request that fetched it, and
inputs are the revision that introduced them; 0 is no row or no list. `worker`
is the refresh goroutine, `admin` the management requests, each with the
notifications it makes in order (`SaveChannel`, `RefreshCache`,
`InvalidateChannel`, `RequestRefresh`; twice for a toggle or a deletion).
`owed` and `credit` are history.

### Submission

All requests carry the same key. A row of `async_task_runs` is named by the
operation and the body (`Ids`; `profileReservationTaskRunID` hashes them), and
a request submits at most once, so it also names the provider's task. `table`,
`refs` and `holder` are `profileSubmitLocks` of each process: `Join`, `Enter`,
`GiveUp` and `Unlock` are `acquire` up to the semaphore, its two branches, and
the deferred unlock, which is part of every action that returns. `FirstLook`,
`Resolve`, `SecondLook`, `Reserve`, `Send`, `Answer`, `Wait`, `Mark`, `Project`,
`RecordAlias` and `Respond` are the handler's statements in order, for the three
routes with their lookup and preference lists. `Reading` is what `doJSON`,
`Submit` and `profileSubmissionErrorState` make of the exchange. A `Crash` takes
the requests and locks of one process; a submission that is out may still
become a task.

### GatewayWait

`Check`, `Poll`, `Sleep` and `Return` are the loop of `AsyncEngine.wait`, in its
order: deadline, caller, poll, outcome, delay. The arithmetic of `nextDelayAt`
is written with its saturating helpers over integers that end at `MaxInt`, and
`Ideal` is the delay in unbounded numbers. `Persist` is
`PersistTaskPollBatchContext`, which adds to the counters of a row that a
client's query (`Ask`) may have counted in meanwhile.

### TaskMappings

A `Registration` is what a creation or a status query wants stored: the run, an
alias for each ID, and the mappings. Its writer (`actor`) runs
`persistAsyncTaskMappingRegistration`: `Choose`, `Freeze`, `Look`,
`RecordTaskAlias`, `EnsureTaskMappings`, `Publish`, one statement or transaction
each but for the reads of `Choose`, and may be interrupted at each
(`Interrupted`: an error, or the 250 milliseconds). Then `Enqueue` appends to the
journal and `Announce` tells the cache. The worker's `Reconcile`, `RecoverNext`
and `Acknowledge` run the same routine. A status query that finds another name
for its task writes the row (`Save`) and then the cache (`Refresh`), as
`RecordTaskMappingContext` does. `Load` and `Loaded` are the two halves of a
lookup that misses the cache, `DeleteChannel` and `InvalidateChannel` those of a
deletion.

`journal` is what a load of the file would find. An append succeeds (`Lands`),
fails with its line written and not synced (`Lands` too, in a failing branch of
`Journals` and of `Acknowledge`), or fails with nothing or a part of the line
written (`Breaks`), and a crash may leave a part as well: then the file is `torn`,
and the next line, of an entry or of an acknowledgement, is part of the torn one
and is not read. A line cut just before its newline could be read; it counts
as one cut earlier until the next line is appended to it, which ruins both. `swallowed` is
history: the pending registrations whose line went that way, for which there is
nothing but the memory of the process. An acknowledgement that went that way
leaves its entry in the file, to be recovered once more.

`given` is the set of pairs of a channel and an ID that the channel
has: its provider's, or one the gateway made for it. `moved` is history: the IDs
whose stored channel a status query changed, which the code does (`Save` writes
the mapping it read before) and after which no promise is made for that ID.

### Accounts

`Begin`, `ReadUser`, `Acquire`, `Verify` and `CallerLeaves` are a login from its
reservation to its session; buckets are objects, since a bucket that has left
the table is still finished by those who hold it. `Refused` is a login that is
turned away, which leaves the buckets it looked at pruned. The other requests (`Calls`)
are `Setup`, `Read`, `Logout` and `Update` behind the reads and writes of
`ValidateSession`. A version of the credentials names a session's; `proof` is
history, the credentials each token was made for.

### Catalog

The statements of `db/profile.go` on one profile and the bindings of one
channel. What the database does in one transaction is one action
(`CreateRevision`, `Publish`, `Retire`, `DeleteRevision`, `DeleteProfile`,
`Unbind`, `EnsureDefaults`); the handlers that read, check and write apart are
editors (`EditStep`). A task binds, loads, submits and writes its row
(`TaskStep`); the archive of snapshots is what a deletion leaves for it.
`source` (the profile is built in or an administrator's own) and `alone` (one
administrator or several) are fixed at the start, so that both kinds of profile
and both kinds of console are behaviours of one specification.

### AuditLog

The row of the creation with its summary, the polls with entries of their own,
and the reconciliation that folds what was not folded. The transaction that
folds a poll reads before it has the writer; that read is a step. `mixed` is
history: the reconciliation wrote over a poll that was folded since it read,
and the summary says nothing exact from then on (section 5).

### Routing

A configuration is a choice of channels with priority, weight, bindings and
keys. `request` goes through the profile engine's candidates and the legacy
ones, tier by tier; `pools` is the map of smooth weighted round robin, and the
order of a tier, its turn and the eviction of the pool used least recently are
one critical section. An exchange is one step with one of seven outcomes;
`MayHaveRun` are those after which the provider may have executed it.

## 3. The runs

| Run | Module, cfg | Instance | Shows |
|---|---|---|---|
| `polling` | `MCTaskPolling`, `MCTaskPolling.cfg` | two parts: a worker, a request, every word and a definition that is lost; 2 workers or 2 requests at a required task. Budget 2, 1 fault, fair | accounting, the fence, readiness, the protocol implements `TaskContract`, every background task with a definition leaves the queue |
| `materializing_polled` | `MCTaskPolling`, `MCTaskPollingStale.cfg` | 1 worker, 2 requests | finding 1 |
| `media` | `MCMedia`, `MCMedia.cfg` | three parts: one asset with poller, request and reconciler, 1 fault; two assets of a task, 1 fault; two on a shared object, 2 faults | what is available can be served, reference counts, a revocation is final, the last commit completes the task |
| `media_live` | `MCSettling`, `MCSettling.cfg` | 1 asset, 1 key, 2 faults; a wait loop; fair | what waits is fetched or revoked, what is revoked is deleted, a purge follows the removal, orphans are removed, a waiting submission is answered |
| `media_shared_leak` | `MCMediaLibrary`, `MCMediaLibraryLeak.cfg` | 2 assets on one object, 1 deletion goroutine | finding 4 |
| `breaker` | `ChannelBreaker`, `MCChannelBreaker.cfg` | 2 requests, 2 breakers, threshold 2, 1 save, 2 epochs, fair | one probe, trust in the probe alone, old leases leave no trace, half-open ends |
| `model_sync` | `MCModelSync`, `MCModelSync.cfg` | 2 management requests, 1 test, 1 restart, fair | freshness, passes are asked for, quiet close, the shutdown ends |
| `model_test_stale` | `MCModelSync`, `MCModelSyncStale.cfg` | 2 of 3 requests at a time, 1 test | finding 2 |
| `model_refresh_forgotten` | `MCModelSync`, `MCModelSyncForgotten.cfg` | 2 of 3 requests at a time | finding 3 |
| `gateway` | `MCGateway`, `MCGateway.cfg` | thirteen parts of `Gateway` | see below |
| `journal` | `MCTaskMappings`, `MCTaskMappings.cfg` | five parts: two creations that race for an ID; a creation, a query and a deletion; two creations and a query; an ID with a name of another channel; one creation whose journal fails three times. Else 1 fault; 1 crash, fair | what the cache says is recoverable, nothing is forgotten before it is stored, a mapping keeps its channel, the worker recovers all it can |
| `pin_overridden` | `MCTaskMappings`, `MCTaskMappingsPin.cfg` | the same | finding 5 |

`gateway` asks what the code promises about the records that requests leave:
`OneSubmission` and `TasksAreRemembered` (parts `image`, `rebound`, `video` of
`Submission`); `WaitAccounted` and `DelayExact` (`wait`); `AccountsKept`: the
admission of logins, and what a session is accepted for (`logins`, `sessions` of
`Accounts`); `CatalogKept` (`catalog`, `console`, `builtin`); `LogAccounted`
(`log`, `mishaps`); `RequestsRouted` and `TurnsFair` (`failover`, `turns` of
`Routing`). It takes about a minute.

### The bounds, and why they are enough

* Two workers give every race of a lease holder with its successor; a third one
  would only wait for the same row. Two requests give the stale read of one
  against the claim of the other.
* `MaxAttempts = 2` has a first, a last and a refused poll. Countdowns of 1 and
  2 ticks have "just expired" and "still running" at every step.
* `MaxFaults` bounds crashes, lost heartbeats, stalls and failed loads of a
  definition that is there; takeovers without a fault (an expired lease of a
  worker that has died) cost none. `MaxCount` bounds the polls of a task whose
  definition is lost, which the code makes for ever; it is above what faults can
  reach, so it ends nothing else. The definition is not lost beside another
  fault, and the words the gateway does not know come where one worker and one
  request are at work (`words`). The proofs have no parts, and are for any value of
  either bound.
* Three keys besides the shared one let a fetch repeat its write while an
  orphan and an object occupy the other two. `media_live` has one key, which keeps the product with the
  fairness conditions small: a fetch then waits until an orphan is removed,
  which is one more thing that must happen.
* Two breakers are needed for a request that reports to a removed one, two
  epochs for a late report across one opening; `MaxEpoch` and `MaxProbes` bound
  new leases only, never a report. The proofs have no such bound.
* A refresh, a save and one more management request give each order of
  snapshot, save, notification and commit; one restart publishes what was
  stored.
* `Submission`: two processes with two requests, alike or with two bodies, give
  every race on a row (`image`); requests that share a lock share a process, so
  `rebound` and `video` have one. A third request (`video`) waits for a lock
  that is dropped under it, and arrives after a crash. Requests, processes and
  bodies are alike, so the first of each that comes is `r1`, `p1` and `b1`
  (`InTurn`); of the operations with a binding only the most wanted one is looked
  at, so one has a binding at a time. The proofs have no bound on requests, processes, crashes or changes
  of bindings.
* `GatewayWait`: integers that end at 15, with 2 units in a millisecond, let
  each step of the delay saturate, and one that wraps be seen; four definitions
  have every mode, a cap, jitter, and the deadline before and after the last
  attempt; a Retry-After is absent, zero, in range, or as many seconds as a
  duration holds and more. A client asks, and the caller leaves, only where few
  polls are made (`WithinWait`), which is enough for what both disturb. The proofs of `WaitAccounted` and `DelayExact` are for
  any definitions, headers and integers.
* `Accounts`: three logins with two keys against a table of one bucket fill it,
  evict from it and find it full; limit 2 has a failure before the last one. The
  `sessions` part has three tokens and credentials that change twice, so that a
  session outlives one version and is made under the next; its requests give the
  password of the start, no time passes during its login, and failures are left
  to `logins`. The
  proof of `AccountsKept` has no such bounds.
* `Catalog`: two revisions and two contents have a retired one next to its
  successor; in the part with a task, the first revision keeps the first content
  (`WithinCatalog`), the second one has either and is the one that is bound. What
  is bound is enabled at first, and disabled by a toggle. One editor between the statements of others is every overlap of
  two console requests; `alone` leaves that out where only one administrator's
  bindings are promised to stand. The proof of `CatalogKept` is for any number of
  revisions, contents, bindings, administrators and tasks, and interleaves them all.
* `AuditLog`: two polls that overlap in every order; with every status where
  the clients poll (`log`), and with two statuses, the console, the reconciliation
  and one mishap of each kind (`mishaps`). The proof is for any number of polls and mishaps.
* `Routing`: three channels have four sets that are asked for, against
  `MaxPools = 2`, so that pools are evicted and return; four turns are a full
  cycle of weights that sum to four. In `failover` one channel cools down at a
  time, in `turns` any number do. A request comes again when it is done:
  requests meet only in the pools, and a turn is one critical section. The proof
  of `RequestsRouted` is for any requests, channels, weights and sizes of the map.
* `TaskMappings`: two creations of either engine on two channels whose providers
  hand out the same ID (`race`); one query that learns a second ID, and a deletion
  or a crash (`asked`); two legacy creations and a query between them, which is
  what it takes to move an ID (`moved`), or to give it a name of another channel
  (`named`). Creations and channels are alike, so `t1` comes first, for a channel
  other than `c2` (`InTurn`). One fault puts one registration
  into the journal, and one crash comes before or after each of its steps. Three
  faults (`torn`) fail a write of the database, tear the file and then fail
  another append, acknowledgement or compaction. `moved` has no row on its way
  into the cache once a write has failed, and `named` none at all; neither has a
  crash. The proofs of the safety properties have no such bounds.

Symmetry is used for interchangeable processes, assets and keys, and in no run
with a fairness condition.

### Fairness

* `TaskPolling!FairSpec`: workers are never stopped for good, and time passes.
  Nobody must send a request or bring one to its end, since its lease expires;
  provider and library may do nothing for ever. In `MCTaskPolling` the steps are
  those of a part.
* `MediaLibrary!Fairness`: goroutines go on with what they hold; tickers look
  for jobs, files and expired leases; a read, fetch, commit or removal that is
  tried again and again succeeds at last. The last is strong fairness and an
  assumption about provider and disk: the code retries without an end, and
  without it nothing can be promised.
* `ChannelBreaker!FairSpec`: a request that holds a lease ends. The code bounds
  each exchange and finishes the attempt in a deferred call or on the close of
  the body. Nobody must start a request.
* `ModelSync!FairSpec`: goroutines and requests run; fetches have a limit of 15
  seconds and statements return. The fetch and commit may fail each time.
* `GatewayWait!Fairness`: the loop goes on; a poll has a timeout and a sleep
  ends. The provider may answer as it likes.
* `TaskMappings!Fairness`: the routine of a creation or a query runs to its end,
  the worker runs again and again, a deletion tells the cache. Faults and
  crashes are bounded; deletions, new queries and cache evictions need not
  happen.

## 4. The proofs

`tlapm` checks them with no assumption but those of the constants.

**TaskPollingProofs.** `IInv` is the types (`RowTypeOK`, `FlagsOK`), `Words`
(which answer a handler may hold where), `HandlersOK`, `HistoryOK`, `NoLostPoll` and
`BudgetRespected`. The two properties are not inductive alone: a commit that adds
one poll is within the budget only because the answer it commits was asked for
with fewer (`HandlersOK`: after a poll that read the budget, `seen` is below it),
and because `seen` is still the count of the row as long as the fence can be
passed (`NoLostPoll`); a handler that could not read the budget adds to both
sides (`blind`). `HistoryOK` carries readiness from the moment a handler reads it
to the moment it writes the outcome. One lemma per action. `TypesHold`,
`BudgetHolds`, `FencedClaims` and `CompletionWaitsForMedia` follow.

In the same module, `PollingKeepsTheContract` is the refinement: under
`IInv` each of the six actions that touch what a client can see (`WorkerCommit`,
`Settle`, `ClientBudget`, `ClientPollFailed`, `ClientProject`, `MediaStored`),
a purge and the clock is a step of `TaskContract` or changes nothing in it, and
all others change nothing. A give-up is allowed because the budget was judged
on the count that is still the row's (`NoLostPoll`), a success because the
handler carries readiness (`HandlersOK`, `HistoryOK`).

**ChannelBreakerProofs.** `IInv` is the types, `LeasesOK` and `ProbeOwned`.
`LeasesOK` is the reason for the epoch: no lease is of a later epoch than its
breaker, and one of the current epoch was taken after the last opening or
reset, is an ordinary one on a closed circuit or the reserved probe of an open
one. From it, `TypesHold`, `ProbeHolds`, `ProbeTrusted` and
`OldRequestsIgnored`, the last one an action property.

**ModelSyncProofs.** `IInv` is the types, `SnapshotOK` (a snapshot whose
revision or generation is in force carries the inputs in force, up to an
invalidation that is to come), `CreditOK` (the pass about to begin and the
noted one were each asked for) and `StopOK` (the last StopSync waits for the
run there is, and no request is left to start another). `FreshWithoutTests`
needs one more invariant on top, that no test is running where none was
started.

**SubmissionProofs.** `IInv` is `Shape` and `Learned` (types, and what a request
knows where it stands), `Claims`, `Tasks` and `Locks`. `SubmitOnce` and
`SentIsRemembered` speak of submissions only and are not inductive: `Claims`
says the same of everyone whose reservation stands, from the row's insertion
to the end, so that the insertion is the one step with something to show.
`Tasks` adds to `ReplayIsTheTask` that a row names a task of its own body, from
where a lookup takes it. `Locks` is what the table is for: a lock is listed for
one process and operation, is counted once for each user, and its holder is the
one request inside; from it `OneHolder`. `KeyClaims` needs both: who comes to
reserve has seen under the lock that no row stands, and nobody of the process
has come that far since; from it `OneSubmissionOfTheKey`. The effects of the
actions on requests are lemmas of their own, and the parts of the invariant are
proved from those.

**MediaLibraryProofs.** `IInv` is the types, the two properties
`ReferencesCounted` and `AvailableIsServed`, and what they need: `Jobs` (an
available asset has no download left to run, and a deletion is of a revoked
asset), `Rows` (the assets of a task exist once it waits for them), `Hold` (a
stored key belongs to one worker, has its file and no object row, and nobody is
about to remove it), `Removal` (a remover at the file has an object without
references) and `Doomed` (nor does the reconciler remove the file of an object
in use). `AvailableIsServed` alone fails at the two deletes of a file, which is
where `Removal` and `Doomed` are used, and at the commit, which relies on `Hold`.
The count is a cardinality: each revocation takes one asset from `Holders` and
one from `ref`, each commit adds one to an object that had none. `InvariantHolds`
is for any sets of assets, goroutines and keys, any shared objects and any bound
on faults; `RevocationIsFinal` and `TasksCompleteWithMedia` are action properties
from it.

`PurgeFollowsRemoval`, in the same module, has one more hypothesis, `Shared =
{}`: each object was stored for one asset, as this version of the program does.
Without it the property is false (finding `media_shared_leak`). `PInv` adds that
an object is named by one asset, that what is deleted has no file, and that a
remover works on the object of its asset until the file is gone.

**AccountsProofs.** `IInv` is `Kinds` (types of the account and its requests),
`Made` (a session carries the version it was made for, which is not one to
come), `Knows` (a login knows an account that was), and for each request
`Route`, `Holds` and `Outcome`. A request whose session had been revoked when it
came has no row to read, or one of an older version, and neither changes: a
token is made once, an extension brings no row back, versions only grow. So it
does not pass the check of the account, and `SessionsCarryTheCredentials`
follows. `CredentialsChangeSerially` needs that an account read with the
version in force is the account in force.

The admission of logins has `AInv` on top: the types of the buckets
(`AdmissionKinds`), `Reserved` (an attempt under way holds the listed bucket of
its key) and `Counted` (a listed bucket counts its attempts, and with its live
failures they are within the limit; the table has room for what it lists).
`Reserved` is the point: a bucket may be evicted or dropped only when nobody
holds it, or an attempt would report where the next one is not counted. What
counts of a bucket is its length without the stale prefix that pruning drops,
which `PruningKeeps` shows to be the length of what is left.
`AttemptsStayWithinTheLimit` follows.

**GatewayProofs.** A behaviour of `Gateway` is one of each of its components
(`Components`): a step of one leaves the others alone. For `Submission` and
`Accounts` the theorems of their own modules are taken over: `SameSubmission` and
`SameAccounts` expand the two instances of a specification and find one formula,
so `SubmissionsHold`, `TasksHold` and `AccountsHold` follow. The other four
components are proved here, for any requests, routes, definitions, sessions,
polls, mishaps, channels, revisions and administrators.

`WaitsHold` has `WaitInv`: while the loop runs it has
asked once for each attempt and seen no success, so that a success is the last
answer and the end; and the counters of the row are what was logged, which `Persist`
keeps because a batch has no more wins than polls, and its run of failures is
counted from the last win (`BatchCounted`).

`DelaysHold` is about one computation. Each saturating helper returns what
unbounded integers would give or, where that is more than an integer holds,
`MaxInt` (`Saturates`), and this survives addition, multiplication, doubling and
the cap, because all of them are monotonic. The exponential delay is a recursive
function, and no proof by induction is available: `RecursionStands` and
`DoublingsAgree` take the least attempt at which the function does not exist, or
at which the program's value and the ideal one disagree, and its predecessor
contradicts it.

`LogHolds` has `LogInv`: what is begun
has a row or is in the summary, and not both (`InOnePlace`), the count is the number of the
folded until a reconciliation writes over one (`CountedOnce`), nothing is begun
before the creation is recorded (`Early`), and what a reconciliation listed was
begun (`ListedBegun`), so that it has a last poll to take the answer from
(`LeastElement`, by well-foundedness). The count is a cardinality: a merge adds one
poll to `Folded`, a reconciliation those rows it listed. `LogAdvances` is the action
property: late polls do not take the summary back.

`RequestsAreRouted` has `RoutingInv`, in two parts. `TurnsInv`: the map has just
the sets used last, each once, in the order of their use, and no more than
`MaxPools` of them (`PoolsCounted`), so that an eviction takes the last of
them. `RequestsInv`: each request is `Sound`. The channels it has still to
order or to try are distinct from each other and from those it asked, except
the one it is asking, whose keys count down; what may have been executed is the
last exchange; and a request leaves the profile engine for the legacy one only
if it has asked nobody, which is what makes it safe to go through the same
channels once more. `SubmittedOnce` alone says nothing of what is still to be
asked. Filtering, sorting and turning a list are lemmas on injective sequences.

`CatalogHolds` has `CatalogInv`: types, `LatestIsHighest`, and three parts.
`TasksInv` is what a submission has, statement by statement: a bound revision,
the content read from it, and, once its row is written, that content in its
revision, which is immutable, or in the archive, where a deletion puts it in the
transaction that takes the revision away (`DeletesKept`). `EditorsInv` is what an
editor has read. `ConsoleInv` is for one administrator: each binding has a
published revision that offers its operation, or a retired one and is disabled
(`Upright`); no two of one operation and precedence overlap (`Apart`); and what the editor has checked,
one or two statements before it writes, is still so (`Ready`), since nobody else
is at the console (`OneByOne`). The default bindings of a built-in profile are
placed together, which `PlacedApart` shows to be apart from each other and from
the rest. `PublishedStands` is the action property: the content of a published
revision changes in no step. `LatestIsHighest` and the tasks' part hold for any
number of administrators.

**TaskMappingsProofs.** The invariant comes in three layers, each proved on the
ones before. `TInv` is the types: every routine holds a registration, a place in
its IDs and a run where it needs them (`Proper`). `Owned` says that a channel has
each ID (`given`) under which it stands in a row, in the cache, in the journal or
in a routine; a status query can then change the channel of a row only for an ID
of two channels, and `PinsHold` follows. `JInv` is for the journal: `Journaled`
(once the process has loaded the file, an entry there that it does not know any
more is stored), `Durables` (what the process takes for durable has a line, be it
one a torn line took in, or is stored), `AllReady` (what is about to be
acknowledged is stored, what is about to be announced is stored or has a line,
what a query is about to cache is stored) and `Cached` (what is cached or on its way
there is stored or has a line). `PublishedIsRecoverable` alone fails at `Announce`,
`Refresh` and `Loaded`, which write into the cache what was true some steps before:
`Ready` and `Reading` carry it there. `LinesKept` is the heart: whatever an append,
a failed append or an acknowledgement does to the file, the lines that go are those
of a registration that is stored. `Acknowledge` is why `RecoveredBeforeForgotten`
needs `Journaled`: the file is emptied when nothing is pending, which is right only
if everything else in it was stored, such as the entry of an acknowledgement that
a torn line took in. A crash takes the process' knowledge with it, and with it the
entries in `swallowed`, of which nothing is claimed afterwards.
`PublicationsHold` and `RecoveryHolds` have no hypothesis about the file system:
they hold with torn lines and lines that are not synced, for any number of
creations, queries, channels, IDs, failures, crashes and deletions.

**Only model-checked.** Liveness (`PollingEnds`, `HalfOpenEnds`,
`ShutdownEnds`, `LibrarySettles`, `WaitEnds`, `RecoveryEnds`), which is out of
the prover's reach; `TurnsFair`, whose share of the turns is an argument over
sums of weights, that is, an induction over the channels of a set; and `TypeOK` of
`MCGateway`, which names the part that moves: the types of each component are in
its inductive invariant.

## 5. Findings

1. **A parked task is polled again** (`materializing_polled`).
   `router/profile_status.go:274` says that required media keep a task
   "out of the provider Poll loop"; the claim (`db/task.go:789`) admits a row
   that another request parked after the first read. The effect is one more
   poll, or the expiry of a task whose result is stored.
2. **A manual test routes the former provider's models** (`model_test_stale`).
   `handleTestChannel` and its kin (`router/router.go:1315`) write what they
   fetched whatever was saved meanwhile, against the comment of
   `InvalidateChannel` (`service/dispatcher.go:166-168`). The stored list
   survives a restart, until the next refresh.
3. **A refresh request is forgotten** (`model_refresh_forgotten`). A note left
   between the goroutine's last look and its deferred clean-up is thrown away
   (`service/dispatcher.go:390`), against the comment of `SyncRemoteModels`
   (368-371). The channel keeps no discovered models until the next request.
4. **A shared object is purged with its file in the store**
   (`media_shared_leak`). The deletion worker decides on a count it read
   (`task/media_deletion.go:73`), the commit on the count of then
   (`db/media.go:686`), against the comment of `db/media_purge.go:11-13`. Only
   databases of an earlier version have shared objects.
5. **The cache overrides the durable channel pin** (`pin_overridden`). A
   registration whose write ended otherwise than with a channel conflict is
   journaled and published (`router/async_task_recovery.go:172`) over whatever
   another creation has stored for the ID meanwhile, against the comment of
   line 158. Lookups go to the wrong channel until the entry expires, and a
   status query in that time writes the cached channel over the stored one
   (`db/db.go:1344`): `PinKept` allows that for an ID of two channels only.

### What else the models show

Disagreements and limits met while modelling, with no run of their own. The
passing properties are stated so that they hold with these in the model, except
where a bound is named.

* Submission: an accepted answer whose body cannot be read, or has no task ID
  under `gateway_wait`, is marked `rejected` (`protocol/executor.go:682-691`,
  `protocol/async.go:103-105`), against `db/task.go:425-427`. A retry after a
  change of bindings may submit under another operation name
  (`router/profile_image_execution.go:45-92`), against `db/task.go:339-342`
  (`RetryStaysBound` does not hold), and one after a crash before the alias
  is written is told the provider's ID (`ReplayIsTheSame` does not hold,
  against `router/profile_idempotency.go:191-192`).
* Journal: a line torn by a crash or a failed write swallows the next entry,
  which was reported durable and announced (`router/async_task_recovery.go:318`,
  against the comment at 168-170): a crash before the worker has stored it loses
  the mapping. `PublishedIsRecoverable` names these entries (`swallowed`) and shows
  that there are no others. An acknowledgement whose sync fails is in the file
  while its entry stays pending and is taken for durable (`durable` outside
  `journal`); its mapping is stored by then. A mapping may be published after the
  deletion of its channel (`db/task_mapping_cache.go:47`), which the properties
  excuse. The race of finding 5 also leaves an alias to one channel's run beside
  the mapping of another, and a status query may project a legacy run for a task
  of the profile engine (comment at `router/legacy_task_lifecycle.go:291`).
* Polling, the budget: `ProfilePoll` returns an empty observation when it cannot load
  profile, operation or retention, or its context has ended, before it looks at
  attempts and deadline (`task/profile_poller.go:38-49`), and `RunOnce` counts that as
  a poll (`task/poller.go:67-106`): `poll_count` passes MaxAttempts. A task whose
  definition is lost is rescheduled for ever, past its deadline. A client's
  request that could not load the operation has no budget either and asks the provider
  once more (`router/profile_status.go:89`, 514-517). `BudgetRespected` counts
  these polls (`blind`), `PollingEnds` leaves out lost definitions.
* Polling, the words: a provider's word that is normalised to `completed` and is not
  among the profile's SuccessValues completes a task under required retention
  with outcome pending and no media (`task/profile_poller.go:123-125`,
  `router/profile_status.go:136-149`), against "A required-media result is not
  terminal until every local asset is available" (`router/profile_status.go:185`) and
  "Required retention is part of the task contract"
  (`task/profile_poller.go:127`). `RequiredCompletedAfterMedia` is about tasks with
  outcome success. An unknown word is stored as the status as it is; a worker that
  hears `materializing` from the provider goes on being scheduled and is never
  claimed again; a client's poll that hears an unknown word after a known one is
  rolled back with its record.
* Catalog: a revision that is deleted between a submission's read and its row
  leaves an accepted task whose profile is nowhere (`orphan`), against
  `router/profile_execution.go:317-319`. Two administrators may bind to a
  retired or deleted revision or overlap each other, because the handlers check
  outside the write; `BindingsStand` is therefore checked for one.
* Audit: the periodic reconciliation writes absolute counts and a status
  without the order of statuses over polls folded since it read, against
  `audit/audit.go:872-875` (`mixed`). Numbers of events may collide and lose a
  completion event.
* Delays: when Retry-After is exactly as many seconds as a duration holds, the
  code waits the longest duration there is, which may be just under a second
  more than was asked for (`Slack` in `GatewayWait`); at the next one it
  saturates as it should.
* Accounts: a checked login whose caller has left is released and not counted,
  where `security/admission.go:81-83` says so of unchecked ones only; a request
  that read an expired session in time revives it.
* Routing: the comment of `ExecuteWithPolicy` lists 408 and 5xx as eligible for
  failover, while `isFailoverEligibleForPolicy` never takes 408, and 5xx only
  under a policy no route uses. A request whose profile candidates are all
  skipped takes two turns of the same pool, so that of two equal channels the
  same one is always first; `TurnsFair` counts turns.
* Breaker: `InvalidateChannel` resets the breaker before it moves the generation
  (`service/dispatcher.go:170`); an attempt between the two counts in the new
  cycle.
* Media and tasks: a task under required retention one of whose assets is
  revoked before the others are stored stays `materializing` for ever.
  `PersistTaskPollBatch` counts a pending observation as a failure.

## 6. Plan

Done: the modules of section 2, their runs, and the proofs of section 4.

What would come next:

1. `Shutdown`: all workers, the budgets of the waits, and the close
   (`shutdown.go:34`, the one hazard of that component without a property).
2. `MediaTask`: `TaskPolling` composed with the library's batch, to replace
   its nondeterministic media by `MediaLibrary`'s.
3. Theorems: the share of each channel in `Routing` for sets of two and three
   channels, where the sums are explicit.
4. The events of the audit log and their numbers; several profiles and channels
   in `Catalog`.

## 7. What is not modelled, and why

* HTTP routes: handlers parse a request and call the components above. Media
  transfer, address checks, redirects and byte ranges: I/O and data, of which
  `MediaLibrary` has the outcomes. The profile executor and the adapters:
  translation of data; `Routing`, `Submission` and `GatewayWait` have what an
  exchange is and what its error says of the request.
* Migrations, backups: they run alone, before anything else or by hand.
* Metrics, the web console, logging, helpers: nothing depends on them.
* In the modelled parts: task events and attempts; the wording of errors; retry
  delays of media jobs; content of files; media links and capabilities; the
  rotation of gateway tokens and the reset of the administrator; requests that
  the playground pins to a channel; the counter that says which key is first;
  several profiles and channels in the catalog; events, captured bodies and
  lists of the audit log; image IDs, which differ from those of videos by a
  prefix. Two branches no state reaches are left out as well: the release of an
  older object when an asset becomes available (none has one then), and a second
  set of results for a purged asset.
