# Gitea in TLA+

Gitea is a git forge: a Go program that serves a web interface, an API and git
over HTTP and SSH, keeps its data in a relational database, its repositories on
disk, and does most of its slow work in background queues. This directory holds
TLA+ models of the parts where goroutines, processes, transactions and shutdowns
meet: the queues, the base queues under them, the graceful manager with its
servers, the runs of Gitea Actions, the checking and merging of pull requests, the
delivery of webhooks, the event source of the web interface, and the archiver. TLC checks
them on small instances, and TLAPS proves their safety properties for every value of the
constants.

`PROJECT.json` is the index: components, runs, mutants, the lines each
definition translates, findings, hazards, theorems. To check by hand:

    tlc -workers 2 -config pool.cfg MCWorkerPoolQueue
    tlapm WorkerPoolQueueProofs.tla

Contents: 1 the system's parts; 2 the modules; 3 the runs; 4 what TLC found;
5 fairness; 6 the proofs; 7 what is not modelled; 8 the plan.

## 1. The system's parts

Lines and names are those of the source; paths are relative to `src/`.

### Worker pool queue (`modules/queue/workergroup.go`, `workerqueue.go`, `base.go`)

- *State.* A base queue (Go channel, leveldb or redis) and, in memory, what has
  left it: `popItemChan`, `batchBuffer`, the local `batch` of
  `doDispatchBatchToWorker`, the batches in the workers' hands. `workerNum`,
  `workerActiveNum`, `workerMaxNum`; `flushChan`; the contexts `ctxRun` and
  `ctxWorker`.
- *Operations.* `Push`, `RemoveAllItems`, `SetWorkerMaxNumber`,
  `FlushWithContext`, `Cancel`, `ShutdownWait` from any goroutine; `doRun`
  (the dispatcher), `popItemByChan` (the popper), `doStartNewWorker`.
- *Interactions.* Everything that happens after a request goes through one:
  pull request checks, automerge, webhooks, mirrors, actions, mails, indexers,
  migrations. Their handlers may return items as unhandled. The graceful manager
  starts and cancels queues.
- *Hard.* Three kinds of goroutines over unbuffered channels; a flush or a
  shutdown that arrives while the dispatcher blocks in a send; workers that end
  while others are started; unhandled items that are pushed from inside a worker.
- *Correct if* no accepted item is forgotten or handled by two goroutines, the
  counters of the pool are the goroutines they count, a flush drains, a shutdown
  ends and leaves every unfinished item in the base queue; an item is given up only when
  more are unfinished than the base queue takes.

### Base queues (`base_channel.go`, `base_redis.go`, `base_levelqueue*.go`, `backoff.go`)

- *State.* A queue and, for a unique queue, a set of the data in it: a channel, a
  set and a mutex; a redis list and a redis set that several nodes share, with one
  mutex per node; a leveldb queue with one mutex.
- *Operations.* `PushItem`, `PopItem`, `RemoveAll`, `HasItem`, `Len`, `Close`.
- *Hard.* Queue and set are two things and no transaction covers them: every
  interleaving, cancelled call, broken connection and crash falls between them.
- *Correct if* the set never blocks a datum that is not queued, the queue keeps its
  length, and a push returns.

### Graceful manager (`modules/graceful/manager.go`, `manager_unix.go`)

- *State.* `state` (init, running, shuttingDown, terminate); the contexts shutdown,
  hammer, terminate, manager; the wait groups of servers and of terminate
  functions; the lists `toRunAtShutdown` and `toRunAtTerminate`.
- *Operations.* `RunWithCancel`, `RunWithShutdownContext`, `RunAtTerminate`,
  `RunAtShutdown`, `RegisterServer`, `ServerDone`, the signal handlers,
  `doShutdown`, `doHammerTime`, `doTerminate`.
- *Interactions.* Servers, queues, cron and indexers register with it and watch its
  contexts; `cmd/web.go` waits for `Done`.
- *Hard.* Signals and panics at any moment; registrations during the shutdown;
  lists that are read once; a hammer timer against a slow shutdown.
- *Correct if* the contexts close in the documented order, nothing terminates under
  a running server, and a shutdown completes.

### Graceful server (`modules/graceful/server.go`, `server_hooks.go`)

- *State.* Its own `state`, the listener, a WaitGroup that counts connections.
- *Operations.* `Serve`, `Accept`, `Close` of a connection, `awaitShutdown`,
  `doShutdown`, `doHammer`.
- *Hard.* `doHammer` counts a WaitGroup down until it panics while `Serve` waits on
  it and connections still close.
- *Correct if* `Serve` returns when, and only when, the connections are closed or
  the hammer has come.

### Actions (`models/actions`, `services/actions`, `routers/api/actions/runner`)

- *State.* Rows of runs, jobs, tasks and steps with a status each; a version in the
  run's row; a version per owner and repository that runners poll; the queue of the
  job emitter.
- *Operations.* `InsertRun`, `CreateTaskForRunner`, `UpdateTaskByState`, `StopTask`,
  `UpdateRunJob`, `CancelRunningJobs`, cron's `StopZombieTasks`, `StopEndlessTasks` and
  `CancelAbandonedJobs`, the job emitter's queue handler `checkJobsOfRun`, and
  `Cancel`, `Rerun` and `Approve` of `routers/web/repo/actions/view.go`.
- *Hard.* Every operation is a transaction (or several statements without one) over rows
  that others change at the same time. Some updates are optimistic (`task_id = 0`,
  `status = blocked`, the version of the run) and others are not, and blocked jobs wait
  for somebody to tell the emitter.
- *Correct if* a running task is the task of a running job, a finished task keeps its
  result, the run's status is that of its jobs, and no job stays blocked whose needs
  are done.

### Pull requests (`services/pull`, `services/automerge`, `models/issues/pull.go`)

- *State.* The row with its status (checking, conflict, mergeable, ...) and whether it is
  merged, the issue's row (closed or not), the queues `pr_patch_checker` and
  `pr_auto_merge`, a keyed lock (`modules/sync/exclusive_pool.go`), the scheduled
  automerge, the commit statuses, the branches in git and `refs/pull/N/head`.
- *Operations.* `AddTestPullRequestTask`, `AddToTaskQueue`, `testPR`,
  `checkAndUpdateStatus`, `InitializePullRequests`, `Merge`, `MergedManually`,
  `SetMerged`, `ScheduleAutoMerge`, `MergeScheduledPullRequest`, `handlePull`, the
  pre-receive hook.
- *Hard.* Records read before a lock and used after it; git and the database are
  changed one after the other; the queue answers `Has` while its handler runs; pushes,
  statuses and requests come at any moment and nobody serialises them.
- *Correct if* what is merged is recorded as merged and stays so, the status is the one
  for the commits the branches have, no status stays "checking" for ever, a protected
  branch takes only what has passed, and a scheduled merge happens when its checks
  succeed.

### Webhooks (`services/webhook`, `models/webhook`)

- *State.* The table of hook tasks, each with `is_delivered`, a time and an outcome; the
  webhooks with the status of their last delivery; in each process the unique queue
  `webhook_sender` of task IDs and its workers.
- *Operations.* `PrepareWebhooks`, `ReplayHookTask`, `enqueueHookTask`, the queue's
  `handler` with `Deliver`, `MarkTaskDelivered` and `UpdateHookTask`,
  `populateWebhookSendingQueue` at the start of a process, cron's `CleanupHookTaskTable`,
  the edit and the deletion of a webhook.
- *Hard.* The task is marked before its request is sent; processes that overlap in a
  graceful restart push the same tasks; the hammer and crashes come between any two
  statements; a clean-up deletes rows in between.
- *Correct if* a task is never sent twice, is not forgotten, and says how its delivery went.

### Event source (`modules/eventsource`, `routers/web/events`)

- *State.* `Manager.messengers`, one per user with streams, behind `Manager.mutex`; in
  each messenger the channels of its streams behind its own mutex; `Manager.connection`,
  a channel with one token that wakes `Run`.
- *Operations.* `Register`, `Unregister`, `UnregisterAll`, `SendMessage`,
  `SendMessageBlocking` (only by a sign-out), the loop of `Manager.Run`, the loop of
  `Events` in every stream.
- *Hard.* Two mutexes taken one after the other or one inside the other; channels of one
  message that are closed by whoever unregisters; a loop that sleeps while nobody listens.
- *Correct if* no closed channel is written to or closed again, `Run` wakes up, a stream is
  found by sends as long as it listens, and everything ends at the shutdown.

### Archiver (`services/repository/archiver`, `models/repo/archiver.go`)

- *State.* A row and a file in the storage for each archive; the unique queue
  `repo-archive`.
- *Operations.* `Await`, `StartArchive`, the queue's handler with `doArchive` (one
  transaction around `git archive`), cron's `DeleteOldRepositoryArchives` and
  `DeleteRepositoryArchives`, the doctor's `storage-archives` (`modules/doctor/storage.go`).
- *Hard.* Row and file are two things, in both directions: the row is committed after the
  file is there, and deleted before the file is; nobody locks an archive.
- *Correct if* a row that says "ready" has its file, no file is left without a row, and a
  request that waits is answered.

### The rest

`modules/process` (a table of contexts), `models/db` (indexes and transactions), cron,
mirrors, migration tasks, repository transfer, indexers, git subprocesses, storage,
logging, sessions and caches, packages, authentication, the web layer, settings and
database migrations. `PROJECT.json` lists each with its files and what keeps it out
so far: third-party engines, input and output, or sequential code in a transaction.

## 2. The modules

| module | models | how it is used |
|---|---|---|
| `WorkQueue` | what `queue.go:6-49` promises: an item is accepted once, pending, then handled, removed or given up, for good | abstract specification |
| `WorkerPoolQueue` | the worker pool queue over a channel queue with its mutex | implements `WorkQueue` |
| `BaseQueue` | what the models of the base queues share: the items, the configured length (`base.go:13-22`, `config.go`) | extended by the next two |
| `RedisQueue` | the unique queue in redis on several nodes | `RedisInv` is its promise |
| `ChannelQueue` | the unique queue in memory, with its mutex | |
| `Lifecycle` | the order in which contexts close (`manager.go:201-220`), with its one exception | abstract specification |
| `GracefulManager` | the manager and the functions registered with it | implements `Lifecycle` |
| `GracefulServer` | a listening server and its connections, composed with the manager | EXTENDS `GracefulManager`, implements it |
| `ActionRun` | one workflow run: the rows of its jobs and tasks, and the transactions that change them, statement by statement | |
| `Pulls` | one pull request: its row, branches, queues, lock and scheduled merge | |
| `HookDelivery` | hook tasks from the request to the recorded outcome, in processes that overlap, end, are hammered or crash | its queue is that of `WorkerPoolQueue`, with the stale entries of the base queues |
| `EventSource` | manager, messengers and channels with the streams, `Run`, sends, sign-outs and the shutdown | |
| `Archiver` | requests, workers, rows, files, cron tasks and the doctor | |
| `*Proofs` | theorems about the module of the same name; `GracefulProofs` about manager and server, `BaseQueueProofs` about the two unique queues | |
| `MC*` | instances and symmetry for TLC; `MCActionRun` also compares `Resolve` with the passes the code makes | |

**WorkerPoolQueue.** An item is a *push*: two pushes of equal data are two items.
The model follows an item from place to place. `base` is the base queue; `at[p]` is
the set of items at place `p`: the popper's hand (between `PopItem` and the send on
`popItemChan`), `batchBuffer`, the local `batch`, a worker, the dispatcher when it
handles items itself ("flusher"), or finished: handled, removed or lost. A
rendezvous on an unbuffered channel is one step. `pc` is the dispatcher: `select` is
the loop of `doRun`; `offer`, `scale`, `send` are the three parts of
`doDispatchBatchToWorker` (a send that may fail, starting a worker, a send that
blocks); `flush...` is `doFlush`; `drain`, `repush`, `await` its deferred function.
`st[h]` is a handler goroutine: idle in its select, inside the handler, pushing
unhandled items, or pushing them with `basePushForShutdown` after `Push` failed.
The order of items inside a batch is not modelled; the order in the base queue is.
`RemoveAllItems` is as slow as in the code: `removal` is its goroutine, which takes the
mutex of the base queue, looks at the length and receives, item by item
(`base_channel.go:119-125`). While it has the mutex the popper waits with the item it has
taken (`popWaits`), and so do `Len` and with it `doFlush`; if the popper has taken the last
item, `RemoveAll` waits for the next push. At the shutdown one timeout is for all the items
that `basePushForShutdown` is given: once a push has run into it, those after it may fail too
(`repushLate`). A timeout may fire whenever it is armed, so time needs no model. Batches are
sets that the two `select`s of the dispatcher fill and empty exactly as the code does.

**RedisQueue.** Each redis call (`LLEN`, `SADD`, `RPUSH`, `LPOP`, `SREM`, two
`DEL`s) is a step of its own, because between them other nodes make theirs; the
mutex of `baseRedis` leaves each node one operation at a time, `op[n]`. A call whose
context is cancelled or whose connection breaks fails, and redis may have executed
it; an `LPOP` whose answer is lost has taken its item. What the queue does with popped
items is kept: they are on the fly to a worker, in its hand, or on their way back
(`fly`, `hand`, `back`), pushed with `ctxRun` or with the context of
`basePushForShutdown`. A process ends in order when `doRun` has pushed back what was on the
fly (`draining`) and its workers are done, or when the shutdown timeout is over
(`workergroup.go:287-291`): what a worker still has then is given up. A crash may happen
between any two calls.

**ChannelQueue.** Each critical section of the mutex, and each channel operation
between them, is a step: `PushItem` looks into the set, sends, and enters its datum
in the set in three steps.

**GracefulManager, GracefulServer.** Each visit to the lock is a step. A *server* is
anything counted by `runningServerWaitGroup`: a `Runner` registered with
`RunWithCancel`, which ends when it is cancelled, or a `Watcher` of the shutdown
context. `GracefulServer` makes one watcher, `Listener`, concrete: `serve` is its
goroutine in `Serve`, `await` the one in `awaitShutdown`, `wg` its WaitGroup, with
Go's rules: `Done` below zero panics but the counter stays below zero; `Wait`
returns when the counter is zero and panics when it wakes and finds it is not. The
manager's two WaitGroups obey them too: who waits in `WaitForServers` or
`WaitForTerminate` sleeps, is woken by the last `Done`, and panics if somebody was added
before it runs, which kills the process. The manager's actions are those of
`GracefulManager`, unchanged, so that the composed system implements the manager, which is
proved. `Lifecycle` has the documented order,
shutdown, hammer, terminate, manager; `early` is its one exception, an immediate hammer that
somebody asked for before the shutdown.

**ActionRun.** A statement is a step; what a transaction has written (`wjob`, `wtask`,
`wrun` of `tx[h]`) is its own until `Commit`, and its rows are locked: who needs one
waits, or becomes the victim of a deadlock (`Victim`). A read sees the committed rows,
or, under snapshot isolation (MySQL's default), those committed at the transaction's
first read; `isolation` is chosen in `Init`, since Gitea sets none and runs on several
databases. `CancelRunningJobs` is called without a transaction, so each of its
statements commits. The optimistic version of the run is not a number but a set:
`current` are the goroutines that have read the version it still has, which keeps the
state finite; `summed` tells likewise who has read the jobs since the last write that
was outside a transaction. Reads before a transaction (`Cancel`, `Abandon`, `Emit`,
`Rerun`, `Approve`) are kept in `todo` and used later, stale or not. `Resolve` is the
fixpoint that the emitter's passes compute; `MCActionRun` evaluates, for every status of
three jobs, that the passes of `jobStatusResolver` reach it.

**Pulls.** A database statement, a git command and a queue operation are each one step;
`g[h]` is the operation of a goroutine with what it has read. A branch is the commit it
points to (`head`) or a version number (`base`), `landed` the commits of the pull
request that are in the base branch, and `Conflicts` says which pairs do not merge. A
push leaves a task (`tasks`) from which `AddTestPullRequestTask` starts, the queue
`push_update` and the goroutine folded into one. A test and a merge fetch the base and the
head branch by two git commands (`temp_repo.go:143, 180`). A doer is a user whom the hook
checks, a pusher whom it does not (`hook_pre_receive.go:264`), or an administrator who
forces the merge. `SetMerged` and its save run outside a transaction and may fail, which is
only logged (`merge.go:196-198`); so may every other statement and push that the
code lets fail. `config` is one way to set up the
instance: branch protection with a status check or none, detection of manual merges,
queues that outlive the process or not. `judged`, `merges`, `lost`, `stuck`, `torn` and
`shut` are history for the properties. One pull request, merged with a merge commit,
with one status context; approvals, signing, protected files and outdated reviews are left
out.

**HookDelivery.** A database statement is a step, and so is a transaction; a worker keeps
what it has read. The queue is a set of accepted IDs that loses them with its process
unless `persistent`; `stale` is what its own set has beside them. `phase[p]` is the life of a
process: up, stopping, hammered, off; the next may start when it stops, so that two overlap.
A worker goes from `idle` with a batch
through `mark`, `send`, `record` and `status`, the statements of `Deliver`; after the hammer
the statements that use its context fail. The time is only what the table tells apart:
`Clock` is one more than the latest stamp. `sent`, `dropped` (tasks given up since the last
start, each in an action that says why) and `torn` (outcomes lost, or stored by an update
that seemed to fail) are history.

**EventSource.** A critical section that waits for nothing is one step. `Manager.mutex` is
kept across steps by those who wait for a messenger's mutex with it (`Unregister`,
`UnregisterAll`), and a messenger's by a blocking send that waits for room. A messenger has
the name of the stream that made it, and its channels in the order of registration: a send
without blocking skips a full one, a blocking one goes through them in that order and stops
at the first that is full (`rest`, `messenger.go:70-77`). The channel of a stream is `chan`
and its one message `buf`; after a stream has hung up, its goroutine drains the channel until it is closed.
The users that `Run`'s queries return are any set. `orphans` is history: the streams that were
between the two critical sections of `Register` when their messenger was dropped or closed.

**Archiver.** A database statement, a storage operation and a queue operation are each one
step; what `doArchive` has inserted is its own until `Commit`, and another who inserts the
same row waits for it, as the unique key says. Rows have no numbers: a clean-up remembers
in `same` for which of its archives the row it listed has not been replaced.
`InSet` is what `Has` and `Push` ask, the queue's own set, with its stale entries.
`missed`, `overtaken` and `leaked` are history. The doctor's check is modelled with what it
does to paths, since its mistake is in them.

**Stale entries.** A unique queue refuses and reports what its set has, and its clients take
that for queued (`check.go:55`, `webhook.go:139`, `archiver.go:323`). `StaleNeedsRace` and
`StaleNeedsInterruption` say when the set has what the queue has not: in memory when the
popper or `RemoveAll` overtakes a push, in redis when an error or the end of a process falls
between two calls. So `Pulls`, `HookDelivery` and `Archiver` have a variable `stale`, which
such a race (in `Pulls` one of the `Faults`, in the others of the `Disturbances`) or a crash
of a process with a persistent queue fills, and which nothing empties but the end of a
process whose queue ends with it. In each of them it is what the properties name beside
crashes and errors, since nothing tells the client. An `LPOP` whose answer is lost takes an
item from list and process at once (`PopFails`; `PopLPopFails` in `RedisQueue`).

Every definition that translates code is listed under `map` with its lines.
Definitions whose names end in `_Something` or begin with `Mut` are mistakes a
programmer could make, such as a guard or a reset left out; each shows that a property
notices it.

## 3. The runs

| run | instance | distinct states | properties |
|---|---|---|---|
| `pool` | 2 items, 2 workers, base length 1, batch length 2, limits 0-2, 1 failure, 1 flush, any number of `RemoveAll`, handlers that may hang | 218,238 | 10 |
| `redis_cluster` | 2 nodes, 2 items, 2 pushes, length 1, 1 `RemoveAll`, 1 crash or shutdown, broken connections | 1,143,952 | 2 |
| `channel_unique` | 3 pushers, 2 data, length 2 | 36,705 | 1 |
| `channel_removeall` | 1 pusher, 2 data, length 2 | violation | `PushReturns` |
| `graceful` | 1 runner, 1 listening server with 1 connection, 2 terminate functions, hammer timer | 1,448,907 | 5 |
| `actions` | 2 jobs, the second needs the first, 2 tasks, 2 goroutines (1 of them also a worker of the emitter), 2 interventions | 1,141,387 | 5 |
| `pulls` | 2 commits, 2 goroutines (1 of them the worker of the queues), 2 configurations, 3 interventions, 1 of them a fault | 395,605 | 5 |
| `pulls_missed` | the same with 4 interventions, none of them a fault | violation | `ScheduledMerges` |
| `eventsource` | 1 user with 2 streams, 1 session that signs out, 1 request that sends, `Run`, shutdown | 302,948 | 5 |
| `hooks` | 1 task, 1 webhook that is edited, 2 processes with a worker each, queue persistent or not, 2 disturbances | 435,076 | 4 |
| `archives` | 1 archive, 2 requests, 2 workers, 2 clean-ups, 1 failure, crash or stale entry | 672,696 | 3 |
| `archives_doctor` | 1 archive, no failure | violation | `AvatarKept` |

The runs ask each question once. The type invariants, and some invariants that are proved
for every value of the constants (section 6), are not in them again: `TypeOK` of every
module, `NothingVanishes`, `OnePlace`, `LengthExceededByNodes`, `DuplicateNeedsRemoveAll`,
`RemovalStarvedByPopper`, `CountNeedsNoHammer`.

Beside the runs, for larger instances or counterexamples (section 4), there are the
configurations

- `pool_safety.cfg` (3 items, base length 2, 2 failures: 681,069 states, the safety
  properties of the queue), `pulls_safety.cfg` (4 interventions: 4,414,133 states, the safety
  properties of `pulls`) and `hooks_two.cfg` (2 tasks, 2 processes, 1 disturbance:
  8,582,365 states, the invariants of `hooks`), which pass;
- `pool_lost.cfg`, `pool_hang.cfg`, `redis_shutdown.cfg`, `graceful_cancel.cfg`,
  `graceful_hammer.cfg`, `graceful_order.cfg`, `actions_superseded.cfg`, `actions_deep.cfg`,
  `eventsource_signout.cfg`, `eventsource_orphan.cfg`, `hooks_cleanup.cfg` and
  `hooks_status.cfg`, which are violated.

The bounds, and why they are enough:

- *pool.* More items than the base queue is long, so that pushes back fail
  and items are given up, and a base queue of one item, so that the popper takes the last
  one from under `RemoveAll`; a batch of two, so that a buffer can be half full when a
  flush, the timer or the shutdown comes; two workers, so that one ends while
  another handles and the dispatcher scales; limit 0, where the code still allows
  one worker; one flush request, which may arrive in the select, in a blocked send
  or after the cancellation (a second is only the same again: while one is being
  answered no other is received). `MaxFailures` bounds how often a handler returns
  items, and is for liveness an assumption: a handler that always returns its items
  finishes none. No symmetry, which is not sound for liveness; `pool_safety.cfg` has
  the larger instance, with symmetry over items and workers.
- *redis_cluster.* Two nodes are enough for a node's step to fall between two calls
  of another; length 1 makes the second push exceed it; two items tell "this item"
  from "another", and two pushes (`MaxPush`) are of the same item or of both. One
  `RemoveAll` separates what holds with it from what does not; one end of a process
  (`MaxEnd`), by a crash or a shutdown in time or not, at any point, after which it is
  started again. Two pushes and two ends exceed what a run can take.
  For any number of nodes, items and any length five properties are proved.
- *channel_unique.* Three pushers fill a channel of two and leave one waiting.
- *graceful.* One runner and one server, since others are registered, cancelled and waited
  for independently; two terminate functions, so that one is added between the last `Done`
  of the other and the wake-up of who waits for it. One connection closes while the hammer
  counts it down a second time. The safety properties are proved for any number.

- *actions.* Two goroutines let every statement of one transaction fall between two of
  another, under both isolation levels; a job that needs another gives the emitter
  something to release; two tasks let a job run twice or two jobs run at once, and
  `Interventions = 2` is what it takes for a rerun to meet a cancellation or an approval
  to meet cron. Runners report success: failure only changes which status is aggregated.
  Three interventions (3.7 million states, safety only), and three jobs of which one
  needs two with a worker more (2.1 million), were checked outside the runs.
- *pulls.* Two goroutines: one test against one request, merge or update; two
  commits, one of which conflicts once the base branch has moved; of the eight ways to
  set up an instance the two that differ in everything. Every behaviour begins with
  a process that has just started. Three interventions suffice for a merge raced by a push and
  a status, a second landing on a pull request that was merged already, and a crash or an error
  inside of a merge with something to lose; four, in `pulls_safety.cfg`, for two of these at
  once. One fault: an error, a crash, or a stale entry of the queue's set; a start that fails
  after a crash takes two, and is left to the proofs. Two goroutines beside the worker with
  three interventions (2,184,006 states, safety only) were checked outside the runs.
- *eventsource.* Two streams of one user are the least that share a messenger, so that one
  leaves while the other registers or while a sign-out sends to both; users share only the
  manager's mutex. The safety properties are proved for any number.
- *hooks.* One task that two processes find, push and handle at the same time; two
  disturbances are what it takes for a failed push and a crash to meet, or for a stale entry
  and the start that meets it. The batch size 1
  makes the filling loop turn; the clean-up per webhook keeps none, so that it too meets the
  task. Two tasks are in `hooks_two.cfg`; proved for any number.
- *archives.* Two workers of one archive meet when it is asked for again while it is made;
  two clean-ups, as one deletes a row that the other has listed. Two archives with one
  worker and one request (2,857,078 states, safety only) were checked outside the runs.

What the properties say:

- Items of a queue: `ImplementsWorkQueue`, `LossNeedsOverload` (an item is given up only when
  more are unfinished than the base queue is long, or after a push of the shutdown has timed
  out), `ShutdownLeavesNothing`, `OwedIsKept` (what is pushed in redis is in the list or with
  a node until the queue lets go of it; a call that was interrupted may lose it).
  The local `batch` and `batchBuffer` are copied and reset in eight places; one
  forgotten reset loses or doubles items only in certain interleavings.
- The pool: `PoolAccounting`, `BlockedSendHasWorker`, `PoolShrinks`.
- Flush and shutdown: `FlushDrains` (an action property of the step that answers
  the flush), `FlushAnswered`, `ShutdownReturns`, `EventuallyFinished`. The last three say
  on what they depend: handlers that return (`ShutdownReturns` only of those that a flush
  waits for), and a `RemoveAll` that is not starved for ever by the popper
  (`RemovalEnds`; `channel_removeall` shows how it is).
- Set against queue: `StaleNeedsInterruption` and `StaleNeedsRace` name the only
  ways to an entry that blocks its datum for ever.
- Shutdown of the process: `ImplementsLifecycle`, `OnlyLateServersOutlive`,
  `DoneAfterTerminators`, `ConnectionsServed`, and `ShutdownCompletes`, whose `Obstacle` names
  what keeps a process from ending: a runner that registers too late to be cancelled, a
  function added after the start of the terminate functions, a server that was not running
  yet when it was told to stop, a `Serve` that waits for a counter below zero, and a `Wait`, of
  `Serve` or of the mop-up goroutine, that panics because its WaitGroup was used again, which
  ends the process otherwise than in order.
- Runs of Actions: `RunAggregates`, `TasksBelong` (no task runs for a job that has ended
  or has another task), `FinalIsFinal`, `BlockedIsOwed` and `Released`. Each names the
  transactions that break it: what is cancelled outside a transaction, what reads
  committed rows and overwrites them, the unconditional update of `CancelAbandonedJobs`,
  the operations that do not tell the emitter. `BlockedIsOwed` and `Released` are about the
  jobs whose needs need nothing themselves (`Direct`); of others they are false
  (`actions_deep.cfg`).
- Pull requests: `StatusIsFresh` (the verdict is for the branches as they are, or a new
  test is to come, or an update was lost: to a crash, an error, a stale entry, or because
  it met the pull request closed), `LandedIsRecorded` (but for a crash or an error between
  push and `SetMerged`, or a user who closed the pull request), `LandsChecked` (a protected
  branch takes what has not passed only from an administrator who forces it, or if head branch
  or status changed since the doer was last checked: by the hook, or, for a doer who may push,
  when the merge was asked for), `MergedIsFinal`, `CheckingEnds` (but for an error or a stale
  entry that lost the test).
- Webhooks: `SentAtMostOnce`, `UndeliveredIsOwed` (an undelivered task is in a queue, with a
  worker, about to be pushed or to be found, or was given up since the last start, by an
  action that fails or by a push that a stale entry refuses), `DeliveredHasOutcome`, and
  `EventuallyDelivered`.
- Event source: `ChannelsOpen`, `NoLostWakeup`, `UnheardNeedsRace` (a stream out of reach of
  sends was between the two critical sections of `Register` when its messenger was dropped or
  closed; a listed stream never loses its messenger), `FreedButForSignOut` and
  `ShutdownClears`, which name the one deadlock there is: a sign-out at the channel of a
  stream that has hung up.
- Archiver: `BrokenNeedsCleaner` (a row without its file was overtaken by a clean-up),
  `LeftoverNeedsInterruption`, `AwaitEnds` (but for an attempt that left no row and for a
  stale entry of the queue's set).

Deadlock is checked in the pool run, where `Stopped` is the end; but callers may always
change the limit, so goroutines that wait for each other show in the liveness properties.
The other modules stop where the program does: when nobody calls a base queue, when the
process has ended, when no runner, user or push does anything.

## 4. What TLC found

Three runs are expected to be violated. Each states what the repository says of
itself and shows how the code does otherwise.

1. `channel_removeall`. `RemoveAll` receives with the mutex held after it looked at
   the length (`base_channel.go:123-124`); the popper took the last item and waits for
   the mutex; so does every push, for ever, against `queue.go:40`.
2. `pulls_missed`. A pull request waits for a status to be merged; the status comes from
   Gitea Actions, whose `createCommitStatus` (`services/actions/commit_status.go:117`) does
   not call `MergeScheduledPullRequest`, and nobody merges it, though
   `services/automerge/automerge.go:97` says that it is merged "when all checks succeeded".
   The same happens with a status from the API that arrives between `ReadState` and
   `InsertSchedule` (`automerge.go:64-74`).
3. `archives_doctor`. The doctor's check of the archives iterates the storage of the avatars
   (`modules/doctor/storage.go:165`). The path of an avatar is never that of an archive: with
   `--fix` all avatars of repositories are deleted as orphans, and orphaned archives stay,
   though `storage.go:92` says that the check looks at "the requested storage types".

More counterexamples, each with a configuration of its own:

- `redis_shutdown.cfg` (`PushedBack`). `ctxRun` is cancelled between `LPOP` and `SREM`
  (`base_redis.go:95`; its error is ignored): the item is delivered, its entry stays,
  and its push back at the shutdown is refused as a duplicate of itself, though
  `workerqueue.go:187` says that unhandled items are pushed back.
- `pool_lost.cfg` (`UnhandledReturned`). The popper waits for the dispatcher, the
  dispatcher for a worker, the worker for room in the base queue: nobody makes room, both
  pushes of the unhandled item time out (`workergroup.go:109-113, 117-134`), and the item
  is logged and dropped while the queue runs. `queue.go:24-27` promises that no item is
  lost to transient failures.
- `pool_hang.cfg` (`ShutdownInTime`). `doFlush` waits for workers (`workergroup.go:186`),
  and handles items itself, without looking at `ctxRun`: with a handler that hangs,
  `ShutdownWait` does not return, which `workerqueue.go:26` says it does.
- `graceful_cancel.cfg` (`CancelCalled`). A runner that registers when the shutdown has
  begun, as the issue indexer's queue may (`modules/indexer/issues/indexer.go:125`), is put on
  a list that has been read (`manager.go:112-130`): nobody cancels it, the process waits.
- `graceful_hammer.cfg` (`HammeredServeReturns`). `doHammer` takes the counter below zero
  (`server_hooks.go:66-71`) before `Serve` waits, which then waits for a zero that does not
  come, though `server_hooks.go:52-55` says that `Serve` will return.
- `graceful_order.cfg` (`HammerAfterShutdown`). SIGUSR2 closes the hammer context at once, and
  a second request to shut down may while the first has not closed the shutdown context yet
  (`manager_unix.go`), though `manager.go:202` and `208` have the shutdown first.
- `actions_superseded.cfg` (`RunFollowsJobs`). A push cancels the running jobs of the
  workflow's last run (`services/actions/notifier_helper.go:261`) outside a transaction.
  `UpdateRunJob` has committed the job when `UpdateRun` finds that the run has changed and
  fails; the error is logged, all jobs have ended, and the run keeps a status that is not
  theirs. `models/actions/run_job.go:130` loads run and jobs again because "other goroutines
  may aggregate the status of the run and update it too". Inside a transaction the failed
  update would take the job's with it: `RunAggregates` is proved for that.
- `actions_deep.cfg` (`DeepIsOwed`, no claim of the repository's). `checkJobsOfRun` reads the
  jobs before its transaction (`services/actions/job_emitter.go:46-60`), and the queue may
  give a run to a second worker meanwhile. `d` needs `b` and `c`, `b` needs `a`; `a` has
  failed and the emitter is about to skip `b`. `c` fails, `a` is rerun, and the second worker
  finds nothing to do; then the first skips `b`: `d` has only ended needs, and nobody looks
  at the run until another job of it ends.
- `eventsource_signout.cfg` (`SendReturns`). `SendMessageBlocking` sends with the messenger's
  mutex held (`messenger.go:70-75`). A stream that has hung up does not read its channel, and
  its `Unregister`, which would close it, waits for that mutex with the manager's: the
  sign-out never returns, and no stream can register or be sent to any more.
- `eventsource_orphan.cfg` (`LeaverCloses`). `Register` gives up the manager's mutex before
  it registers with the messenger, which an `Unregister` may have dropped in between
  (`modules/eventsource/manager.go:45`): no send finds the stream, nobody closes its channel,
  and the goroutine that drains it (`events.go:51`) waits for ever.
- `hooks_cleanup.cfg` (`FlightsKept`). `MarkTaskDelivered` sets `is_delivered` alone; until the
  outcome is recorded the column `delivered` holds the time of creation, so a clean-up may
  delete a task that is being sent (`hooktask.go:190, 205`), though the configuration's
  cheat sheet counts its age from the delivery.
- `hooks_status.cfg` (`LastIsNewest`). The outcome of a task and the status of its webhook are
  two updates; of two workers the one whose delivery is older may write the status last
  (`deliver.go:198`), though `webhook.go:136` calls it the last delivery's.

Read in the code while modelling, without a run of their own.

*Actions.* `UpdateTaskByState` says "the state is final, do nothing" (`models/actions/task.go:363`), but
reads the task before its update: where reads are of committed rows, a result that is
committed in between is overwritten (`Overwrites`). `CancelAbandonedJobs` and
`CancelRunningJobs` can leave a task that runs while its job has ended. Tasks that cron
stops, runs that users cancel and abandoned jobs end without the emitter being told, so
the jobs that need them stay blocked until cron finds them abandoned (`unheard`).

*Pull requests.* Reopening by the API (`routers/api/v1/repo/pull.go:585-592`) does not test
again as the web interface does ("Regenerate patch and test conflict", `routers/web/repo/issue.go:2970`), so
an old verdict may stay (`lost`). A merge that waits for the lock does not read the row
again (`services/pull/merge.go:162-187`): it may land another commit on a pull request that is merged
already. The pre-receive hook looks at the status of the head branch and not of the commit
that is pushed, and at nothing for a doer who may push (`raced` in `LandsChecked`). A stale
entry of `pr_patch_checker`'s set keeps the pull request in "checking" until the entry goes,
since `check.go:55` takes the refused push for one that is queued (`stuck`). A merge that was
pushed is not recorded as merged when `SetMerged` fails, by an error or because the pull
request was closed meanwhile: the error is logged (`merge.go:196-198`, `torn` and `shut` in
`LandedIsRecorded`); one that is reopened while it is merged
ends merged and open, which `models/issues/pull.go:507` takes to be an error. On an
unprotected branch `handlePull` merges whatever the head branch has by then
(`IsPullCommitStatusPass` is true without a protection).

*Queues and shutdown.* `basePushForShutdown` says that it does nothing unless the queue is
shutting down (`workergroup.go:117-119`) and does not look; `WaitForServers` and
`WaitForTerminate` panic, and the process with them, when something is added to their
WaitGroup between the last `Done` and their return (`manager.go:149-159`); an interrupted
`RemoveAll` of the redis queue leaves the set of a list it has deleted
(`base_redis.go:127-130`), which `StaleNeedsInterruption` counts among the interruptions.

*Archiver.* `Await` waits for a row, so it waits in vain after an attempt that failed or whose
row a cron task deleted at once (`missed`), until the client leaves. When two requests race,
the loser gets `ErrAlreadyInQueue` as its answer (`StartArchive`, `archiver.go:321-330`), which
`routers/web/repo/repo.go:468-470` believes to be dropped. `repoArchiverForRelativePath`
(`models/repo/archiver.go:66`) puts the directory before the name, which is not the inverse
of `RelativePath` that line 94 asks for, so even in the right storage every archive would be
an orphan. `ArchiverGenerating` is never committed, and the branch for it
(`archiver.go:190`) never taken.

## 5. Fairness

- *Queue.* `SchedulerFairness`: the Go scheduler runs the popper, the dispatcher and
  each worker when they can run, and armed timers fire; weak fairness is enough, since
  each waits in one `select` that stays enabled. Handlers may hang: that they return is not
  in the specification but, where it is needed, a premise of the property
  (`HandlersReturn`, `FlushHandlersReturn`), and so is that `RemoveAll` does not starve
  (`RemovalEnds`). Callers are not fair: nobody has to push, flush or shut down.
- *ChannelQueue.* Strong fairness for who waits for the mutex: `sync.Mutex` hands itself
  over to a waiter after a millisecond, so that nobody who waits for it is passed over
  for ever. The violation of `PushReturns` needs no unfairness: all three wait.
- *Graceful.* Weak fairness for the manager's goroutines, `Serve`, `awaitShutdown` and
  the hammer timer. Servers end when they are told to: a runner after `Cancel`, a
  watcher after the shutdown context is done. Connections need not close before the
  hammer. Functions given to `RunAtTerminate` return. Nothing forces a signal.
- *ActionRun.* Weak fairness for each goroutine's next statement (`Step`): a transaction
  that has begun goes on, or is rolled back by the database. Strong fairness for the
  emitter's `Handle`, because a slot of `Worker` is shared with requests in the model while
  the queue has workers of its own. Runners, users and cron are not fair: `Released` holds
  though nobody else does anything.
- *Pulls.* Weak fairness for each goroutine (`Go`) and for `InitializePullRequests`, which
  every start runs. Weak suffices for the lock, as who holds it ends its operation and
  the model's interventions are bounded. Pushes, requests, reports and faults are not
  fair.
- *HookDelivery.* Weak fairness for each worker (`Handle`), for the filling of the queue and
  for requests that have a task to push; a process that is shut down ends or is hammered. No
  process has to start, and cron, edits and crashes are not fair.
- *EventSource.* Weak fairness for streams, senders and `Run`: goroutines run, and Go's
  mutexes are fair. Strong fairness for `RunStops` and `SeesShutdown`: Go's `select` chooses
  among the ready cases at random, so who comes back to it again and again with the shutdown
  context done takes that case at some time. Streams need not hang up, nobody has to sign out.
- *Archiver.* Weak fairness for `DoArchive` and `Await`; strong fairness for taking each
  archive out of the queue, which is first in, first out, while workers come and go. The cron
  tasks and failures are not fair.
- `RedisQueue` has no liveness property: another node may keep the queue full for ever.

## 6. The proofs

All theorems are about every value of the constants allowed by the modules' ASSUMEs
(`ConstantsAssumption`; `ListenerAssumption` in `GracefulServer`, `LengthAssumption` in `BaseQueue`): finite sets of items,
workers and jobs, positive lengths, enough worker slots for the limit. TLC evaluates the
ASSUMEs in the runs. Each inductive invariant was an invariant of a TLC run first.

**WorkerPoolQueueProofs.** `ItemInv = TypeOK /\ NothingVanishes /\ OnePlace /\
BatchInDispatch` is inductive (`ItemsSafe`). `BatchInDispatch` is the strengthening: the
buffer is taken into the local batch with an assignment, so that nothing is lost only
if the batch is empty whenever the dispatcher is outside `doDispatchBatchToWorker`; and
`OnePlace` is needed for `NothingVanishes`, since an item that moves must have been in
one place to be in one. `TypeCorrect`, `Conservation` and `Exclusion` follow.
`PoolInv = PoolAccounting /\ FlusherInFlush /\ BlockedSendHasWorker` is inductive
relative to `TypeOK` (`PoolSafe`): a worker may end only under the conditions of
`doStartNewWorker`, and the count must be right for the condition `workerNum = 0` to
mean what `BlockedSendHasWorker` needs; `FlusherInFlush` tells the dispatcher's own
handling from the workers'. `Implementation` shows that each step maps to a step of
`WorkQueue` or to a stutter under `FateOf`: the lemma about fates says that moving items
between unfinished places changes none, and `OnePlace` that a finished item is nowhere
else.
`ShutInv` says what each stage of the shutdown has emptied (past the drain the popper's
channel is closed, past the push the buffer is empty); with `ItemInv` it is inductive and
yields `ShutdownSafe`. `NoLossWithinLength` needs no invariant of its own: an item is lost
only in a step that meets a full base queue with one item more on its way back, and by
`OnePlace` these are distinct unfinished items, more than the length; or in a step of the
shutdown after the timeout.
`FlushInv` is why a flush drains: the popper's channel is closed only when the queue is shut
down, the workers that `doFlush` has waited for stay away until it ends, a worker that
handles nothing holds nothing, and the buffer is empty from a dispatch to the end of the flush
unless a shut down queue has returned its batch. The flush ends at an empty base queue, so
with `ItemInv` every accepted item is finished or in the popper's hand: `FlushEmpties`.
`TimedInv` (the timer runs for a buffer that is not empty, a request is held only in
`doDispatchBatchToWorker` and `doFlush`, and `doRun` is left only at the shutdown) and
`PopInv` (who waits for the mutex of the base queue has an item; a `RemoveAll` that receives
has something to receive, or the popper has just taken it and waits) complete it to
`NobodyStrands`, which leaves to `EventuallyFinished` and `FlushAnswered` nothing but
that timers fire and goroutines run.

**BaseQueueProofs.** Of `RedisQueue`: `RedisInv = TypeOK /\ OwedInv /\ LengthBound /\ DistinctInv`. The
three properties are far from inductive: `LengthBound` counts, besides the list, the
nodes that have seen room and have not pushed yet; `OwedInv` says of an owed item
whether it is in the list or which node has it, separately for items in the set, because
a refused push relies on the entry, and a node that ends gives up only what it holds; `Apart` (before any `RemoveAll`) says that the set
covers the list and that an item in flight is with one node and not in the list, which
is what makes `SADD`'s answer mean "not queued". Of `ChannelQueue`: `ChannelInv` extends
`StaleNeedsRace` to data that have been sent and not yet entered in the set (`Covered`), and
is inductive with the type invariant.

**GracefulProofs.** For the manager: `ManagerInv = ManagerTypeOK /\ Stages /\
OnlyLateServersOutlive /\ DoneAfterTerminators`. `Stages` ties state, contexts and the
mop-up goroutine together: without it the second `doShutdown` could start a second
mop-up, and who sleeps in a `Wait` and is woken could have got past it. From it
`ServersStopFirst`, `TerminatorsRunFirst` and the refinement `OrderKept`: the timer and the
mop-up goroutine, the only ones that close the hammer context unasked, exist only after the
shutdown context is done.
For the server: `ServerImplementsManager` is the refinement of the manager by
the composition, and hands its theorems on. `ServerInv` bounds the counter from both sides by what
connections and the two possible hammers take (`CountBounds`) and says which phases are
possible before the hammer (`BeforeHammer`).

**ActionRunProofs.** `TypeInv` adds to the types what an operation holds at each of its
statements. `IInv = RunLocked /\ (\A h : Right(h)) /\ RunAggregates` is why
`UpdateRunJob` is right to read the version of the run before the jobs. Who has written
the run holds its row, so nobody else commits a change of a job (`RunLocked`); who could
write it, because it has read the version that the run still has, has a sum that is still
right (`SumFresh`), under snapshot isolation because its snapshot is as current as the
version (`SnapshotFresh`, `ReadsBoth`), and what is written and not committed is right when
it commits (`WroteRight`). Every commit that changes a job changes the version.

`TaskInv` is about tasks. No row is written by two goroutines (`Locks`), a job's task was
inserted for it (`Linked`), and each goroutine has in order what it does (`Steady`: who has
written a task writes the run before it commits). So when it commits, its version is the one
it has read, its snapshot shows the tasks as they are (`Versioned`), and a task it finishes
was not finished (`Unfinal`): `FinishedStays`, where `Overwrites` is what remains, reads of
committed rows and `CancelRunningJobs`. What an operation has found of a job that it writes
is still so, since its row is locked (`Based`): the pick found no task, the rerun an ended
job, the emitter a blocked one; only who finishes the job's task writes a job that runs one.
So `TasksKeptByJobs`. `OwedInv`: only reports, which tell the emitter, stopped, cancelled and
abandoned jobs, which are `unheard`, and the emitter end a job, and the emitter ends none
that needs nothing; so `BlockedAreOwed`. TLC checked the parts of `TaskInv` and `OwedInv` on
the instance of `actions` before they were proved.
All for any graph of needs, any number of jobs, tasks, goroutines, workers and results.

**PullsProofs.** `Typed` adds that nobody works on a commit it has not fetched. `Held`: the
goroutines between check-in and check-out have the lock, and what they have read as not
merged is not merged; so `MergedForGood`. `Landing`: as long as no user closes the pull
request, who closes it is a merge that then records it, and a merge that ends between its push and
the record of it by an error or a crash is `torn`; so `LandedForGood`. `Checked`: under a
protection, as long as nothing has raced with a merge that nobody forces (`Unraced`), a user's
commit is the head branch at the hook and passes it, and a pusher's head branch has passed all
along since the merge was asked for (`Hooked`); so `LandedWasChecked`. `Retested`: a test that
fetched the branches, or the base branch alone, before they changed is followed by another
(`Stale`, with `Tested` and `Current`); so `FreshForGood`. `Owed`: what a test is about to write
is a verdict, and it ends without writing one only if another is queued or a stale entry of
the set says so; so `CheckingOwed`, the safety half of `CheckingEnds`: a pull request that is
"checking" is queued, tested, or found by the next start, unless an error or a stale entry lost
its test.

**EventSourceProofs.** `WakeupKept` needs only `TypeOK`. `SourceInv = TypeOK /\ Owns /\
ChannelsOpen /\ Listed /\ Linked /\ Opened /\ Swept`: who waits with the manager's
mutex has its messenger in the map, and who sends to one stream after the other holds the
messenger's mutex (`Owns`), which is why the channels it has left are not closed under it; a
stream that listens on an open channel is in its messenger's list (`Listed`); who is in
the list, or about to be, has its messenger in the map, but for `orphans` (`Linked`); only a
stream that has registered and not unregistered has an open channel (`Opened`); and
`UnregisterAll` leaves nobody behind in what it has closed (`Swept`), which is why an
`Unregister` that drops a messenger drops an empty one. From it `ChannelsKeptOpen` and
`OnlyTheRaceOrphans`, for any number of users, streams and sessions. `Keepers` adds that a messenger's mutex that is kept is kept by a sign-out that sends to this
messenger, and `Named` that a messenger has the name of a stream of its user. With `SourceInv` it yields `OnlySignOutKeeps`, that no circle
of waits goes through the manager's mutex but one that a stuck sign-out closes: the safety half
of `FreedButForSignOut`.

**HookDeliveryProofs.** `Once`: of the workers at `send` each is alone with its task, which is
marked and not yet sent; so `NeverTwice`. `HeldInv = Fresh /\ Held` adds to `UndeliveredIsOwed`
that a process that has not started has nothing behind it; a push that a stale entry refuses
gives its task up in the same step. The step of the filling loop rests
on two lemmas about batches: no undelivered task between two batches is skipped
(`NothingSkipped`), and a batch is empty only if there is none (`FoundIfAny`, by the least
element of a set of numbers). So `NoneForgotten`. `DeliveredHasOutcome` is inductive with
`TypeOK` (`MarkedThenRecorded`). All for any number of tasks, processes, workers and any size
of batches.

**ArchiverProofs.** `ArchiverInv = TypeOK /\ InHand /\ ReliedHaveFile /\
LeftoverNeedsInterruption /\ PolledIsServed`. `BrokenNeedsCleaner` is not inductive: a row
is written before it is committed, so the file must be there for the worker that is about to
commit it too, unless a cron task removed it when the worker relied on it (`ReliedHaveFile`,
`overtaken`). A file without a row is accounted for by who works on it, so the clean-up has an
archive in hand only between the deletions of its row and of its file (`InHand`). The doctor's
check lists the storage of the avatars, and no archive has the path of an avatar, so it removes
no archive. From it `RowsHaveFiles` and `FilesHaveRows`, and
`WaitersServed`, the safety half of `AwaitEnds`: a request that waits is owed its archive by a
row, the queue or a worker, or was let down by an attempt that left no row or by a stale
entry. All for any number
of archives, workers and requests.

Every invariant and every action property of the passing runs is stated by a theorem above,
`ImplementsWorkQueue` and `ImplementsLifecycle` included. Only model-checked, because it is
liveness: `EventuallyFinished`, `FlushAnswered`, `ShutdownReturns`, `PoolShrinks`,
`ShutdownCompletes`, `Released`, `CheckingEnds`, `EventuallyDelivered`, `FreedButForSignOut`,
`ShutdownClears`, `AwaitEnds`; of `EventuallyFinished`, `FlushAnswered`, `CheckingEnds`,
`EventuallyDelivered` (`NoneForgotten`), `Released` (`BlockedAreOwed`), `FreedButForSignOut` and
`AwaitEnds` a theorem has the safety half, that what is awaited is owed by somebody. The three
violations, and those of the extra configurations, are counterexamples of TLC.

## 7. What is not modelled

- Queue: marshalling of items, the dummy and leveldb queues, the simple redis queue,
  `Close` of a base queue, `HasItem` (it only reads; so does `Len`, but `doFlush` waits in it
  for the mutex, and does in the model). `ShutdownWait` with a timeout is the program's
  `Cancel` but for the caller's wait; only `modules/indexer/issues/indexer.go:158` calls it.
  A pool over a unique queue is not composed: what its set refuses is in `RedisQueue`,
  `ChannelQueue` and their clients.
- Graceful: forking and the inherited listeners, `createServerWaitGroup` and the start-up
  timeout's own clock, systemd, the Windows service, write deadlines, an accept loop that
  fails by itself.
- Actions: the version that runners poll (`tasks_version.go`), steps, outputs, logs and
  artifacts, the numbering of runs (`InsertRun` in a transaction of its own), schedules,
  commit statuses of jobs but for the one that `Pulls` has. A job is inserted as the
  workflow says; the parser is not modelled.
- Pull requests: creating one, changing its base branch, updating its head branch, merge
  styles other than the merge commit, agit, reviews and the other rules of a protected
  branch. Of the doer's permissions only those that decide about the check of the commit
  status. Required contexts are one context; `MergeRequiredContextsCommitStatus` is not
  modelled. Of the two queues only `pr_patch_checker`'s set has stale entries; one of
  `pr_auto_merge`'s would keep a scheduled merge from being tried, which no property of a
  passing run excludes. Reads that fail and only end their operation are left out where the
  operation has changed nothing.
- Webhooks: which webhooks an event is for (`PrepareWebhooks` is for any set of the active
  ones), payloads, the HTTP request but for whether it was sent and answered well, default and
  system webhooks. `CreateHookTask` that fails ends the request, as one that was for fewer
  webhooks. A clean-up per webhook is one step.
- Event source: the content of events, pings, the stopwatches' and notifications' queries.
- Archiver: the deletion of a repository with its archives, processes that overlap, the other
  storages of the doctor, and the doctor's `--all`, which returns before it comes to the
  archives when LFS is disabled (`storage.go:115-118`).
- Leveldb, the process manager, migration tasks, and the rest of section 1.

Most of the repository's lines are of kinds for which a state machine says nothing that the
code does not: request handlers that validate a form and run one statement, templates and
markup, converters between API structures, settings, clients of search engines and package
registries, generated tables, database migrations. The models cover where
several actors change the same state, which is a small share of the lines; a larger share
would be transliteration of sequential code.

## 8. The plan

Done: the queue, its base queues, the graceful manager and server, the runs of Actions, the
pull request with its automerge, the delivery of webhooks, the event source and the archiver,
each with proofs.

What is left, by importance:

1. The safety halves of `ShutdownReturns`, `ShutdownCompletes` and `ShutdownClears`: who keeps a
   shutdown waiting can go on, or is one of the exceptions that the property names.
2. Migration tasks (`services/task`): a task's status against the repository it fills, a
   cancelled or crashed migration, and its retry.
3. Several pull requests with one head branch: `AddTestPullRequestTask` and
   `MergeScheduledPullRequest` loop over them and go on when one fails.
4. leveldb's `RemoveAll`, which swaps the queue under the popper; repository transfer, whose
   transaction surrounds moves of directories.
