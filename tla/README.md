# TLA+ models of AutoRestic

AutoRestic is a Go service with a web page around the restic backup program. It
keeps repositories, tasks, execution logs and cached metadata in SQLite, runs
restic as a child process, and streams the output to browsers. This directory
holds TLA+ modules of the parts where goroutines, restarts and restic itself meet,
the TLC configurations that check them on small instances, and TLAPS proofs of the
invariants of every module that has any, for every value of the constants.

    tlc -workers 2 -config RepoOperation.cfg MCRepoOperation
    tlapm RepoOperationProofs.tla

`PROJECT.json` lists the components, the runs, the mutants, the lines each definition
models, the findings, the hazards of the code and the theorems.

## 1. Inventory

Paths are relative to `src/backend/internal`.

### Repository reservation: `service/repo_service.go`

* State: `repoOps`, one `repoOperationState` per busy repository with the channel
  `done`; the mutex `repoOpMu`; the lock files inside the restic repository.
* Operations: `acquireRepoOperation` (waits, or refuses when busy),
  `releaseRepoOperation`, `runResticCommandWithReservation`, and for scheduled commands
  `prepareScheduledResticLocks`, which removes restic's lock files unless one of them
  belongs to a process of this service.
* Called by everything that runs restic: tasks, snapshot commands, metadata loads,
  check and prune, scheduler.
* Hard: the waiter blocks on a channel it read under the mutex and uses after the unlock;
  a release wakes all waiters; the error paths before the command; `unlock --remove-all`
  deletes locks some time after they were listed.
* Correct when: commands of one repository never overlap, no waiter is forgotten, no
  entry outlives its owner, a running command keeps its lock file.

### Metadata cache: `service/repo_cache_service.go`

* State: one `repository_sync_state` row per repository and domain (core, stats, keys,
  files, check) with a status and a generation; tables keyed by generation
  (`repository_restic_config`, `repository_snapshots`, ...); the map `active` of running
  loads; the map `fileWork` of requested directory listings.
* Operations: `queueDomainSync` starts a load or joins the active one; `runCoreSync`,
  `runStatsSync`, `runKeysSync`, `runFilesSync`; `MarkStale`; `StoreBackupSummary`;
  `ListSnapshotFiles`; `ResetRepository`; an hourly planner that resumes stale and failed
  core metadata.
* Hard: a load writes under a new generation while pages read the old one; stale marks are
  read-modify-write in two statements; a request joins a load that is ending; a
  crash leaves half a generation; the file worker loses what it holds when a statement fails.
* Correct when: a successful index shows what restic said and is complete, loads
  end, requested listings are made, stale metadata becomes a success again, and a failed
  refresh does not take away what was shown before.

### Executor: `executor/executor.go`, `service/log_service.go`

* State: `execution_logs` rows, `activeCancel`, one process per execution.
* Operations: `Run` (insert log, register cancel function, start, read both pipes, wait, send
  the completion message, finish log), `Cancel`.
* Hard: a cancel request that races every one of these steps, failures of each, and
  four places that derive a status or an exit code.
* Correct when: row, result and completion message agree; every running row is
  finished; output is not reordered or lost without notice.

### Websocket hub: `ws/hub.go`, `handler/ws_handler.go`

* State: the clients of each execution with a bounded channel and a `writePump` each,
  a bounded broadcast channel.
* Hard: a slow browser must not stop backups; removal of clients by three
  goroutines while the Hub sends to a snapshot of the table.
* Correct when: kept clients miss nothing, dropped ones are closed, the Hub never blocks.

### Log window: `src/frontend/src/components/LogDetailModal.vue`

* State: the shown log, a polling timer, a websocket and whether it is connected.
* Hard: every `await` lets other handlers run; the completion message, the polls and the
  log row are three sources of one fact.
* Correct when: a window that shows a running log shows its end.

### Tasks and snapshot commands: `service/task_service.go`, `service/snapshot_service.go`

* State: the set of active tasks; run times in SQLite.
* Operations: `RunTask`, `RunTaskAsync` (with a five second answer), hooks,
  `finishTaskRun` with `runForgetPolicy`; `Forget`, restore, find, diff.
* Hard: an asynchronous start that times out goes on; the aftermath of a backup
  (summary, forget policy, stale marks, queueing) interleaves with loads.
* Correct when: one run per task at a time, every run ends and leaves neither mark nor
  reservation, the new snapshot appears.

### Check, prune and asynchronous starts: `service/repo_service.go`, `service/snapshot_service.go`

* State: the row of domain `check`; the goroutine and the waiting client of an asynchronous call.
* Operations: `CheckRepo`, `CheckRepoAsync`, `RunScheduledCheck`, `RecordCheckResult`, the same
  for prune; `runRepoCommandAsync` and `runSnapshotCommandAsync`, which answer after the
  started message, an error or five seconds.
* Hard: the status written after the answer of an asynchronous start, a second check that is
  refused, a command that begins after its client was told of a time-out.
* Correct when: the row settles once nobody checks, an error told by the call itself is final,
  a call ends and its client is answered.

### Repository management: `service/repo_service.go`, `handler/repo_handler.go`

* State: the row of the repository; what `ResetRepository` deletes.
* Operations: `Create` (probe, unlock), `Update`, which reads the row, writes it back and, when
  the endpoint or the password changed, resets the cached rows and queues a new import; `Delete`.
* Hard: a reset of several statements under a load of the old endpoint, or one that stops
  halfway; two updates at once.
* Correct when: metadata of the old repository is never shown as the success of the new one.

### Scheduler: `scheduler/scheduler.go`

* State: a cron object rebuilt every minute, the guard of the repositories under maintenance.
* Operations: `Start`, `pollLoop`, `reloadTasks` with `swapCron`, `Stop`, the jobs.
* Hard: two cron objects for a moment and none in the field, a guard that skips, queries that fail
  in the middle of a reload.
* Correct when: no enabled schedule is missed by a reload, changes are picked up, one run at a time.

### The rest

HTTP handlers decode a request and call one service method. Configuration, migrations,
credential encryption, stores and tickets are sequential code or cryptography without
steps that interleave. They are not modelled, except for a restart of the process and the choice
between waiting and asynchronous calls.

### How they interact

Browser -> handler -> service -> reservation -> executor -> restic. The executor writes
the log row and feeds the hub; the hub feeds browsers; services mark the cache stale and
queue loads, which themselves run restic under the reservation. Shared state: SQLite
rows, the maps under `repoOpMu`, `RepoCacheService.mu`, `Executor.mu` and `Hub.mu`, and channels.

## 2. Modules

| module | models | state in the code |
|---|---|---|
| `RepoMutex` | abstract: a repository has at most one holder | - |
| `RepoOperation` | reservation and lock preflight | `repoOps`, `done`, the caller's locals, restic's lock files |
| `MCRepoOperation` | `RepoOperation` with enough objects for TLC | - |
| `RepoOperationProofs` | theorems about `RepoOperation` | - |
| `Operations` | the calls above the reservation: tasks, check, prune, snapshot commands | `activeTasks`, `activeMaintenance`, the check row, goroutines and clients |
| `OperationsProofs` | theorems about `Operations` | - |
| `Scheduler` | the cron and its reloads | `Scheduler.cron`, the poll loop, the schedules in SQLite |
| `SchedulerProofs` | theorems about `Scheduler` | - |
| `DomainSync` | stats and keys of one repository beside updates of it | state row, `repository_stats` or `repository_keys`, the load, requests |
| `MCDomainSync` | `DomainSync` with the symmetry of its requests for TLC | - |
| `DomainSyncProofs` | theorems about `DomainSync` | - |
| `MetadataCache` | abstract: what a page of metadata promises its readers, for any domain | - |
| `CoreSync` | the core domain of one repository | state row, config rows, snapshot rows, the active load, the job of a task |
| `CoreSyncProofs` | theorems about `CoreSync` | - |
| `FileIndex` | the files domain of one repository | state row, index rows, file rows, `fileWork`, worker, callers, markers |
| `FileIndexProofs` | theorems about `FileIndex` | - |
| `Execution` | one execution, the Hub and its connections | log row, `activeCancel`, restic, channels, `clients`, pumps |
| `ExecutionProofs` | theorems about `Execution` | - |
| `LogView` | the log window on top of `Execution` | the refs and timers of `LogDetailModal.vue` |
| `LogViewProofs` | theorems about `LogView` | - |

Every critical section, SQL statement or transaction, channel operation and restic command is
one step, but for the merges that section 5 lists; what the code does in one of them is in one action. Guards come
from conditions and early returns. An error path is an alternative that uses up one of `MaxFaults`.

**RepoOperation.** `pc` is the place of a goroutine in the call, `waitCh` the channel it
blocks on, `resv` its reservation. Reservation objects are elements of `States`; an object
nothing refers to may be allocated again, as with Go's collector. `Enter` picks repository and
kind: "sync" waits, "async" is refused when busy, "scheduled" waits and then clears
locks. `Acquire`, `Block`, `Busy`, `Wake`, `GiveUp` are `acquireRepoOperation`; `Prepare`,
`StartCommand`, `FinishCommand`, `Release` are `runResticCommandWithReservation`; `ListLocks`,
`Tick`, `Unlock` are `prepareScheduledResticLocks`. Other restic processes are `Probes` (of this
service, without reservation) and `Hosts` (other machines).

**Operations.** One process is one call: `pc` is its worker (the goroutine that runs restic) and
`client` the caller that waits for the started message, when the call is asynchronous. `call` says
what runs and how it waits for the repository: in the request ("wait"), in the cron ("cron"), not
at all ("async") or in a goroutine of its own ("queued"). `GuardPasses` and `GuardRefuses` are
`markTaskActive` and `startMaintenance`, `Acquire`, `Busy` and `GiveUp` the reservation, which is one step
here (`RepoOperation` has its detail; both implement `RepoMutex`), `NotStarted`, `CommandStarts` and
`CommandEnds` the executor, `After` and `FinishTaskRun` what a call does with the result, `Answered` what
`CheckRepoAsync` writes after its answer. `writer` is a history variable: which statement wrote
the check row last. A task runs pre hooks, backup, forget policy and post hooks, with its own mark
throughout and a second reservation for the policy.

**Scheduler.** `cron` and `prev` are the new and the replaced cron object; a job *may* fire whenever a
live one contains it (`Fires`). `Loop` is the one goroutine of `Start` and `pollLoop`, query by query. `Fire` of
`Operations` allows any scheduled job at any time, a superset of what `Fires` allows, twice at
once included.

**DomainSync.** `LoadStep` is `runStatsSync` or `runKeysSync`, statement by statement; the two differ in
`Refused` (the key of their tables, and what an empty output means). A user is a request that updates,
renames or marks the repository: `Begin` reads the row, `StoreUpdate` writes it back, `ResetState` and
`ResetRows` are the first statement of `ResetRepository` and the one of the domain, `ReadStale` and `WriteStale` are
`markSyncStateStale`. Records are told apart by the credentials restic was asked with. The histories
`overlap`, `left` and `reverted` name the three cases in which the code promises less: a reset that met a
load, rows left behind by a stop or a failure or a row set back by a stale mark, and an update that
wrote old credentials back.

**CoreSync.** `LoadStep` is `runCoreSync` statement by statement. `job` is a goroutine of a
backup or forget and its aftermath. `published` and `summaries` are history variables that say
what the last successful load was told and which rows a backup added.
Every error return is there. A command or a store that fails leads to `MarkFailed`, whose write is ignored and may fail itself; a state
write ends the load at once when its error is looked at (`NextGeneration`, `MarkRunning`, `ProgressBefore`, `Publish`), and is passed over
where it is not (`CatConfig`, `ListSnapshots`, `ProgressAfter`). `LoseSummary` and `LoseMark` are the ignored errors of
`StoreBackupSummary` and `markSyncStateStale`.
`Restart` keeps only the database and restic's repository. Stale marks are the two
steps `ReadStale` and `WriteStale`, as in `markSyncStateStale`.

**MetadataCache.** Five variables: what restic would tell now, what it has told and no page shows yet, what backups have announced
of themselves, whether the page says success, and what it then shows. A page becomes a success only by showing one answer, with
announcements; while it says success nothing it shows goes. `CoreSync` and `DomainSync` implement it (`ImplementsCache`). The mapping
says where the code makes the promise: in `DomainSync` a page is `Promised` when it says success, an answer of restic has been published,
no reset met the load (`overlap`) and nothing was left behind (`left`); an answer is `Heard` while a load holds it under the same
conditions. Backups announce themselves in the core domain only.

**FileIndex.** The worker (`runFilesSync`) takes requests in any order, since Go's map gives
any. Readers are callers of `ListSnapshotFiles` and of `QueueFilesSync`; markers are a core load that ends and a
backup that ends. A snapshot's paths are "known" (a core load stored them), "unknown" (only
`StoreBackupSummary` has written the row) or "absent". A core load is one
`Finalize` and one `Publish` here; `CoreSync` has its detail.

**Execution.** `Run` is `Executor.Run`; two readers share the counter `lines`, since
only the order of sends to the Hub matters. `Cancel` is `LogService.Cancel`. `HubStep` is
`Hub.Run`, with `Deliver` one step per client, so that the removal of a client can fall between two.
`panicked` ends everything, as a panic in the Hub's goroutine ends the process.

**LogView.** One window per connection. The completion handler is `OnMessage` (request)
and `CompleteAnswered` (what follows its `await`), a poll is `Poll` and `PollAnswered`.

## 3. Runs

| run | instance | question |
|---|---|---|
| `repo_operation` | 3 goroutines, 1 repository, 1 probe, 1 host | exclusion, owned entries, locks of running commands, refinement of `RepoMutex`, every waiter wakes |
| `operations` | 2 calls of any kind, 1 task | one run at a time, owned marks, the check row settles, refusals are final, refinement of `RepoMutex` with the second reservation of the forget policy, runs end |
| `scheduler` | 2 tasks, check and prune, 2 edits, 2 failing queries | no schedule is missed by a reload, edits are picked up |
| `domain_sync` | 2 credentials, 2 requests at once and 3 in all, 2 faults or restarts, both domains, symmetry | what success and failure show, and with which credentials; nothing stays running; refinement of `MetadataCache` |
| `core_sync` | 2 snapshots, 1 job, 1 fault or restart, 1 user sync | what success means; refinement of `MetadataCache`; loads end; stale and failed metadata recovers |
| `core_sync_repairs` | 1 snapshot | violation: stale or failed metadata is never repaired |
| `core_sync_backup_appears` | 2 snapshots, 1 job, no fault | violation: a finished backup is missing from a successful index |
| `file_index` | 1 snapshot with root and one directory, 1 caller, 1 fault, 1 core load or backup | rows in progress have a worker; generations match; every request is taken |
| `file_index_unknown_root` | the same, no fault | violation: an unknown root becomes a fresh empty listing |
| `execution` | 1 connection, queues of length 1, 3 lines, 1 fault | no gap, output in order, ends agree, the log ends, completion arrives or the connection closes |
| `execution_panic` | the same | violation: send on a closed channel |
| `log_view_stuck` | 1 window, no output | violation: the window shows "running" for ever |

Bounds and why they are enough.

* Three goroutines give a holder, a waiter and a competitor, the smallest case of a waiter
  that loses the race after a release. Goroutines refer to one object each, so as many
  objects as goroutines suffice (assumed and checked in `MCRepoOperation`). One repository and one host are enough,
  since entries of different repositories share nothing; the invariants are proved for any number.
* Two calls of every kind meet at every pair of their steps, and a mark, a reservation and the check row are
  each contended by two. What three calls could add is covered by the proofs.
* Two edits and two failing queries reach a reload that lost the maintenance and a later one that brings it back.
* In `domain_sync` two requests can both reset, or one can reset between the read and the write of the other; two
  faults leave rows behind and then collide with them. `MaxGen` = 2 refuses a refresh once a second generation is published,
  so that a load always has an older generation to replace.
* One load, one job and one fault reach every pair of a load's statement and a mark's
  statement. Two failures in one history are left to the proofs, which hold for any number. Generations are not
  bounded: they grow only with loads that succeed, and those stop when jobs, syncs and faults run out.
* In `file_index`, `MaxGen` = 1 keeps callers from opening directories after the second generation; the
  worker that is restarted for late requests still produces a later one, so rows of two generations meet.
* Three lines fill a client's queue, the Hub's hand and the broadcast channel and leave one
  more: the fewest with which a blocked Hub would block the executor. Clients share only the table
  and the Hub's list of clients still to serve.

Each property of a passing run has a mutant: an operator of the same module, in the section
of slips, with a plausible error of the code. With the operator in place of the definition TLC
finds the property violated.

### Fairness

Goroutines that can go on do so, and restic commands, SQL statements and HTTP requests
end: weak fairness of the steps of goroutines, of the load, of the worker, of `Run` and `HubStep`.
The planner has a ticker, so `Plan` is weakly fair; so is `Loop` of the scheduler. In `Operations` the steps of workers and
of clients (their timer runs out) are weakly fair, except `GiveUp`: contexts need not end. In `FileIndex` the
worker, its relaunch and the markers share one condition, weaker than one each. Nothing is assumed of users, of
contexts that end, of backups, of core loads in `FileIndex`, of other machines, of faults or of
browsers. A `writePump` has a write deadline; `PumpsRun` says so and is a premise of `CompleteOrClosed` only,
so that `LogEnds` holds with pumps that never move. `WaitersWake` has the premise that outsiders stop
leaving locks, `RequestsAreTaken` that requests stop coming, `RunsEnd` that no new calls come: without them the preflight loop,
and Go's choice of map elements, may starve somebody for ever. `LogEnds` ends at the first fault, since
`finishLog` ignores its error.

### Findings

1. `PlannerRepairs`: once a config row stands at the next generation, all later loads fail on it
   (`repo_cache_service.go:1286`). A load that fails after `storeResticConfig` leaves such a row; without any failure, so does a stale mark
   that writes back the generation from before a load published.
2. `BackupAppears`: a stale mark set while a load is past its listing is overwritten with the load's progress or its
   success, and the sync it queued joined that load (`repo_cache_service.go:552`). A mark that is not written at all has the same effect.
3. `UnknownRootIsStale`: the mark "snapshot paths are not indexed yet" is overwritten with
   success by both callers (`repo_cache_service.go:1739`).
4. `HubSurvivesRemoval`: `broadcastMessage` sends on a channel that `removeClient` has closed (`hub.go:109`).
5. `ViewCatchesUp`: a window whose socket is registered after the completion message neither polls nor
   hears anything (`LogDetailModal.vue:363`).

Behaviours that a property excepts by name, since no document of the repository promises otherwise:

* `CheckSettles`: `CheckRepoAsync` writes running after the result was recorded (`repo_service.go:1103`); the property
  shows that this statement alone can leave the row running.
* `RefusalIsFinal` speaks of errors of the call: after a *time-out* the command may still run (`repo_service.go:1244`).
* `MetadataRecovers` excepts what `LeftBehind` names: a row left running by a restart or by a state write that failed, which
  the planner preserves on purpose, and a config row at the next generation, which is finding 1.
* `SuccessIsCurrent` and `SuccessShowsListing` of `DomainSync`: a reset that met a load, or stopped halfway, and an
  update that wrote old credentials back (`repo_service.go:593`, `516`, `594`).
* `FailureKeepsRows` holds of loads; a stale mark may write back an older generation than the one just
  published (`repo_cache_service.go:1224`), which `left` notes.
* `SchedulePicksUp` excepts a failed `Start`, which is never retried, and `AlwaysScheduled` the maintenance
  schedules as long as the cron in force is the one filled after a failed `listRepos` (`scheduler.go:61`, `202`).

## 4. Proofs

**RepoOperationProofs**, for all sets of goroutines, repositories, objects, probes and hosts: `TypeCorrect`, `Mutual`, `NoWaiterIsLost`, `EntriesHaveOwners`, `RunningCommandsKeepTheirLocks` and
`Implementation` (every behaviour is a behaviour of `RepoMutex` under the mapping `Holder`).

Assumptions: `NoState` is no object, `NoOp` no goroutine, and the owners of lock files are different
things (`NoStateAssumption`, `NoOpAssumption`, `OwnersAssumption`).

`MutualExclusion` is not inductive: from a state in which two goroutines hold different objects for
one repository, or in which the entry belongs to nobody, a step breaks it. `IInv` adds

* `ResvActive`: the object of a goroutine between acquisition and release is the
  active entry of its repository;
* `ResvUnique`: two goroutines never hold the same object;
* `EntryHasOwner`: every entry has such a goroutine;
* `WaitActive`: an open channel somebody waits for is the one of the active entry;
* `LocksOwned`: a lock file of a goroutine lies where its running command is.

`ResvActive` and `ResvUnique` give exclusion, `WaitActive` and `EntryHasOwner` give
`NoLostWakeup`, and exclusion with `LocksOwned` gives the lock property: whoever unlocks holds
the repository, so nobody else runs there. `TypeStep`, `ReservationStep` and `LocksStep` prove the step of `IInv`,
one case per action; the refinement uses `HolderChar`, which says that `Holder` picks the only occupant.

**OperationsProofs**, for all sets of calls and tasks: `TypeCorrect`, `OneRun`, `MarksAreOwned`, `ChecksSettle`,
`RefusalsAreFinal` and `CallsShareTheMutex` (every behaviour is a behaviour of `RepoMutex`). Assumptions:
`NoProc` is no call and `NoCall` no description of one, and a task is not called "check", "prune" or "other"
(`NoProcAssumption`, `NoCallAssumption`, `TasksAssumption`). `OneRunAtATime` says nothing of the sets of marks, so it is
not inductive. `IInv` adds

* `Places`: a point tells which kind of call is there, and a busy worker has a call;
* `MarksSet`: a run between its guard and its clear has its mark;
* `MarkOwners`: a mark has such a run, and the mark of maintenance one that is not a task;
* `HolderReserved`: the holder is the call at a reserved point, so at most one call is at such a point;
* `RunningHasCheck`: a row that says running has a check past its first statement, or a client that will write.

`MarksSet` lets a guard that passes conclude that no other run has the mark; `OneRunAtATime` and `MarkOwners` then keep
each other through `Clear`. `TypeStep`, `FactsStep`, `MarksStep`, `HolderStep` and `CheckStep` prove the step, action by action, with
one frame lemma for the calls that do not move.

**SchedulerProofs**, for all sets of jobs and any bounds: `TypeCorrect` and `SchedulesStay` (`AlwaysScheduled`). `IInv` adds `Listed` (what the
loop has read covers every untouched schedule, those of the maintenance unless the query of the repositories has just failed) and `Filled` (so
does the cron that runs, the field's, or between the swap and the start the previous one, with the failure it was filled after: `dropped` goes
with the cron, `unread` with what was read).

**DomainSyncProofs**, for all sets of requests and credentials and any bounds: `TypeCorrect`, `SuccessIsListing`, `CredentialsAreCurrent`,
`FailuresKeep` and `RunningHasLoad`. Assumptions: the first credentials are credentials, the bounds are numbers (`CredsAssumption`,
`BoundsAssumption`). That a success shows what its load was told does not follow from itself: `Publish` needs that
what the load stored is all there is of its generation (`Stored`), which needs that its generation was new (`Generation`, `OneGeneration`), which a
reset in between would spoil (`Resetting`). `Kept` (what is shown stays until a load publishes) with `Unsettled` (a load's row says neither success nor
failed) gives `FailureKeepsRows`; `Current` (what was asked with other credentials awaits a reset) gives `SuccessIsCurrent`; `Ended` gives
`RunningIsLoading`. Each has a lemma with one step per action.

`DomainPagesKeepPromise` is the refinement `ImplementsCache`. `Command` is `Answer` when restic was run, `Publish` is `Publish` when its
statement succeeds, `StoreUpdate` is `Change`, and every other step is `GiveUp`, which may drop an answer or the promise but never alter a page
that keeps it. The step of `Publish` needs that the row was no success before (`Unsettled`) and that the rows of the new generation are
what the load was told (`Stored`); a reset of the rows needs `Resetting`, which says that the state row went first.

**CoreSyncProofs**, for all sets of snapshots and jobs and any bounds: `TypeCorrect`, `SuccessIsListing` (`SuccessShowsListing`) and
`SuccessIsComplete` (`SuccessHasConfig`). Assumption: the bounds are numbers (`BoundsAssumption`). One would expect the argument to
say that generations grow. They need not: a stale mark writes back the generation it has read, and a load may use one again. It goes
through the config rows instead. `Explained`: a snapshot row is one that a backup added by itself, or its generation has a
config row. A load inserts the config row of its generation first and fails if there is one, so once it is past that, the only rows of its
generation are those of backups (`Fresh`), what it replaces them with is what it was told (`Stored`), and its config row stays
(`HasConfig`). `Unsettled` says that the row is no success while the load works, so whoever reads a success reads a published one.
`CorePagesKeepPromise` is the refinement of `MetadataCache`; here the row of a backup is an announcement and its arrival in the published
generation one of the steps of `Announce`.

Two more theorems are about the findings, and say for every instance what a counterexample shows for one. `MarkedBackupsAppear`: under two
conditions on steps `BackupAppears` holds. `MarksHold` says that a load which has its listing writes neither its progress nor its success over
a stale mark; `MarksArrive` that a job leaves its marking only with the mark written, so that no restart and no failed statement comes in
between. `CollisionIsForever`: once a config row stands at the
generation the next load will use, the row is no success, no load is past its config statement and no pending mark will write back another
generation, no step of anybody makes the index a success again (`Colliding` is stable);
only a reset of the repository's rows, which `CoreSync` does not have, would end it.

**FileIndexProofs**, for all sets of snapshots, directories and callers and any bounds: `TypeCorrect`, `RunningIsWorked`
(`RunningHasWorker`) and `DirectoriesMatch` (`DirGenerationMatches`). Assumptions: `NoKey` is no request, and the bounds are numbers
(`NoKeyAssumption`, `FileBoundsAssumption`). The two invariants are about rows; what keeps them is where the worker is. `WorkKeys`:
from taking a request until it is done the worker has its key. `ReaderRoots`: callers write roots only, so a directory
is the worker's alone. `InHand`: the row of a directory in its hands is not a success, so storing its file rows disturbs nothing.
`StoredFiles`: when the row becomes a success, the file rows are those of the worker's generation.

**ExecutionProofs**, for all sets of connections and any capacities and bounds: `TypeCorrect`, `KeptClientsMissNothing` (`NoGap`),
`OutputIsInOrder` (`InOrder`), `EndsAreOne` (`EndsAgree`), `LogIsFinal` and `OnlyRemovalsPanic`. Assumption: `ExecutionBoundsAssumption` (channels have room for one message). `Flow` is about
`Run` alone: once it has sent the completion, status and exit code agree and stay. `Said` is the set of what may be on its way, the lines and
after `SendComplete` one completion; `Contents` says that every queue, the Hub's hand and every connection hold nothing else, and `SaidGrows` that
what was said stays said, which gives `EndsAgree`. `Table` ties the table of clients to pumps and connections: a client is
registered once and with nothing sent to it. `Counted` is `NoGap` in sums: what a client got and what the Hub holds for it.
`InOrder` compares messages that are far apart in a browser's stream, so it needs to know the order of everything before it. `Ordered` gives
every message the number of its sending: the channel holds the messages after the last one taken, the Hub's hand the last one taken, and
every stream rising numbers below what the Hub still holds for that client (`Streamed`), with no number missing while the client is kept. That
the completion comes last rests on `wg.Wait`: no line is sent once `Run` is past its readers. `LogIsFinal`: no step writes over an end that
has been recorded. `OnlyRemovalsPanic` is about the finding `HubSurvivesRemoval`: if no client leaves the table while the Hub hands out a
message (`RemovalsWait`), the Hub never sends on a closed channel.

**LogViewProofs**, for all sets of windows: `ViewImplementsExecution` (with windows the execution still behaves as `Execution`, so the
theorems above hold beside them), `WindowsTellTheTruth` (a window that shows an end shows the recorded one, since ends are final and answers may
only be old) and `OnlyLateAnswersStopTimer`: a window that shows a running log has its timer set unless its completion message was answered
from a log that had not ended, or a poll was answered after the end had been shown. These are two more ways in which `ViewCatchesUp` can fail; the
third, a timer that is set and skips because the socket is connected and silent, is the counterexample of `log_view_stuck`.

The theorems with a step condition as a hypothesis (`MarkedBackupsAppear`, `OnlyRemovalsPanic`, `OnlyLateAnswersStopTimer`) do not say that the
code meets the condition: the runs that expect a violation show that it does not. They say what would suffice, in the models with the error
paths these have, and so where a repair of the code has to go.

Only model-checked: liveness (fairness and ENABLED are out of the prover's reach, as are induction over data and RECURSIVE
operators, of which there are none here) and the properties that the code violates.

## 5. Not modelled, and the plan

| next | content | properties |
|---|---|---|
| files domain | the planner's part and `ResetRepository` beside the worker | rows of an old repository are not shown |
| pages | the state row, the count and the rows read in three statements | a page is from one generation |
| pure functions | `boundedOutputBuffer`, `aggregateSyncState`, `normalizeSnapshotPath`, `rootEntriesFromSnapshotPaths`, snapshot filter, planner round | against reference definitions |

Simplifications a reader should know of:

* Pages are read in one step, so a page across two generations is not seen.
* `Create`, `Probe` and `Delete` of a repository and the create, update and delete of a task are single
  statements, guarded by constraints of the database; they are not modelled.
* The times of cron expressions are left out: a scheduled job may fire at any time. `Stop` is only deferred in `main`, whose
  server ends with the process, so `Stop` is modelled as its code says and not as production uses it.
* A crash between two steps of a check leaves its row running; `Operations` has no crash.
* `CatConfig` of `CoreSync` merges the command with the progress written after it, an ignored write: no other step changes what
  `cat config` reads. `ListSnapshots` does so when the command fails; when it succeeds, `ProgressAfter` is a step of its own.
* `FileIndex` opens directories of snapshots the index has; the code takes any ID and treats one it does not know like one whose paths are
  unknown. `QueueFilesSync` merges its queries and the requests it enqueues. The exit code 0 of a `restic ls` whose log row
  could not be inserted is left out.
* `Operations` merges what `onDone` writes with the error sent to the client (`After`), and leaves out failures of the writes of the
  check row, which the code ignores: such a write leaves the row as the one before it did.
* The error path of `Hub` for a connection that is registered already is left out: the handler registers each connection once. A
  log window has one poll outstanding, and failed requests, refused tickets and errors of its socket are left out.
* The cron that `StartNext` starts is live at once; its library computes the first times in a goroutine of its own.
* `DomainSync` is about one domain at a time: stats and keys share no row. The other statements of `ResetRepository` touch other tables.

Left out for good: HTTP decoding, SQL text, ticket signatures, encryption, migrations, wording and layout. Access probes run restic
without a reservation and are only seen by their lock files. Executions other than the one
watched do not meet it in the Hub. The log window's cancel button is `Cancel` without its refresh, which is one more poll.
