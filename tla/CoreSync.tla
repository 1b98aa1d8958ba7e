------------------------------ MODULE CoreSync ------------------------------
(***************************************************************************)
(* The "core" metadata domain of one repository: the snapshot index that   *)
(* RepoCacheService keeps in SQLite beside the restic repository.          *)
(*                                                                         *)
(* Actors: the single-flight load (queueDomainSync, runCoreSync), the      *)
(* goroutines that finish a backup or a forget and mark the index stale    *)
(* (finishTaskRun, runForgetPolicy, ForgetAsync), the hourly planner, the  *)
(* user's sync button, and restarts of the process.  Every SQL statement   *)
(* or transaction is one step.  A restic command is one step as well: it   *)
(* runs under the reservation of module RepoOperation, alone.              *)
(***************************************************************************)
EXTENDS Naturals

CONSTANTS
    Snaps,      \* snapshot IDs restic will assign
    Jobs,       \* goroutines that run a backup or a forget and its aftermath
    NoSnap,     \* no snapshot
    MaxFaults,  \* bound: failures of commands and statements, and restarts
    MaxAsks     \* bound: syncs the user asks for

ASSUME BoundsAssumption == MaxFaults \in Nat /\ MaxAsks \in Nat

VARIABLES
    remote,     \* snapshots in the restic repository
    created,    \* snapshots ever created there
    row,        \* the repository_sync_state row of domain core
    config,     \* generations with a repository_restic_config row (its key)
    rows,       \* <<snapshot, generation>> rows of repository_snapshots
    load,       \* where the active load is, "none" without one
    g,          \* generation the load works for
    listing,    \* payload of the load's "snapshots" command
    job,        \* where each job is
    snap,       \* snapshot a backup job has just created
    seen,       \* generation a job read from the state row
    again,      \* the job runs a forget policy and will mark twice
    faults,     \* faults so far
    asks,       \* syncs the user asked for so far
    published,  \* history: the listing the last successful load stored
    summaries   \* history: rows stored by StoreBackupSummary, while they exist

db    == <<row, config, rows>>
jobs  == <<job, snap, seen, again>>
hist  == <<published, summaries>>
vars  == <<remote, created, row, config, rows, load, g, listing, job, snap, seen,
           again, faults, asks, published, summaries>>

Statuses   == {"none", "stale", "running", "success", "failed"}
LoadPoints == {"none", "start", "mark", "config", "store", "progress", "list", "listed",
               "replace", "finalize", "publish", "failed", "exit"}
JobPoints  == {"idle", "summary", "upsert", "policy", "readStale", "writeStale", "queue"}

(* setSyncState: generation 0 keeps the generation of the row. *)
SetState(st, gen) == row' = [st |-> st, gen |-> IF gen = 0 THEN row.gen ELSE gen]

(* What the snapshot page shows: the rows of the generation of the row. *)
Served == {s \in Snaps : <<s, row.gen>> \in rows}

Fault == faults < MaxFaults /\ faults' = faults + 1

-----------------------------------------------------------------------------
(* Slips of the code the properties must notice; no action uses them.      *)

(* The restic config is upserted: a generation may be used twice. *)
StoreConfigUpsert ==
    /\ load = "store"
    /\ config' = config \cup {g}
    /\ load' = "progress"
    /\ UNCHANGED <<remote, created, row, rows, g, listing, jobs, faults, asks, hist>>

(* The comparison of the cleanup is turned around for the config rows. *)
FinalizeDropsConfig ==
    /\ load = "finalize"
    /\ rows' = {x \in rows : x[2] = g}
    /\ config' = config \ {g}
    /\ summaries' = {x \in summaries : x[2] = g}
    /\ load' = "publish"
    /\ UNCHANGED <<remote, created, row, g, listing, jobs, faults, asks, published>>

(* The mark of a finished backup forgets to name the status. *)
WriteStaleWithoutStatus(j) ==
    /\ job[j] = "writeStale"
    /\ row' = [st |-> "", gen |-> seen[j]]
    /\ seen' = [seen EXCEPT ![j] = 0]
    /\ job' = [job EXCEPT ![j] = "queue"]
    /\ UNCHANGED <<remote, created, config, rows, load, g, listing, snap, again, faults,
                   asks, hist>>

(* An early return of the load skips finishLoad. *)
FinishLoadSkipped ==
    /\ load = "exit"
    /\ row.st # "failed"
    /\ load' = "none"
    /\ g' = 0 /\ listing' = {}
    /\ UNCHANGED <<remote, created, db, jobs, faults, asks, hist>>

(* The planner resumes stale metadata only. *)
PlanStaleOnly ==
    /\ load = "none" /\ row.st = "stale"
    /\ load' = "start"
    /\ UNCHANGED <<remote, created, db, g, listing, jobs, faults, asks, hist>>

(* A load that fails says of the older index that it is a success still. *)
MarkFailedQuietly ==
    /\ load = "failed"
    /\ SetState("success", 0)
    /\ load' = "exit"
    /\ UNCHANGED <<remote, created, config, rows, g, listing, jobs, faults, asks, hist>>

-----------------------------------------------------------------------------
Init ==
    /\ remote = {} /\ created = {}
    /\ row = [st |-> "none", gen |-> 0]
    /\ config = {} /\ rows = {}
    /\ load = "none" /\ g = 0 /\ listing = {}
    /\ job = [j \in Jobs |-> "idle"]
    /\ snap = [j \in Jobs |-> NoSnap]
    /\ seen = [j \in Jobs |-> 0]
    /\ again = [j \in Jobs |-> FALSE]
    /\ faults = 0 /\ asks = 0
    /\ published = {} /\ summaries = {}

(* queueDomainSync: the caller starts the load or joins the active one. *)
Queue == load' = IF load = "none" THEN "start" ELSE load

(* The first import of the repository, and the sync button. *)
UserSync ==
    /\ asks < MaxAsks
    /\ asks' = asks + 1
    /\ Queue
    /\ UNCHANGED <<remote, created, db, g, listing, jobs, faults, hist>>

(* RefreshAll: resume stale and failed metadata that no load works on. *)
Plan ==
    /\ load = "none" /\ row.st \in {"stale", "failed"}
    /\ Queue
    /\ UNCHANGED <<remote, created, db, g, listing, jobs, faults, asks, hist>>

-----------------------------------------------------------------------------
(* runCoreSync.  A command or a store that fails leads to the failed state;  *)
(* a state write that fails ends the load at once, or is ignored where the   *)
(* code ignores it.                                                          *)
Fails == load' = "failed" /\ UNCHANGED row

WritesRunning(next) == SetState("running", 0) /\ load' = next /\ UNCHANGED faults

NextGeneration ==
    /\ load = "start"
    /\ \/ g' = row.gen + 1 /\ load' = "mark" /\ UNCHANGED faults
       \/ Fault /\ load' = "exit" /\ UNCHANGED g
    /\ UNCHANGED <<remote, created, db, listing, jobs, asks, hist>>

MarkRunning ==
    /\ load = "mark"
    /\ \/ WritesRunning("config")
       \/ Fault /\ load' = "exit" /\ UNCHANGED row
    /\ UNCHANGED <<remote, created, config, rows, g, listing, jobs, asks, hist>>

(* cat config, with the progress written after it, an ignored write: the    *)
(* command reads nothing that another step changes.  When it fails, it may   *)
(* have no log to write progress for.                                       *)
CatConfig ==
    /\ load = "config"
    /\ \/ WritesRunning("store")
       \/ Fault /\ load' = "store" /\ UNCHANGED row
       \/ Fault /\ load' = "failed" /\ (SetState("running", 0) \/ UNCHANGED row)
    /\ UNCHANGED <<remote, created, config, rows, g, listing, jobs, asks, hist>>

(* storeResticConfig is a plain INSERT: the key (repository, generation)    *)
(* must be new.                                                             *)
StoreConfig ==
    /\ load = "store"
    /\ \/ /\ g \notin config
          /\ config' = config \cup {g}
          /\ load' = "progress"
          /\ UNCHANGED <<row, faults>>
       \/ g \in config /\ Fails /\ UNCHANGED <<config, faults>>
       \/ Fault /\ Fails /\ UNCHANGED config
    /\ UNCHANGED <<remote, created, rows, g, listing, jobs, asks, hist>>

(* The progress before the listing: the load ends when it is not written,   *)
(* and the row stays as it is.                                              *)
ProgressBefore ==
    /\ load = "progress"
    /\ \/ WritesRunning("list")
       \/ Fault /\ load' = "exit" /\ UNCHANGED row
    /\ UNCHANGED <<remote, created, config, rows, g, listing, jobs, asks, hist>>

(* snapshots --json; when it fails, its progress may have been written. *)
ListSnapshots ==
    /\ load = "list"
    /\ \/ /\ listing' = remote
          /\ load' = "listed"
          /\ UNCHANGED <<row, faults>>
       \/ /\ Fault
          /\ load' = "failed"
          /\ SetState("running", 0) \/ UNCHANGED row
          /\ UNCHANGED listing
    /\ UNCHANGED <<remote, created, config, rows, g, jobs, asks, hist>>

(* The progress after the listing, an ignored write. *)
ProgressAfter ==
    /\ load = "listed"
    /\ \/ WritesRunning("replace")
       \/ Fault /\ load' = "replace" /\ UNCHANGED row
    /\ UNCHANGED <<remote, created, config, rows, g, listing, jobs, asks, hist>>

(* replaceSnapshots: one transaction of upserts for the generation g. *)
ReplaceSnapshots ==
    /\ load = "replace"
    /\ \/ /\ rows' = rows \cup (listing \X {g})
          /\ load' = "finalize"
          /\ UNCHANGED <<row, faults>>
       \/ Fault /\ Fails /\ UNCHANGED rows
    /\ UNCHANGED <<remote, created, config, g, listing, jobs, asks, hist>>

(* finalizeCoreGeneration: one transaction that drops other generations. *)
FinalizeCoreGeneration ==
    /\ load = "finalize"
    /\ \/ /\ rows' = {x \in rows : x[2] = g}
          /\ config' = config \cap {g}
          /\ summaries' = {x \in summaries : x[2] = g}
          /\ load' = "publish"
          /\ UNCHANGED <<row, faults>>
       \/ Fault /\ Fails /\ UNCHANGED <<rows, config, summaries>>
    /\ UNCHANGED <<remote, created, g, listing, jobs, asks, published>>

(* The success state with the new generation; if the statement fails the    *)
(* load ends and the row stays as it is.                                    *)
Publish ==
    /\ load = "publish"
    /\ \/ /\ SetState("success", g)
          /\ published' = listing
          /\ UNCHANGED faults
       \/ Fault /\ UNCHANGED <<row, published>>
    /\ load' = "exit"
    /\ UNCHANGED <<remote, created, config, rows, g, listing, jobs, asks, summaries>>

(* The failed state of whatever has failed, an ignored write. *)
MarkFailed ==
    /\ load = "failed"
    /\ \/ SetState("failed", 0) /\ UNCHANGED faults
       \/ Fault /\ UNCHANGED row
    /\ load' = "exit"
    /\ UNCHANGED <<remote, created, config, rows, g, listing, jobs, asks, hist>>

(* markFilesDomainStale and the root prewarm, then finishLoad: until then   *)
(* callers still join this load.                                            *)
FinishLoad ==
    /\ load = "exit"
    /\ load' = "none"
    /\ g' = 0 /\ listing' = {}
    /\ UNCHANGED <<remote, created, db, jobs, faults, asks, hist>>

LoadStep ==
    \/ NextGeneration \/ MarkRunning \/ CatConfig \/ StoreConfig
    \/ ProgressBefore \/ ListSnapshots \/ ProgressAfter
    \/ ReplaceSnapshots \/ FinalizeCoreGeneration \/ Publish \/ MarkFailed \/ FinishLoad

-----------------------------------------------------------------------------
JobGoto(j, point) == job' = [job EXCEPT ![j] = point]

(* restic backup ends with a new snapshot. *)
Backup(j) ==
    /\ job[j] = "idle"
    /\ \E s \in Snaps \ created :
        /\ remote' = remote \cup {s}
        /\ created' = created \cup {s}
        /\ snap' = [snap EXCEPT ![j] = s]
    /\ \E policy \in BOOLEAN : again' = [again EXCEPT ![j] = policy]
    /\ JobGoto(j, "summary")
    /\ UNCHANGED <<db, load, g, listing, seen, faults, asks, hist>>

(* restic forget of one snapshot, asked for by the user *)
Forget(j) ==
    /\ job[j] = "idle"
    /\ \E s \in remote : remote' = remote \ {s}
    /\ JobGoto(j, "readStale")
    /\ UNCHANGED <<created, db, load, g, listing, snap, seen, again, faults, asks, hist>>

(* StoreBackupSummary reads the generation of the state row ... *)
ReadGeneration(j) ==
    /\ job[j] = "summary"
    /\ seen' = [seen EXCEPT ![j] = row.gen]
    /\ JobGoto(j, "upsert")
    /\ UNCHANGED <<remote, created, db, load, g, listing, snap, again, faults, asks, hist>>

(* ... and then inserts the row of the new snapshot at that generation. *)
StoreBackupSummary(j) ==
    /\ job[j] = "upsert"
    /\ rows' = rows \cup {<<snap[j], seen[j]>>}
    /\ summaries' = summaries \cup {<<snap[j], seen[j]>>}
    /\ snap' = [snap EXCEPT ![j] = NoSnap]
    /\ seen' = [seen EXCEPT ![j] = 0]
    /\ JobGoto(j, "policy")
    /\ UNCHANGED <<remote, created, row, config, load, g, listing, again, faults, asks,
                   published>>

(* A summary that cannot be parsed, a read or an insert that fails: the job  *)
(* goes on without a row.                                                    *)
LoseSummary(j) ==
    /\ job[j] \in {"summary", "upsert"}
    /\ Fault
    /\ snap' = [snap EXCEPT ![j] = NoSnap]
    /\ seen' = [seen EXCEPT ![j] = 0]
    /\ JobGoto(j, "policy")
    /\ UNCHANGED <<remote, created, db, load, g, listing, again, asks, hist>>

(* runForgetPolicy: the forget command removes some snapshots and marks and *)
(* queues on its own; without a policy, or when forget fails, only the      *)
(* marking of the backup follows.                                           *)
ForgetPolicy(j) ==
    /\ job[j] = "policy"
    /\ \/ /\ again[j]
          /\ \E gone \in SUBSET remote : remote' = remote \ gone
          /\ UNCHANGED again
       \/ /\ again' = [again EXCEPT ![j] = FALSE]
          /\ UNCHANGED remote
    /\ JobGoto(j, "readStale")
    /\ UNCHANGED <<created, db, load, g, listing, snap, seen, faults, asks, hist>>

(* markSyncStateStale reads the row ... *)
ReadStale(j) ==
    /\ job[j] = "readStale"
    /\ seen' = [seen EXCEPT ![j] = row.gen]
    /\ JobGoto(j, "writeStale")
    /\ UNCHANGED <<remote, created, db, load, g, listing, snap, again, faults, asks, hist>>

(* ... and writes it back as stale, with the generation it read. *)
WriteStale(j) ==
    /\ job[j] = "writeStale"
    /\ SetState("stale", seen[j])
    /\ seen' = [seen EXCEPT ![j] = 0]
    /\ JobGoto(j, "queue")
    /\ UNCHANGED <<remote, created, config, rows, load, g, listing, snap, again, faults,
                   asks, hist>>

(* The read or the write fails: the callers ignore the error, and the mark   *)
(* is lost.                                                                  *)
LoseMark(j) ==
    /\ job[j] \in {"readStale", "writeStale"}
    /\ Fault
    /\ seen' = [seen EXCEPT ![j] = 0]
    /\ JobGoto(j, "queue")
    /\ UNCHANGED <<remote, created, db, load, g, listing, snap, again, asks, hist>>

(* QueueCoreSync; after a forget policy, finishTaskRun marks once more. *)
QueueCoreSync(j) ==
    /\ job[j] = "queue"
    /\ Queue
    /\ IF again[j]
       THEN JobGoto(j, "readStale") /\ again' = [again EXCEPT ![j] = FALSE]
       ELSE JobGoto(j, "idle") /\ UNCHANGED again
    /\ UNCHANGED <<remote, created, db, g, listing, snap, seen, faults, asks, hist>>

JobStep(j) ==
    \/ ReadGeneration(j) \/ StoreBackupSummary(j) \/ LoseSummary(j) \/ ForgetPolicy(j)
    \/ ReadStale(j) \/ WriteStale(j) \/ LoseMark(j) \/ QueueCoreSync(j)

(* The process stops and starts again: only the database and the restic     *)
(* repository survive.  The planner resumes nothing that was running.       *)
Restart ==
    /\ Fault
    /\ load' = "none" /\ g' = 0 /\ listing' = {}
    /\ job' = [j \in Jobs |-> "idle"]
    /\ snap' = [j \in Jobs |-> NoSnap]
    /\ seen' = [j \in Jobs |-> 0]
    /\ again' = [j \in Jobs |-> FALSE]
    /\ UNCHANGED <<remote, created, db, asks, hist>>

Next ==
    \/ UserSync \/ Plan \/ LoadStep \/ Restart
    \/ \E j \in Jobs : Backup(j) \/ Forget(j) \/ JobStep(j)

Spec == Init /\ [][Next]_vars

(* Goroutines run on and commands end; the planner's ticker keeps firing.   *)
(* Nothing is assumed of users, backups and faults.                         *)
Fairness ==
    /\ WF_vars(LoadStep)
    /\ WF_vars(Plan)
    /\ \A j \in Jobs : WF_vars(JobStep(j))

FairSpec == Spec /\ Fairness

-----------------------------------------------------------------------------
TypeOK ==
    /\ remote \subseteq created /\ created \subseteq Snaps
    /\ row.st \in Statuses /\ row.gen \in Nat
    /\ (row.st = "none" => row.gen = 0)
    /\ \A x \in rows : x[1] \in created /\ x[2] \in Nat
    /\ config \subseteq Nat \ {0}
    /\ load \in LoadPoints /\ g \in Nat /\ listing \subseteq created
    /\ (load \in {"none", "start"} => g = 0)
    /\ job \in [Jobs -> JobPoints] /\ snap \in [Jobs -> Snaps \cup {NoSnap}]
    /\ seen \in [Jobs -> Nat] /\ again \in [Jobs -> BOOLEAN]
    /\ faults \in 0..MaxFaults /\ asks \in 0..MaxAsks

(* When the index says success, it shows exactly what the last successful   *)
(* load was told by restic, plus snapshots whose backup ended since and     *)
(* stored its own summary: no row of an abandoned generation is shown       *)
(* again (runCoreSync, finalizeCoreGeneration, StoreBackupSummary).         *)
SuccessShowsListing ==
    row.st = "success" =>
        /\ published \subseteq Served
        /\ \A s \in Served \ published : <<s, row.gen>> \in summaries

(* When the index says success, the generation it serves is complete: its   *)
(* restic config row is there (storeResticConfig, finalizeCoreGeneration).  *)
SuccessHasConfig == row.st = "success" => row.gen \in config

(* The snapshot page keeps what MetadataCache promises its readers: the     *)
(* answer of restic is the listing, from the time it is there to the end of *)
(* its load, and a stored summary announces its snapshot (runCoreSync,      *)
(* StoreBackupSummary, markSyncStateStale).                                 *)
Cache == INSTANCE MetadataCache WITH
    Items     <- Snaps,
    source    <- remote,
    answers   <- IF load \in {"listed", "replace", "finalize", "publish"} THEN {listing} ELSE {},
    announced <- {s \in Snaps : \E x \in summaries : x[1] = s},
    fresh     <- row.st = "success",
    shown     <- IF row.st = "success" THEN Served ELSE {}
ImplementsCache == Cache!Spec

(* A load, once started, ends: no path of runCoreSync leaves its entry in   *)
(* the table of active loads, where it would make every later request join  *)
(* a load that does nothing.                                                *)
LoadsEnd == load # "none" ~> load = "none"

(* No load works on the row and none will: the planner preserves a running   *)
(* row, which a restart or a lost state write has left behind, and a config  *)
(* row of the next generation refuses every load.                            *)
LeftBehind ==
    /\ load = "none"
    /\ \/ row.st = "running" /\ faults > 0
       \/ row.st \in {"stale", "failed"} /\ row.gen + 1 \in config

(* Stale or failed metadata becomes a success again without the user, through *)
(* the planner and whatever marks and failures come between, except in the    *)
(* two ways LeftBehind names (plannerLoop, refreshCandidateForDomain,         *)
(* runCoreSync).                                                              *)
MetadataRecovers == row.st \in {"stale", "failed"} ~> (row.st = "success" \/ LeftBehind)

(* What plannerLoop's comment says of it: stale and failed states are       *)
(* resumed, so that the index is a success again.                           *)
PlannerRepairs == row.st \in {"stale", "failed"} ~> row.st = "success"

(* What the smoke test of the README says: after a backup its snapshot      *)
(* appears.  At rest, with the index a success, every snapshot is shown.    *)
BackupAppears ==
    (row.st = "success" /\ load = "none" /\ \A j \in Jobs : job[j] = "idle")
        => remote \subseteq Served
=============================================================================
