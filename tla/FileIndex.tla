----------------------------- MODULE FileIndex -----------------------------
(***************************************************************************)
(* The "files" domain of one repository: the listings of snapshot          *)
(* directories that RepoCacheService keeps in SQLite.                      *)
(*                                                                         *)
(* Actors: the single-flight worker (ensureFileWorker, runFilesSync),      *)
(* callers that open a directory (ListSnapshotFiles), and the markers: a   *)
(* core load that finalizes, publishes, marks the listings stale and       *)
(* prewarms roots, and a finished backup that stores its summary and marks *)
(* the listings stale.  Every SQL statement or transaction and every       *)
(* critical section of RepoCacheService.mu is one step, except the two     *)
(* writes that follow a failed listing, whose own errors the code ignores. *)
(***************************************************************************)
EXTENDS Naturals, FiniteSets

CONSTANTS
    Snaps,         \* snapshot IDs
    Dirs,          \* normalized directory paths other than the root
    Root,          \* the empty path
    Readers,       \* callers of ListSnapshotFiles
    NoKey,         \* no request
    PrewarmLimit,  \* the LIMIT of collectRootPathsForCurrentSnapshots
    MaxFaults,     \* bound: statements and commands that fail
    MaxMarks,      \* bound: core loads and backups
    MaxGen         \* bound: no directory is opened at this generation

ASSUME RootAssumption == Root \notin Dirs
ASSUME FileBoundsAssumption ==
    PrewarmLimit \in Nat /\ MaxFaults \in Nat /\ MaxMarks \in Nat /\ MaxGen \in Nat

VARIABLES
    published,  \* a core load has succeeded: the core generation is not 0
    paths,      \* what the visible row of a snapshot says of its paths
    frow,       \* the repository_sync_state row of domain files
    idx,        \* repository_snapshot_file_indexes
    files,      \* <<key, generation>> that have rows in repository_snapshot_files
    queue,      \* fileWork: "no", "prewarm" or "normal" for each key
    work,       \* the worker: where it is and its locals
    relaunch,   \* a goroutine of finishLoad is about to call ensureFileWorker
    reader,     \* where each reader is and its locals
    marker,     \* where each marker is and its locals
    faults,     \* faults so far
    marks       \* markings so far

vars == <<published, paths, frow, idx, files, queue, work, relaunch, reader, marker,
          faults, marks>>
core == <<published, paths>>

Keys    == Snaps \X (Dirs \cup {Root})

ASSUME NoKeyAssumption == NoKey \notin Keys

IsRoot(k) == k[2] = Root
Markers == {"core", "backup"}

Statuses == {"none", "stale", "running", "success", "failed"}
WorkPoints == {"none", "start", "mark", "take", "index", "row", "paths", "ls",
               "store", "success", "final", "close", "exit"}
ReadPoints == {"idle", "generation", "paths", "store", "success", "look", "enqueue", "ensure"}
MarkPoints == {"idle", "publish", "marking", "readRow", "writeRow", "prewarm", "ensure"}

NoIndex == [st |-> "none", stale |-> FALSE, gen |-> 0, full |-> FALSE]
NoWork  == [at |-> "none", gen |-> 0, key |-> NoKey, known |-> FALSE,
            processed |-> FALSE, onlyPrewarm |-> TRUE, stale |-> FALSE]
Ending  == [NoWork EXCEPT !.at = "exit"]   \* the worker is done, its load not yet
NoRead  == [at |-> "idle", key |-> NoKey, refresh |-> FALSE, gen |-> 0, known |-> FALSE]

Queued  == {k \in Keys : queue[k] # "no"}
Fault   == faults < MaxFaults /\ faults' = faults + 1

(* setFileIndexState and setSyncState: generation 0 keeps the old one. *)
Keep(new, old) == IF new = 0 THEN old ELSE new
SetIndex(k, st, full, stale, gen) ==
    idx' = [idx EXCEPT ![k] = [st |-> st, stale |-> stale, gen |-> Keep(gen, @.gen), full |-> full]]
SetRow(st, gen) == frow' = [st |-> st, gen |-> Keep(gen, frow.gen)]

(* A slip the properties must notice: rows of older generations stay. *)
StoreRowsKeepsOld(k, gen) == files' = files \cup {<<k, gen>>}

(* storeSnapshotFiles: one transaction that replaces the rows of a key. *)
StoreRows(k, gen) == files' = {x \in files : x[1] # k} \cup {<<k, gen>>}

(* enqueueFileIndex: a request of a user is never weakened by a prewarm. *)
EnqueueAll(requests, kind) ==
    queue' = [k \in Keys |-> IF k \notin requests THEN queue[k]
                            ELSE IF queue[k] = "normal" THEN "normal" ELSE kind]

(* collectRootPathsForCurrentSnapshots: the roots of the latest snapshots.  *)
LatestRoots ==
    LET listed == {s \in Snaps : published /\ paths[s] # "absent"}
        latest == {S \in SUBSET listed : Cardinality(S) <= PrewarmLimit
                                        /\ (Cardinality(S) < PrewarmLimit => S = listed)}
    IN  {S \X {Root} : S \in latest}

(* beginLoad: start the worker or join it. *)
Begin == work' = IF work.at = "none" THEN [NoWork EXCEPT !.at = "start"] ELSE work

(* EnsureSnapshotPathIndex and ListSnapshotFiles: no usable listing. *)
Unusable(k, refresh) == refresh \/ idx[k].st \in {"none", "stale", "failed"}

Goto(point) == work' = [work EXCEPT !.at = point]
-----------------------------------------------------------------------------
(* Slips of the code the properties must notice; no action uses them.      *)

(* The branch of a root continues without its success state. *)
IndexSuccessSkipsRoots ==
    /\ work.at = "success"
    /\ IF IsRoot(work.key)
       THEN UNCHANGED idx
       ELSE SetIndex(work.key, "success", work.known, FALSE, work.gen)
    /\ work' = [work EXCEPT !.at = "take", !.key = NoKey, !.known = FALSE]
    /\ UNCHANGED <<core, frow, files, queue, relaunch, reader, marker, faults, marks>>

(* finishLoad does not look for requests that came too late. *)
FinishLoadOnly ==
    /\ work.at = "exit"
    /\ work' = NoWork
    /\ UNCHANGED <<core, frow, idx, files, queue, relaunch, reader, marker, faults, marks>>

(* A root is built under the generation that the row already has. *)
RootGenerationReused(r) ==
    /\ reader[r].at = "generation"
    /\ reader' = [reader EXCEPT ![r].at = "paths", ![r].gen = frow.gen]
    /\ UNCHANGED <<core, frow, idx, files, queue, work, relaunch, marker, faults, marks>>

-----------------------------------------------------------------------------
Init ==
    /\ published = FALSE
    /\ paths = [s \in Snaps |-> "absent"]
    /\ frow = [st |-> "none", gen |-> 0]
    /\ idx = [k \in Keys |-> NoIndex]
    /\ files = {}
    /\ queue = [k \in Keys |-> "no"]
    /\ work = NoWork /\ relaunch = FALSE
    /\ reader = [r \in Readers |-> NoRead]
    /\ marker = [m \in Markers |-> [at |-> "idle", listing |-> {}, gen |-> 0]]
    /\ faults = 0 /\ marks = 0

(* runFilesSync *)
NextGeneration ==
    /\ work.at = "start"
    /\ work' = [work EXCEPT !.at = "mark", !.gen = frow.gen + 1]
    /\ UNCHANGED <<core, frow, idx, files, queue, relaunch, reader, marker, faults, marks>>

(* A generation or state that cannot be read or written ends the worker. *)
WorkerDies ==
    /\ work.at \in {"start", "mark", "index", "row", "success", "close"}
    /\ Fault
    /\ work' = Ending
    /\ UNCHANGED <<core, frow, idx, files, queue, relaunch, reader, marker, marks>>

MarkRunning ==
    /\ work.at = "mark"
    /\ SetRow("running", 0)
    /\ Goto("take")
    /\ UNCHANGED <<core, idx, files, queue, relaunch, reader, marker, faults, marks>>

(* dequeueFileIndex: any request, in the order of Go's map. *)
Take ==
    /\ work.at = "take"
    /\ IF Queued = {}
       THEN Goto("final") /\ UNCHANGED queue
       ELSE \E k \in Queued :
              /\ queue' = [queue EXCEPT ![k] = "no"]
              /\ work' = [work EXCEPT !.at = "index", !.key = k, !.processed = TRUE,
                            !.onlyPrewarm = @ /\ queue[k] = "prewarm"]
    /\ UNCHANGED <<core, frow, idx, files, relaunch, reader, marker, faults, marks>>

IndexRunning ==
    /\ work.at = "index"
    /\ SetIndex(work.key, "running", FALSE, TRUE, 0)
    /\ Goto("row")
    /\ UNCHANGED <<core, frow, files, queue, relaunch, reader, marker, faults, marks>>

RowRunning ==
    /\ work.at = "row"
    /\ SetRow("running", 0)
    /\ Goto(IF IsRoot(work.key) THEN "paths" ELSE "ls")
    /\ UNCHANGED <<core, idx, files, queue, relaunch, reader, marker, faults, marks>>

(* A listing that cannot be made or stored: the worker goes on. *)
IndexFails ==
    /\ work.at \in {"paths", "ls", "store"}
    /\ Fault
    /\ SetIndex(work.key, "failed", FALSE, TRUE, 0)
    /\ SetRow("failed", 0)
    /\ work' = [work EXCEPT !.at = "take", !.key = NoKey, !.known = FALSE]
    /\ UNCHANGED <<core, files, queue, relaunch, reader, marker, marks>>

(* snapshotPaths, for a root *)
SnapshotPaths ==
    /\ work.at = "paths"
    /\ work' = [work EXCEPT !.at = "store", !.known = paths[work.key[1]] = "known"]
    /\ UNCHANGED <<core, frow, idx, files, queue, relaunch, reader, marker, faults, marks>>

(* restic ls, for another directory *)
ResticLs ==
    /\ work.at = "ls"
    /\ SetRow("running", 0)
    /\ work' = [work EXCEPT !.at = "store", !.known = TRUE]
    /\ UNCHANGED <<core, idx, files, queue, relaunch, reader, marker, faults, marks>>

(* storeSnapshotFiles; storeSnapshotFileRoots without paths marks the root  *)
(* stale, "snapshot paths are not indexed yet".                             *)
Store ==
    /\ work.at = "store"
    /\ IF work.known
       THEN StoreRows(work.key, work.gen) /\ UNCHANGED idx
       ELSE SetIndex(work.key, "stale", FALSE, TRUE, 0) /\ UNCHANGED files
    /\ Goto("success")
    /\ UNCHANGED <<core, frow, queue, relaunch, reader, marker, faults, marks>>

IndexSuccess ==
    /\ work.at = "success"
    /\ SetIndex(work.key, "success", work.known, FALSE, work.gen)
    /\ work' = [work EXCEPT !.at = "take", !.key = NoKey, !.known = FALSE]
    /\ UNCHANGED <<core, frow, files, queue, relaunch, reader, marker, faults, marks>>

(* hasStaleFileIndexes, then the closing state of the domain *)
HasStale ==
    /\ work.at = "final"
    /\ work' = [NoWork EXCEPT !.at = "close", !.gen = work.gen,
                   !.stale = \/ work.processed /\ work.onlyPrewarm
                             \/ \E k \in Keys : idx[k].stale]
    /\ UNCHANGED <<core, frow, idx, files, queue, relaunch, reader, marker, faults, marks>>

Close ==
    /\ work.at = "close"
    /\ SetRow(IF work.stale THEN "stale" ELSE "success", work.gen)
    /\ work' = Ending
    /\ UNCHANGED <<core, idx, files, queue, relaunch, reader, marker, faults, marks>>

(* finishLoad: requests that came too late for the worker start another. *)
FinishLoad ==
    /\ work.at = "exit"
    /\ work' = NoWork
    /\ relaunch' = (relaunch \/ Queued # {})
    /\ UNCHANGED <<core, frow, idx, files, queue, reader, marker, faults, marks>>

Relaunch ==
    /\ relaunch
    /\ relaunch' = FALSE
    /\ Begin
    /\ UNCHANGED <<core, frow, idx, files, queue, reader, marker, faults, marks>>

Worker ==
    \/ NextGeneration \/ WorkerDies \/ MarkRunning \/ Take \/ IndexRunning \/ RowRunning
    \/ IndexFails \/ SnapshotPaths \/ ResticLs \/ Store \/ IndexSuccess \/ HasStale
    \/ Close \/ FinishLoad

-----------------------------------------------------------------------------
(* ListSnapshotFiles: a caller opens a directory of a snapshot the index    *)
(* shows.  An unusable root is built at once, another directory is asked of *)
(* the worker.                                                              *)
Open(r) ==
    /\ reader[r].at = "idle"
    /\ frow.gen < MaxGen
    /\ \E k \in Keys, refresh \in BOOLEAN :
        /\ paths[k[1]] # "absent"
        /\ Unusable(k, refresh)
        /\ reader' = [reader EXCEPT ![r] = [NoRead EXCEPT
                        !.at = IF IsRoot(k) THEN "generation" ELSE "look",
                        !.key = k, !.refresh = refresh /\ ~ IsRoot(k)]]
    /\ UNCHANGED <<core, frow, idx, files, queue, work, relaunch, marker, faults, marks>>

(* storeSnapshotFileRootsWithNewGeneration *)
RootGeneration(r) ==
    /\ reader[r].at = "generation"
    /\ reader' = [reader EXCEPT ![r].at = "paths", ![r].gen = frow.gen + 1]
    /\ UNCHANGED <<core, frow, idx, files, queue, work, relaunch, marker, faults, marks>>

RootPaths(r) ==
    /\ reader[r].at = "paths"
    /\ reader' = [reader EXCEPT ![r].at = "store",
                    ![r].known = paths[reader[r].key[1]] = "known"]
    /\ UNCHANGED <<core, frow, idx, files, queue, work, relaunch, marker, faults, marks>>

RootStore(r) ==
    /\ reader[r].at = "store"
    /\ IF reader[r].known
       THEN StoreRows(reader[r].key, reader[r].gen) /\ UNCHANGED idx
       ELSE SetIndex(reader[r].key, "stale", FALSE, TRUE, 0) /\ UNCHANGED files
    /\ reader' = [reader EXCEPT ![r].at = "success"]
    /\ UNCHANGED <<core, frow, queue, work, relaunch, marker, faults, marks>>

RootSuccess(r) ==
    /\ reader[r].at = "success"
    /\ SetIndex(reader[r].key, "success", reader[r].known, FALSE, reader[r].gen)
    /\ reader' = [reader EXCEPT ![r] = NoRead]
    /\ UNCHANGED <<core, frow, files, queue, work, relaunch, marker, faults, marks>>

(* Any of the four may fail: the caller gets the error. *)
RootFails(r) ==
    /\ reader[r].at \in {"generation", "paths", "store", "success"}
    /\ Fault
    /\ reader' = [reader EXCEPT ![r] = NoRead]
    /\ UNCHANGED <<core, frow, idx, files, queue, work, relaunch, marker, marks>>

(* EnsureSnapshotPathIndex looks again, *)
Look(r) ==
    /\ reader[r].at = "look"
    /\ reader' = IF Unusable(reader[r].key, reader[r].refresh)
                 THEN [reader EXCEPT ![r].at = "enqueue", ![r].refresh = FALSE]
                 ELSE [reader EXCEPT ![r] = NoRead]
    /\ UNCHANGED <<core, frow, idx, files, queue, work, relaunch, marker, faults, marks>>

(* queues the request *)
Enqueue(r) ==
    /\ reader[r].at = "enqueue"
    /\ EnqueueAll({reader[r].key}, "normal")
    /\ reader' = [reader EXCEPT ![r].at = "ensure"]
    /\ UNCHANGED <<core, frow, idx, files, work, relaunch, marker, faults, marks>>

(* and makes sure that a worker runs. *)
EnsureFileWorker(r) ==
    /\ reader[r].at = "ensure"
    /\ Begin
    /\ reader' = [reader EXCEPT ![r] = NoRead]
    /\ UNCHANGED <<core, frow, idx, files, queue, relaunch, marker, faults, marks>>

(* QueueFilesSync: the user asks for every stale listing, or else for the   *)
(* latest roots.                                                            *)
QueueFilesSync(r) ==
    /\ reader[r].at = "idle"
    /\ frow.gen < MaxGen
    /\ LET stale == {k \in Keys : idx[k].stale}
       IN  IF stale # {}
           THEN EnqueueAll(stale, "normal")
           ELSE \E roots \in LatestRoots \ {{}} : EnqueueAll(roots, "prewarm")
    /\ reader' = [reader EXCEPT ![r].at = "ensure"]
    /\ UNCHANGED <<core, frow, idx, files, work, relaunch, marker, faults, marks>>

Reader(r) ==
    \/ RootGeneration(r) \/ RootPaths(r) \/ RootStore(r) \/ RootSuccess(r) \/ RootFails(r)
    \/ Look(r) \/ Enqueue(r) \/ EnsureFileWorker(r)

-----------------------------------------------------------------------------
(* finalizeCoreGeneration: listings of snapshots that restic no longer has  *)
(* go, and the rows the published generation names go with them.            *)
Finalize ==
    /\ marker["core"].at = "idle"
    /\ marks < MaxMarks /\ marks' = marks + 1
    /\ \E listing \in SUBSET Snaps :
        /\ files' = {x \in files : x[1][1] \in listing}
        /\ idx' = [k \in Keys |-> IF k[1] \in listing THEN idx[k] ELSE NoIndex]
        /\ paths' = [s \in Snaps |-> IF ~ published /\ s \in listing THEN "known" ELSE "absent"]
        /\ marker' = [marker EXCEPT !["core"] = [at |-> "publish", listing |-> listing, gen |-> 0]]
    /\ UNCHANGED <<published, frow, queue, work, relaunch, reader, faults>>

(* runCoreSync writes the success state with the new generation. *)
Publish ==
    /\ marker["core"].at = "publish"
    /\ published' = TRUE
    /\ paths' = [s \in Snaps |-> IF s \in marker["core"].listing THEN "known" ELSE "absent"]
    /\ marker' = [marker EXCEPT !["core"].at = "marking", !["core"].listing = {}]
    /\ UNCHANGED <<frow, idx, files, queue, work, relaunch, reader, faults, marks>>

(* A backup ends: StoreBackupSummary adds a row without paths. *)
StoreBackupSummary ==
    /\ marker["backup"].at = "idle"
    /\ marks < MaxMarks /\ marks' = marks + 1
    /\ \E s \in Snaps :
        /\ paths[s] = "absent"
        /\ paths' = [paths EXCEPT ![s] = "unknown"]
    /\ marker' = [marker EXCEPT !["backup"].at = "marking"]
    /\ UNCHANGED <<published, frow, idx, files, queue, work, relaunch, reader, faults>>

(* markFilesDomainStale: the index rows in one statement, *)
MarkIndexes(m) ==
    /\ marker[m].at = "marking"
    /\ idx' = [k \in Keys |->
                 IF idx[k].st = "none" THEN idx[k]
                 ELSE [idx[k] EXCEPT !.stale = TRUE,
                                     !.st = IF @ = "running" THEN @ ELSE "stale"]]
    /\ marker' = [marker EXCEPT ![m].at = "readRow"]
    /\ UNCHANGED <<core, frow, files, queue, work, relaunch, reader, faults, marks>>

(* then the row of the domain, read and written back. *)
ReadRow(m) ==
    /\ marker[m].at = "readRow"
    /\ marker' = [marker EXCEPT ![m].at = "writeRow", ![m].gen = frow.gen]
    /\ UNCHANGED <<core, frow, idx, files, queue, work, relaunch, reader, faults, marks>>

WriteRow(m) ==
    /\ marker[m].at = "writeRow"
    /\ SetRow("stale", marker[m].gen)
    /\ marker' = [marker EXCEPT ![m].at = IF m = "core" THEN "prewarm" ELSE "idle", ![m].gen = 0]
    /\ UNCHANGED <<core, idx, files, queue, work, relaunch, reader, faults, marks>>

(* QueueLatestSnapshotRootPrewarm: the roots of the latest snapshots. *)
Prewarm ==
    /\ marker["core"].at = "prewarm"
    /\ \E roots \in LatestRoots :
        /\ EnqueueAll(roots, "prewarm")
        /\ marker' = [marker EXCEPT !["core"].at = IF roots = {} THEN "idle" ELSE "ensure"]
    /\ UNCHANGED <<core, frow, idx, files, work, relaunch, reader, faults, marks>>

PrewarmWorker ==
    /\ marker["core"].at = "ensure"
    /\ Begin
    /\ marker' = [marker EXCEPT !["core"].at = "idle"]
    /\ UNCHANGED <<core, frow, idx, files, queue, relaunch, reader, faults, marks>>

Marker == Publish \/ Prewarm \/ PrewarmWorker
          \/ \E m \in Markers : MarkIndexes(m) \/ ReadRow(m) \/ WriteRow(m)

Next ==
    \/ Worker \/ Relaunch \/ Finalize \/ StoreBackupSummary \/ Marker
    \/ \E r \in Readers : Open(r) \/ QueueFilesSync(r) \/ Reader(r)

Spec == Init /\ [][Next]_vars

(* Goroutines run on, commands end.  It is enough that some goroutine on    *)
(* the side of the worker does, but a caller may not keep it from running.  *)
(* Nothing is assumed of callers that open directories, of core loads and   *)
(* of backups.                                                              *)
Fairness ==
    /\ WF_vars(Worker \/ Relaunch \/ Marker)
    /\ \A r \in Readers : WF_vars(Reader(r))

FairSpec == Spec /\ Fairness
-----------------------------------------------------------------------------
TypeOK ==
    /\ published \in BOOLEAN
    /\ paths \in [Snaps -> {"absent", "unknown", "known"}]
    /\ frow.st \in Statuses /\ frow.gen \in Nat
    /\ \A k \in Keys :
        /\ idx[k].st \in Statuses /\ idx[k].gen \in Nat
        /\ idx[k].st = "none" => idx[k] = NoIndex
    /\ \A x \in files : x[1] \in Keys /\ x[2] \in Nat \ {0}
    /\ queue \in [Keys -> {"no", "prewarm", "normal"}]
    /\ work.at \in WorkPoints /\ work.gen \in Nat
    /\ work.key \in Keys \cup {NoKey}
    /\ (work.at = "none" => work = NoWork)
    /\ relaunch \in BOOLEAN
    /\ \A r \in Readers : reader[r].at \in ReadPoints /\ reader[r].key \in Keys \cup {NoKey}
    /\ \A m \in Markers : marker[m].at \in MarkPoints
    /\ faults \in 0..MaxFaults /\ marks \in 0..MaxMarks

(* A directory shown as being indexed is in the hands of the worker: unless *)
(* a statement failed, no row stays running with nobody to end it, where    *)
(* EnsureSnapshotPathIndex would never ask for it again.                    *)
RunningHasWorker ==
    faults = 0 => \A k \in Keys : idx[k].st = "running" => work.key = k

(* For directories other than the root, which only the worker writes, a     *)
(* successful index row never names another generation than the one whose   *)
(* file rows are stored (storeSnapshotFiles, setFileIndexState).            *)
DirGenerationMatches ==
    \A k \in Keys : (~ IsRoot(k) /\ idx[k].st = "success") =>
        \A x \in files : x[1] = k => x[2] = idx[k].gen

(* Every queued request is taken by a worker, also one that arrives while a *)
(* worker closes or dies, provided requests stop coming (Go's map order may *)
(* prefer newer ones for ever; enqueueFileIndex, finishLoad).               *)
RequestsAreTaken ==
    <>[][\A k \in Keys : queue[k] = "no" => queue'[k] = "no"]_queue
        => []<>(Queued = {})

(* What storeSnapshotFileRoots writes of a root whose paths are unknown:    *)
(* its listing is stale.  A root that is a success and fresh was built.     *)
UnknownRootIsStale ==
    \A k \in Keys : (IsRoot(k) /\ idx[k].st = "success" /\ ~ idx[k].stale) => idx[k].full
=============================================================================
