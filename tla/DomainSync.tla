------------------------------ MODULE DomainSync ------------------------------
(***************************************************************************)
(* The domains "stats" and "keys" of one repository beside changes of the   *)
(* repository itself: runStatsSync and runKeysSync, RepoService.Update with *)
(* ResetRepository and QueueInitialImport, and the stale mark of a prune.   *)
(* The two domains share no row, so a behaviour is about one of them.       *)
(*                                                                         *)
(* Every SQL statement or transaction is one step, and so is a restic       *)
(* command, which reads the credentials (endpoint and passwords) of the     *)
(* repository row when it starts.  What restic returns is told apart only   *)
(* by the credentials it was asked with: a stats record, or a key of the    *)
(* repository behind them.                                                  *)
(***************************************************************************)
EXTENDS Naturals

CONSTANTS
    Creds,       \* values of the credentials
    First,       \* the credentials the repository was created with
    Users,       \* requests in progress
    MaxUpdates,  \* bound: requests that change or mark the repository
    MaxGen,      \* bound: generations
    MaxFaults    \* bound: failed commands or statements, and restarts

ASSUME CredsAssumption == First \in Creds
ASSUME BoundsAssumption == MaxUpdates \in Nat /\ MaxGen \in Nat /\ MaxFaults \in Nat

VARIABLES
    domain,    \* which of the two domains the behaviour is about
    cred,      \* credentials in the row of table repositories
    row,       \* status and generation in repository_sync_state
    rows,      \* <<credentials, generation>> of the stored records
    load,      \* point, generation and payload of the active load
    user,      \* user[u]: point of a request, and what it has read
    updates, faults,
    published, \* history: payload of the last load that became a success
    overlap,   \* history: a reset met a load
    left,      \* history: rows were left behind, or the row was set back
    reverted   \* history: an Update wrote old credentials back

cache  == <<row, rows>>
bounds == <<updates, faults>>
hist   == <<published, overlap, left, reverted>>
vars   == <<domain, cred, cache, load, user, bounds, hist>>

NoRow  == [st |-> "none", gen |-> 0]
NoLoad == [at |-> "none", g |-> 0, payload |-> {}]
NoUser == [at |-> "idle", kind |-> "none", cred |-> First, gen |-> 0]

Fault == faults < MaxFaults /\ faults' = faults + 1

(* setSyncState: generation 0 keeps the generation of the row. *)
SetState(st, gen) == row' = [st |-> st, gen |-> IF gen = 0 THEN row.gen ELSE gen]

(* GetStatsView and GetKeysView: the records of the row's generation. *)
Served == {c \in Creds : <<c, row.gen>> \in rows}

LoadGoto(point) == load' = [load EXCEPT !.at = point]
UserGoto(u, point) == user' = [user EXCEPT ![u].at = point]
Done(u) == user' = [user EXCEPT ![u] = NoUser]

-----------------------------------------------------------------------------
(* Slips of the code the properties must notice; no action uses them.      *)

(* The records are upserted: a generation may be used twice. *)
StoreUpserts ==
    /\ load.at = "store"
    /\ rows' = rows \cup (load.payload \X {load.g})
    /\ LoadGoto("sweep")
    /\ UNCHANGED <<domain, cred, row, user, bounds, hist>>

(* The older generations go as soon as restic is asked. *)
CommandSweeps ==
    /\ load.at = "command"
    /\ rows' = {}
    /\ \/ /\ load' = [load EXCEPT !.at = "store", !.payload = {cred}]
          /\ SetState("running", 0)
          /\ UNCHANGED faults
       \/ Fault /\ LoadGoto("exit") /\ SetState("failed", 0)
    /\ UNCHANGED <<domain, cred, user, updates, hist>>

(* Records that collide end the load without a failed state. *)
StoreFailsSilently ==
    /\ load.at = "store"
    /\ IF \E x \in rows : x[2] = load.g
       THEN LoadGoto("exit") /\ UNCHANGED rows
       ELSE rows' = rows \cup (load.payload \X {load.g}) /\ LoadGoto("sweep")
    /\ UNCHANGED <<domain, cred, row, user, bounds, hist>>

(* The success names the generation from before the load. *)
PublishKeepsGeneration ==
    /\ load.at = "publish"
    /\ \/ /\ SetState("success", 0)
          /\ published' = load.payload
          /\ UNCHANGED <<faults, left>>
       \/ Fault /\ left' = TRUE /\ UNCHANGED <<row, published>>
    /\ LoadGoto("exit")
    /\ UNCHANGED <<domain, cred, rows, user, updates, overlap, reverted>>

(* The reset forgets the state row. *)
ResetStateSkipped(u) ==
    /\ user[u].at = "resetState"
    /\ UserGoto(u, "resetRows")
    /\ UNCHANGED <<domain, cred, cache, load, bounds, hist>>

(* The mark names no status. *)
WriteStaleWithoutStatus(u) ==
    /\ user[u].at = "writeStale"
    /\ SetState("", user[u].gen)
    /\ Done(u)
    /\ UNCHANGED <<domain, cred, rows, load, bounds, hist>>

-----------------------------------------------------------------------------
Init ==
    /\ domain \in {"stats", "keys"}
    /\ cred = First
    /\ row = NoRow /\ rows = {}
    /\ load = NoLoad
    /\ user = [u \in Users |-> NoUser]
    /\ updates = 0 /\ faults = 0
    /\ published = {}
    /\ overlap = FALSE /\ left = FALSE /\ reverted = FALSE

(* queueDomainSync: a refresh of the user, who joins an active load.  The   *)
(* history notes one that begins while a reset has rows still to delete.    *)
Refresh ==
    /\ load.at = "none"
    /\ row.gen < MaxGen
    /\ LoadGoto("start")
    /\ overlap' = (overlap \/ \E u \in Users : user[u].at = "resetRows")
    /\ UNCHANGED <<domain, cred, cache, user, bounds, published, left, reverted>>

-----------------------------------------------------------------------------
(* runStatsSync and runKeysSync *)
NextGeneration ==
    /\ load.at = "start"
    /\ load' = [load EXCEPT !.at = "mark", !.g = row.gen + 1]
    /\ UNCHANGED <<domain, cred, cache, user, bounds, hist>>

MarkRunning ==
    /\ load.at = "mark"
    /\ SetState("running", 0)
    /\ LoadGoto("command")
    /\ UNCHANGED <<domain, cred, rows, user, bounds, hist>>

(* runSyncCommand.  When its log row cannot be inserted the command does    *)
(* not run: no output, but exit code 0 and no error.                        *)
Command ==
    /\ load.at = "command"
    /\ \/ /\ load' = [load EXCEPT !.at = "store", !.payload = {cred}]
          /\ SetState("running", 0)
          /\ UNCHANGED faults
       \/ Fault /\ LoadGoto("store") /\ UNCHANGED row
       \/ Fault /\ LoadGoto("exit") /\ SetState("failed", 0)
    /\ UNCHANGED <<domain, cred, rows, user, updates, hist>>

(* storeStats and storeKeys are plain INSERTs: the key of repository_stats  *)
(* is the generation, that of repository_keys the generation and the key.   *)
(* No output is no JSON for storeStats, and no keys for storeKeys.          *)
Refused ==
    IF domain = "stats"
    THEN load.payload = {} \/ \E x \in rows : x[2] = load.g
    ELSE \E c \in load.payload : <<c, load.g>> \in rows

Store ==
    /\ load.at = "store"
    /\ \/ /\ ~ Refused
          /\ rows' = rows \cup (load.payload \X {load.g})
          /\ LoadGoto("sweep")
          /\ UNCHANGED <<row, faults>>
       \/ /\ IF Refused THEN UNCHANGED faults ELSE Fault
          /\ SetState("failed", 0)
          /\ LoadGoto("exit")
          /\ UNCHANGED rows
    /\ UNCHANGED <<domain, cred, user, updates, hist>>

(* DELETE of the other generations *)
Sweep ==
    /\ load.at = "sweep"
    /\ \/ /\ rows' = {x \in rows : x[2] = load.g}
          /\ LoadGoto("publish")
          /\ UNCHANGED <<row, faults, left>>
       \/ /\ Fault
          /\ SetState("failed", 0)
          /\ LoadGoto("exit")
          /\ left' = TRUE
          /\ UNCHANGED rows
    /\ UNCHANGED <<domain, cred, user, updates, published, overlap, reverted>>

(* The success state; if it cannot be written the row stays as it is. *)
Publish ==
    /\ load.at = "publish"
    /\ \/ /\ SetState("success", load.g)
          /\ published' = load.payload
          /\ UNCHANGED <<faults, left>>
       \/ Fault /\ left' = TRUE /\ UNCHANGED <<row, published>>
    /\ LoadGoto("exit")
    /\ UNCHANGED <<domain, cred, rows, user, updates, overlap, reverted>>

(* nextGeneration or the first state fails: the load ends silently. *)
LoadDies ==
    /\ load.at \in {"start", "mark"}
    /\ Fault
    /\ LoadGoto("exit")
    /\ UNCHANGED <<domain, cred, cache, user, updates, hist>>

finishLoad ==
    /\ load.at = "exit"
    /\ load' = NoLoad
    /\ UNCHANGED <<domain, cred, cache, user, bounds, hist>>

LoadStep ==
    \/ NextGeneration \/ MarkRunning \/ Command \/ Store \/ Sweep
    \/ Publish \/ LoadDies \/ finishLoad

-----------------------------------------------------------------------------
(* A request begins.  An Update reads the repository row and decides what   *)
(* to write, with credentials (resync) or without (rename); a sync of "all" *)
(* domains, or a prune that has ended, marks the state row stale.           *)
Kinds == {"resync", "rename", "import"} \cup (IF domain = "stats" THEN {"prune"} ELSE {})

Begin(u) ==
    /\ user[u].at = "idle"
    /\ updates < MaxUpdates /\ updates' = updates + 1
    /\ \E kind \in Kinds, c \in Creds :
        /\ kind # "resync" => c = cred
        /\ user' = [user EXCEPT ![u] = [NoUser EXCEPT
              !.kind = IF kind = "prune" THEN "import" ELSE kind, !.cred = c,
              !.at = IF kind \in {"resync", "rename"} THEN "store" ELSE "readStale"]]
    /\ UNCHANGED <<domain, cred, cache, load, faults, hist>>

(* store.Update writes every column of the row. *)
StoreUpdate(u) ==
    /\ user[u].at = "store"
    /\ \/ /\ cred' = user[u].cred
          /\ reverted' = (reverted \/ (user[u].kind = "rename" /\ cred # user[u].cred))
          /\ IF user[u].kind = "resync" THEN UserGoto(u, "resetState") ELSE Done(u)
          /\ UNCHANGED faults
       \/ Fault /\ Done(u) /\ UNCHANGED <<cred, reverted>>
    /\ UNCHANGED <<domain, cache, load, updates, published, overlap, left>>

(* ResetRepository: the state rows in its first statement, the records of   *)
(* the domain in a later one; a statement that fails ends the request.      *)
Met == overlap' = (overlap \/ load.at # "none")
ResetFails(u) == Fault /\ left' = TRUE /\ Done(u)

ResetState(u) ==
    /\ user[u].at = "resetState"
    /\ \/ row' = NoRow /\ Met /\ UserGoto(u, "resetRows") /\ UNCHANGED <<faults, left>>
       \/ ResetFails(u) /\ UNCHANGED <<row, overlap>>
    /\ UNCHANGED <<domain, cred, rows, load, updates, published, reverted>>

ResetRows(u) ==
    /\ user[u].at = "resetRows"
    /\ \/ rows' = {} /\ Met /\ UserGoto(u, "readStale") /\ UNCHANGED <<faults, left>>
       \/ ResetFails(u) /\ UNCHANGED <<rows, overlap>>
    /\ UNCHANGED <<domain, cred, row, load, updates, published, reverted>>

(* markSyncStateStale, of QueueInitialImport or MarkStale: reads the row,   *)
ReadStale(u) ==
    /\ user[u].at = "readStale"
    /\ user' = [user EXCEPT ![u].at = "writeStale", ![u].gen = row.gen]
    /\ UNCHANGED <<domain, cred, cache, load, bounds, hist>>

(* and writes it back. *)
WriteStale(u) ==
    /\ user[u].at = "writeStale"
    /\ SetState("stale", user[u].gen)
    /\ left' = (left \/ user[u].gen \notin {0, row.gen})
    /\ Done(u)
    /\ UNCHANGED <<domain, cred, rows, load, bounds, published, overlap, reverted>>

UserStep(u) ==
    \/ StoreUpdate(u) \/ ResetState(u) \/ ResetRows(u) \/ ReadStale(u) \/ WriteStale(u)

-----------------------------------------------------------------------------
(* The process stops and starts again; only the database survives.          *)
Restart ==
    /\ Fault
    /\ load' = NoLoad
    /\ user' = [u \in Users |-> NoUser]
    /\ left' = (\/ left
                \/ load.at \in {"sweep", "publish"}
                \/ \E u \in Users : user[u].at \in {"resetState", "resetRows"})
    /\ UNCHANGED <<domain, cred, cache, updates, published, overlap, reverted>>

Next ==
    \/ Refresh \/ LoadStep \/ Restart
    \/ \E u \in Users : Begin(u) \/ UserStep(u)

Spec == Init /\ [][Next]_vars

-----------------------------------------------------------------------------
LoadPoints == {"none", "start", "mark", "command", "store", "sweep", "publish", "exit"}
UserPoints == {"idle", "store", "resetState", "resetRows", "readStale", "writeStale"}

(* Type invariant. *)
TypeOK ==
    /\ domain \in {"stats", "keys"}
    /\ cred \in Creds
    /\ row.st \in {"none", "stale", "running", "success", "failed"} /\ row.gen \in Nat
    /\ rows \subseteq Creds \X (Nat \ {0})
    /\ load \in [at : LoadPoints, g : Nat, payload : SUBSET Creds]
    /\ user \in [Users -> [at : UserPoints, kind : {"none", "resync", "rename", "import"},
                           cred : Creds, gen : Nat]]
    /\ updates \in 0..MaxUpdates /\ faults \in 0..MaxFaults
    /\ published \subseteq Creds
    /\ overlap \in BOOLEAN /\ left \in BOOLEAN /\ reverted \in BOOLEAN

(* A page that says success shows exactly what the last successful load was *)
(* told.  Only a reset that meets a load breaks this; and, for keys, rows   *)
(* that a load or a reset left behind may show beside the new ones, where   *)
(* for stats they make the next load fail (storeStats, storeKeys).          *)
SuccessShowsListing ==
    (row.st = "success" /\ ~ overlap /\ (domain = "stats" \/ ~ left)) => Served = published

(* After a change of the credentials nothing that was read with the old     *)
(* ones is ever shown as a success again, except when the reset met a load  *)
(* or stopped halfway, or another Update wrote the old ones back (Update    *)
(* and ResetRepository).                                                    *)
SuccessIsCurrent ==
    (/\ row.st = "success"
     /\ ~ overlap /\ ~ left /\ ~ reverted
     /\ \A u \in Users : user[u].at # "resetState") => Served \subseteq {cred}

(* A refresh that fails leaves what was shown before: the older generation  *)
(* goes only after the new one is stored, and the row names it until the    *)
(* new one is published (runStatsSync, runKeysSync).                        *)
FailureKeepsRows ==
    (row.st = "failed" /\ row.gen > 0 /\ ~ overlap /\ ~ left) => Served = published

(* A page that says it is being refreshed is: without failed statements and *)
(* restarts no row stays running when its load is gone.                     *)
RunningIsLoading == (faults = 0 /\ row.st = "running") => load.at # "none"
(* The statistics and the keys keep what MetadataCache promises, with what  *)
(* restic would tell with the present credentials as their source.  Beyond  *)
(* the promise is what follows an exception that the histories name, and a  *)
(* load whose command did not run and so said nothing (runStatsSync,        *)
(* runKeysSync, ResetRepository, markSyncStateStale).                       *)
Promised == row.st = "success" /\ ~ overlap /\ ~ left /\ published # {}
Heard == load.at \in {"store", "sweep", "publish"} /\ ~ overlap /\ ~ left /\ load.payload # {}
Cache == INSTANCE MetadataCache WITH
    Items     <- Creds,
    source    <- {cred},
    answers   <- IF Heard THEN {load.payload} ELSE {},
    announced <- {},
    fresh     <- Promised,
    shown     <- IF Promised THEN Served ELSE {}
ImplementsCache == Cache!Spec
=============================================================================
