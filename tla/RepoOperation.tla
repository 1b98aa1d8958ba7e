--------------------------- MODULE RepoOperation ---------------------------
(***************************************************************************)
(* The reservation every restic command of one repository runs under:      *)
(* RepoService.repoOps, acquireRepoOperation, releaseRepoOperation and the *)
(* command path runResticCommandWithReservation with the lock preflight of *)
(* scheduled commands (prepareScheduledResticLocks).                       *)
(*                                                                         *)
(* A goroutine p calls with a repository and a kind:                       *)
(*   "sync"       RunResticCommand: waits for the repository;              *)
(*   "async"      runRepoCommandAsync and RunTaskAsync: refused when busy; *)
(*   "scheduled"  as "sync", and clears restic's own lock files first.     *)
(* The critical sections of repoOpMu are single steps.  A reservation      *)
(* object is an element of States: Go allocates it fresh and collects it   *)
(* when nothing refers to it, so an element nothing refers to may be       *)
(* allocated again.  The lock files of the restic repository are external. *)
(***************************************************************************)
CONSTANTS
    Ops,      \* goroutines that run restic commands under a reservation
    Repos,    \* repositories
    States,   \* repoOperationState objects
    NoState,  \* the nil *repoOperationState
    NoCall,   \* not inside a call
    NoOp,     \* the holder of a free repository (abstraction only)
    Probes,   \* restic commands this instance runs without a reservation
    Hosts,    \* restic processes of other machines
    Dead      \* owner of the lock files killed commands left behind

ASSUME NoStateAssumption == NoState \notin States
ASSUME NoOpAssumption == NoOp \notin Ops
ASSUME OwnersAssumption ==
    /\ Dead \notin Ops \cup Probes \cup Hosts
    /\ Ops \cap Probes = {}
    /\ Ops \cap Hosts = {}
    /\ Probes \cap Hosts = {}

VARIABLES
    repoOps,  \* the map RepoService.repoOps, NoState where it has no entry
    done,     \* the objects whose done channel is closed
    pc,       \* where each goroutine is
    call,     \* the call it is in
    waitCh,   \* the object on whose done channel it blocks
    resv,     \* the object of its repoOperationReservation
    locks     \* locks[r]: owners of the lock files in restic repository r

vars == <<repoOps, done, pc, call, waitCh, resv, locks>>

Kinds  == {"sync", "async", "scheduled"}
Calls  == [repo : Repos, kind : Kinds]
Owners == Ops \cup Probes \cup Hosts \cup {Dead}

(* Program points that lie between the acquisition and the release. *)
Reserved == {"reserved", "list", "tick", "unlock", "start", "running", "release"}
Points   == {"idle", "acquire", "blocked"} \cup Reserved

RepoOf(p) == call[p].repo

(* Nothing points to the object: it may be the next one allocated. *)
Fresh(s) ==
    /\ \A r \in Repos : repoOps[r] # s
    /\ \A p \in Ops : resv[p] # s /\ waitCh[p] # s

Goto(p, point) == pc' = [pc EXCEPT ![p] = point]

-----------------------------------------------------------------------------
(* Slips of the code the properties must notice; no action uses them.      *)

(* The entry is overwritten without looking whether one is active. *)
AcquireUnguarded(p) ==
    /\ pc[p] = "acquire"
    /\ \E s \in States :
        /\ Fresh(s)
        /\ repoOps' = [repoOps EXCEPT ![RepoOf(p)] = s]
        /\ resv' = [resv EXCEPT ![p] = s]
        /\ done' = done \ {s}
    /\ Goto(p, "reserved")
    /\ UNCHANGED <<call, waitCh, locks>>

(* The error of a refused acquisition is ignored and the command runs. *)
BusyRunsAnyway(p) ==
    /\ pc[p] = "acquire"
    /\ repoOps[RepoOf(p)] # NoState
    /\ call[p].kind = "async"
    /\ Goto(p, "start")
    /\ UNCHANGED <<repoOps, done, call, waitCh, resv, locks>>

(* The waiter keeps its channel when it competes again. *)
WakeKeepsChannel(p) ==
    /\ pc[p] = "blocked"
    /\ waitCh[p] \in done
    /\ Goto(p, "acquire")
    /\ UNCHANGED <<repoOps, done, call, waitCh, resv, locks>>

(* A waiter whose context ends removes the entry it waited for. *)
GiveUpRemovesEntry(p) ==
    /\ pc[p] = "blocked"
    /\ repoOps' = [repoOps EXCEPT ![RepoOf(p)] = NoState]
    /\ done' = done \cup {waitCh[p]}
    /\ waitCh' = [waitCh EXCEPT ![p] = NoState]
    /\ Goto(p, "idle")
    /\ call' = [call EXCEPT ![p] = NoCall]
    /\ UNCHANGED <<resv, locks>>

(* The error paths before the command return without the deferred release. *)
PrepareLeaks(p) ==
    /\ pc[p] = "reserved"
    /\ \/ /\ Goto(p, IF call[p].kind = "scheduled" THEN "list" ELSE "start")
          /\ UNCHANGED <<call, resv>>
       \/ /\ Goto(p, "idle")
          /\ call' = [call EXCEPT ![p] = NoCall]
          /\ resv' = [resv EXCEPT ![p] = NoState]
    /\ UNCHANGED <<repoOps, done, waitCh, locks>>

(* The entry is deleted and the done channel stays open. *)
ReleaseWithoutClose(p) ==
    /\ pc[p] = "release"
    /\ repoOps' = [repoOps EXCEPT ![RepoOf(p)] = NoState]
    /\ resv' = [resv EXCEPT ![p] = NoState]
    /\ Goto(p, "idle")
    /\ call' = [call EXCEPT ![p] = NoCall]
    /\ UNCHANGED <<done, waitCh, locks>>

-----------------------------------------------------------------------------
Init ==
    /\ repoOps = [r \in Repos |-> NoState]
    /\ done = {}
    /\ pc = [p \in Ops |-> "idle"]
    /\ call = [p \in Ops |-> NoCall]
    /\ waitCh = [p \in Ops |-> NoState]
    /\ resv = [p \in Ops |-> NoState]
    /\ locks = [r \in Repos |-> {}]

(* A caller enters RunResticCommand or one of the asynchronous entries. *)
Enter(p) ==
    /\ pc[p] = "idle"
    /\ \E c \in Calls : call' = [call EXCEPT ![p] = c]
    /\ Goto(p, "acquire")
    /\ UNCHANGED <<repoOps, done, waitCh, resv, locks>>

(* repoOps has no entry: install a new object and return the reservation. *)
Acquire(p) ==
    /\ pc[p] = "acquire"
    /\ repoOps[RepoOf(p)] = NoState
    /\ \E s \in States :
        /\ Fresh(s)
        /\ repoOps' = [repoOps EXCEPT ![RepoOf(p)] = s]
        /\ resv' = [resv EXCEPT ![p] = s]
        /\ done' = done \ {s}
    /\ Goto(p, "reserved")
    /\ UNCHANGED <<call, waitCh, locks>>

(* Busy and wait: take the done channel of the active object and block. *)
Block(p) ==
    /\ pc[p] = "acquire"
    /\ repoOps[RepoOf(p)] # NoState
    /\ call[p].kind # "async"
    /\ waitCh' = [waitCh EXCEPT ![p] = repoOps[RepoOf(p)]]
    /\ Goto(p, "blocked")
    /\ UNCHANGED <<repoOps, done, call, resv, locks>>

Leave(p) ==
    /\ Goto(p, "idle")
    /\ call' = [call EXCEPT ![p] = NoCall]

(* Busy and no wait: "repository is busy with ...". *)
Busy(p) ==
    /\ pc[p] = "acquire"
    /\ repoOps[RepoOf(p)] # NoState
    /\ call[p].kind = "async"
    /\ Leave(p)
    /\ UNCHANGED <<repoOps, done, waitCh, resv, locks>>

(* The done channel is closed: compete for the repository again. *)
Wake(p) ==
    /\ pc[p] = "blocked"
    /\ waitCh[p] \in done
    /\ waitCh' = [waitCh EXCEPT ![p] = NoState]
    /\ Goto(p, "acquire")
    /\ UNCHANGED <<repoOps, done, call, resv, locks>>

(* The context of a waiting caller ends. *)
GiveUp(p) ==
    /\ pc[p] = "blocked"
    /\ waitCh' = [waitCh EXCEPT ![p] = NoState]
    /\ Leave(p)
    /\ UNCHANGED <<repoOps, done, resv, locks>>

-----------------------------------------------------------------------------
(* The repository row and the environment of the command are built; either *)
(* may fail, and then the deferred release runs.                           *)
Prepare(p) ==
    /\ pc[p] = "reserved"
    /\ \/ Goto(p, IF call[p].kind = "scheduled" THEN "list" ELSE "start")
       \/ Goto(p, "release")
    /\ UNCHANGED <<repoOps, done, call, waitCh, resv, locks>>

(* One turn of prepareScheduledResticLocks.  The owner of a lock file is   *)
(* known only when restic prints it as JSON: an unreadable listing is      *)
(* treated like the lock of a stranger.                                    *)
ListLocks(p) ==
    /\ pc[p] = "list"
    /\ LET found == locks[RepoOf(p)]
       IN  \/ found = {} /\ Goto(p, "start")
           \/ found \cap (Ops \cup Probes) # {} /\ Goto(p, "tick")
           \/ found # {} /\ Goto(p, "unlock")
           \/ Goto(p, "release")
    /\ UNCHANGED <<repoOps, done, call, waitCh, resv, locks>>

(* The 15 second ticker fires, or the context ends. *)
Tick(p) ==
    /\ pc[p] = "tick"
    /\ Goto(p, "list") \/ Goto(p, "release")
    /\ UNCHANGED <<repoOps, done, call, waitCh, resv, locks>>

(* restic unlock --remove-all removes every lock file, or fails. *)
Unlock(p) ==
    /\ pc[p] = "unlock"
    /\ \/ /\ locks' = [locks EXCEPT ![RepoOf(p)] = {}]
          /\ Goto(p, "list")
       \/ /\ Goto(p, "release")
          /\ UNCHANGED locks
    /\ UNCHANGED <<repoOps, done, call, waitCh, resv>>

(* Executor.Run starts restic, which adds its lock file unless it was told *)
(* not to lock or finds a conflicting lock and fails.                      *)
StartCommand(p) ==
    /\ pc[p] = "start"
    /\ \/ locks' = [locks EXCEPT ![RepoOf(p)] = @ \cup {p}]
       \/ UNCHANGED locks
    /\ Goto(p, "running")
    /\ UNCHANGED <<repoOps, done, call, waitCh, resv>>

(* restic ends.  A killed restic leaves its lock file behind. *)
FinishCommand(p) ==
    /\ pc[p] = "running"
    /\ \/ locks' = [locks EXCEPT ![RepoOf(p)] = @ \ {p}]
       \/ /\ p \in locks[RepoOf(p)]
          /\ locks' = [locks EXCEPT ![RepoOf(p)] = (@ \ {p}) \cup {Dead}]
    /\ Goto(p, "release")
    /\ UNCHANGED <<repoOps, done, call, waitCh, resv>>

(* releaseRepoOperation: nothing happens when the active object is another. *)
Release(p) ==
    /\ pc[p] = "release"
    /\ IF repoOps[RepoOf(p)] = resv[p]
       THEN /\ repoOps' = [repoOps EXCEPT ![RepoOf(p)] = NoState]
            /\ done' = done \cup {resv[p]}
       ELSE UNCHANGED <<repoOps, done>>
    /\ resv' = [resv EXCEPT ![p] = NoState]
    /\ Leave(p)
    /\ UNCHANGED <<waitCh, locks>>

-----------------------------------------------------------------------------
(* Lock files of commands that hold no reservation here: the access probes *)
(* of this instance and restic on other machines.                          *)
OutsiderLocks(o, r) ==
    /\ \A r2 \in Repos : o \notin locks[r2]
    /\ locks' = [locks EXCEPT ![r] = @ \cup {o}]
    /\ UNCHANGED <<repoOps, done, pc, call, waitCh, resv>>

OutsiderUnlocks(o, r) ==
    /\ o \in locks[r]
    /\ locks' = [locks EXCEPT ![r] = @ \ {o}]
    /\ UNCHANGED <<repoOps, done, pc, call, waitCh, resv>>

(* The steps of p that Go's scheduler and a restic that ends must take. *)
Step(p) ==
    \/ Acquire(p) \/ Block(p) \/ Busy(p) \/ Wake(p)
    \/ Prepare(p) \/ ListLocks(p) \/ Tick(p) \/ Unlock(p)
    \/ StartCommand(p) \/ FinishCommand(p) \/ Release(p)

Outside(o, r) == OutsiderLocks(o, r) \/ OutsiderUnlocks(o, r)

Next ==
    \/ \E p \in Ops : Enter(p) \/ Step(p) \/ GiveUp(p)
    \/ \E o \in Probes \cup Hosts, r \in Repos : Outside(o, r)

Spec == Init /\ [][Next]_vars

(* A goroutine inside a call is never left aside for ever, and a probe,    *)
(* which is a restic command, ends.  Nothing is assumed of entering calls, *)
(* of contexts and of other machines.                                      *)
Fairness ==
    /\ \A p \in Ops : WF_vars(Step(p))
    /\ \A o \in Probes, r \in Repos : WF_vars(OutsiderUnlocks(o, r))

FairSpec == Spec /\ Fairness
-----------------------------------------------------------------------------
(* Type invariant; a goroutine has a call, a wait channel and a reservation *)
(* exactly at the program points that need them.                            *)
TypeOK ==
    /\ repoOps \in [Repos -> States \cup {NoState}]
    /\ done \subseteq States
    /\ pc \in [Ops -> Points]
    /\ call \in [Ops -> Calls \cup {NoCall}]
    /\ waitCh \in [Ops -> States \cup {NoState}]
    /\ resv \in [Ops -> States \cup {NoState}]
    /\ locks \in [Repos -> SUBSET Owners]
    /\ \A p \in Ops :
        /\ pc[p] # "idle" => call[p] \in Calls
        /\ waitCh[p] # NoState <=> pc[p] = "blocked"
        /\ resv[p] # NoState <=> pc[p] \in Reserved

(* Two goroutines between acquisition and release never share a repository *)
(* (acquireRepoOperation), whatever their kinds are.                       *)
MutualExclusion ==
    \A p, q \in Ops :
        (p # q /\ pc[p] \in Reserved /\ pc[q] \in Reserved) => RepoOf(p) # RepoOf(q)

(* A goroutine that blocks on a channel is either free to go on, because   *)
(* the channel is closed, or blocks on the object that is the active one   *)
(* of its repository and that a goroutine holds: it never blocks on an     *)
(* object that nobody will close (acquireRepoOperation reads the channel   *)
(* under the mutex and blocks on it after the unlock).                     *)
NoLostWakeup ==
    \A p \in Ops : (pc[p] = "blocked" /\ waitCh[p] \notin done) =>
        /\ repoOps[RepoOf(p)] = waitCh[p]
        /\ \E q \in Ops : resv[q] = waitCh[p] /\ RepoOf(q) = RepoOf(p)

(* An entry of repoOps always has an owner that will remove it: the map    *)
(* never keeps a repository reserved for a goroutine that is gone.         *)
EntryHasOwner ==
    \A r \in Repos : repoOps[r] # NoState =>
        \E p \in Ops : resv[p] = repoOps[r] /\ pc[p] \in Reserved /\ RepoOf(p) = r

(* The restic lock of a running command of this instance is never removed  *)
(* under it: "unlock --remove-all" of a scheduled command only meets locks *)
(* of outsiders and of the dead (prepareScheduledResticLocks runs under    *)
(* the reservation).                                                       *)
RunningKeepsLock ==
    [][\A p \in Ops :
        (pc[p] = "running" /\ p \in locks[RepoOf(p)] /\ pc'[p] = "running")
            => p \in locks'[RepoOf(p)]]_vars

(* Every blocked caller is woken or gives up, provided the lock files of   *)
(* outsiders stop coming back on the repositories (else the preflight loop *)
(* of a scheduled command may hold a repository for ever).                 *)
WaitersWake ==
    <>[][\A o \in Probes \cup Hosts, r \in Repos : ~ OutsiderLocks(o, r)]_locks
        => \A p \in Ops : pc[p] = "blocked" ~> pc[p] # "blocked"

-----------------------------------------------------------------------------
(* The refinement: who holds a repository, and who is asking. *)
Holder(r) ==
    IF \E p \in Ops : pc[p] \in Reserved /\ RepoOf(p) = r
    THEN CHOOSE p \in Ops : pc[p] \in Reserved /\ RepoOf(p) = r
    ELSE NoOp

Mutex == INSTANCE RepoMutex WITH
    holder <- [r \in Repos |-> Holder(r)],
    asking <- {p \in Ops : pc[p] \in {"acquire", "blocked"}}

(* RepoService implements the per-repository mutex. *)
ImplementsMutex == Mutex!Spec
=============================================================================
