------------------------ MODULE RepoOperationProofs ------------------------
(***************************************************************************)
(* Proofs about RepoOperation for any sets of goroutines, repositories and *)
(* reservation objects.  The argument: the object a goroutine holds is the *)
(* active one of its repository (ResvActive) and belongs to it alone       *)
(* (ResvUnique), hence mutual exclusion; a closed channel stays closed     *)
(* until nobody refers to it (Fresh), hence no waiter misses its wakeup    *)
(* (WaitActive); lock files of goroutines belong to running commands       *)
(* (LocksOwned), hence a preflight never meets one.                        *)
(***************************************************************************)
EXTENDS RepoOperation, TLAPS

ResvActive ==
    \A p \in Ops : resv[p] # NoState =>
        repoOps[RepoOf(p)] = resv[p] /\ resv[p] \notin done

ResvUnique ==
    \A p, q \in Ops : (resv[p] # NoState /\ resv[p] = resv[q]) => p = q

WaitActive ==
    \A p \in Ops : (pc[p] = "blocked" /\ waitCh[p] \notin done) =>
        repoOps[RepoOf(p)] = waitCh[p]

LocksOwned ==
    \A r \in Repos : \A p \in Ops : p \in locks[r] =>
        pc[p] = "running" /\ RepoOf(p) = r

IInv ==
    /\ TypeOK
    /\ ResvActive
    /\ ResvUnique
    /\ EntryHasOwner
    /\ WaitActive
    /\ LocksOwned

-----------------------------------------------------------------------------
(* The first state satisfies the inductive invariant: no reservation, no   *)
(* waiter and no lock file exist before the first call.                    *)
LEMMA InitIInv == Init => IInv
BY NoStateAssumption
   DEF Init, IInv, TypeOK, ResvActive, ResvUnique, EntryHasOwner, WaitActive,
       LocksOwned, Points, Reserved, Owners

(* Every step preserves the type invariant, one case per step of the code. *)
LEMMA TypeStep == TypeOK /\ [Next]_vars => TypeOK'
<1> SUFFICES ASSUME TypeOK, [Next]_vars PROVE TypeOK'
  OBVIOUS
<1> USE NoStateAssumption DEF TypeOK, Goto, Reserved, Points
<1>1. ASSUME NEW p \in Ops, Enter(p) PROVE TypeOK'
  BY <1>1 DEF Enter
<1>2. ASSUME NEW p \in Ops, Acquire(p) PROVE TypeOK'
  BY <1>2 DEF Acquire, RepoOf, Calls
<1>3. ASSUME NEW p \in Ops, Block(p) PROVE TypeOK'
  BY <1>3 DEF Block, RepoOf, Calls
<1>4. ASSUME NEW p \in Ops, Busy(p) PROVE TypeOK'
  BY <1>4 DEF Busy, Leave
<1>5. ASSUME NEW p \in Ops, Wake(p) PROVE TypeOK'
  BY <1>5 DEF Wake
<1>6. ASSUME NEW p \in Ops, GiveUp(p) PROVE TypeOK'
  BY <1>6 DEF GiveUp, Leave
<1>7. ASSUME NEW p \in Ops, Prepare(p) PROVE TypeOK'
  BY <1>7 DEF Prepare
<1>8. ASSUME NEW p \in Ops, ListLocks(p) PROVE TypeOK'
  BY <1>8 DEF ListLocks
<1>9. ASSUME NEW p \in Ops, Tick(p) PROVE TypeOK'
  BY <1>9 DEF Tick
<1>10. ASSUME NEW p \in Ops, Unlock(p) PROVE TypeOK'
  BY <1>10 DEF Unlock
<1>11. ASSUME NEW p \in Ops, StartCommand(p) PROVE TypeOK'
  BY <1>11 DEF StartCommand, Owners
<1>12. ASSUME NEW p \in Ops, FinishCommand(p) PROVE TypeOK'
  BY <1>12 DEF FinishCommand, Owners
<1>13. ASSUME NEW p \in Ops, Release(p) PROVE TypeOK'
  BY <1>13 DEF Release, Leave
<1>14. ASSUME NEW o \in Probes \cup Hosts, NEW r \in Repos, Outside(o, r) PROVE TypeOK'
  BY <1>14 DEF Outside, OutsiderLocks, OutsiderUnlocks, Owners
<1>15. CASE UNCHANGED vars
  BY <1>15 DEF vars
<1> QED
  BY <1>1, <1>2, <1>3, <1>4, <1>5, <1>6, <1>7, <1>8, <1>9, <1>10, <1>11, <1>12,
     <1>13, <1>14, <1>15 DEF Next, Step

(* The steps of the command itself, between Prepare and the release, and    *)
(* those of outsiders leave the reservations alone and move a goroutine     *)
(* only from one reserved point to another.                                 *)
CommandStep(p) ==
    \/ Prepare(p) \/ ListLocks(p) \/ Tick(p) \/ Unlock(p)
    \/ StartCommand(p) \/ FinishCommand(p)

LEMMA CommandStepFrame ==
    ASSUME TypeOK, NEW p \in Ops, CommandStep(p)
    PROVE  /\ UNCHANGED <<repoOps, done, call, waitCh, resv>>
           /\ pc[p] \in Reserved /\ pc'[p] \in Reserved
           /\ \A q \in Ops : q # p => pc'[q] = pc[q]
BY DEF CommandStep, Prepare, ListLocks, Tick, Unlock, StartCommand,
       FinishCommand, Goto, TypeOK, Reserved, Points

(* Reservations: the object held is the active one, open, and held by one   *)
(* goroutine only; every active object is held (acquireRepoOperation,       *)
(* releaseRepoOperation).                                                   *)
LEMMA ReservationStep ==
    IInv /\ [Next]_vars => ResvActive' /\ ResvUnique' /\ EntryHasOwner' /\ WaitActive'
<1> SUFFICES ASSUME IInv, [Next]_vars
             PROVE  ResvActive' /\ ResvUnique' /\ EntryHasOwner' /\ WaitActive'
  OBVIOUS
<1> USE NoStateAssumption DEF IInv, TypeOK, ResvActive, ResvUnique, EntryHasOwner,
                              WaitActive, RepoOf, Goto
<1>1. ASSUME NEW p \in Ops, Enter(p)
      PROVE  ResvActive' /\ ResvUnique' /\ EntryHasOwner' /\ WaitActive'
  BY <1>1 DEF Enter, Reserved
<1>2. ASSUME NEW p \in Ops, Acquire(p)
      PROVE  ResvActive' /\ ResvUnique' /\ EntryHasOwner' /\ WaitActive'
  <2>1. PICK s \in States :
          /\ Fresh(s)
          /\ repoOps' = [repoOps EXCEPT ![call[p].repo] = s]
          /\ resv' = [resv EXCEPT ![p] = s]
          /\ done' = done \ {s}
    BY <1>2 DEF Acquire
  <2>2. call[p].repo \in Repos /\ repoOps[call[p].repo] = NoState
    BY <1>2 DEF Acquire, Calls
  <2>3. pc[p] = "acquire" /\ pc' = [pc EXCEPT ![p] = "reserved"]
        /\ UNCHANGED <<call, waitCh>>
    BY <1>2 DEF Acquire
  <2>4. ResvActive'
    BY <2>1, <2>2, <2>3 DEF Fresh
  <2>5. ResvUnique'
    BY <2>1, <2>2, <2>3 DEF Fresh
  <2>6. EntryHasOwner'
    BY <2>1, <2>2, <2>3 DEF Fresh, Reserved
  <2>7. WaitActive'
    BY <2>1, <2>2, <2>3 DEF Fresh
  <2> QED BY <2>4, <2>5, <2>6, <2>7
<1>3. ASSUME NEW p \in Ops, Block(p)
      PROVE  ResvActive' /\ ResvUnique' /\ EntryHasOwner' /\ WaitActive'
  BY <1>3 DEF Block, Reserved
<1>4. ASSUME NEW p \in Ops, Busy(p)
      PROVE  ResvActive' /\ ResvUnique' /\ EntryHasOwner' /\ WaitActive'
  BY <1>4 DEF Busy, Leave, Reserved
<1>5. ASSUME NEW p \in Ops, Wake(p)
      PROVE  ResvActive' /\ ResvUnique' /\ EntryHasOwner' /\ WaitActive'
  BY <1>5 DEF Wake, Reserved
<1>6. ASSUME NEW p \in Ops, GiveUp(p)
      PROVE  ResvActive' /\ ResvUnique' /\ EntryHasOwner' /\ WaitActive'
  BY <1>6 DEF GiveUp, Leave, Reserved
<1>7. ASSUME NEW p \in Ops, CommandStep(p)
      PROVE  ResvActive' /\ ResvUnique' /\ EntryHasOwner' /\ WaitActive'
  BY <1>7, CommandStepFrame DEF Reserved
<1>8. ASSUME NEW p \in Ops, Release(p)
      PROVE  ResvActive' /\ ResvUnique' /\ EntryHasOwner' /\ WaitActive'
  <2>1. /\ pc[p] = "release" /\ resv[p] \in States
        /\ call[p].repo \in Repos /\ repoOps[call[p].repo] = resv[p]
    BY <1>8 DEF Release, Reserved, Calls
  <2>2. /\ repoOps' = [repoOps EXCEPT ![call[p].repo] = NoState]
        /\ done' = done \cup {resv[p]}
        /\ resv' = [resv EXCEPT ![p] = NoState]
        /\ pc' = [pc EXCEPT ![p] = "idle"]
        /\ call' = [call EXCEPT ![p] = NoCall]
        /\ waitCh' = waitCh
    BY <1>8, <2>1 DEF Release, Leave
  <2>3. ResvActive'
    BY <2>1, <2>2
  <2>4. ResvUnique'
    BY <2>1, <2>2
  <2>5. EntryHasOwner'
    BY <2>1, <2>2 DEF Reserved
  <2>6. WaitActive'
    BY <2>1, <2>2
  <2> QED BY <2>3, <2>4, <2>5, <2>6
<1>9. ASSUME NEW o \in Probes \cup Hosts, NEW r \in Repos, Outside(o, r)
      PROVE  ResvActive' /\ ResvUnique' /\ EntryHasOwner' /\ WaitActive'
  BY <1>9 DEF Outside, OutsiderLocks, OutsiderUnlocks
<1>10. CASE UNCHANGED vars
  BY <1>10 DEF vars
<1> QED
  BY <1>1, <1>2, <1>3, <1>4, <1>5, <1>6, <1>7, <1>8, <1>9, <1>10
     DEF Next, Step, CommandStep

-----------------------------------------------------------------------------
(* Two goroutines at reserved points of one repository are one goroutine.  *)
LEMMA Exclusion == TypeOK /\ ResvActive /\ ResvUnique => MutualExclusion
<1> SUFFICES ASSUME TypeOK, ResvActive, ResvUnique,
                    NEW p \in Ops, NEW q \in Ops, p # q,
                    pc[p] \in Reserved, pc[q] \in Reserved, RepoOf(p) = RepoOf(q)
             PROVE  FALSE
  BY DEF MutualExclusion
<1>1. resv[p] # NoState /\ resv[q] # NoState
  BY DEF TypeOK
<1>2. resv[p] = resv[q]
  BY <1>1 DEF ResvActive
<1> QED BY <1>1, <1>2 DEF ResvUnique

(* A lock file named after a goroutine belongs to its running command: only *)
(* StartCommand adds one and FinishCommand takes it away with it.           *)
LEMMA LocksStep == IInv /\ [Next]_vars => LocksOwned'
<1> SUFFICES ASSUME IInv, [Next]_vars PROVE LocksOwned'
  OBVIOUS
<1> USE OwnersAssumption DEF IInv, TypeOK, LocksOwned, RepoOf, Goto
<1>1. ASSUME NEW p \in Ops, Enter(p) PROVE LocksOwned'
  BY <1>1 DEF Enter
<1>2. ASSUME NEW p \in Ops, Acquire(p) PROVE LocksOwned'
  BY <1>2 DEF Acquire
<1>3. ASSUME NEW p \in Ops, Block(p) PROVE LocksOwned'
  BY <1>3 DEF Block
<1>4. ASSUME NEW p \in Ops, Busy(p) \/ GiveUp(p) \/ Wake(p) PROVE LocksOwned'
  BY <1>4 DEF Busy, GiveUp, Wake, Leave
<1>5. ASSUME NEW p \in Ops, Prepare(p) \/ ListLocks(p) \/ Tick(p) PROVE LocksOwned'
  BY <1>5 DEF Prepare, ListLocks, Tick
<1>6. ASSUME NEW p \in Ops, Unlock(p) PROVE LocksOwned'
  BY <1>6 DEF Unlock
<1>7. ASSUME NEW p \in Ops, StartCommand(p) PROVE LocksOwned'
  BY <1>7 DEF StartCommand
<1>8. ASSUME NEW p \in Ops, FinishCommand(p) PROVE LocksOwned'
  BY <1>8 DEF FinishCommand
<1>9. ASSUME NEW p \in Ops, Release(p) PROVE LocksOwned'
  BY <1>9 DEF Release, Leave
<1>10. ASSUME NEW o \in Probes \cup Hosts, NEW r \in Repos, Outside(o, r) PROVE LocksOwned'
  BY <1>10 DEF Outside, OutsiderLocks, OutsiderUnlocks
<1>11. CASE UNCHANGED vars
  BY <1>11 DEF vars
<1> QED
  BY <1>1, <1>2, <1>3, <1>4, <1>5, <1>6, <1>7, <1>8, <1>9, <1>10, <1>11
     DEF Next, Step

(* The inductive invariant holds in every reachable state. *)
THEOREM InductiveInvariant == Spec => []IInv
<1>1. IInv /\ [Next]_vars => IInv'
  BY TypeStep, ReservationStep, LocksStep DEF IInv
<1> QED BY InitIInv, <1>1, PTL DEF Spec

(* The type invariant, with a call, a wait channel and a reservation at     *)
(* exactly the program points that need them.                               *)
THEOREM TypeCorrect == Spec => []TypeOK
BY InductiveInvariant, PTL DEF IInv

(* Commands of one repository never overlap, for any number of goroutines,  *)
(* repositories and kinds of calls (acquireRepoOperation).                  *)
THEOREM Mutual == Spec => []MutualExclusion
<1>1. IInv => MutualExclusion
  BY Exclusion DEF IInv
<1> QED BY InductiveInvariant, <1>1, PTL

(* A blocked goroutine always has somebody who will close its channel.      *)
THEOREM NoWaiterIsLost == Spec => []NoLostWakeup
<1>1. IInv => NoLostWakeup
  BY DEF IInv, NoLostWakeup, WaitActive, EntryHasOwner, TypeOK, RepoOf, Calls
<1> QED BY InductiveInvariant, <1>1, PTL

(* The map of active operations never keeps an entry without an owner.      *)
THEOREM EntriesHaveOwners == Spec => []EntryHasOwner
BY InductiveInvariant, PTL DEF IInv

-----------------------------------------------------------------------------
(* While a command runs, no step of anybody removes its restic lock file:   *)
(* the step would have to be the unlock of a preflight on the same          *)
(* repository, and that goroutine holds the reservation.                    *)
LEMMA KeepsLockStep ==
    ASSUME IInv, [Next]_vars, NEW p \in Ops,
           pc[p] = "running", p \in locks[RepoOf(p)], pc'[p] = "running"
    PROVE  p \in locks'[RepoOf(p)]
<1> USE OwnersAssumption DEF IInv, TypeOK, Goto
<1>1. RepoOf(p) \in Repos
  BY DEF RepoOf, Calls
<1>2. ASSUME NEW q \in Ops, Unlock(q) PROVE p \in locks'[RepoOf(p)]
  <2>1. pc[q] = "unlock" /\ q # p
    BY <1>2 DEF Unlock
  <2>2. RepoOf(q) # RepoOf(p)
    BY <2>1, Exclusion DEF MutualExclusion, Reserved
  <2> QED BY <1>1, <1>2, <2>2 DEF Unlock
<1>3. ASSUME NEW q \in Ops, FinishCommand(q) PROVE p \in locks'[RepoOf(p)]
  <2>1. q # p
    BY <1>3 DEF FinishCommand
  <2> QED BY <1>1, <1>3, <2>1 DEF FinishCommand
<1>4. ASSUME NEW q \in Ops, StartCommand(q) PROVE p \in locks'[RepoOf(p)]
  BY <1>1, <1>4 DEF StartCommand
<1>5. ASSUME NEW o \in Probes \cup Hosts, NEW r \in Repos, Outside(o, r)
      PROVE  p \in locks'[RepoOf(p)]
  BY <1>1, <1>5 DEF Outside, OutsiderLocks, OutsiderUnlocks
<1>6. CASE UNCHANGED locks
  BY <1>6
<1> QED
  BY <1>2, <1>3, <1>4, <1>5, <1>6
     DEF Next, Step, Enter, Acquire, Block, Busy, Wake, GiveUp, Prepare, ListLocks,
         Tick, Release, vars

(* The restic lock of a running command survives every preflight of every   *)
(* other command (prepareScheduledResticLocks, unlockRepositoryLocks).      *)
THEOREM RunningCommandsKeepTheirLocks == Spec => RunningKeepsLock
<1> DEFINE Keeps == \A p \in Ops :
        (pc[p] = "running" /\ p \in locks[RepoOf(p)] /\ pc'[p] = "running")
            => p \in locks'[RepoOf(p)]
<1>1. IInv /\ [Next]_vars => [Keeps]_vars
  BY KeepsLockStep
<1> QED BY InductiveInvariant, <1>1, PTL DEF Spec, RunningKeepsLock

-----------------------------------------------------------------------------
(* RepoOperation implements RepoMutex.                                      *)
Occupies(p, r) == pc[p] \in Reserved /\ RepoOf(p) = r

(* The mapped holder of a repository is its occupant, or nobody. *)
HolderIsOccupant ==
    \A r \in Repos :
        /\ Holder(r) \in Ops \cup {NoOp}
        /\ \A p \in Ops : Holder(r) = p <=> Occupies(p, r)

(* Under mutual exclusion the mapped holder is the goroutine between the    *)
(* acquisition and the release, and nobody when there is none.              *)
LEMMA HolderChar == MutualExclusion => HolderIsOccupant
<1> SUFFICES ASSUME MutualExclusion, NEW r \in Repos
             PROVE  /\ Holder(r) \in Ops \cup {NoOp}
                    /\ \A p \in Ops : Holder(r) = p <=> Occupies(p, r)
  BY DEF HolderIsOccupant
<1> USE NoOpAssumption DEF Occupies
<1>1. CASE \E p \in Ops : pc[p] \in Reserved /\ RepoOf(p) = r
  <2>1. Holder(r) \in Ops /\ Occupies(Holder(r), r)
    BY <1>1 DEF Holder
  <2> QED BY <2>1 DEF MutualExclusion
<1>2. CASE ~ \E p \in Ops : pc[p] \in Reserved /\ RepoOf(p) = r
  BY <1>2 DEF Holder
<1> QED BY <1>1, <1>2

(* A step that changes nobody's occupation leaves the mapped holder alone.  *)
LEMMA HolderSame ==
    ASSUME MutualExclusion, MutualExclusion', NEW r \in Repos,
           \A p \in Ops : Occupies(p, r)' <=> Occupies(p, r)
    PROVE  Holder(r)' = Holder(r)
<1>1. HolderIsOccupant'
  BY HolderChar, PTL
<1> QED BY <1>1, HolderChar, NoOpAssumption DEF HolderIsOccupant

(* The initial states map to initial states of the mutex. *)
LEMMA InitImplements == Init => Mutex!Init
BY DEF Init, Mutex!Init, Holder, Reserved

(* Every step of the reservation protocol is a step of the mutex or leaves  *)
(* the mapped state alone.                                                  *)
LEMMA StepImplements == IInv /\ IInv' /\ [Next]_vars => [Mutex!Next]_(Mutex!vars)
<1> SUFFICES ASSUME IInv, IInv', [Next]_vars
             PROVE  [Mutex!Next]_(Mutex!vars)
  OBVIOUS
<1> DEFINE holder == [r \in Repos |-> Holder(r)]
           asking == {q \in Ops : pc[q] \in {"acquire", "blocked"}}
<1>x. MutualExclusion /\ MutualExclusion'
  <2>1. MutualExclusion
    BY Exclusion DEF IInv
  <2>2. (TypeOK /\ ResvActive /\ ResvUnique)' => MutualExclusion'
    BY Exclusion, PTL
  <2> QED BY <2>1, <2>2 DEF IInv
<1>h. HolderIsOccupant /\ HolderIsOccupant'
  BY <1>x, HolderChar, PTL
<1>t. /\ pc \in [Ops -> Points] /\ call \in [Ops -> Calls \cup {NoCall}]
      /\ \A q \in Ops : pc[q] # "idle" => call[q] \in Calls
  BY DEF IInv, TypeOK
<1> USE DEF Goto, Occupies, RepoOf, Reserved, HolderIsOccupant
<1>1. ASSUME NEW p \in Ops, Enter(p) PROVE Mutex!Next
  <2>1. holder' = holder
    BY <1>1, <1>x, <1>t, HolderSame DEF Enter
  <2>2. \A r \in Repos : Holder(r) # p
    BY <1>1, <1>h DEF Enter
  <2>3. p \notin asking /\ asking' = asking \cup {p}
    BY <1>1, <1>t DEF Enter
  <2> QED BY <2>1, <2>2, <2>3 DEF Mutex!Next, Mutex!Ask, Mutex!Holds
<1>2. ASSUME NEW p \in Ops, Acquire(p) PROVE Mutex!Next
  <2>1. PICK r0 \in Repos : r0 = call[p].repo
    BY <1>2, <1>t DEF Acquire, Calls
  <2>2. Holder(r0) = NoOp
    <3>1. \A q \in Ops : ~ Occupies(q, r0)
      BY <1>2, <2>1, NoStateAssumption DEF Acquire, IInv, TypeOK, ResvActive
    <3> QED BY <3>1, <1>h
  <2>3. Holder(r0)' = p
    BY <1>2, <1>h, <1>t, <2>1 DEF Acquire
  <2>4. \A r \in Repos : r # r0 => Holder(r)' = Holder(r)
    BY <1>2, <1>x, <1>t, <2>1, HolderSame DEF Acquire
  <2>5. holder' = [holder EXCEPT ![r0] = p]
    BY <2>3, <2>4
  <2>6. p \in asking /\ asking' = asking \ {p}
    BY <1>2, <1>t DEF Acquire
  <2>7. Mutex!Grant(p, r0)
    BY <2>2, <2>5, <2>6 DEF Mutex!Grant
  <2> QED BY <2>7 DEF Mutex!Next
<1>3. ASSUME NEW p \in Ops, Block(p) \/ Wake(p) PROVE UNCHANGED Mutex!vars
  <2>1. holder' = holder
    BY <1>3, <1>x, <1>t, HolderSame DEF Block, Wake
  <2>2. asking' = asking
    BY <1>3, <1>t DEF Block, Wake
  <2> QED BY <2>1, <2>2 DEF Mutex!vars
<1>4. ASSUME NEW p \in Ops, Busy(p) \/ GiveUp(p) PROVE Mutex!Next
  <2>0. \A q \in Ops : \A r \in Repos : Occupies(q, r)' <=> Occupies(q, r)
    <3>1. /\ pc[p] \notin Reserved /\ pc'[p] \notin Reserved
          /\ \A q \in Ops : q # p => pc'[q] = pc[q] /\ call'[q] = call[q]
      BY <1>4, <1>t DEF Busy, GiveUp, Leave
    <3> QED BY <3>1
  <2>1. holder' = holder
    BY <2>0, <1>x, HolderSame
  <2>2. p \in asking /\ asking' = asking \ {p}
    BY <1>4, <1>t DEF Busy, GiveUp, Leave
  <2> QED BY <2>1, <2>2 DEF Mutex!Next, Mutex!Refuse
<1>5. ASSUME NEW p \in Ops, CommandStep(p) PROVE UNCHANGED Mutex!vars
  <2>1. /\ call' = call /\ pc[p] \in Reserved /\ pc'[p] \in Reserved
        /\ \A q \in Ops : q # p => pc'[q] = pc[q]
    BY <1>5, CommandStepFrame DEF IInv
  <2>2. holder' = holder
    BY <2>1, <1>x, HolderSame
  <2>3. asking' = asking
    BY <2>1
  <2> QED BY <2>2, <2>3 DEF Mutex!vars
<1>6. ASSUME NEW p \in Ops, Release(p) PROVE Mutex!Next
  <2>0. PICK r0 \in Repos : r0 = call[p].repo
    BY <1>6, <1>t DEF Release, Calls
  <2>1. Holder(r0) = p
    BY <1>6, <1>h, <2>0 DEF Release
  <2>2. Holder(r0)' = NoOp
    <3>1. \A q \in Ops : ~ Occupies(q, r0)'
      BY <1>6, <1>x, <1>t, <2>0 DEF Release, Leave, MutualExclusion
    <3> QED BY <3>1, <1>h
  <2>3. \A r \in Repos : r # r0 => Holder(r)' = Holder(r)
    BY <1>6, <1>x, <1>t, <2>0, HolderSame DEF Release, Leave
  <2>4. holder' = [holder EXCEPT ![r0] = NoOp]
    BY <2>2, <2>3
  <2>5. asking' = asking
    BY <1>6, <1>t DEF Release, Leave
  <2> QED BY <2>1, <2>4, <2>5 DEF Mutex!Next, Mutex!Free
<1>7. ASSUME NEW o \in Probes \cup Hosts, NEW r \in Repos, Outside(o, r)
      PROVE  UNCHANGED Mutex!vars
  <2>1. UNCHANGED <<pc, call>>
    BY <1>7 DEF Outside, OutsiderLocks, OutsiderUnlocks
  <2> QED BY <2>1, <1>x, HolderSame DEF Mutex!vars
<1>8. CASE UNCHANGED vars
  BY <1>8, <1>x, HolderSame DEF vars, Mutex!vars
<1> QED
  BY <1>1, <1>2, <1>3, <1>4, <1>5, <1>6, <1>7, <1>8 DEF Next, Step, CommandStep

(* RepoService implements the per-repository mutex for every number of      *)
(* goroutines and repositories.                                             *)
THEOREM Implementation == Spec => ImplementsMutex
<1>1. IInv /\ [Next]_vars => IInv'
  BY TypeStep, ReservationStep, LocksStep DEF IInv
<1> QED BY InductiveInvariant, <1>1, InitImplements, StepImplements, PTL
     DEF Spec, ImplementsMutex, Mutex!Spec
=============================================================================
