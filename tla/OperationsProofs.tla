-------------------------- MODULE OperationsProofs --------------------------
(***************************************************************************)
(* Proofs about Operations for any number of calls and tasks.  The argument *)
(* follows a call through its points: a point tells which kind of call is   *)
(* there (Places); a run between its guard and its clear has its mark, and  *)
(* a mark has its run (MarksSet, OneRunAtATime, MarkOwners); the holder of  *)
(* the repository is the call at a reserved point (HolderReserved); and the *)
(* check row says running only on behalf of a check in progress or of       *)
(* CheckRepoAsync (RunningHasCheck).                                        *)
(***************************************************************************)
EXTENDS Operations, TLAPS

Places ==
    \A p \in Procs :
        /\ pc[p] # "idle" \/ client[p] # "none" => call[p] \in Calls
        /\ pc[p] \in {"pre", "policy", "forget", "post"} => IsTask(p)
        /\ pc[p] = "begin" => ~ IsTask(p)
        /\ pc[p] \in {"guard", "clear"} => Guarded(p)

MarksSet ==
    \A p \in Procs : pc[p] # "idle" /\ Marked(p) =>
        IF IsTask(p) THEN call[p].job \in active ELSE maint = call[p].job

MarkOwners ==
    /\ \A t \in active : \E p \in Procs : pc[p] # "idle" /\ Marked(p) /\ call[p].job = t
    /\ maint # "none" =>
        \E p \in Procs : pc[p] # "idle" /\ Marked(p) /\ ~ IsTask(p) /\ call[p].job = maint

HolderReserved ==
    \A p \in Procs : holder = p <=> pc[p] \in Reserved

(* A check that has written the row, or a client that will. *)
Owes(p) ==
    /\ call[p] \in Calls /\ IsCheck(p)
    /\ pc[p] \notin {"idle", "guard", "clear", "begin"} \/ client[p] # "none"

RunningHasCheck ==
    check = "running" => writer = "announce" \/ \E p \in Procs : Owes(p)

IInv ==
    /\ TypeOK
    /\ Places
    /\ MarksSet
    /\ OneRunAtATime
    /\ MarkOwners
    /\ HolderReserved
    /\ RunningHasCheck
    /\ RefusalIsFinal

-----------------------------------------------------------------------------
(* Before the first call nothing is marked, reserved or waited for. *)
LEMMA InitIInv == Init => IInv
<1> SUFFICES ASSUME Init PROVE IInv
  OBVIOUS
<1>1. TypeOK
  BY DEF Init, TypeOK, Points
<1>2. Places /\ MarksSet /\ OneRunAtATime /\ MarkOwners
  BY DEF Init, Places, MarksSet, OneRunAtATime, MarkOwners
<1>3. HolderReserved /\ RunningHasCheck /\ RefusalIsFinal
  BY NoProcAssumption
     DEF Init, HolderReserved, RunningHasCheck, RefusalIsFinal, Reserved
<1> QED BY <1>1, <1>2, <1>3 DEF IInv

(* A call is a record of its two fields; only tasks and maintenance are     *)
(* guarded, and a maintenance job is a check or a prune.                    *)
LEMMA CallsHaveJobs ==
    ASSUME NEW c \in Calls
    PROVE  /\ c.job \in Jobs /\ c.how \in {"wait", "cron", "async", "queued"}
           /\ c.how = "queued" => c.job = "other"
           /\ c.how = "cron" => c.job # "other"
           /\ c.job = "check" \/ c.job = "prune" => c.job \notin Tasks
           /\ c.job \notin Tasks => c.job \in {"check", "prune", "other"}
BY TasksAssumption DEF Calls, Jobs

(* Every step preserves the type invariant. *)
LEMMA TypeStep == TypeOK /\ Places /\ [Next]_vars => TypeOK'
<1> SUFFICES ASSUME TypeOK, Places, [Next]_vars PROVE TypeOK'
  OBVIOUS
<1> USE DEF TypeOK, Goto, Client, Result, WriteCheck, SendStartErr, guards, rowVars
<1>p. Points = {"idle", "guard", "pre", "begin", "acquire", "after", "policy", "post",
                "clear", "prepare", "running", "forget"}
  BY DEF Points, Reserved
<1>1. ASSUME NEW p \in Procs, NewCall(p) PROVE TypeOK'
  <2>1. PICK c \in Calls : Begin(p, c)
    BY <1>1 DEF NewCall, Request, Fire
  <2>2. FirstPoint(c) \in Points
    BY <1>p DEF FirstPoint
  <2> QED BY <2>1, <2>2 DEF Begin
<1>2. ASSUME NEW p \in Procs, GuardPasses(p) PROVE TypeOK'
  BY <1>2, <1>p, CallsHaveJobs DEF GuardPasses, IsTask, Places, Guarded, Jobs
<1>3. ASSUME NEW p \in Procs, GuardRefuses(p) \/ Rejected(p) PROVE TypeOK'
  BY <1>3, <1>p DEF GuardRefuses, Rejected, Leave, Ends
<1>4. ASSUME NEW p \in Procs, PreHooks(p) \/ BeginMaintenance(p) PROVE TypeOK'
  BY <1>4, <1>p DEF PreHooks, BeginMaintenance
<1>5. ASSUME NEW p \in Procs, Acquire(p) \/ Busy(p) \/ GiveUp(p) PROVE TypeOK'
  BY <1>5, <1>p DEF Acquire, Busy, GiveUp
<1>6. ASSUME NEW p \in Procs, NotStarted(p) \/ CommandStarts(p) \/ CommandEnds(p)
      PROVE TypeOK'
  BY <1>6, <1>p DEF NotStarted, CommandStarts, CommandEnds
<1>7. ASSUME NEW p \in Procs, After(p) PROVE TypeOK'
  BY <1>7, <1>p DEF After, Ends, Leave
<1>8. ASSUME NEW p \in Procs, FinishTaskRun(p) PROVE TypeOK'
  BY <1>8, <1>p DEF FinishTaskRun
<1>9. ASSUME NEW p \in Procs, ForgetPolicy(p) \/ ForgetEnds(p) \/ PostHooks(p)
      PROVE TypeOK'
  BY <1>9, <1>p DEF ForgetPolicy, ForgetEnds, PostHooks
<1>10. ASSUME NEW p \in Procs, Clear(p) PROVE TypeOK'
  BY <1>10, <1>p DEF Clear, Leave
<1>11. ASSUME NEW p \in Procs, ClientStep(p) PROVE TypeOK'
  BY <1>11, <1>p DEF ClientStep, Timeout, Answered
<1>12. CASE UNCHANGED vars
  BY <1>12 DEF vars
<1> QED BY <1>1, <1>2, <1>3, <1>4, <1>5, <1>6, <1>7, <1>8, <1>9, <1>10, <1>11, <1>12
        DEF Next, WorkerStep

(* A step of one call does not touch what belongs to another. *)
Step(p) == NewCall(p) \/ WorkerStep(p) \/ GiveUp(p) \/ ClientStep(p)

LEMMA OthersStay ==
    ASSUME TypeOK, NEW p \in Procs, Step(p), NEW q \in Procs, q # p
    PROVE  pc'[q] = pc[q] /\ call'[q] = call[q] /\ client'[q] = client[q] /\ res'[q] = res[q]
<1> USE DEF TypeOK, Goto, Client, Result, SendStartErr
<1>1. CASE NewCall(p)
  BY <1>1 DEF NewCall, Request, Fire, Begin
<1>2. CASE GuardPasses(p) \/ GuardRefuses(p) \/ Rejected(p)
  BY <1>2 DEF GuardPasses, GuardRefuses, Rejected, Leave, Ends
<1>3. CASE PreHooks(p) \/ BeginMaintenance(p) \/ Acquire(p) \/ Busy(p) \/ GiveUp(p)
  BY <1>3 DEF PreHooks, BeginMaintenance, Acquire, Busy, GiveUp
<1>4. CASE NotStarted(p) \/ CommandStarts(p) \/ CommandEnds(p)
  BY <1>4 DEF NotStarted, CommandStarts, CommandEnds
<1>5. CASE After(p) \/ FinishTaskRun(p)
  BY <1>5 DEF After, Leave, Ends, FinishTaskRun
<1>6. CASE ForgetPolicy(p) \/ ForgetEnds(p) \/ PostHooks(p) \/ Clear(p)
  BY <1>6 DEF ForgetPolicy, ForgetEnds, PostHooks, Clear, Leave
<1>7. CASE ClientStep(p)
  BY <1>7 DEF ClientStep, Timeout, Answered
<1> QED BY <1>1, <1>2, <1>3, <1>4, <1>5, <1>6, <1>7 DEF Step, WorkerStep

(* What a call's own step makes of its point, its client and its result:    *)
(* the facts about one call are preserved.                                  *)
LEMMA OwnFacts ==
    ASSUME TypeOK, Places, RefusalIsFinal, NEW p \in Procs, Step(p)
    PROVE  /\ pc'[p] # "idle" \/ client'[p] # "none" => call'[p] \in Calls
           /\ pc'[p] \in {"pre", "policy", "forget", "post"} => IsTask(p)'
           /\ pc'[p] = "begin" => ~ IsTask(p)'
           /\ pc'[p] \in {"guard", "clear"} => Guarded(p)'
           /\ client'[p] = "refused" => pc'[p] \in {"idle", "clear"}
<1> USE DEF TypeOK, Places, RefusalIsFinal, Goto, Client, Result,
            SendStartErr, Guarded, IsTask
<1>1. CASE NewCall(p)
  <2>1. PICK c \in Calls : Begin(p, c)
    BY <1>1 DEF NewCall, Request, Fire
  <2>2. /\ c.job \in Tasks \/ c.how = "cron" => FirstPoint(c) = "guard"
        /\ ~ (c.job \in Tasks \/ c.how = "cron") => FirstPoint(c) \in {"begin", "acquire"}
    BY DEF FirstPoint
  <2> QED BY <2>1, <2>2 DEF Begin
<1>2. CASE GuardPasses(p)
  BY <1>2 DEF GuardPasses
<1>3. CASE GuardRefuses(p) \/ Rejected(p)
  BY <1>3 DEF GuardRefuses, Rejected, Leave, Ends
<1>4. CASE PreHooks(p) \/ BeginMaintenance(p)
  BY <1>4 DEF PreHooks, BeginMaintenance
<1>5. CASE Acquire(p) \/ Busy(p) \/ GiveUp(p)
  BY <1>5 DEF Acquire, Busy, GiveUp
<1>6. CASE NotStarted(p) \/ CommandStarts(p) \/ CommandEnds(p)
  BY <1>6 DEF NotStarted, CommandStarts, CommandEnds
<1>7. CASE After(p)
  BY <1>7 DEF After, Leave, Ends
<1>8. CASE FinishTaskRun(p)
  BY <1>8 DEF FinishTaskRun
<1>9. CASE ForgetPolicy(p) \/ ForgetEnds(p) \/ PostHooks(p)
  BY <1>9 DEF ForgetPolicy, ForgetEnds, PostHooks
<1>10. CASE Clear(p)
  BY <1>10 DEF Clear, Leave
<1>11. CASE ClientStep(p)
  BY <1>11 DEF ClientStep, Timeout, Answered
<1> QED BY <1>1, <1>2, <1>3, <1>4, <1>5, <1>6, <1>7, <1>8, <1>9, <1>10, <1>11
        DEF Step, WorkerStep

(* So they hold of every call after every step. *)
LEMMA FactsStep ==
    IInv /\ [Next]_vars => Places' /\ RefusalIsFinal'
<1> SUFFICES ASSUME IInv, [Next]_vars
             PROVE  Places' /\ RefusalIsFinal'
  OBVIOUS
<1>1. ASSUME NEW p \in Procs, Step(p)
      PROVE  Places' /\ RefusalIsFinal'
  <2>1. \A q \in Procs : q # p =>
          pc'[q] = pc[q] /\ call'[q] = call[q] /\ client'[q] = client[q] /\ res'[q] = res[q]
    BY <1>1, OthersStay DEF IInv
  <2> QED BY <1>1, <2>1, OwnFacts
          DEF IInv, Places, RefusalIsFinal, IsTask, Guarded
<1>2. CASE UNCHANGED vars
  BY <1>2 DEF vars, IInv, Places, RefusalIsFinal, IsTask, Guarded
<1> QED BY <1>1, <1>2 DEF Next, Step

-----------------------------------------------------------------------------
(* Between its guard and its clear a run keeps its mark, and nothing else   *)
(* touches the marks.                                                       *)
Run(p) == pc[p] # "idle" /\ Marked(p)

LEMMA MarksFrame ==
    ASSUME TypeOK, Places, NEW p \in Procs, Step(p), ~ GuardPasses(p), ~ Clear(p)
    PROVE  /\ UNCHANGED <<active, maint>>
           /\ Run(p)' <=> Run(p)
           /\ Run(p) => call'[p] = call[p]
<1> USE DEF TypeOK, Places, Goto, Client, Result, SendStartErr, Guarded, IsTask, Run, Marked,
            guards
<1>1. CASE NewCall(p)
  <2>1. PICK c \in Calls : Begin(p, c)
    BY <1>1 DEF NewCall, Request, Fire
  <2>2. (c.job \in Tasks \/ c.how = "cron") <=> FirstPoint(c) = "guard"
    BY DEF FirstPoint
  <2> QED BY <2>1, <2>2 DEF Begin, Idle
<1>2. CASE GuardRefuses(p) \/ Rejected(p)
  BY <1>2 DEF GuardRefuses, Rejected, Leave, Ends
<1>3. CASE PreHooks(p) \/ BeginMaintenance(p) \/ Acquire(p) \/ GiveUp(p)
  BY <1>3 DEF PreHooks, BeginMaintenance, Acquire, GiveUp
<1>4. CASE Busy(p)
  BY <1>4 DEF Busy, Async
<1>5. CASE NotStarted(p) \/ CommandStarts(p) \/ CommandEnds(p)
  BY <1>5 DEF NotStarted, CommandStarts, CommandEnds
<1>6. CASE After(p)
  BY <1>6 DEF After, Leave, Ends
<1>7. CASE FinishTaskRun(p) \/ ForgetPolicy(p) \/ ForgetEnds(p) \/ PostHooks(p)
  BY <1>7 DEF FinishTaskRun, ForgetPolicy, ForgetEnds, PostHooks
<1>8. CASE ClientStep(p)
  BY <1>8 DEF ClientStep, Timeout, Answered
<1> QED BY <1>1, <1>2, <1>3, <1>4, <1>5, <1>6, <1>7, <1>8 DEF Step, WorkerStep

(* A mark is set for a run that found none, and cleared by the run it       *)
(* belongs to (markTaskActive, startMaintenance and their clears).          *)
LEMMA MarksStep ==
    IInv /\ [Next]_vars => MarksSet' /\ OneRunAtATime' /\ MarkOwners'
<1> SUFFICES ASSUME IInv, [Next]_vars
             PROVE  MarksSet' /\ OneRunAtATime' /\ MarkOwners'
  OBVIOUS
<1> USE DEF Run
<1>0. TypeOK /\ Places /\ MarksSet /\ OneRunAtATime /\ MarkOwners
  BY DEF IInv
<1>1. ASSUME NEW p \in Procs, Step(p) PROVE MarksSet' /\ OneRunAtATime' /\ MarkOwners'
  <2>o. \A q \in Procs : q # p => pc'[q] = pc[q] /\ call'[q] = call[q]
    BY <1>0, <1>1, OthersStay
  <2>r. \A q \in Procs : q # p => (Run(q)' <=> Run(q))
    BY <2>o DEF Marked, Guarded, IsTask
  <2>1. CASE ~ GuardPasses(p) /\ ~ Clear(p)
    <3>1. /\ UNCHANGED <<active, maint>>
          /\ \A q \in Procs : (Run(q)' <=> Run(q)) /\ (Run(q) => call'[q] = call[q])
      BY <1>0, <1>1, <2>1, <2>o, <2>r, MarksFrame
    <3>2. MarksSet'
      BY <1>0, <3>1 DEF MarksSet, IsTask
    <3>3. OneRunAtATime'
      BY <1>0, <3>1 DEF OneRunAtATime, IsTask
    <3>4. MarkOwners'
      BY <1>0, <3>1 DEF MarkOwners, IsTask
    <3> QED BY <3>2, <3>3, <3>4
  <2>2. CASE GuardPasses(p)
    <3>1. /\ pc[p] = "guard" /\ pc'[p] \in {"pre", "begin"} /\ call' = call
          /\ call[p] \in Calls /\ Guarded(p)
      BY <1>0, <2>2 DEF GuardPasses, Goto, TypeOK, Places
    <3>2. Run(p)' /\ ~ Run(p)
      BY <3>1 DEF Marked, Guarded, IsTask
    <3>3. CASE IsTask(p)
      <4>1. call[p].job \notin active /\ active' = active \cup {call[p].job} /\ maint' = maint
        BY <2>2, <3>3 DEF GuardPasses
      <4>2. MarksSet'
        BY <1>0, <2>r, <3>1, <3>3, <4>1 DEF MarksSet, IsTask
      <4>3. OneRunAtATime'
        BY <1>0, <2>r, <3>1, <3>3, <4>1 DEF OneRunAtATime, MarksSet, IsTask
      <4>4. MarkOwners'
        BY <1>0, <2>r, <3>1, <3>2, <3>3, <4>1 DEF MarkOwners, IsTask
      <4> QED BY <4>2, <4>3, <4>4
    <3>4. CASE ~ IsTask(p)
      <4>1. maint = "none" /\ maint' = call[p].job /\ active' = active
        BY <2>2, <3>4 DEF GuardPasses
      <4>2. call[p].job \in {"check", "prune"}
        BY <3>1, <3>4, CallsHaveJobs DEF Guarded, IsTask
      <4>3. \A q \in Procs : Run(q) => IsTask(q)
        <5> SUFFICES ASSUME NEW q \in Procs, Run(q), ~ IsTask(q) PROVE FALSE
          OBVIOUS
        <5>1. call[q] \in Calls /\ maint = call[q].job
          BY <1>0 DEF MarksSet, Places
        <5>2. call[q].job \in {"check", "prune"}
          BY <5>1, CallsHaveJobs DEF IsTask, Marked, Guarded
        <5> QED BY <4>1, <5>1, <5>2
      <4>4. MarksSet'
        BY <1>0, <2>r, <3>1, <3>4, <4>1, <4>3 DEF MarksSet, IsTask
      <4>5. OneRunAtATime'
        BY <1>0, <2>r, <3>1, <3>4, <4>1, <4>3 DEF OneRunAtATime, IsTask
      <4>6. MarkOwners'
        BY <1>0, <2>r, <3>1, <3>2, <3>4, <4>1 DEF MarkOwners, IsTask
      <4> QED BY <4>4, <4>5, <4>6
    <3> QED BY <3>3, <3>4
  <2>3. CASE Clear(p)
    <3>1. pc[p] = "clear" /\ pc'[p] = "idle" /\ Guarded(p)
      BY <1>0, <2>3 DEF Clear, Leave, Goto, TypeOK, Places
    <3>2. Run(p) /\ ~ Run(p)'
      BY <3>1 DEF Marked
    <3>3. CASE IsTask(p)
      <4>1. active' = active \ {call[p].job} /\ maint' = maint
        BY <2>3, <3>3 DEF Clear
      <4>2. MarksSet'
        BY <1>0, <2>o, <2>r, <3>1, <3>2, <3>3, <4>1 DEF MarksSet, OneRunAtATime, IsTask
      <4>3. OneRunAtATime'
        BY <1>0, <2>o, <2>r, <3>1, <3>2 DEF OneRunAtATime, IsTask
      <4>4. MarkOwners'
        BY <1>0, <2>o, <2>r, <3>1, <3>2, <3>3, <4>1 DEF MarkOwners, IsTask
      <4> QED BY <4>2, <4>3, <4>4
    <3>4. CASE ~ IsTask(p)
      <4>1. maint' = "none" /\ active' = active
        BY <2>3, <3>4 DEF Clear
      <4>2. MarksSet'
        BY <1>0, <2>o, <2>r, <3>1, <3>2, <3>4, <4>1 DEF MarksSet, OneRunAtATime, IsTask
      <4>3. OneRunAtATime'
        BY <1>0, <2>o, <2>r, <3>1, <3>2 DEF OneRunAtATime, IsTask
      <4>4. MarkOwners'
        BY <1>0, <2>o, <2>r, <3>1, <3>2, <3>4, <4>1 DEF MarkOwners, IsTask, TypeOK
      <4> QED BY <4>2, <4>3, <4>4
    <3> QED BY <3>3, <3>4
  <2> QED BY <2>1, <2>2, <2>3
<1>2. CASE UNCHANGED vars
  BY <1>0, <1>2 DEF vars, guards, MarksSet, OneRunAtATime, MarkOwners, Marked, Guarded, IsTask
<1> QED BY <1>1, <1>2 DEF Next, Step

-----------------------------------------------------------------------------
(* What a step does to the reservation: it takes a free one, gives back its *)
(* own, or leaves it and stays on its side of it.                           *)
Takes(p)   == Acquire(p) \/ ForgetPolicy(p)
Returns(p) == NotStarted(p) \/ CommandEnds(p) \/ ForgetEnds(p)

LEMMA HolderFrame ==
    ASSUME TypeOK, NEW p \in Procs, Step(p), ~ Takes(p), ~ Returns(p)
    PROVE  /\ holder' = holder
           /\ pc'[p] \in Reserved <=> pc[p] \in Reserved
<1> USE DEF TypeOK, Goto, Reserved, Takes, Returns
<1>1. CASE NewCall(p)
  <2>1. PICK c \in Calls : Begin(p, c)
    BY <1>1 DEF NewCall, Request, Fire
  <2>2. FirstPoint(c) \in {"guard", "begin", "acquire"}
    BY DEF FirstPoint
  <2> QED BY <2>1, <2>2 DEF Begin, Idle
<1>2. CASE GuardPasses(p) \/ GuardRefuses(p) \/ Rejected(p)
  BY <1>2 DEF GuardPasses, GuardRefuses, Rejected, Leave, Ends
<1>3. CASE PreHooks(p) \/ BeginMaintenance(p) \/ Busy(p) \/ GiveUp(p)
  BY <1>3 DEF PreHooks, BeginMaintenance, Busy, GiveUp
<1>4. CASE CommandStarts(p) \/ After(p) \/ FinishTaskRun(p)
  BY <1>4 DEF CommandStarts, After, Leave, Ends, FinishTaskRun
<1>5. CASE PostHooks(p) \/ Clear(p)
  BY <1>5 DEF PostHooks, Clear, Leave
<1>6. CASE ClientStep(p)
  BY <1>6 DEF ClientStep, Timeout, Answered
<1> QED BY <1>1, <1>2, <1>3, <1>4, <1>5, <1>6 DEF Step, WorkerStep

(* The holder is the call at a reserved point, and only it. *)
LEMMA HolderStep == IInv /\ [Next]_vars => HolderReserved'
<1> SUFFICES ASSUME IInv, [Next]_vars PROVE HolderReserved'
  OBVIOUS
<1>0. TypeOK /\ HolderReserved
  BY DEF IInv
<1>1. ASSUME NEW p \in Procs, Step(p) PROVE HolderReserved'
  <2>o. \A q \in Procs : q # p => pc'[q] = pc[q]
    BY <1>0, <1>1, OthersStay
  <2>1. CASE ~ Takes(p) /\ ~ Returns(p)
    BY <1>0, <1>1, <2>1, <2>o, HolderFrame DEF HolderReserved
  <2>2. CASE Takes(p)
    <3>1. holder = NoProc /\ holder' = p /\ pc'[p] \in Reserved
      BY <1>0, <2>2 DEF Takes, Acquire, ForgetPolicy, Goto, TypeOK, Reserved
    <3> QED BY <1>0, <2>o, <3>1, NoProcAssumption DEF HolderReserved
  <2>3. CASE Returns(p)
    <3>1. holder' = NoProc /\ pc[p] \in Reserved /\ pc'[p] \notin Reserved
      BY <1>0, <2>3 DEF Returns, NotStarted, CommandEnds, ForgetEnds, Goto, TypeOK, Reserved
    <3> QED BY <1>0, <2>o, <3>1, NoProcAssumption DEF HolderReserved
  <2> QED BY <2>1, <2>2, <2>3
<1>2. CASE UNCHANGED vars
  BY <1>0, <1>2 DEF vars, HolderReserved
<1> QED BY <1>1, <1>2 DEF Next, Step

-----------------------------------------------------------------------------
(* A step that leaves the row as it is leaves a check in progress what it   *)
(* is, and every other step writes the row.                                 *)
LEMMA CheckFrame ==
    ASSUME TypeOK, Places, NEW p \in Procs, Step(p)
    PROVE  \/ UNCHANGED <<check, writer>> /\ (Owes(p) => Owes(p)')
           \/ check' = "running" /\ Owes(p)'
           \/ check' = "running" /\ writer' = "announce"
           \/ check' # "running"
<1> USE TasksAssumption
        DEF TypeOK, Places, Goto, Client, Result, SendStartErr, WriteCheck, Owes,
            IsTask, IsCheck, Guarded, Async, rowVars, Jobs
<1>1. CASE NewCall(p)
  BY <1>1 DEF NewCall, Request, Fire, Begin, Idle
<1>2. CASE GuardPasses(p)
  BY <1>2 DEF GuardPasses
<1>3. CASE GuardRefuses(p) \/ Rejected(p)
  BY <1>3 DEF GuardRefuses, Rejected, Leave, Ends
<1>4. CASE PreHooks(p)
  BY <1>4 DEF PreHooks
<1>5. CASE BeginMaintenance(p)
  BY <1>5 DEF BeginMaintenance
<1>6. CASE Acquire(p)
  BY <1>6 DEF Acquire
<1>7. CASE Busy(p)
  BY <1>7 DEF Busy
<1>8. CASE GiveUp(p)
  BY <1>8 DEF GiveUp
<1>9. CASE NotStarted(p) \/ CommandStarts(p) \/ CommandEnds(p)
  BY <1>9 DEF NotStarted, CommandStarts, CommandEnds
<1>10. CASE After(p)
  <2>1. CASE IsCheck(p)
    BY <1>10, <2>1 DEF After
  <2>2. CASE ~ IsCheck(p)
    BY <1>10, <2>2 DEF After
  <2> QED BY <2>1, <2>2
<1>11. CASE FinishTaskRun(p) \/ ForgetPolicy(p) \/ ForgetEnds(p) \/ PostHooks(p)
  BY <1>11 DEF FinishTaskRun, ForgetPolicy, ForgetEnds, PostHooks
<1>12. CASE Clear(p)
  BY <1>12 DEF Clear, Leave
<1>13. CASE ClientStep(p)
  <2>1. CASE Timeout(p)
    BY <2>1 DEF Timeout
  <2>2. CASE Answered(p)
    BY <2>2 DEF Answered
  <2> QED BY <1>13, <2>1, <2>2 DEF ClientStep
<1> QED BY <1>1, <1>2, <1>3, <1>4, <1>5, <1>6, <1>7, <1>8, <1>9, <1>10, <1>11, <1>12,
           <1>13 DEF Step, WorkerStep

(* Who made the row say running still owes it a result, except             *)
(* CheckRepoAsync itself.                                                   *)
LEMMA CheckStep == IInv /\ [Next]_vars => RunningHasCheck'
<1> SUFFICES ASSUME IInv, [Next]_vars PROVE RunningHasCheck'
  OBVIOUS
<1>0. TypeOK /\ Places /\ RunningHasCheck
  BY DEF IInv
<1>1. ASSUME NEW p \in Procs, Step(p) PROVE RunningHasCheck'
  <2>1. \A q \in Procs : q # p => (Owes(q)' <=> Owes(q))
    BY <1>0, <1>1, OthersStay DEF Owes, IsCheck
  <2> QED BY <1>0, <1>1, <2>1, CheckFrame DEF RunningHasCheck
<1>2. CASE UNCHANGED vars
  BY <1>0, <1>2 DEF vars, rowVars, RunningHasCheck, Owes, IsCheck
<1> QED BY <1>1, <1>2 DEF Next, Step

-----------------------------------------------------------------------------
(* The inductive invariant holds in every reachable state. *)
LEMMA InvStep == IInv /\ [Next]_vars => IInv'
BY TypeStep, FactsStep, MarksStep, HolderStep, CheckStep DEF IInv

THEOREM InductiveInvariant == Spec => []IInv
BY InitIInv, InvStep, PTL DEF Spec

(* Type correctness. *)
THEOREM TypeCorrect == Spec => []TypeOK
<1>1. IInv => TypeOK
  BY DEF IInv
<1> QED BY <1>1, InductiveInvariant, PTL

(* For any number of calls and tasks: a task never runs twice at a time,    *)
(* and a scheduled check never beside a scheduled prune (markTaskActive,    *)
(* startMaintenance).                                                       *)
THEOREM OneRun == Spec => []OneRunAtATime
<1>1. IInv => OneRunAtATime
  BY DEF IInv
<1> QED BY <1>1, InductiveInvariant, PTL

(* No path out of a run leaves its mark behind. *)
THEOREM MarksAreOwned == Spec => []MarksHaveRuns
<1>1. IInv => MarksHaveRuns
  BY DEF IInv, MarkOwners, MarksHaveRuns
<1> QED BY <1>1, InductiveInvariant, PTL

(* Once no check is in progress the row says running only when the last     *)
(* statement of CheckRepoAsync wrote it.                                    *)
THEOREM ChecksSettle == Spec => []CheckSettles
<1>1. IInv => CheckSettles
  <2> SUFFICES ASSUME IInv, NEW p \in Procs, Owes(p) PROVE Checking(p)
    BY DEF IInv, CheckSettles, RunningHasCheck
  <2>1. call[p] \in Calls /\ IsCheck(p)
    BY DEF Owes
  <2>2. call[p] # NoCall
    BY <2>1, NoCallAssumption
  <2> QED BY <2>1, <2>2 DEF Owes, Checking
<1> QED BY <1>1, InductiveInvariant, PTL

(* What an asynchronous client is told by its own call is final. *)
THEOREM RefusalsAreFinal == Spec => []RefusalIsFinal
<1>1. IInv => RefusalIsFinal
  BY DEF IInv
<1> QED BY <1>1, InductiveInvariant, PTL

-----------------------------------------------------------------------------
(* The points at which a call asks for the repository. *)
Asking(p) == pc[p] \in {"acquire", "policy"}

(* The calls use their reservations as RepoMutex allows: initial states map *)
(* to initial states,                                                       *)
LEMMA InitImplements == Init => Mutex!Init
BY DEF Init, Mutex!Init

(* and every step maps to a step or a stutter. *)
LEMMA StepImplements == IInv /\ [Next]_vars => [Mutex!Next]_(Mutex!vars)
<1> SUFFICES ASSUME IInv, [Next]_vars PROVE [Mutex!Next]_(Mutex!vars)
  OBVIOUS
<1> DEFINE held == [r \in {"repo"} |-> holder]
           asking == {q \in Procs : Asking(q)}
<1>0. TypeOK /\ HolderReserved
  BY DEF IInv
<1>1. ASSUME NEW p \in Procs, Step(p) PROVE [Mutex!Next]_(Mutex!vars)
  <2>o. \A q \in Procs : q # p => pc'[q] = pc[q]
    BY <1>0, <1>1, OthersStay
  <2>1. CASE Takes(p)
    <3>1. /\ holder = NoProc /\ holder' = p
          /\ Asking(p) /\ ~ Asking(p)'
      BY <1>0, <2>1 DEF Takes, Acquire, ForgetPolicy, Asking, Goto, TypeOK
    <3>2. held' = [held EXCEPT !["repo"] = p] /\ held["repo"] = NoProc
      BY <3>1
    <3>3. p \in asking /\ asking' = asking \ {p}
      BY <2>o, <3>1 DEF Asking
    <3> QED BY <3>2, <3>3 DEF Mutex!Next, Mutex!Grant, Asking
  <2>2. CASE Returns(p)
    <3>1. /\ holder = p /\ holder' = NoProc
          /\ ~ Asking(p) /\ ~ Asking(p)'
      BY <1>0, <2>2 DEF Returns, NotStarted, CommandEnds, ForgetEnds, Asking, Goto, TypeOK,
                        HolderReserved, Reserved
    <3>2. held' = [held EXCEPT !["repo"] = NoProc] /\ held["repo"] = p
      BY <3>1
    <3>3. asking' = asking
      BY <2>o, <3>1 DEF Asking
    <3> QED BY <3>2, <3>3 DEF Mutex!Next, Mutex!Free, Asking
  <2>3. CASE ~ Takes(p) /\ ~ Returns(p)
    <3>1. held' = held
      BY <1>0, <1>1, <2>3, HolderFrame
    <3>2. CASE Asking(p) <=> Asking(p)'
      <4>1. asking' = asking
        BY <2>o, <3>2 DEF Asking
      <4> QED BY <3>1, <4>1 DEF Mutex!vars, Asking
    <3>3. CASE Asking(p) /\ ~ Asking(p)'
      <4>1. p \in asking /\ asking' = asking \ {p}
        BY <2>o, <3>3 DEF Asking
      <4> QED BY <3>1, <4>1 DEF Mutex!Next, Mutex!Refuse, Asking
    <3>4. CASE ~ Asking(p) /\ Asking(p)'
      <4>1. p \notin asking /\ asking' = asking \cup {p}
        BY <2>o, <3>4 DEF Asking
      <4>2. holder # p
        <5>1. pc'[p] \notin Reserved
          BY <3>4 DEF Asking, Reserved
        <5> QED BY <1>0, <1>1, <2>3, <5>1, HolderFrame DEF HolderReserved
      <4>3. \A r \in {"repo"} : held[r] # p
        BY <4>2
      <4> QED BY <3>1, <4>1, <4>3 DEF Mutex!Next, Mutex!Ask, Mutex!Holds, Asking
    <3> QED BY <3>2, <3>3, <3>4
  <2> QED BY <2>1, <2>2, <2>3
<1>2. CASE UNCHANGED vars
  BY <1>2 DEF vars, Mutex!vars
<1> QED BY <1>1, <1>2 DEF Next, Step

(* The run of a task reserves the repository twice, and holds nothing while *)
(* it asks the second time: the callers implement the abstract mutex.       *)
THEOREM CallsShareTheMutex == Spec => ReservationIsMutex
BY InductiveInvariant, InitImplements, StepImplements, PTL
   DEF Spec, ReservationIsMutex, Mutex!Spec
=============================================================================
