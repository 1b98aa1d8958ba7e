----------------------------- MODULE Operations -----------------------------
(***************************************************************************)
(* The calls that run restic on one repository, from the handler or the    *)
(* scheduler down to the reservation: TaskService.RunTask and RunTaskAsync *)
(* with hooks and forget policy, CheckRepo, PruneRepo, their scheduled and *)
(* asynchronous forms (runRepoCommandAsync), the asynchronous snapshot     *)
(* commands (runSnapshotCommandAsync), and the row of domain "check".      *)
(*                                                                         *)
(* A call has a worker, the goroutine that runs the command, and, when it  *)
(* is asynchronous, a client that waits at most five seconds for the       *)
(* started message.  A call waits for the repository in one of four ways:  *)
(*   "wait"    in the request itself, whose context may end;               *)
(*   "cron"    in a goroutine of the cron, whose context never ends;       *)
(*   "async"   not at all: it is refused when the repository is busy;      *)
(*   "queued"  in a goroutine of its own, while the client may give up.    *)
(* Repositories do not share guards or reservations, so there is one here. *)
(***************************************************************************)
CONSTANTS
    Procs,    \* calls that may be in progress, each with its goroutines
    Tasks,    \* backup tasks of the repository
    NoProc,   \* the holder of a free repository
    NoCall    \* not inside a call

ASSUME NoProcAssumption == NoProc \notin Procs
ASSUME TasksAssumption == Tasks \cap {"check", "prune", "other"} = {}

VARIABLES
    holder,   \* whose reservation is the active one (see RepoMutex)
    active,   \* TaskService.activeTasks
    maint,    \* activeMaintenance of the repository: "none", "check", "prune"
    pc,       \* where each worker is
    call,     \* the call each worker and client belong to
    res,      \* result of the worker's last command
    client,   \* where each asynchronous client is
    check,    \* status in the repository_sync_state row of domain check
    writer    \* history: which statement wrote that row last

guards == <<active, maint>>
rowVars == <<check, writer>>
vars == <<holder, active, maint, pc, call, res, client, check, writer>>

(* job: a task, or what else runs. "other" is init, unlock, restore and     *)
(* forget of a snapshot, which touch no state of this module.               *)
Jobs  == Tasks \cup {"check", "prune", "other"}
Calls == {c \in [job : Jobs, how : {"wait", "cron", "async", "queued"}] :
            /\ c.how = "queued" => c.job = "other"
            /\ c.how = "cron" => c.job # "other"}

ASSUME NoCallAssumption == NoCall \notin Calls

IsTask(p)  == call[p].job \in Tasks
IsCheck(p) == call[p].job = "check"
Async(p)   == call[p].how = "async"
(* TaskService marks the task; the scheduler marks the repository. *)
Guarded(p) == IsTask(p) \/ call[p].how = "cron"

(* Exit code 0 and no error: what the callers take for a success.  The     *)
(* result "norun" is the one of Executor.Run when insertLog fails.          *)
Exit0(p) == res[p] \in {"ok", "norun"}

Reserved == {"prepare", "running", "forget"}
Points   == {"idle", "guard", "pre", "begin", "acquire", "after", "policy", "post", "clear"}
                \cup Reserved

Goto(p, point) == pc' = [pc EXCEPT ![p] = point]
Client(p, point) == client' = [client EXCEPT ![p] = point]
Result(p, r) == res' = [res EXCEPT ![p] = r]
WriteCheck(status, who) == check' = status /\ writer' = who

(* startErr <- err: only an asynchronous client that still waits sees it. *)
SendStartErr(p) ==
    client' = [client EXCEPT ![p] = IF @ = "waiting" THEN "refused" ELSE @]

(* The worker is gone; its call is over when no client waits either. *)
Leave(p) ==
    /\ Goto(p, "idle")
    /\ Result(p, "none")
    /\ call' = [call EXCEPT ![p] = IF client[p] = "none" THEN NoCall ELSE @]

(* The deferred clear first, if there is one. *)
Ends(p) ==
    IF Guarded(p)
    THEN Goto(p, "clear") /\ Result(p, "none") /\ UNCHANGED call
    ELSE Leave(p)

-----------------------------------------------------------------------------
(* Slips of the code the properties must notice; no action uses them.      *)

(* The refused caller clears the mark as well, as a defer placed too early  *)
(* would.                                                                   *)
GuardRefusedClears(p) ==
    /\ pc[p] = "guard"
    /\ IF IsTask(p)
       THEN /\ call[p].job \in active
            /\ active' = active \ {call[p].job}
            /\ UNCHANGED maint
       ELSE /\ maint # "none"
            /\ maint' = "none"
            /\ UNCHANGED active
    /\ Leave(p)
    /\ UNCHANGED <<holder, client, rowVars>>

(* The forget policy runs before the reservation of the backup is released. *)
CommandEndsReserved(p) ==
    /\ pc[p] = "running"
    /\ \E r \in {"ok", "fail"} : Result(p, r)
    /\ holder' = IF IsTask(p) THEN holder ELSE NoProc
    /\ Goto(p, "after")
    /\ UNCHANGED <<guards, call, client, rowVars>>

(* A failed pre hook returns without the deferred clear. *)
PreHooksLeak(p) ==
    /\ pc[p] = "pre"
    /\ \/ Goto(p, "acquire") /\ UNCHANGED <<res, client>>
       \/ SendStartErr(p) /\ Goto(p, "idle") /\ UNCHANGED res
    /\ UNCHANGED <<holder, guards, call, rowVars>>

(* The result is recorded only when the command could be run. *)
AfterForgetsError(p) ==
    /\ pc[p] = "after"
    /\ ~ IsTask(p)
    /\ IF IsCheck(p) /\ res[p] # "err"
       THEN WriteCheck(IF Exit0(p) THEN "success" ELSE "failed", "record")
       ELSE UNCHANGED rowVars
    /\ IF res[p] = "err" THEN SendStartErr(p) ELSE UNCHANGED client
    /\ Ends(p)
    /\ UNCHANGED <<holder, guards>>

(* The log row of the check is recorded where its status belongs. *)
AfterRecordsResult(p) ==
    /\ pc[p] = "after"
    /\ ~ IsTask(p)
    /\ IF IsCheck(p) THEN WriteCheck(res[p], "record") ELSE UNCHANGED rowVars
    /\ IF res[p] = "err" THEN SendStartErr(p) ELSE UNCHANGED client
    /\ Ends(p)
    /\ UNCHANGED <<holder, guards>>

(* The forget policy does not wait for the repository. *)
ForgetPolicyIntrudes(p) ==
    /\ pc[p] = "policy"
    /\ holder' = p
    /\ Goto(p, "forget")
    /\ UNCHANGED <<guards, call, res, client, rowVars>>

(* The refused caller of RunTaskAsync tells its client and waits anyway. *)
BusyWaits(p) ==
    /\ pc[p] = "acquire"
    /\ holder # NoProc
    /\ Async(p)
    /\ IF IsTask(p) THEN SendStartErr(p) ELSE Client(p, "refused")
    /\ UNCHANGED <<holder, guards, pc, call, res, rowVars>>

-----------------------------------------------------------------------------
Init ==
    /\ holder = NoProc
    /\ active = {}
    /\ maint = "none"
    /\ pc = [p \in Procs |-> "idle"]
    /\ call = [p \in Procs |-> NoCall]
    /\ res = [p \in Procs |-> "none"]
    /\ client = [p \in Procs |-> "none"]
    /\ check = "none"
    /\ writer = "none"

Idle(p) == pc[p] = "idle" /\ client[p] = "none"

(* The first thing a call does: guards, then the repository row and the     *)
(* arguments of a maintenance command, else the reservation.                *)
FirstPoint(c) ==
    IF c.job \in Tasks \/ c.how = "cron" THEN "guard"
    ELSE IF c.job \in {"check", "prune"} THEN "begin" ELSE "acquire"

Begin(p, c) ==
    /\ Idle(p)
    /\ call' = [call EXCEPT ![p] = c]
    /\ Goto(p, FirstPoint(c))
    /\ Client(p, IF c.how = "queued" THEN "waiting" ELSE "none")
    /\ UNCHANGED <<holder, guards, res, rowVars>>

(* A request of a user. *)
Request(p) == \E c \in Calls : c.how # "cron" /\ Begin(p, c)

(* A job of the cron fires, in a goroutine of its own: any job at any time, *)
(* also twice at once, for the cron that a reload replaces may still fire   *)
(* what the new one fires too (module Scheduler says which may).            *)
Fire(p) == \E c \in Calls : c.how = "cron" /\ Begin(p, c)

(* markTaskActive and startMaintenance: one critical section each.          *)
GuardPasses(p) ==
    /\ pc[p] = "guard"
    /\ IF IsTask(p)
       THEN /\ call[p].job \notin active
            /\ active' = active \cup {call[p].job}
            /\ Goto(p, "pre")
            /\ Client(p, IF Async(p) THEN "waiting" ELSE "none")
            /\ UNCHANGED maint
       ELSE /\ maint = "none"
            /\ maint' = call[p].job
            /\ Goto(p, "begin")
            /\ UNCHANGED <<active, client>>
    /\ UNCHANGED <<holder, call, res, rowVars>>

(* "task is already running"; "skipping check, prune already running" *)
GuardRefuses(p) ==
    /\ pc[p] = "guard"
    /\ IF IsTask(p) THEN call[p].job \in active ELSE maint # "none"
    /\ Leave(p)
    /\ UNCHANGED <<holder, guards, client, rowVars>>

(* The pre hooks run without a reservation; the first that fails ends the   *)
(* run.                                                                     *)
PreHooks(p) ==
    /\ pc[p] = "pre"
    /\ \/ Goto(p, "acquire") /\ UNCHANGED <<res, client>>
       \/ SendStartErr(p) /\ Goto(p, "clear") /\ UNCHANGED res
    /\ UNCHANGED <<holder, guards, call, rowVars>>

(* A check writes that it runs before it has the repository. *)
BeginMaintenance(p) ==
    /\ pc[p] = "begin"
    /\ IF IsCheck(p) THEN WriteCheck("running", "begin") ELSE UNCHANGED rowVars
    /\ Goto(p, "acquire")
    /\ UNCHANGED <<holder, guards, call, res, client>>

(* The row of the task or repository cannot be read, or its arguments do    *)
(* not parse: RunTask returns before the guard, maintenance after it.       *)
Rejected(p) ==
    /\ \/ pc[p] = "guard" /\ IsTask(p) /\ Leave(p)
       \/ pc[p] = "begin" /\ Ends(p)
    /\ UNCHANGED <<holder, guards, client, rowVars>>

(* The reservation.  runRepoCommandAsync takes it in the caller, which      *)
(* becomes a waiting client only then.                                      *)
Acquire(p) ==
    /\ pc[p] = "acquire"
    /\ holder = NoProc
    /\ holder' = p
    /\ Goto(p, "prepare")
    /\ IF Async(p) /\ ~ IsTask(p) THEN Client(p, "waiting") ELSE UNCHANGED client
    /\ UNCHANGED <<guards, call, res, rowVars>>

(* "repository is busy": RunTaskAsync hears of it from its goroutine. *)
Busy(p) ==
    /\ pc[p] = "acquire"
    /\ holder # NoProc
    /\ Async(p)
    /\ IF IsTask(p)
       THEN SendStartErr(p) /\ Goto(p, "clear")
       ELSE Client(p, "refused") /\ Goto(p, "idle")
    /\ UNCHANGED <<holder, guards, call, res, rowVars>>

(* The context of a waiting request ends. *)
GiveUp(p) ==
    /\ pc[p] \in {"acquire", "policy"}
    /\ holder # NoProc
    /\ call[p].how = "wait"
    /\ IF pc[p] = "acquire"
       THEN Result(p, "err") /\ Goto(p, "after")
       ELSE Result(p, "none") /\ Goto(p, "post")
    /\ UNCHANGED <<holder, guards, call, client, rowVars>>

-----------------------------------------------------------------------------
(* runResticCommandWithReservation.  It fails before the command ("err"),   *)
(* the log row cannot be inserted ("norun"), the process cannot be started  *)
(* ("fail"), or restic runs and the started message goes out.  The deferred *)
(* release comes before anything the caller does with the result.           *)
NotStarted(p) ==
    /\ pc[p] = "prepare"
    /\ \E r \in {"err", "norun", "fail"} : Result(p, r)
    /\ holder' = NoProc
    /\ Goto(p, "after")
    /\ UNCHANGED <<guards, call, client, rowVars>>

CommandStarts(p) ==
    /\ pc[p] = "prepare"
    /\ Goto(p, "running")
    /\ Client(p, IF client[p] = "waiting" THEN "started" ELSE client[p])
    /\ UNCHANGED <<holder, guards, call, res, rowVars>>

CommandEnds(p) ==
    /\ pc[p] = "running"
    /\ \E r \in {"ok", "fail"} : Result(p, r)
    /\ holder' = NoProc
    /\ Goto(p, "after")
    /\ UNCHANGED <<guards, call, client, rowVars>>

(* RecordCheckResult, or the onDone function of the call; then the error,   *)
(* if any, goes to the client.                                              *)
After(p) ==
    /\ pc[p] = "after"
    /\ ~ IsTask(p)
    /\ IF IsCheck(p)
       THEN WriteCheck(IF Exit0(p) THEN "success" ELSE "failed", "record")
       ELSE UNCHANGED rowVars
    /\ IF res[p] = "err" THEN SendStartErr(p) ELSE UNCHANGED client
    /\ Ends(p)
    /\ UNCHANGED <<holder, guards>>

(* RunTask returns an error of the command; otherwise finishTaskRun runs,   *)
(* with the forget policy, when there is one, after exit code 0.            *)
FinishTaskRun(p) ==
    /\ pc[p] = "after"
    /\ IsTask(p)
    /\ IF res[p] = "err"
       THEN SendStartErr(p) /\ Goto(p, "clear") /\ Result(p, "none")
       ELSE /\ \/ Exit0(p) /\ Goto(p, "policy") /\ UNCHANGED res
               \/ Goto(p, "post") /\ Result(p, "none")
            /\ UNCHANGED client
    /\ UNCHANGED <<holder, guards, call, rowVars>>

(* runForgetPolicy reserves the repository anew. *)
ForgetPolicy(p) ==
    /\ pc[p] = "policy"
    /\ holder = NoProc
    /\ holder' = p
    /\ Goto(p, "forget")
    /\ UNCHANGED <<guards, call, res, client, rowVars>>

ForgetEnds(p) ==
    /\ pc[p] = "forget"
    /\ holder' = NoProc
    /\ Result(p, "none")
    /\ Goto(p, "post")
    /\ UNCHANGED <<guards, call, client, rowVars>>

PostHooks(p) ==
    /\ pc[p] = "post"
    /\ Goto(p, "clear")
    /\ UNCHANGED <<holder, guards, call, res, client, rowVars>>

(* The deferred clearTaskActive and finishMaintenance. *)
Clear(p) ==
    /\ pc[p] = "clear"
    /\ IF IsTask(p)
       THEN active' = active \ {call[p].job} /\ UNCHANGED maint
       ELSE maint' = "none" /\ UNCHANGED active
    /\ Leave(p)
    /\ UNCHANGED <<holder, client, rowVars>>

-----------------------------------------------------------------------------
(* The client.  The timer may win against a message that is already there.  *)
Timeout(p) ==
    /\ client[p] \in {"waiting", "started"}
    /\ Client(p, "late")
    /\ UNCHANGED <<holder, guards, pc, call, res, rowVars>>

(* CheckRepoAsync writes the row once more, whatever the worker has done    *)
(* meanwhile: running after the started message, failed after an error.     *)
Answered(p) ==
    /\ client[p] \in {"started", "refused", "late"}
    /\ IF IsCheck(p)
       THEN IF client[p] = "started"
            THEN WriteCheck("running", "announce")
            ELSE WriteCheck("failed", "complain")
       ELSE UNCHANGED rowVars
    /\ Client(p, "none")
    /\ call' = [call EXCEPT ![p] = IF pc[p] = "idle" THEN NoCall ELSE @]
    /\ UNCHANGED <<holder, guards, pc, res>>

WorkerStep(p) ==
    \/ GuardPasses(p) \/ GuardRefuses(p) \/ Rejected(p) \/ PreHooks(p)
    \/ BeginMaintenance(p) \/ Acquire(p) \/ Busy(p)
    \/ NotStarted(p) \/ CommandStarts(p) \/ CommandEnds(p)
    \/ After(p) \/ FinishTaskRun(p) \/ ForgetPolicy(p) \/ ForgetEnds(p)
    \/ PostHooks(p) \/ Clear(p)

ClientStep(p) == Timeout(p) \/ Answered(p)

NewCall(p) == Request(p) \/ Fire(p)

Next == \E p \in Procs : NewCall(p) \/ WorkerStep(p) \/ GiveUp(p) \/ ClientStep(p)

Spec == Init /\ [][Next]_vars

(* Goroutines run on, hooks and commands end, timers fire.  Nothing is      *)
(* assumed of users, of the contexts of their requests and of the cron.     *)
Fairness == \A p \in Procs : WF_vars(WorkerStep(p)) /\ WF_vars(ClientStep(p))

FairSpec == Spec /\ Fairness

-----------------------------------------------------------------------------
(* Program points between a guard and its clear. *)
Marked(p) == Guarded(p) /\ pc[p] \notin {"idle", "guard"}

(* Type invariant. *)
TypeOK ==
    /\ holder \in Procs \cup {NoProc}
    /\ active \subseteq Tasks
    /\ maint \in {"none", "check", "prune"}
    /\ pc \in [Procs -> Points]
    /\ call \in [Procs -> Calls \cup {NoCall}]
    /\ res \in [Procs -> {"none", "ok", "fail", "norun", "err"}]
    /\ client \in [Procs -> {"none", "waiting", "started", "refused", "late"}]
    /\ check \in {"none", "running", "success", "failed"}
    /\ writer \in {"none", "begin", "record", "announce", "complain"}

(* A task never runs twice at a time, whoever starts it: the user, the user *)
(* again after "did not start in time", or two crons during a reload; and a *)
(* scheduled check and a scheduled prune never overlap (markTaskActive,     *)
(* startMaintenance).                                                       *)
OneRunAtATime ==
    \A p, q \in Procs :
        (p # q /\ pc[p] # "idle" /\ pc[q] # "idle" /\ Marked(p) /\ Marked(q)) =>
            IF IsTask(p) THEN call[q].job # call[p].job ELSE IsTask(q)

(* A mark in activeTasks or activeMaintenance always has a run that will    *)
(* clear it: no path out of a run leaves the task blocked until a restart.  *)
MarksHaveRuns ==
    /\ \A t \in active : \E p \in Procs : pc[p] # "idle" /\ Marked(p) /\ call[p].job = t
    /\ maint # "none" =>
        \E p \in Procs : pc[p] # "idle" /\ Marked(p) /\ call[p].job = maint

(* A check is in progress: its worker, or the client that may still write. *)
Checking(p) ==
    /\ call[p] # NoCall
    /\ IsCheck(p)
    /\ pc[p] \notin {"idle", "guard", "clear"} \/ client[p] # "none"

(* Once no check is in progress the row does not say running, except when   *)
(* CheckRepoAsync itself wrote it after the result was recorded.            *)
CheckSettles ==
    (check = "running" /\ \A p \in Procs : ~ Checking(p)) => writer = "announce"

(* An asynchronous client that is told an error by its own call, and not by *)
(* its timer, can rely on it: the command neither runs nor will run.        *)
RefusalIsFinal ==
    \A p \in Procs : client[p] = "refused" => pc[p] \in {"idle", "clear"}

(* What the calls do with reservations is what RepoMutex allows: a run      *)
(* holds none while it asks for the one of its forget policy.               *)
Mutex == INSTANCE RepoMutex WITH
    Ops <- Procs, Repos <- {"repo"}, NoOp <- NoProc,
    holder <- [r \in {"repo"} |-> holder],
    asking <- {p \in Procs : pc[p] \in {"acquire", "policy"}}

ReservationIsMutex == Mutex!Spec

(* When no new calls come, those in progress end, their clients are         *)
(* answered, and no mark or reservation is left behind: no run waits for    *)
(* itself (a run with a forget policy reserves the repository twice).       *)
Quiet ==
    /\ \A p \in Procs : Idle(p)
    /\ holder = NoProc /\ active = {} /\ maint = "none"

RunsEnd == <>[][\A p \in Procs : ~ NewCall(p)]_vars => <>[]Quiet
=============================================================================
