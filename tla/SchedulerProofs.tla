-------------------------- MODULE SchedulerProofs --------------------------
(***************************************************************************)
(* Proofs about Scheduler for any sets of tasks and maintenance jobs and    *)
(* any number of edits and failing queries.  The argument: what the loop    *)
(* has read covers every schedule that nobody has touched (Listed), the     *)
(* running cron was filled from such a list (Filled), and while a reload    *)
(* has the cron in its hands the previous one, filled before, still runs.   *)
(***************************************************************************)
EXTENDS Scheduler, TLAPS

(* Job j was enabled from the start. *)
Due(j) == j \in db \ edited

(* Jobs covers what is due, but for the maintenance when the query of the   *)
(* repositories has failed.                                                 *)
Covers(jobs, failed) == \A j \in Jobs : Due(j) /\ (j \in Tasks \/ ~ failed) => j \in jobs

Listed ==
    /\ loop \in {"startTasks", "tasks"} => \A j \in Tasks : Due(j) => j \in listed
    /\ loop \in {"startRead", "read", "swapped"} => Covers(listed, unread)

Filled ==
    ~ stopped =>
        /\ loop \in Polling \ {"swapped"} => cron.live /\ Covers(cron.jobs, dropped)
        /\ loop = "swapped" => prev.live /\ Covers(prev.jobs, dropped)

IInv == TypeOK /\ Listed /\ Filled

-----------------------------------------------------------------------------
(* Before Start nothing is listed and no cron runs. *)
LEMMA InitIInv == Init => IInv
<1> SUFFICES ASSUME Init PROVE IInv
  OBVIOUS
<1>1. TypeOK
  <2>1. NoCron \in [jobs : SUBSET Jobs, live : BOOLEAN]
    BY DEF NoCron
  <2>2. edits \in 0..MaxEdits /\ faults \in 0..MaxFaults
    BY BoundsAssumption DEF Init
  <2> QED BY <2>1, <2>2 DEF Init, TypeOK, Starting
<1>2. Listed /\ Filled
  BY DEF Init, Listed, Filled, Polling
<1> QED BY <1>1, <1>2 DEF IInv

(* Every step preserves the type invariant. *)
LEMMA TypeStep == TypeOK /\ [Next]_vars => TypeOK'
<1> SUFFICES ASSUME TypeOK, [Next]_vars PROVE TypeOK'
  OBVIOUS
<1> USE BoundsAssumption DEF TypeOK, Starting, Polling
<1>r. \A jobs \in SUBSET Jobs : Running(jobs) \in [jobs : SUBSET Jobs, live : BOOLEAN]
  BY DEF Running
<1>n. NoCron \in [jobs : SUBSET Jobs, live : BOOLEAN]
  BY DEF NoCron
<1>q. ASSUME NEW from, NEW to \in {"startTasks", "tasks"}, NEW onError \in {"failed", "idle"},
             ListTasks(from, to, onError)
      PROVE  TypeOK'
  BY <1>q DEF ListTasks, Fault, lacks
<1>p. ASSUME NEW from, NEW to \in {"startRead", "read"}, ListRepos(from, to) PROVE TypeOK'
  <2>1. listed' \subseteq Jobs
    BY <1>p DEF ListRepos
  <2>2. faults' \in 0..MaxFaults
    <3>1. faults' = faults \/ (faults < MaxFaults /\ faults' = faults + 1)
      BY <1>p DEF ListRepos, Fault
    <3> QED BY <3>1
  <2>3. unread' = TRUE \/ unread' = FALSE
    BY <1>p, Zenon DEF ListRepos
  <2> QED BY <1>p, <2>1, <2>2, <2>3 DEF ListRepos
<1>1. CASE Start
  <2>1. CASE StartCron
    BY <2>1, <1>r DEF StartCron
  <2> QED BY <1>1, <1>q, <1>p, <2>1 DEF Start
<1>2. CASE Tick \/ PollEnds
  BY <1>2 DEF Tick, PollEnds, lacks
<1>3. CASE ListTasks("tick", "tasks", "idle") \/ ListRepos("tasks", "read")
  BY <1>3, <1>q, <1>p
<1>4. CASE Swap \/ StartNext \/ StopPrevious
  BY <1>4, <1>r, <1>n DEF Swap, StartNext, StopPrevious, lacks
<1>5. CASE Edit
  BY <1>5 DEF Edit, lacks
<1>6. CASE Stop
  BY <1>6 DEF Stop, lacks
<1>7. CASE UNCHANGED vars
  BY <1>7 DEF vars
<1> QED BY <1>1, <1>2, <1>3, <1>4, <1>5, <1>6, <1>7 DEF Next, Loop, reloadTasks

(* Edits only take schedules out of the set that must be covered. *)
LEMMA DueShrinks ==
    ASSUME TypeOK, [Next]_vars, NEW j \in Jobs, Due(j)'
    PROVE  Due(j)
<1> USE DEF TypeOK, Due
<1>1. CASE Start
  BY <1>1 DEF Start, ListTasks, ListRepos, StartCron, Fault
<1>2. CASE Tick \/ PollEnds
  BY <1>2 DEF Tick, PollEnds, lacks
<1>3. CASE reloadTasks
  BY <1>3 DEF reloadTasks, ListTasks, ListRepos, Swap, StartNext, StopPrevious, Fault, lacks
<1>4. CASE Edit
  BY <1>4 DEF Edit, lacks
<1>5. CASE Stop
  BY <1>5 DEF Stop, lacks
<1>6. CASE UNCHANGED vars
  BY <1>6 DEF vars
<1> QED BY <1>1, <1>2, <1>3, <1>4, <1>5, <1>6 DEF Next, Loop

(* What the two queries return covers what is due. *)
LEMMA ListedStep == TypeOK /\ Listed /\ [Next]_vars => Listed'
<1> SUFFICES ASSUME TypeOK, Listed, [Next]_vars PROVE Listed'
  OBVIOUS
<1>d. \A j \in Jobs : Due(j)' => Due(j)
  BY DueShrinks
<1> USE DEF Listed, Covers, Jobs
<1>1. ASSUME NEW from \in {"off", "tick"}, NEW to \in {"startTasks", "tasks"},
             NEW onError \in {"failed", "idle"}, ListTasks(from, to, onError)
      PROVE  Listed'
  BY <1>1, <1>d DEF ListTasks, Due, lacks
<1>2. ASSUME NEW from \in {"startTasks", "tasks"}, NEW to \in {"startRead", "read"},
             ListRepos(from, to)
      PROVE  Listed'
  BY <1>2, <1>d DEF ListRepos, Due, Fault, TypeOK
<1>3. CASE StartCron \/ Tick \/ PollEnds \/ StartNext \/ StopPrevious
  BY <1>3, <1>d DEF StartCron, Tick, PollEnds, StartNext, StopPrevious, lacks
<1>4. CASE Swap
  BY <1>4, <1>d DEF Swap, lacks
<1>5. CASE Edit
  BY <1>5, <1>d DEF Edit, lacks
<1>6. CASE Stop
  BY <1>6, <1>d DEF Stop, lacks
<1>7. CASE UNCHANGED vars
  BY <1>7, <1>d DEF vars
<1> QED BY <1>1, <1>2, <1>3, <1>4, <1>5, <1>6, <1>7
        DEF Next, Loop, Start, reloadTasks

(* The cron that runs was filled from such a list: by Start, by a reload,   *)
(* or, while the reload is not done, by the one before it.                  *)
LEMMA FilledStep == IInv /\ [Next]_vars => Filled'
<1> SUFFICES ASSUME IInv, [Next]_vars PROVE Filled'
  OBVIOUS
<1>d. \A j \in Jobs : Due(j)' => Due(j)
  BY DueShrinks DEF IInv
<1> USE DEF IInv, Filled, Covers, Polling
<1>1. ASSUME NEW from \in {"off", "tick"}, NEW to \in {"startTasks", "tasks"},
             NEW onError \in {"failed", "idle"}, ListTasks(from, to, onError),
             from = "off" <=> onError = "failed", from = "off" <=> to = "startTasks"
      PROVE  Filled'
  BY <1>1, <1>d DEF ListTasks, lacks
<1>2. ASSUME NEW from \in {"startTasks", "tasks"}, NEW to \in {"startRead", "read"},
             ListRepos(from, to), from = "startTasks" <=> to = "startRead"
      PROVE  Filled'
  BY <1>2, <1>d DEF ListRepos
<1>3. CASE StartCron
  BY <1>3, <1>d DEF StartCron, Running, Listed
<1>4. CASE Tick \/ PollEnds
  BY <1>4, <1>d DEF Tick, PollEnds, lacks
<1>5. CASE Swap
  BY <1>5, <1>d DEF Swap, lacks
<1>6. CASE StartNext
  BY <1>6, <1>d DEF StartNext, Running, Listed
<1>7. CASE StopPrevious
  BY <1>7, <1>d DEF StopPrevious, lacks
<1>8. CASE Edit
  BY <1>8, <1>d DEF Edit, lacks
<1>9. CASE Stop
  BY <1>9, <1>d DEF Stop, lacks
<1>10. CASE UNCHANGED vars
  BY <1>10, <1>d DEF vars
<1> QED BY <1>1, <1>2, <1>3, <1>4, <1>5, <1>6, <1>7, <1>8, <1>9, <1>10
        DEF Next, Loop, Start, reloadTasks

(* The inductive invariant holds in every reachable state. *)
THEOREM InductiveInvariant == Spec => []IInv
<1>1. IInv /\ [Next]_vars => IInv'
  BY TypeStep, ListedStep, FilledStep DEF IInv
<1> QED BY <1>1, InitIInv, PTL DEF Spec

(* Type correctness. *)
THEOREM TypeCorrect == Spec => []TypeOK
<1>1. IInv => TypeOK
  BY DEF IInv
<1> QED BY <1>1, InductiveInvariant, PTL

(* No reload ever leaves an enabled, untouched schedule without a running   *)
(* cron that has it, however many schedules there are (reloadTasks).        *)
THEOREM SchedulesStay == Spec => []AlwaysScheduled
<1>1. IInv => AlwaysScheduled
  <2> SUFFICES ASSUME IInv, loop \in Polling, ~ stopped, NEW j \in db \ edited,
                      j \in Tasks \/ ~ dropped
               PROVE  Fires(j)
    BY DEF AlwaysScheduled
  <2>1. j \in Jobs /\ Due(j)
    BY DEF IInv, TypeOK, Due
  <2>2. CASE loop = "swapped"
    BY <2>1, <2>2 DEF IInv, Filled, Covers, Fires
  <2>3. CASE loop # "swapped"
    BY <2>1, <2>3 DEF IInv, Filled, Covers, Fires
  <2> QED BY <2>2, <2>3
<1> QED BY <1>1, InductiveInvariant, PTL
=============================================================================
