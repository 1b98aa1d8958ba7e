------------------------------ MODULE Scheduler ------------------------------
(***************************************************************************)
(* The scheduler: the cron that starts tasks and repository maintenance,    *)
(* and the poll loop that rebuilds it from the database every minute.  A    *)
(* reload builds a new cron, swaps it in, fills and starts it, and only     *)
(* then stops the previous one.  A job of a live cron may fire at any time: *)
(* the times of cron expressions are left out.  What a job does when it     *)
(* fires is module Operations.                                              *)
(***************************************************************************)
EXTENDS Naturals

CONSTANTS
    Tasks,        \* backup tasks
    Maintenance,  \* check and prune of each repository
    MaxEdits,     \* bound: changes of schedules in the database
    MaxFaults     \* bound: list queries that fail

ASSUME BoundsAssumption == MaxEdits \in Nat /\ MaxFaults \in Nat

VARIABLES
    db,        \* jobs whose schedule is enabled in the database
    cron,      \* Scheduler.cron: its jobs, and whether it is started
    prev,      \* the cron that a reload replaces
    loop,      \* where Start, then the poll loop, is
    listed,    \* jobs read by it
    stopped,   \* Stop has been called
    edited,    \* history: jobs whose schedule was ever changed
    unread,    \* history: the last query of the repositories has failed
    dropped,   \* history: the cron in force was filled after such a failure
    edits, faults

lacks == <<unread, dropped>>
vars  == <<db, cron, prev, loop, listed, stopped, edited, unread, dropped, edits, faults>>

Jobs == Tasks \cup Maintenance
NoCron == [jobs |-> {}, live |-> FALSE]
Running(jobs) == [jobs |-> jobs, live |-> TRUE]

Starting == {"off", "startTasks", "startRead"}
Polling  == {"idle", "tick", "tasks", "read", "swapped", "started"}

(* Job j of a live cron fires when it is due. *)
Fires(j) == \E c \in {cron, prev} : c.live /\ j \in c.jobs

-----------------------------------------------------------------------------
(* Slips of the code the properties must notice; no action uses them.      *)

(* Nobody stops the previous cron: its jobs go on beside the new ones. *)
StopPreviousSkipped ==
    /\ loop = "started"
    /\ loop' = "idle"
    /\ cron' = [cron EXCEPT !.jobs = @ \cup prev.jobs]
    /\ prev' = NoCron
    /\ UNCHANGED <<db, listed, stopped, edited, lacks, edits, faults>>

(* The previous cron is stopped as soon as it has been replaced. *)
SwapStops ==
    /\ loop = "read"
    /\ prev' = NoCron
    /\ cron' = NoCron
    /\ loop' = "swapped"
    /\ UNCHANGED <<db, listed, stopped, edited, lacks, edits, faults>>

(* The previous cron is remembered without whether it runs. *)
SwapForgetsState ==
    /\ loop = "read"
    /\ prev' = [jobs |-> cron.jobs]
    /\ cron' = NoCron
    /\ loop' = "swapped"
    /\ UNCHANGED <<db, listed, stopped, edited, lacks, edits, faults>>

-----------------------------------------------------------------------------
Init ==
    /\ db \in SUBSET Jobs
    /\ cron = NoCron /\ prev = NoCron
    /\ loop = "off" /\ listed = {} /\ stopped = FALSE
    /\ edited = {} /\ unread = FALSE /\ dropped = FALSE
    /\ edits = 0 /\ faults = 0

(* A user enables or disables a schedule: Toggle of a task, Update of a     *)
(* repository.  Only the database changes.                                  *)
Edit ==
    /\ edits < MaxEdits /\ edits' = edits + 1
    /\ \E j \in Jobs :
        /\ db' = IF j \in db THEN db \ {j} ELSE db \cup {j}
        /\ edited' = edited \cup {j}
    /\ UNCHANGED <<cron, prev, loop, listed, stopped, lacks, faults>>

Fault == faults < MaxFaults /\ faults' = faults + 1

(* listTasks: on an error Start gives up for good, and a reload keeps the   *)
(* schedule it has.                                                         *)
ListTasks(from, to, onError) ==
    /\ loop = from
    /\ \/ listed' = db \cap Tasks /\ loop' = to /\ UNCHANGED faults
       \/ Fault /\ loop' = onError /\ UNCHANGED listed
    /\ UNCHANGED <<db, cron, prev, stopped, edited, lacks, edits>>

(* listRepos: on an error the maintenance of every repository is dropped.   *)
ListRepos(from, to) ==
    /\ loop = from
    /\ \/ listed' = listed \cup (db \cap Maintenance) /\ unread' = FALSE /\ UNCHANGED faults
       \/ Fault /\ unread' = TRUE /\ UNCHANGED listed
    /\ loop' = to
    /\ UNCHANGED <<db, cron, prev, stopped, edited, dropped, edits>>

(* Start fills and starts the cron in one critical section. *)
StartCron ==
    /\ loop = "startRead"
    /\ cron' = Running(listed)
    /\ dropped' = unread
    /\ loop' = "idle"
    /\ UNCHANGED <<db, prev, listed, stopped, edited, unread, edits, faults>>

Start ==
    \/ ListTasks("off", "startTasks", "failed")
    \/ ListRepos("startTasks", "startRead")
    \/ StartCron

(* pollLoop: after Stop its select may still choose a tick that is there.   *)
Tick ==
    /\ loop = "idle"
    /\ loop' = "tick"
    /\ UNCHANGED <<db, cron, prev, listed, stopped, edited, lacks, edits, faults>>

PollEnds ==
    /\ loop = "idle" /\ stopped
    /\ loop' = "ended"
    /\ UNCHANGED <<db, cron, prev, listed, stopped, edited, lacks, edits, faults>>

(* swapCron *)
Swap ==
    /\ loop = "read"
    /\ prev' = cron
    /\ cron' = NoCron
    /\ loop' = "swapped"
    /\ UNCHANGED <<db, listed, stopped, edited, lacks, edits, faults>>

(* The new cron is filled, which nobody sees, and started. *)
StartNext ==
    /\ loop = "swapped"
    /\ cron' = Running(listed)
    /\ dropped' = unread
    /\ loop' = "started"
    /\ UNCHANGED <<db, prev, listed, stopped, edited, unread, edits, faults>>

StopPrevious ==
    /\ loop = "started"
    /\ prev' = NoCron
    /\ loop' = "idle"
    /\ UNCHANGED <<db, cron, listed, stopped, edited, lacks, edits, faults>>

reloadTasks ==
    \/ ListTasks("tick", "tasks", "idle")
    \/ ListRepos("tasks", "read")
    \/ Swap \/ StartNext \/ StopPrevious

(* Stop stops the cron it finds, which is not running yet when a reload has *)
(* just swapped it in.                                                      *)
Stop ==
    /\ ~ stopped /\ loop \in Polling
    /\ stopped' = TRUE
    /\ cron' = [cron EXCEPT !.live = FALSE]
    /\ UNCHANGED <<db, prev, loop, listed, edited, lacks, edits, faults>>

Loop == Start \/ Tick \/ PollEnds \/ reloadTasks
Next == Loop \/ Edit \/ Stop

Spec == Init /\ [][Next]_vars

(* The goroutine of Start and pollLoop runs on and its ticker ticks.        *)
(* Nothing is assumed of users and of Stop.                                 *)
FairSpec == Spec /\ WF_vars(Loop)

-----------------------------------------------------------------------------
(* Type invariant. *)
TypeOK ==
    /\ db \subseteq Jobs /\ listed \subseteq Jobs /\ edited \subseteq Jobs
    /\ cron \in [jobs : SUBSET Jobs, live : BOOLEAN]
    /\ prev \in [jobs : SUBSET Jobs, live : BOOLEAN]
    /\ loop \in Starting \cup Polling \cup {"failed", "ended"}
    /\ stopped \in BOOLEAN /\ unread \in BOOLEAN /\ dropped \in BOOLEAN
    /\ edits \in 0..MaxEdits /\ faults \in 0..MaxFaults

(* An enabled schedule that nobody touches is in a live cron at every       *)
(* moment, also in the middle of a reload and after queries that failed:    *)
(* reloadTasks starts the new cron before it stops the old one and keeps it *)
(* when listTasks fails.  The one exception: as long as the cron in force   *)
(* was filled after a listRepos that failed, it has no check and no prune.  *)
AlwaysScheduled ==
    (loop \in Polling /\ ~ stopped) =>
        \A j \in db \ edited : j \in Tasks \/ ~ dropped => Fires(j)

(* "Background polling to pick up new/updated tasks every minute": once     *)
(* nobody edits schedules any more and the queries succeed, the jobs that   *)
(* may fire are exactly the enabled ones, for good, unless Start failed or  *)
(* Stop was called.                                                         *)
SchedulePicksUp ==
    <>[](stopped \/ loop = "failed" \/ {j \in Jobs : Fires(j)} = db)
=============================================================================
