----------------------------- MODULE RepoMutex -----------------------------
(***************************************************************************)
(* What RepoService promises to every caller that runs a restic command:   *)
(* commands on one repository run one at a time, in no promised order,     *)
(* while commands on different repositories do not hinder each other.      *)
(***************************************************************************)
CONSTANTS
    Ops,     \* goroutines that run restic commands
    Repos,   \* repositories
    NoOp     \* no goroutine

VARIABLES
    holder,  \* holder[r]: the goroutine whose command may touch repository r
    asking   \* the goroutines inside a call that has not been granted yet

vars == <<holder, asking>>

Init ==
    /\ holder = [r \in Repos |-> NoOp]
    /\ asking = {}

Holds(p) == \E r \in Repos : holder[r] = p

(* A goroutine asks for some repository; it holds none while it asks. *)
Ask(p) ==
    /\ p \notin asking
    /\ ~ Holds(p)
    /\ asking' = asking \cup {p}
    /\ UNCHANGED holder

(* The repository is granted to a goroutine that asked, only while free. *)
Grant(p, r) ==
    /\ p \in asking
    /\ holder[r] = NoOp
    /\ holder' = [holder EXCEPT ![r] = p]
    /\ asking' = asking \ {p}

(* The caller is refused, or stops waiting. *)
Refuse(p) ==
    /\ p \in asking
    /\ asking' = asking \ {p}
    /\ UNCHANGED holder

(* Only the goroutine that holds a repository gives it back. *)
Free(p, r) ==
    /\ holder[r] = p
    /\ holder' = [holder EXCEPT ![r] = NoOp]
    /\ UNCHANGED asking

Next ==
    \E p \in Ops :
        \/ Ask(p)
        \/ Refuse(p)
        \/ \E r \in Repos : Grant(p, r) \/ Free(p, r)

Spec == Init /\ [][Next]_vars
=============================================================================
