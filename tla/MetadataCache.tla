--------------------------- MODULE MetadataCache ---------------------------
(***************************************************************************)
(* What RepoCacheService promises the readers of a page of repository      *)
(* metadata, whatever its domain.  A page says success only by showing an  *)
(* answer that restic gave while the page said no success, with what       *)
(* backups announced of themselves; as long as it says success, a record   *)
(* it shows stays, and only announcements add to it.  It may stop saying   *)
(* success at any time, and an answer may come to nothing.                 *)
(***************************************************************************)
CONSTANT Items  \* records that a page can show

VARIABLES
    source,     \* what the restic repository holds now
    answers,    \* what restic has answered and no page shows yet
    announced,  \* records announced by the backups that made them
    fresh,      \* the page says success
    shown       \* what a page that says success shows

vars == <<source, answers, announced, fresh, shown>>

Init ==
    /\ source \subseteq Items
    /\ answers = {}
    /\ announced = {}
    /\ ~ fresh /\ shown = {}

(* The repository changes: a backup, a forget, other credentials. *)
Change ==
    /\ source' \subseteq Items
    /\ UNCHANGED <<answers, announced, fresh, shown>>

(* restic answers, which it is asked only while the page says no success. *)
Answer ==
    /\ ~ fresh /\ answers = {}
    /\ answers' = {source}
    /\ UNCHANGED <<source, announced, fresh, shown>>

(* The answer is shown, with some of what has been announced. *)
Publish ==
    /\ \E a \in answers : \E more \in SUBSET announced : shown' = a \cup more
    /\ fresh' = TRUE /\ answers' = {}
    /\ UNCHANGED <<source, announced>>

(* A backup announces its record, which the page need not show at once. *)
Announce(x) ==
    /\ announced' = announced \cup {x}
    /\ shown' \in {shown, shown \cup {x}}
    /\ shown' # shown => fresh
    /\ UNCHANGED <<source, answers, fresh>>

(* Announcements are dropped, but from no page that shows them. *)
Settle ==
    /\ announced' \subseteq announced
    /\ UNCHANGED <<source, answers, fresh, shown>>

(* The page no longer says success, or an answer comes to nothing. *)
GiveUp ==
    /\ answers' \subseteq answers
    /\ \/ ~ fresh' /\ shown' = {}
       \/ UNCHANGED <<fresh, shown>>
    /\ UNCHANGED <<source, announced>>

Next ==
    \/ Change \/ Answer \/ Publish \/ Settle \/ GiveUp
    \/ \E x \in Items : Announce(x)

Spec == Init /\ [][Next]_vars
=============================================================================
