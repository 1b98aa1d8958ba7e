--------------------------- MODULE LogViewProofs ---------------------------
(***************************************************************************)
(* Proofs about LogView for any windows and any capacities.  A window is    *)
(* only a watcher: what it does is no step of the execution but the dialling *)
(* of a connection (ViewImplementsExecution).  The end of a log is final,   *)
(* so that an answer may be old and still right about the end (Truthful);   *)
(* and the timer of a window stays set until the window shows the end,      *)
(* unless one of two accidents has happened (OnlyLateAnswersStopTimer).     *)
(* A timer that is set asks nothing while the socket is connected; what     *)
(* becomes of a socket that hears no completion is liveness, and the        *)
(* counterexample of LogViewStuck.                                          *)
(***************************************************************************)
EXTENDS LogView, ExecutionProofs

(* What is said of the end, by a window or an answer, is what is recorded.  *)
Truthful(status) == Ended(status) => status = row.st

ViewTypeOK ==
    /\ shown \in [Conns -> Statuses]
    /\ asked \in [Conns -> Statuses]
    /\ told \in [Conns -> Statuses]
    /\ polling \in [Conns -> BOOLEAN]

ViewInv ==
    /\ ViewTypeOK
    /\ \A c \in Conns : Truthful(shown[c]) /\ Truthful(asked[c]) /\ Truthful(told[c])

(* A window that shows an end shows the one in the log, for good            *)
(* (refreshSelectedLog, finishLog).                                         *)
ShownEndIsRecorded == \A c \in Conns : Ended(shown[c]) => shown[c] = row.st

-----------------------------------------------------------------------------
(* Every step of the page and the execution together is a step of Execution *)
(* or none of its business.                                                 *)
LEMMA ViewStep == [ViewNext]_allVars => [Next]_vars
<1> SUFFICES ASSUME [ViewNext]_allVars PROVE [Next]_vars
  OBVIOUS
<1>1. CASE UNCHANGED allVars
  BY <1>1 DEF allVars
<1>2. ASSUME ~ panicked, System PROVE Next
  BY <1>2 DEF Next
<1>3. ASSUME NEW c \in Conns, ~ panicked, HangUp(c) PROVE Next
  BY <1>3 DEF Next
<1>4. ASSUME NEW c \in Conns, ~ panicked, LoadLog(c) \/ Page(c) PROVE [Next]_vars
  <2>1. CASE LoadLog(c)
    BY <2>1 DEF LoadLog
  <2>2. CASE ConnectRealtime(c)
    <3>1. Dial(c) => Next
      BY <1>4 DEF Next
    <3>2. Dial(c) \/ UNCHANGED vars
      BY <2>2 DEF ConnectRealtime
    <3> QED BY <3>1, <3>2
  <2>3. CASE OnOpen(c) \/ Poll(c) \/ PollAnswered(c)
    BY <2>3 DEF OnOpen, Poll, PollAnswered
  <2>4. CASE OnMessage(c) \/ CompleteAnswered(c) \/ OnClose(c)
    BY <2>4 DEF OnMessage, CompleteAnswered, OnClose
  <2> QED BY <1>4, <2>1, <2>2, <2>3, <2>4 DEF Page
<1> QED BY <1>1, <1>2, <1>3, <1>4 DEF ViewNext

(* The log window leaves the execution it watches as it is: everything      *)
(* proved of Execution holds with windows too (LogDetailModal.vue).         *)
THEOREM ViewImplementsExecution == ViewSpec => Spec
<1>1. ViewInit => Init
  BY DEF ViewInit
<1> QED BY <1>1, ViewStep, PTL DEF ViewSpec, Spec

-----------------------------------------------------------------------------
(* No window has been opened at first. *)
LEMMA InitViewInv == ViewInit => ViewInv
BY DEF ViewInit, ViewInv, ViewTypeOK, Truthful, Ended, Statuses, NoAnswer

(* A step of a window takes what it shows and what it is told from the log, *)
(* now or earlier.                                                          *)
LEMMA WindowStep ==
    ASSUME Flow, ViewInv, NEW w \in Conns, LoadLog(w) \/ Page(w)
    PROVE  /\ UNCHANGED row /\ ViewTypeOK'
           /\ \A c \in Conns : /\ shown'[c] \in {shown[c], asked[c], told[c], row.st}
                               /\ asked'[c] \in {asked[c], "none", row.st}
                               /\ told'[c] \in {told[c], "none", row.st}
<1> USE DEF ViewInv, ViewTypeOK
<1>0. row.st \in Statuses /\ "none" \in Statuses
  BY DEF Flow, Statuses
<1>1. CASE LoadLog(w)
  BY <1>0, <1>1 DEF LoadLog, vars, execVars
<1>2. CASE ConnectRealtime(w)
  <2>1. UNCHANGED <<row, shown, polling, asked, told>>
    BY <1>2 DEF ConnectRealtime, Dial, vars, execVars
  <2> QED BY <2>1
<1>3. CASE OnOpen(w)
  BY <1>3 DEF OnOpen, vars, execVars
<1>4. CASE Poll(w)
  BY <1>0, <1>4 DEF Poll, vars, execVars
<1>5. CASE PollAnswered(w)
  <2>1. polling' \in [Conns -> BOOLEAN]
    BY <1>5 DEF PollAnswered
  <2>2. /\ shown' = [shown EXCEPT ![w] = asked[w]]
        /\ asked' = [asked EXCEPT ![w] = "none"]
        /\ UNCHANGED <<row, told>>
    BY <1>5 DEF PollAnswered, NoAnswer, vars, execVars
  <2> QED BY <1>0, <2>1, <2>2
<1>6. CASE OnMessage(w)
  <2>1. UNCHANGED <<row, shown, polling, asked>>
    BY <1>6 DEF OnMessage, vars, execVars
  <2>2. told' = told \/ told' = [told EXCEPT ![w] = row.st]
    BY <1>6 DEF OnMessage
  <2> QED BY <1>0, <2>1, <2>2
<1>7. CASE CompleteAnswered(w)
  BY <1>0, <1>7 DEF CompleteAnswered, NoAnswer, vars, execVars
<1>8. CASE OnClose(w)
  <2>1. UNCHANGED <<row, shown, asked, told>>
    BY <1>8 DEF OnClose, vars, execVars
  <2>2. polling' \in [Conns -> BOOLEAN]
    <3>1. (polling[w] \/ shown[w] = "running") \in BOOLEAN
      OBVIOUS
    <3>2. polling' = [polling EXCEPT ![w] = polling[w] \/ shown[w] = "running"]
      BY <1>8 DEF OnClose
    <3> QED BY <3>1, <3>2
  <2> QED BY <2>1, <2>2
<1> QED BY <1>1, <1>2, <1>3, <1>4, <1>5, <1>6, <1>7, <1>8 DEF Page

(* The end being final, what was right about it stays right. *)
LEMMA ViewInvStep == Flow /\ ViewInv /\ [ViewNext]_allVars => ViewInv'
<1> SUFFICES ASSUME Flow, ViewInv, [ViewNext]_allVars PROVE ViewInv'
  OBVIOUS
<1>0. Ended(row.st) => row' = row
  <2>1. Ended(row.st) => row.st \in Ends
    BY DEF Flow, Ended, Statuses, Ends
  <2> QED BY <2>1, ViewStep, EndIsFinal
<1>1. ASSUME UNCHANGED viewVars PROVE ViewInv'
  <2>1. ASSUME NEW c \in Conns
        PROVE  Truthful(shown[c])' /\ Truthful(asked[c])' /\ Truthful(told[c])'
    BY <1>0, <1>1, <2>1 DEF ViewInv, Truthful, viewVars
  <2> QED BY <1>1, <2>1 DEF ViewInv, ViewTypeOK, viewVars
<1>2. ASSUME NEW w \in Conns, LoadLog(w) \/ Page(w) PROVE ViewInv'
  <2>1. ASSUME NEW c \in Conns
        PROVE  Truthful(shown[c])' /\ Truthful(asked[c])' /\ Truthful(told[c])'
    BY <1>2, <2>1, WindowStep DEF ViewInv, Truthful, Ended
  <2> QED BY <1>2, <2>1, WindowStep DEF ViewInv
<1>3. CASE UNCHANGED allVars
  BY <1>1, <1>3 DEF allVars
<1> QED BY <1>1, <1>2, <1>3 DEF ViewNext

(* What windows show and are told is true of the end, at any time.          *)
LEMMA ViewInvariant == ViewSpec => [](Flow /\ ViewInv)
<1>1. ViewSpec => []Flow
  <2>1. IInv => Flow
    BY DEF IInv
  <2> QED BY <2>1, ViewImplementsExecution, InductiveInvariant, PTL
<1> QED BY <1>1, InitViewInv, ViewInvStep, PTL DEF ViewSpec

(* No window shows another end than the one that finishLog has recorded,    *)
(* however late the answers it shows come (refreshSelectedLog).             *)
THEOREM WindowsTellTheTruth == ViewSpec => []ShownEndIsRecorded
<1>1. ViewInv => ShownEndIsRecorded
  BY DEF ViewInv, Truthful, ShownEndIsRecorded
<1> QED BY <1>1, ViewInvariant, PTL

-----------------------------------------------------------------------------
(* A window that shows a running log has its timer set. *)
Watched == \A c \in Conns : shown[c] = "running" => polling[c]

(* The two accidents: the completion message is answered from a log that    *)
(* finishLog has not ended yet, and a poll is answered after the end has    *)
(* been shown.                                                              *)
EarlyCompletion(c) == told[c] # "running" /\ told'[c] = "running"
LatePoll(c) == Ended(shown[c]) /\ shown'[c] = "running"
NoLateAnswers == \A c \in Conns : ~ EarlyCompletion(c) /\ ~ LatePoll(c)

Watching ==
    /\ \A c \in Conns :
        /\ told[c] # "running"
        /\ shown[c] = "none" => ~ polling[c] /\ asked[c] = NoAnswer
    /\ Watched

LEMMA WatchingStep ==
    ViewInv /\ Watching /\ [ViewNext]_allVars /\ [NoLateAnswers]_allVars => Watching'
<1> SUFFICES ASSUME ViewInv, Watching, [ViewNext]_allVars, [NoLateAnswers]_allVars
             PROVE  Watching'
  OBVIOUS
<1>1. ASSUME UNCHANGED viewVars PROVE Watching'
  BY <1>1 DEF viewVars, Watching, Watched
<1>2. ASSUME NoLateAnswers, NEW w \in Conns, LoadLog(w) \/ Page(w) PROVE Watching'
  <2> USE DEF ViewInv, ViewTypeOK, Watching, Watched, NoAnswer
  <2>0. \A c \in Conns : told'[c] # "running"
    BY <1>2 DEF NoLateAnswers, EarlyCompletion
  <2>1. CASE LoadLog(w)
    BY <2>0, <2>1 DEF LoadLog
  <2>2. CASE ConnectRealtime(w) \/ OnOpen(w) \/ Poll(w) \/ OnMessage(w)
    BY <2>0, <2>2 DEF ConnectRealtime, OnOpen, Poll, OnMessage
  <2>3. CASE PollAnswered(w)
    <3>1. shown' = [shown EXCEPT ![w] = asked[w]]
      BY <2>3 DEF PollAnswered
    <3>2. CASE Ended(asked[w])
      BY <2>0, <2>3, <3>1, <3>2 DEF PollAnswered, Ended
    <3>3. CASE ~ Ended(asked[w])
      <4>1. asked[w] = "running" /\ UNCHANGED polling
        BY <2>3, <3>3 DEF PollAnswered, Ended
      <4>2. ~ Ended(shown[w])
        BY <1>2, <3>1, <4>1 DEF NoLateAnswers, LatePoll
      <4>3. asked' = [asked EXCEPT ![w] = "none"] /\ shown[w] # "none"
        BY <2>3, <4>1 DEF PollAnswered
      <4> QED BY <2>0, <3>1, <4>1, <4>2, <4>3 DEF Ended
    <3> QED BY <3>2, <3>3
  <2>4. CASE CompleteAnswered(w)
    BY <2>0, <2>4 DEF CompleteAnswered
  <2>5. CASE OnClose(w)
    BY <2>0, <2>5 DEF OnClose
  <2> QED BY <1>2, <2>1, <2>2, <2>3, <2>4, <2>5 DEF Page
<1>3. CASE UNCHANGED allVars
  BY <1>1, <1>3 DEF allVars
<1> QED BY <1>1, <1>2, <1>3 DEF ViewNext, allVars

(* The timer of a window that shows a running log goes only by one of the   *)
(* two accidents: whatever sockets and servers do, without them a window    *)
(* whose socket is lost asks again (startDetailPolling, stopDetailPolling). *)
THEOREM OnlyLateAnswersStopTimer == ViewSpec /\ [][NoLateAnswers]_allVars => []Watched
<1>1. ViewInit => Watching
  BY DEF ViewInit, Watching, Watched, NoAnswer
<1>2. Watching => Watched
  BY DEF Watching
<1> QED BY <1>1, <1>2, ViewInvariant, WatchingStep, PTL DEF ViewSpec
=============================================================================
