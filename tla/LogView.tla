------------------------------ MODULE LogView ------------------------------
(***************************************************************************)
(* The log window of the web page (LogDetailModal.vue) on top of module    *)
(* Execution: it shows a running log, follows it on a websocket and polls  *)
(* it every two seconds while the socket is not connected.  A request of   *)
(* the log row is read by the server at once and answered some time later; *)
(* every await of the page is a point where other handlers run.            *)
(***************************************************************************)
EXTENDS Execution

VARIABLES
    shown,       \* selectedLog.status, "none" before the window is opened
    polling,     \* the polling timer is set
    connecting,  \* connectRealtime awaits the ticket of its address
    socket,      \* the page's websocket with its handlers
    live,        \* streamConnected
    heard,       \* messages handled so far
    asked,       \* the answer to a poll that is under way
    told         \* the answer to the refresh of the completion handler

viewVars == <<shown, polling, connecting, socket, live, heard, asked, told>>
allVars  == <<vars, viewVars>>

NoAnswer == "none"
Ended(status) == status \notin {"none", "running"}

ViewInit ==
    /\ Init
    /\ shown = [c \in Conns |-> "none"]
    /\ polling = [c \in Conns |-> FALSE]
    /\ connecting = [c \in Conns |-> FALSE]
    /\ socket = [c \in Conns |-> "none"]
    /\ live = [c \in Conns |-> FALSE]
    /\ heard = [c \in Conns |-> 0]
    /\ asked = [c \in Conns |-> NoAnswer]
    /\ told = [c \in Conns |-> NoAnswer]

(* closeRealtimeSocket: the handlers are taken off first. *)
CloseSocket(c) ==
    /\ socket' = [socket EXCEPT ![c] = IF @ = "none" THEN @ ELSE "closed"]
    /\ live' = [live EXCEPT ![c] = FALSE]

(* loadLog: a running log is connected and polled. *)
LoadLog(c) ==
    /\ shown[c] = "none" /\ row.st # "none"
    /\ shown' = [shown EXCEPT ![c] = row.st]
    /\ polling' = [polling EXCEPT ![c] = row.st = "running"]
    /\ connecting' = [connecting EXCEPT ![c] = row.st = "running"]
    /\ UNCHANGED <<vars, socket, live, heard, asked, told>>

(* connectRealtime after its await: only a log that still runs. *)
ConnectRealtime(c) ==
    /\ connecting[c]
    /\ connecting' = [connecting EXCEPT ![c] = FALSE]
    /\ IF shown[c] = "running"
       THEN Dial(c) /\ socket' = [socket EXCEPT ![c] = "opening"]
       ELSE UNCHANGED <<vars, socket>>
    /\ UNCHANGED <<shown, polling, live, heard, asked, told>>

OnOpen(c) ==
    /\ socket[c] = "opening"
    /\ socket' = [socket EXCEPT ![c] = "open"]
    /\ live' = [live EXCEPT ![c] = TRUE]
    /\ UNCHANGED <<vars, shown, polling, connecting, heard, asked, told>>

(* The timer fires: without a connection the log is asked for. *)
Poll(c) ==
    /\ polling[c] /\ ~ live[c] /\ asked[c] = NoAnswer
    /\ asked' = [asked EXCEPT ![c] = row.st]
    /\ UNCHANGED <<vars, shown, polling, connecting, socket, live, heard, told>>

(* refreshSelectedLog: a log that has ended needs neither poll nor socket. *)
PollAnswered(c) ==
    /\ asked[c] # NoAnswer
    /\ shown' = [shown EXCEPT ![c] = asked[c]]
    /\ IF Ended(asked[c])
       THEN polling' = [polling EXCEPT ![c] = FALSE] /\ CloseSocket(c)
       ELSE UNCHANGED <<polling, socket, live>>
    /\ asked' = [asked EXCEPT ![c] = NoAnswer]
    /\ UNCHANGED <<vars, connecting, heard, told>>

(* onmessage: output is shown; the completion makes the page ask again ... *)
OnMessage(c) ==
    /\ socket[c] = "open" /\ heard[c] < Len(wire[c])
    /\ heard' = [heard EXCEPT ![c] = @ + 1]
    /\ IF IsComplete(wire[c][heard[c] + 1])
       THEN /\ live' = [live EXCEPT ![c] = FALSE]
            /\ told' = [told EXCEPT ![c] = row.st]
       ELSE UNCHANGED <<live, told>>
    /\ UNCHANGED <<vars, shown, polling, connecting, socket, asked>>

(* ... and close the socket and stop polling, whatever the answer is. *)
CompleteAnswered(c) ==
    /\ told[c] # NoAnswer
    /\ shown' = [shown EXCEPT ![c] = told[c]]
    /\ polling' = [polling EXCEPT ![c] = FALSE]
    /\ CloseSocket(c)
    /\ told' = [told EXCEPT ![c] = NoAnswer]
    /\ UNCHANGED <<vars, connecting, heard, asked>>

(* onclose: the server has closed the connection. *)
OnClose(c) ==
    /\ socket[c] \in {"opening", "open"}
    /\ conn[c] \in {"leaving", "gone"} /\ heard[c] = Len(wire[c])
    /\ CloseSocket(c)
    /\ polling' = [polling EXCEPT ![c] = @ \/ shown[c] = "running"]
    /\ UNCHANGED <<vars, shown, connecting, heard, asked, told>>

Page(c) ==
    \/ ConnectRealtime(c) \/ OnOpen(c) \/ Poll(c) \/ PollAnswered(c)
    \/ OnMessage(c) \/ CompleteAnswered(c) \/ OnClose(c)

ViewNext ==
    /\ ~ panicked
    /\ \/ System /\ UNCHANGED viewVars
       \/ \E c \in Conns : LoadLog(c) \/ Page(c)
       \/ \E c \in Conns : HangUp(c) /\ UNCHANGED viewVars

(* The browser answers events, timers fire and requests are answered. *)
ViewFairness ==
    /\ Fairness /\ PumpsRun
    /\ \A c \in Conns : WF_allVars(~ panicked /\ Page(c))

ViewSpec == ViewInit /\ [][ViewNext]_allVars /\ ViewFairness
-----------------------------------------------------------------------------
(* What the README promises of the log viewer, that it follows an execution *)
(* in real time: a window that shows a running log shows its end once it    *)
(* has been recorded (LogDetailModal.vue, SendComplete, finishLog).         *)
ViewCatchesUp ==
    \A c \in Conns :
        (shown[c] = "running" /\ Ended(row.st)) ~> (Ended(shown[c]) \/ panicked)
=============================================================================
