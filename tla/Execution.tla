----------------------------- MODULE Execution -----------------------------
(***************************************************************************)
(* One execution from Executor.Run to the browsers that watch it: the log  *)
(* row, the cancel function, restic and its output, the channel and the    *)
(* goroutine of the websocket Hub, and the writePump of every connection.  *)
(* Connections and messages of other executions do not meet these: the Hub *)
(* keeps its clients by execution.                                         *)
(*                                                                         *)
(* A message is a line's number or [code |-> c], the completion.  Sends to *)
(* channels, critical sections and SQL statements are single steps.        *)
(* removeClient is one step: between the deletion under the mutex and the  *)
(* close of the channel it touches nothing that others read.               *)
(***************************************************************************)
EXTENDS Integers, Sequences, FiniteSets

CONSTANTS
    Conns,         \* websocket connections
    BroadcastCap,  \* capacity of Hub.broadcast (256)
    SendCap,       \* capacity of client.send (64)
    MaxLines,      \* bound: lines restic prints
    MaxFaults      \* bound: failures

ASSUME ExecutionBoundsAssumption ==
    BroadcastCap \in Nat \ {0} /\ SendCap \in Nat \ {0} /\ MaxLines \in Nat /\ MaxFaults \in Nat

VARIABLES
    at,         \* where Executor.Run is
    row,        \* the execution_logs row: status and exit code
    cancels,    \* activeCancel has the log
    ended,      \* the context of the command is cancelled
    proc,       \* restic
    lines,      \* lines read so far
    out,        \* Run's locals: status, exit code and whether a pipe failed
    result,     \* ExecResult: log ID set, exit code
    broadcast,  \* Hub.broadcast
    hub,        \* the Hub goroutine: its message and the clients still to serve
    taken,      \* history: messages the Hub has begun to broadcast
    clients,    \* Hub.clients
    send,       \* client.send
    closed,     \* clients whose send channel is closed
    dropping,   \* a goroutine is about to remove this client
    pump,       \* writePump
    wire,       \* messages written to the connection
    joined,     \* history: taken when the client was registered
    conn,       \* the connection and its handler handleWS
    panicked,   \* the Hub sent on a closed channel: the process is gone
    faults      \* faults so far

execVars == <<at, row, cancels, ended, proc, lines, out, result>>
clientVars == <<clients, send, closed, dropping, pump, wire, joined, conn>>
hubVars == <<broadcast, hub, taken, clientVars, panicked>>
vars == <<execVars, hubVars, faults>>

Points   == {"insert", "register", "start", "read", "wait", "complete", "finish",
             "unregister", "returned"}
Statuses == {"none", "running", "success", "failed", "cancelled"}
Codes    == {-1, 0, 1}
Complete(code) == [code |-> code]
Lines    == {[line |-> n] : n \in 1..MaxLines}
Messages == Lines \cup {Complete(c) : c \in Codes}
IsComplete(m) == m \in {Complete(c) : c \in Codes}

NoMsg == [none |-> TRUE]
Idle  == [msg |-> NoMsg, to |-> {}]

Fault == faults < MaxFaults /\ faults' = faults + 1

(* Hub.broadcast <- msg: the sender waits for room. *)
Broadcast(m) == Len(broadcast) < BroadcastCap /\ broadcast' = Append(broadcast, m)

(* finishLog: the error of its statement is ignored. *)
FinishLog(status, code) ==
    \/ row' = [st |-> status, code |-> code] /\ UNCHANGED faults
    \/ Fault /\ UNCHANGED row

(* The exit code the completion message and the log agree on. *)
FinalCode(o) == IF o.pipe /\ o.code = 0 THEN -1 ELSE o.code

(* removeClient: whoever finds the client in the table closes its channel. *)
RemoveClientKeepsEntry(c) ==
    /\ closed' = closed \cup ({c} \cap clients)
    /\ UNCHANGED clients
RemoveClient(c) ==
    /\ clients' = clients \ {c}
    /\ closed' = closed \cup ({c} \cap clients)

-----------------------------------------------------------------------------
(* Slips of the code the properties must notice; no action uses them.      *)

(* The completion message forgets that a pipe failed. *)
SendCompletePlain ==
    /\ at = "complete"
    /\ Broadcast(Complete(out.code))
    /\ out' = [out EXCEPT !.st = IF out.pipe THEN "failed" ELSE @, !.code = FinalCode(out)]
    /\ at' = "finish"
    /\ UNCHANGED <<row, cancels, ended, proc, lines, result, hub, taken, clientVars, panicked,
                   faults>>

(* A full client misses the message and stays. *)
DeliverSkips(c) ==
    /\ c \in hub.to
    /\ IF c \in closed
       THEN panicked' = TRUE /\ UNCHANGED send
       ELSE /\ send' = IF Len(send[c]) < SendCap
                       THEN [send EXCEPT ![c] = Append(@, hub.msg)] ELSE send
            /\ UNCHANGED panicked
    /\ hub' = [hub EXCEPT !.to = @ \ {c}]
    /\ UNCHANGED <<execVars, broadcast, taken, clients, closed, dropping, pump, wire, joined,
                   conn, faults>>

(* The Hub waits for room in the queue of a client. *)
DeliverWaits(c) ==
    /\ c \in hub.to
    /\ c \in closed \/ Len(send[c]) < SendCap
    /\ IF c \in closed
       THEN panicked' = TRUE /\ UNCHANGED send
       ELSE send' = [send EXCEPT ![c] = Append(@, hub.msg)] /\ UNCHANGED panicked
    /\ hub' = [hub EXCEPT !.to = @ \ {c}]
    /\ UNCHANGED <<execVars, broadcast, taken, clients, closed, dropping, pump, wire, joined,
                   conn, faults>>

(* The pump ends and leaves the connection open. *)
PumpEndsOnly(c) ==
    /\ pump[c] = "runs"
    /\ c \in closed /\ send[c] = <<>>
    /\ pump' = [pump EXCEPT ![c] = "ended"]
    /\ UNCHANGED <<execVars, broadcast, hub, taken, clients, send, closed, dropping, wire,
                   joined, conn, panicked, faults>>

(* Run does not wait for its readers (wg.Wait) before it goes on. *)
ReadLineLate ==
    /\ at \in {"read", "wait", "complete", "finish"} /\ lines < MaxLines
    /\ Broadcast([line |-> lines + 1])
    /\ lines' = lines + 1
    /\ UNCHANGED <<at, row, cancels, ended, proc, out, result, hub, taken, clientVars, panicked,
                   faults>>

-----------------------------------------------------------------------------
Init ==
    /\ at = "insert"
    /\ row = [st |-> "none", code |-> -1]
    /\ cancels = FALSE /\ ended = FALSE
    /\ proc = "none" /\ lines = 0
    /\ out = [st |-> "running", code |-> 0, pipe |-> FALSE]
    /\ result = [id |-> FALSE, code |-> 0]
    /\ broadcast = <<>> /\ hub = Idle /\ taken = 0
    /\ clients = {} /\ closed = {} /\ dropping = {}
    /\ send = [c \in Conns |-> <<>>]
    /\ pump = [c \in Conns |-> "none"]
    /\ wire = [c \in Conns |-> <<>>]
    /\ joined = [c \in Conns |-> 0]
    /\ conn = [c \in Conns |-> "none"]
    /\ panicked = FALSE /\ faults = 0

(* insertLog; without a row Run gives up with an error and exit code 0. *)
InsertLog ==
    /\ at = "insert"
    /\ \/ row' = [row EXCEPT !.st = "running"] /\ at' = "register" /\ UNCHANGED faults
       \/ Fault /\ at' = "returned" /\ UNCHANGED row
    /\ UNCHANGED <<cancels, ended, proc, lines, out, result, hubVars>>

RegisterCancel ==
    /\ at = "register"
    /\ cancels' = TRUE
    /\ at' = "start"
    /\ UNCHANGED <<row, ended, proc, lines, out, result, hubVars, faults>>

(* The pipes and cmd.Start, which refuses a context that has ended. *)
Start ==
    /\ at = "start"
    /\ ~ ended
    /\ proc' = "runs" /\ at' = "read"
    /\ UNCHANGED <<row, cancels, ended, lines, out, result, hubVars, faults>>

StartFails ==
    /\ at = "start"
    /\ \/ ended /\ FinishLog("failed", -1)
       \/ Fault /\ row' = [st |-> "failed", code |-> -1]
    /\ out' = [st |-> "failed", code |-> -1, pipe |-> FALSE]
    /\ at' = "unregister"
    /\ UNCHANGED <<cancels, ended, proc, lines, result, hubVars>>

(* readStream: a line is sent to the Hub, by one of the two readers. *)
ReadLine ==
    /\ at = "read" /\ lines < MaxLines
    /\ Broadcast([line |-> lines + 1])
    /\ lines' = lines + 1
    /\ UNCHANGED <<at, row, cancels, ended, proc, out, result, hub, taken, clientVars, panicked,
                   faults>>

(* Both readers reach the end of their pipe, or fail. *)
ReadEnds ==
    /\ at = "read" /\ proc # "runs"
    /\ \/ UNCHANGED <<out, faults>>
       \/ Fault /\ out' = [out EXCEPT !.pipe = TRUE]
    /\ at' = "wait"
    /\ UNCHANGED <<row, cancels, ended, proc, lines, result, hubVars>>

(* cmd.Wait.  A context that ends as restic succeeds may be noticed or not. *)
Wait ==
    /\ at = "wait"
    /\ \/ proc = "succeeded" /\ out' = [out EXCEPT !.st = "success", !.code = 0]
       \/ ended /\ out' = [out EXCEPT !.st = "cancelled", !.code = -1]
       \/ proc = "failed" /\ ~ ended /\ out' = [out EXCEPT !.st = "failed", !.code = 1]
    /\ at' = "complete"
    /\ UNCHANGED <<row, cancels, ended, proc, lines, result, hubVars, faults>>

(* SendComplete, and then the failed pipe enters status and exit code. *)
SendComplete ==
    /\ at = "complete"
    /\ Broadcast(Complete(FinalCode(out)))
    /\ out' = [out EXCEPT !.st = IF out.pipe THEN "failed" ELSE @, !.code = FinalCode(out)]
    /\ at' = "finish"
    /\ UNCHANGED <<row, cancels, ended, proc, lines, result, hub, taken, clientVars, panicked,
                   faults>>

Finish ==
    /\ at = "finish"
    /\ FinishLog(out.st, out.code)
    /\ at' = "unregister"
    /\ UNCHANGED <<cancels, ended, proc, lines, out, result, hubVars>>

(* The deferred cancel and unregisterCancel, and the result. *)
UnregisterCancel ==
    /\ at = "unregister"
    /\ cancels' = FALSE /\ ended' = TRUE
    /\ result' = [id |-> TRUE, code |-> out.code]
    /\ at' = "returned"
    /\ UNCHANGED <<row, proc, lines, out, hubVars, faults>>

Run ==
    \/ InsertLog \/ RegisterCancel \/ Start \/ StartFails \/ ReadLine \/ ReadEnds
    \/ Wait \/ SendComplete \/ Finish \/ UnregisterCancel

(* LogService.Cancel: the log is running and has a cancel function. *)
Cancel ==
    /\ row.st = "running" /\ cancels /\ ~ ended
    /\ ended' = TRUE
    /\ UNCHANGED <<at, row, cancels, proc, lines, out, result, hubVars, faults>>

(* restic ends on its own, or is killed when the context ends. *)
ProcessEnds ==
    /\ proc = "runs"
    /\ \/ proc' \in {"succeeded", "failed"}
       \/ ended /\ proc' = "failed"
    /\ UNCHANGED <<at, row, cancels, ended, lines, out, result, hubVars, faults>>

-----------------------------------------------------------------------------
(* Hub.Run takes whatever is ready: a registration, an end of a handler or  *)
(* a message.                                                               *)
Register(c) ==
    /\ hub = Idle /\ conn[c] = "registering"
    /\ clients' = clients \cup {c}
    /\ joined' = [joined EXCEPT ![c] = taken]
    /\ pump' = [pump EXCEPT ![c] = "runs"]
    /\ conn' = [conn EXCEPT ![c] = "open"]
    /\ UNCHANGED <<execVars, broadcast, hub, taken, send, closed, dropping, wire, panicked,
                   faults>>

Unregister(c) ==
    /\ hub = Idle /\ conn[c] = "leaving"
    /\ RemoveClient(c)
    /\ conn' = [conn EXCEPT ![c] = "gone"]
    /\ UNCHANGED <<execVars, broadcast, hub, taken, send, dropping, pump, wire, joined,
                   panicked, faults>>

(* broadcastMessage takes a snapshot of the clients and serves them. *)
Take ==
    /\ hub = Idle /\ broadcast # <<>>
    /\ hub' = [msg |-> Head(broadcast), to |-> clients]
    /\ taken' = taken + 1
    /\ broadcast' = Tail(broadcast)
    /\ UNCHANGED <<execVars, clientVars, panicked, faults>>

Deliver(c) ==
    /\ c \in hub.to
    /\ IF c \in closed
       THEN panicked' = TRUE /\ UNCHANGED <<send, dropping>>
       ELSE /\ IF Len(send[c]) < SendCap
               THEN send' = [send EXCEPT ![c] = Append(@, hub.msg)] /\ UNCHANGED dropping
               ELSE dropping' = dropping \cup {c} /\ UNCHANGED send
            /\ UNCHANGED panicked
    /\ hub' = [hub EXCEPT !.to = @ \ {c}]
    /\ UNCHANGED <<execVars, broadcast, taken, clients, closed, pump, wire, joined, conn,
                   faults>>

Served ==
    /\ hub # Idle /\ hub.to = {}
    /\ hub' = Idle
    /\ UNCHANGED <<execVars, broadcast, taken, clientVars, panicked, faults>>

HubStep ==
    \/ Take \/ Served
    \/ \E c \in Conns : Register(c) \/ Unregister(c) \/ Deliver(c)

(* go removeClient, for a client whose queue was full *)
Drop(c) ==
    /\ c \in dropping
    /\ RemoveClient(c)
    /\ dropping' = dropping \ {c}
    /\ UNCHANGED <<execVars, broadcast, hub, taken, send, pump, wire, joined, conn, panicked,
                   faults>>

(* The handler notices that the connection is closed. *)
Close(c) == conn' = [conn EXCEPT ![c] = IF @ = "open" THEN "leaving" ELSE @]

(* writePump writes a message, *)
PumpWrites(c) ==
    /\ pump[c] = "runs" /\ send[c] # <<>> /\ conn[c] = "open"
    /\ wire' = [wire EXCEPT ![c] = Append(@, Head(send[c]))]
    /\ send' = [send EXCEPT ![c] = Tail(@)]
    /\ UNCHANGED <<execVars, broadcast, hub, taken, clients, closed, dropping, pump, joined,
                   conn, panicked, faults>>

(* or cannot: the client is removed and the connection closed, *)
PumpFails(c) ==
    /\ pump[c] = "runs" /\ send[c] # <<>>
    /\ RemoveClient(c)
    /\ send' = [send EXCEPT ![c] = Tail(@)]
    /\ pump' = [pump EXCEPT ![c] = "ended"]
    /\ Close(c)
    /\ UNCHANGED <<execVars, broadcast, hub, taken, dropping, wire, joined, panicked, faults>>

(* or ends when its channel is closed and empty. *)
PumpEnds(c) ==
    /\ pump[c] = "runs"
    /\ c \in closed /\ send[c] = <<>>
    /\ pump' = [pump EXCEPT ![c] = "ended"]
    /\ Close(c)
    /\ UNCHANGED <<execVars, broadcast, hub, taken, clients, send, closed, dropping, wire,
                   joined, panicked, faults>>

Pump(c) == PumpWrites(c) \/ PumpFails(c) \/ PumpEnds(c)

-----------------------------------------------------------------------------
(* handleWS upgrades a connection for an execution that has a log, ... *)
Dial(c) ==
    /\ conn[c] = "none" /\ row.st # "none"
    /\ conn' = [conn EXCEPT ![c] = "registering"]
    /\ UNCHANGED <<execVars, broadcast, hub, taken, clients, send, closed, dropping, pump, wire,
                   joined, panicked, faults>>

(* ... and the browser goes away. *)
HangUp(c) ==
    /\ conn[c] = "open"
    /\ Close(c)
    /\ UNCHANGED <<execVars, broadcast, hub, taken, clients, send, closed, dropping, pump, wire,
                   joined, panicked, faults>>

System == Run \/ Cancel \/ ProcessEnds \/ HubStep \/ \E c \in Conns : Drop(c) \/ Pump(c)

Next ==
    /\ ~ panicked
    /\ System \/ \E c \in Conns : Dial(c) \/ HangUp(c)

Spec == Init /\ [][Next]_vars

(* Goroutines run on and restic ends.  Nothing is assumed of browsers, and  *)
(* of a pump only that a write succeeds or fails in the end (its deadline), *)
(* which PumpsRun adds where a property needs it.                           *)
Fairness ==
    /\ WF_vars(~ panicked /\ Run) /\ WF_vars(~ panicked /\ ProcessEnds)
    /\ WF_vars(~ panicked /\ HubStep)
    /\ \A c \in Conns : WF_vars(~ panicked /\ Drop(c))
PumpsRun == \A c \in Conns : WF_vars(~ panicked /\ Pump(c))

FairSpec == Spec /\ Fairness
-----------------------------------------------------------------------------
(* Type invariant; a client in the table has an open channel and a pump. *)
TypeOK ==
    /\ at \in Points /\ row.st \in Statuses /\ row.code \in Codes
    /\ cancels \in BOOLEAN /\ ended \in BOOLEAN /\ panicked \in BOOLEAN
    /\ proc \in {"none", "runs", "succeeded", "failed"}
    /\ lines \in 0..MaxLines /\ out.code \in Codes /\ result.code \in Codes
    /\ Len(broadcast) <= BroadcastCap
    /\ \A i \in 1..Len(broadcast) : broadcast[i] \in Messages
    /\ hub.to \subseteq Conns /\ dropping \subseteq Conns
    /\ clients \subseteq Conns \ closed
    /\ \A c \in Conns :
        /\ Len(send[c]) <= SendCap
        /\ pump[c] = "none" <=> conn[c] \in {"none", "registering"}
        /\ (c \in clients => pump[c] = "runs")
    /\ faults \in 0..MaxFaults

(* What a browser has been sent so far, and what waits for it. *)
Stream(c) == wire[c] \o send[c]

(* A client of the Hub that nobody is about to remove has every message     *)
(* since it was registered, in order: the Hub never skips one for a client  *)
(* it keeps (broadcastMessage).                                             *)
NoGap ==
    \A c \in clients : c \notin dropping =>
        Len(Stream(c)) + Cardinality({c} \cap hub.to) = taken - joined[c]

(* The n-th message of the execution: its lines, and then the completion. *)
Sent(n) == IF n <= lines THEN [line |-> n] ELSE Complete(out.code)

(* m was sent before k. *)
Earlier(m, k) == ~ IsComplete(m) /\ (IsComplete(k) \/ m.line < k.line)

(* No browser sees output out of order, twice or behind the completion,     *)
(* through two readers, a channel, the Hub and a queue of its own; and what *)
(* a client the Hub keeps has got is what was sent, from the message after  *)
(* its registration on (readStream, wg.Wait, broadcastMessage, writePump).  *)
InOrder ==
    \A c \in Conns :
        /\ \A i \in 1..Len(Stream(c)) : \A j \in 1..(i - 1) : Earlier(Stream(c)[j], Stream(c)[i])
        /\ c \in clients \ dropping =>
              \A i \in 1..Len(Stream(c)) : Stream(c)[i] = Sent(joined[c] + i)

(* What a browser is told of the end is what the log and the caller are     *)
(* told, and only an exit code 0 is a success (SendComplete, finishLog).    *)
EndsAgree ==
    (at = "returned" /\ row.st \in {"success", "failed", "cancelled"}) =>
        /\ row.code = result.code
        /\ row.st = "success" <=> result.code = 0
        /\ \A c \in Conns : \A i \in 1..Len(Stream(c)) :
            IsComplete(Stream(c)[i]) => Stream(c)[i].code = row.code

(* However slow or stuck browsers are, a command that runs is recorded in   *)
(* the end: the Hub never waits for one (no fairness of pumps is assumed).  *)
LogEnds == (row.st = "running") ~> (row.st # "running" \/ panicked \/ faults > 0)

(* Provided that pumps write or fail, a client that the completion message  *)
(* meets in the Hub's table is sent it or has its connection closed.        *)
CompleteOrClosed ==
    PumpsRun => \A c \in Conns :
        (c \in clients /\ IsComplete(hub.msg)) ~>
            (panicked \/ conn[c] # "open"
                \/ \E i \in 1..Len(wire[c]) : IsComplete(wire[c][i]))

(* What the Hub's test of a full client expects: that such a client is      *)
(* removed and the Hub goes on, and not that the process ends.              *)
HubSurvivesRemoval == ~ panicked
=============================================================================
