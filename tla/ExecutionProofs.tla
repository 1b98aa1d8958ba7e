-------------------------- MODULE ExecutionProofs --------------------------
(***************************************************************************)
(* Proofs about Execution for any connections and any capacities.  The      *)
(* executor alone decides status and exit code (Flow); whatever travels     *)
(* through the Hub is a line or the one completion that Run has sent        *)
(* (Contents); the table of clients and the states of pumps and connections *)
(* go together (Table), so that a client is registered with nothing sent to *)
(* it, and each message the Hub takes reaches it or drops it (Counted); the *)
(* messages carry the numbers of their sending, and every queue keeps them  *)
(* in that order (Ordered).                                                 *)
(***************************************************************************)
EXTENDS Execution, FiniteSetTheorems, SequenceTheorems, TLAPS

Ends == {"success", "failed", "cancelled"}
Late == {"finish", "unregister", "returned"}

(* What may be under way to a browser. *)
Said == Lines \cup (IF at \in Late THEN {Complete(out.code)} ELSE {})

Flow ==
    /\ at \in Points
    /\ row \in [st : Statuses, code : Codes]
    /\ out \in [st : Statuses, code : Codes, pipe : BOOLEAN]
    /\ result \in [id : BOOLEAN, code : Codes]
    /\ cancels \in BOOLEAN /\ ended \in BOOLEAN
    /\ proc \in {"none", "runs", "succeeded", "failed"}
    /\ lines \in 0..MaxLines /\ faults \in 0..MaxFaults
    /\ at = "insert" => row.st = "none"
    /\ row.st = "none" => at \in {"insert", "returned"}
    /\ (at \in Late \cup {"complete"} /\ row.st # "none") =>
          out.st \in Ends /\ (out.st = "success" <=> out.code = 0)
    /\ row.st \in Ends =>
          at \in {"unregister", "returned"} /\ row.st = out.st /\ row.code = out.code
    /\ (at = "returned" /\ row.st # "none") => result.code = out.code

Contents ==
    /\ broadcast \in Seq(Said) /\ Len(broadcast) <= BroadcastCap
    /\ hub \in [msg : Said \cup {NoMsg}, to : SUBSET Conns]
    /\ hub.msg = NoMsg => hub.to = {}
    /\ send \in [Conns -> Seq(Said)]
    /\ wire \in [Conns -> Seq(Said)]
    /\ \A c \in Conns : Len(send[c]) <= SendCap

Table ==
    /\ panicked \in BOOLEAN
    /\ clients \subseteq Conns \ closed
    /\ closed \subseteq Conns /\ dropping \subseteq Conns
    /\ pump \in [Conns -> {"none", "runs", "ended"}]
    /\ conn \in [Conns -> {"none", "registering", "open", "leaving", "gone"}]
    /\ \A c \in Conns :
        /\ pump[c] = "none" <=> conn[c] \in {"none", "registering"}
        /\ c \in clients => pump[c] = "runs"
        /\ c \in closed \cup hub.to => pump[c] # "none"
        /\ pump[c] = "none" => wire[c] = <<>> /\ send[c] = <<>>

(* What a client has got, and what the Hub holds for it. *)
Got(c) == Len(wire[c]) + Len(send[c])
Held(c) == IF c \in hub.to THEN 1 ELSE 0

Counted ==
    /\ taken \in Nat /\ joined \in [Conns -> Nat]
    /\ \A c \in clients \ dropping : Got(c) + Held(c) = taken - joined[c]

(* How many messages have been sent at most (a command that cannot be        *)
(* started sends none), and which of them a message is.                      *)
SentSoFar == IF at \in Late THEN lines + 1 ELSE lines
Number(m) == IF IsComplete(m) THEN lines + 1 ELSE m.line

(* What c has got comes from before what the Hub holds for it, in the order *)
(* of sending, and without a gap while the client is kept.                  *)
Streamed(c) ==
    \A i \in 1..Len(Stream(c)) :
        /\ Number(Stream(c)[i]) <= taken - Held(c)
        /\ \A j \in 1..(i - 1) : Number(Stream(c)[j]) < Number(Stream(c)[i])
        /\ c \in clients \ dropping => Stream(c)[i] = Sent(joined[c] + i)

Ordered ==
    /\ taken + Len(broadcast) <= SentSoFar
    /\ at \notin Late => taken + Len(broadcast) = lines
    /\ \A i \in 1..Len(broadcast) : broadcast[i] = Sent(taken + i)
    /\ hub.msg # NoMsg => taken > 0 /\ hub.msg = Sent(taken)
    /\ \A c \in Conns : Streamed(c)

IInv == Flow /\ Contents /\ Table /\ Counted /\ Ordered

-----------------------------------------------------------------------------
(* Nothing has happened at first. *)
LEMMA InitIInv == Init => IInv
<1> SUFFICES ASSUME Init PROVE IInv
  OBVIOUS
<1> USE ExecutionBoundsAssumption DEF Init
<1>1. Flow
  <2>1. lines \in 0..MaxLines /\ faults \in 0..MaxFaults
    OBVIOUS
  <2>2. /\ row \in [st : Statuses, code : Codes]
        /\ out \in [st : Statuses, code : Codes, pipe : BOOLEAN]
        /\ result \in [id : BOOLEAN, code : Codes]
    BY DEF Statuses, Codes
  <2> QED BY <2>1, <2>2 DEF Flow, Points, Ends, Late
<1>2. Contents
  BY DEF Contents, Idle
<1>3. Table
  BY DEF Table, Idle
<1>4. Counted
  BY DEF Counted, Got, Held
<1>5. Ordered
  <2>1. \A c \in Conns : Stream(c) = <<>>
    BY DEF Stream
  <2>2. Len(<<>>) = 0
    BY EmptySeq
  <2> QED BY <2>1, <2>2 DEF Ordered, Streamed, SentSoFar, Late, Idle
<1> QED BY <1>1, <1>2, <1>3, <1>4, <1>5 DEF IInv

(* The executor changes no variable of the Hub but its channel, the Hub and  *)
(* the connections none of the executor.                                     *)
LEMMA Frames ==
    /\ Run \/ Cancel \/ ProcessEnds => UNCHANGED <<hub, taken, clientVars, panicked>>
    /\ \A c \in Conns :
        HubStep \/ Drop(c) \/ Pump(c) \/ Dial(c) \/ HangUp(c) => UNCHANGED <<execVars, faults>>
<1>1. Run \/ Cancel \/ ProcessEnds => UNCHANGED <<hub, taken, clientVars, panicked>>
  BY DEF Run, Cancel, ProcessEnds, InsertLog, RegisterCancel, Start, StartFails, ReadLine,
         ReadEnds, Wait, SendComplete, Finish, UnregisterCancel, hubVars
<1>2. ASSUME NEW c \in Conns, HubStep \/ Drop(c) \/ Pump(c) \/ Dial(c) \/ HangUp(c)
      PROVE  UNCHANGED <<execVars, faults>>
  BY <1>2 DEF HubStep, Take, Served, Register, Unregister, Deliver, Drop, Pump, PumpWrites,
              PumpFails, PumpEnds, Dial, HangUp
<1> QED BY <1>1, <1>2

(* Every step of the executor keeps row, result and locals in agreement. *)
LEMMA FlowStep == Flow /\ [Next]_vars => Flow'
<1> SUFFICES ASSUME Flow, [Next]_vars PROVE Flow'
  OBVIOUS
<1> USE ExecutionBoundsAssumption DEF Flow, Points, Statuses, Codes, Ends, Late
<1>1. CASE InsertLog
  BY <1>1 DEF InsertLog, Fault
<1>2. CASE RegisterCancel
  BY <1>2 DEF RegisterCancel
<1>3. CASE Start
  BY <1>3 DEF Start
<1>4. CASE StartFails
  BY <1>4 DEF StartFails, FinishLog, Fault
<1>5. CASE ReadLine
  BY <1>5 DEF ReadLine
<1>6. CASE ReadEnds
  <2>1. at' = "wait" /\ row.st \notin Ends \cup {"none"} /\ faults' \in 0..MaxFaults
    BY <1>6 DEF ReadEnds, Fault
  <2>2. out' = out \/ out' = [out EXCEPT !.pipe = TRUE]
    BY <1>6 DEF ReadEnds
  <2>3. out' \in [st : Statuses, code : Codes, pipe : BOOLEAN]
    BY <2>2
  <2> QED BY <2>1, <2>3, <1>6 DEF ReadEnds
<1>7. CASE Wait
  <2>1. at' = "complete" /\ row.st \notin Ends \cup {"none"}
    BY <1>7 DEF Wait
  <2>2. PICK st \in Ends, code \in Codes :
          out' = [out EXCEPT !.st = st, !.code = code] /\ (st = "success" <=> code = 0)
    BY <1>7 DEF Wait
  <2>3. /\ out' \in [st : Statuses, code : Codes, pipe : BOOLEAN]
        /\ out'.st \in Ends /\ (out'.st = "success" <=> out'.code = 0)
    BY <2>2
  <2> QED BY <2>1, <2>3, <1>7 DEF Wait
<1>8. CASE SendComplete
  <2>1. at' = "finish" /\ row.st \notin Ends \cup {"none"}
    BY <1>8 DEF SendComplete
  <2> DEFINE st == IF out.pipe THEN "failed" ELSE out.st
  <2>2. st \in Ends /\ FinalCode(out) \in Codes /\ (st = "success" <=> FinalCode(out) = 0)
    BY <1>8 DEF SendComplete, FinalCode
  <2>3. out' = [out EXCEPT !.st = st, !.code = FinalCode(out)]
    BY <1>8 DEF SendComplete
  <2>4. /\ out' \in [st : Statuses, code : Codes, pipe : BOOLEAN]
        /\ out'.st \in Ends /\ (out'.st = "success" <=> out'.code = 0)
    <3> HIDE DEF st
    <3> QED BY <2>2, <2>3
  <2> QED BY <2>1, <2>4, <1>8 DEF SendComplete
<1>9. CASE Finish
  BY <1>9 DEF Finish, FinishLog, Fault
<1>10. CASE UnregisterCancel
  BY <1>10 DEF UnregisterCancel
<1>11. CASE Cancel
  BY <1>11 DEF Cancel
<1>12. CASE ProcessEnds
  BY <1>12 DEF ProcessEnds
<1>13. CASE UNCHANGED <<execVars, faults>>
  BY <1>13 DEF execVars
<1>14. CASE UNCHANGED vars
  BY <1>14 DEF vars, execVars
<1>15. CASE HubStep
  BY <1>15, <1>13 DEF HubStep, Take, Served, Register, Unregister, Deliver
<1> QED
  BY <1>1, <1>2, <1>3, <1>4, <1>5, <1>6, <1>7, <1>8, <1>9, <1>10, <1>11, <1>12, <1>13,
     <1>14, <1>15, Frames
     DEF Next, System, Run

(* What has been said stays said: the completion is sent once, and Run does  *)
(* not change its exit code afterwards.                                      *)
LEMMA SaidGrows == Flow /\ [Next]_vars => Said \subseteq Said'
<1> SUFFICES ASSUME Flow, [Next]_vars PROVE Said \subseteq Said'
  OBVIOUS
<1>1. CASE UNCHANGED <<at, out>>
  BY <1>1 DEF Said
<1>2. CASE at \notin Late
  BY <1>2 DEF Said
<1>3. CASE at \in Late /\ Run
  <2>1. CASE Finish
    BY <2>1 DEF Finish, Said, Late
  <2>2. CASE UnregisterCancel
    BY <2>2 DEF UnregisterCancel, Said, Late
  <2> QED
    BY <1>3, <2>1, <2>2
       DEF Run, Late, InsertLog, RegisterCancel, Start, StartFails, ReadLine, ReadEnds, Wait,
           SendComplete
<1>4. CASE Cancel \/ ProcessEnds \/ HubStep
  BY <1>4, <1>1
     DEF Cancel, ProcessEnds, HubStep, Take, Served, Register, Unregister, Deliver, execVars
<1> QED
  BY <1>1, <1>2, <1>3, <1>4, Frames DEF Next, System, vars, execVars

(* A message enters a queue at its end and leaves it at its head. *)
LEMMA QueueFacts ==
    ASSUME NEW S, NEW q \in Seq(S)
    PROVE  /\ Len(q) \in Nat
           /\ \A m \in S : Append(q, m) \in Seq(S) /\ Len(Append(q, m)) = Len(q) + 1
           /\ q # <<>> => /\ Head(q) \in S
                          /\ Tail(q) \in Seq(S) /\ Len(Tail(q)) = Len(q) - 1
<1>1. \A m \in S : Append(q, m) \in Seq(S) /\ Len(Append(q, m)) = Len(q) + 1
  OBVIOUS
<1>2. q # <<>> => Head(q) \in S /\ Tail(q) \in Seq(S) /\ Len(Tail(q)) = Len(q) - 1
  BY HeadTailProperties
<1> QED BY <1>1, <1>2, LenProperties

(* Lines and completions are messages, and the blank is none. *)
LEMMA SaidIsNoBlank == Flow => Said \subseteq Messages /\ NoMsg \notin Messages
<1>1. Flow => Said \subseteq Messages
  BY DEF Flow, Said, Messages
<1>2. NoMsg \notin Messages
  BY DEF NoMsg, Messages, Lines, Complete
<1> QED BY <1>1, <1>2

(* Every message on its way has been said. *)
LEMMA ContentsStep == Flow /\ Contents /\ Table /\ [Next]_vars => Contents'
<1> SUFFICES ASSUME Flow, Contents, Table, [Next]_vars PROVE Contents'
  OBVIOUS
<1>0. /\ Said \subseteq Said'
      /\ broadcast \in Seq(Said')
      /\ hub \in [msg : Said' \cup {NoMsg}, to : SUBSET Conns]
      /\ send \in [Conns -> Seq(Said')]
      /\ wire \in [Conns -> Seq(Said')]
  <2>1. Said \subseteq Said'
    BY SaidGrows
  <2>2. \A q \in Seq(Said) : q \in Seq(Said')
    BY <2>1, SeqMonotonic
  <2> QED BY <2>1, <2>2 DEF Contents
<1>1. CASE UNCHANGED <<broadcast, hub, send, wire>>
  BY <1>0, <1>1 DEF Contents
<1>2. ASSUME NEW m \in Said', Broadcast(m), UNCHANGED <<hub, send, wire>>
      PROVE  Contents'
  <2>1. broadcast' \in Seq(Said') /\ Len(broadcast') <= BroadcastCap
    <3>1. Len(broadcast') = Len(broadcast) + 1 /\ broadcast' \in Seq(Said')
      BY <1>0, <1>2, QueueFacts DEF Broadcast
    <3> QED BY <3>1, <1>0, <1>2, QueueFacts, ExecutionBoundsAssumption DEF Broadcast
  <2> QED BY <2>1, <1>0, <1>2 DEF Contents
<1>3. CASE Run
  <2>1. CASE ReadLine
    <3>1. [line |-> lines + 1] \in Said
      BY <2>1, ExecutionBoundsAssumption DEF ReadLine, Said, Lines, Flow
    <3> QED BY <3>1, <2>1, <1>0, <1>2 DEF ReadLine, clientVars
  <2>2. CASE SendComplete
    <3>1. Complete(FinalCode(out)) \in Said'
      BY <2>2 DEF SendComplete, Said, Late, Flow
    <3> QED BY <3>1, <2>2, <1>2 DEF SendComplete, clientVars
  <2> QED
    BY <1>3, <2>1, <2>2, <1>1
       DEF Run, InsertLog, RegisterCancel, Start, StartFails, ReadEnds, Wait, Finish,
           UnregisterCancel, hubVars, clientVars
<1>4. CASE Cancel \/ ProcessEnds
  BY <1>4, <1>1 DEF Cancel, ProcessEnds, hubVars, clientVars
<1>5. CASE Take
  <2>1. broadcast' \in Seq(Said') /\ Len(broadcast') <= BroadcastCap
    <3>1. Len(broadcast') = Len(broadcast) - 1 /\ broadcast' \in Seq(Said')
      BY <1>0, <1>5, QueueFacts DEF Take
    <3> QED BY <3>1, <1>0, QueueFacts, ExecutionBoundsAssumption DEF Contents
  <2>2. Head(broadcast) \in Said /\ hub' = [msg |-> Head(broadcast), to |-> clients]
    BY <1>5, QueueFacts DEF Take, Contents
  <2>3. Head(broadcast) # NoMsg
    BY <2>2, SaidIsNoBlank
  <2>4. clients \subseteq Conns
    BY DEF Table
  <2> QED BY <2>1, <2>2, <2>3, <2>4, <1>0, <1>5 DEF Contents, Take, clientVars
<1>6. CASE Served
  BY <1>6, <1>0 DEF Contents, Served, Idle, clientVars
<1>7. ASSUME NEW c \in Conns, Register(c) \/ Unregister(c) \/ Drop(c) \/ PumpEnds(c)
                               \/ Dial(c) \/ HangUp(c)
      PROVE  Contents'
  BY <1>7, <1>1 DEF Register, Unregister, Drop, PumpEnds, Dial, HangUp
<1>8. ASSUME NEW c \in Conns, Deliver(c) PROVE Contents'
  <2>1. hub' = [hub EXCEPT !.to = @ \ {c}] /\ UNCHANGED <<broadcast, wire>>
    BY <1>8 DEF Deliver
  <2>2. CASE UNCHANGED send
    BY <2>1, <2>2, <1>0 DEF Contents
  <2>3. CASE Len(send[c]) < SendCap /\ send' = [send EXCEPT ![c] = Append(@, hub.msg)]
    <3>1. hub.msg \in Said'
      BY <1>8, <1>0 DEF Contents, Deliver
    <3>2. Append(send[c], hub.msg) \in Seq(Said') /\ Len(Append(send[c], hub.msg)) <= SendCap
      <4>1. send[c] \in Seq(Said')
        BY <1>0
      <4> QED BY <4>1, <3>1, <2>3, QueueFacts, ExecutionBoundsAssumption
    <3>3. send' \in [Conns -> Seq(Said')] /\ \A d \in Conns : Len(send'[d]) <= SendCap
      BY <3>2, <2>3, <1>0 DEF Contents
    <3> QED BY <3>3, <2>1, <1>0 DEF Contents
  <2> QED BY <2>2, <2>3, <1>8 DEF Deliver
<1>9. ASSUME NEW c \in Conns, PumpWrites(c) PROVE Contents'
  <2>1. send[c] \in Seq(Said') /\ send[c] # <<>> /\ send' = [send EXCEPT ![c] = Tail(@)]
    BY <1>9, <1>0 DEF PumpWrites
  <2>2. Tail(send[c]) \in Seq(Said') /\ Len(Tail(send[c])) <= SendCap
    BY <2>1, QueueFacts, ExecutionBoundsAssumption DEF Contents
  <2>3. send' \in [Conns -> Seq(Said')] /\ \A d \in Conns : Len(send'[d]) <= SendCap
    BY <2>1, <2>2, <1>0 DEF Contents
  <2>4. wire' \in [Conns -> Seq(Said')]
    <3>1. wire' = [wire EXCEPT ![c] = Append(@, Head(send[c]))]
      BY <1>9 DEF PumpWrites
    <3>2. Append(wire[c], Head(send[c])) \in Seq(Said')
      BY <1>0, <2>1, QueueFacts
    <3> QED BY <3>1, <3>2, <1>0
  <2> QED BY <2>3, <2>4, <1>9, <1>0 DEF Contents, PumpWrites
<1>10. ASSUME NEW c \in Conns, PumpFails(c) PROVE Contents'
  <2>1. send[c] \in Seq(Said') /\ send[c] # <<>> /\ send' = [send EXCEPT ![c] = Tail(@)]
    BY <1>10, <1>0 DEF PumpFails
  <2>2. Tail(send[c]) \in Seq(Said') /\ Len(Tail(send[c])) <= SendCap
    BY <2>1, QueueFacts, ExecutionBoundsAssumption DEF Contents
  <2>3. send' \in [Conns -> Seq(Said')] /\ \A d \in Conns : Len(send'[d]) <= SendCap
    BY <2>1, <2>2, <1>0 DEF Contents
  <2>4. wire' \in [Conns -> Seq(Said')]
    BY <1>10, <1>0 DEF PumpFails
  <2> QED BY <2>3, <2>4, <1>10, <1>0 DEF Contents, PumpFails
<1>11. CASE UNCHANGED vars
  BY <1>11, <1>1 DEF vars, hubVars, clientVars
<1> QED
  BY <1>3, <1>4, <1>5, <1>6, <1>7, <1>8, <1>9, <1>10, <1>11 DEF Next, System, HubStep, Pump

(* The table, the pumps and the connections go together. *)
LEMMA TableStep == Contents /\ Table /\ [Next]_vars => Table'
<1> SUFFICES ASSUME Contents, Table, [Next]_vars PROVE Table'
  OBVIOUS
<1> USE DEF Table, RemoveClient, Close
<1>1. CASE UNCHANGED <<hub, clientVars, panicked>>
  BY <1>1 DEF clientVars
<1>2. CASE Take
  BY <1>2 DEF Take, Idle, clientVars
<1>3. CASE Served
  BY <1>3 DEF Served, Idle, clientVars
<1>4. ASSUME NEW c \in Conns, Register(c) PROVE Table'
  BY <1>4 DEF Register, Contents, Idle
<1>5. ASSUME NEW c \in Conns, Unregister(c) PROVE Table'
  BY <1>5 DEF Unregister
<1>6. ASSUME NEW c \in Conns, Deliver(c) PROVE Table'
  BY <1>6 DEF Deliver, Contents
<1>7. ASSUME NEW c \in Conns, Drop(c) PROVE Table'
  BY <1>7 DEF Drop
<1>8. ASSUME NEW c \in Conns, PumpWrites(c) PROVE Table'
  BY <1>8 DEF PumpWrites, Contents
<1>9. ASSUME NEW c \in Conns, PumpFails(c) PROVE Table'
  BY <1>9 DEF PumpFails, Contents
<1>10. ASSUME NEW c \in Conns, PumpEnds(c) PROVE Table'
  BY <1>10 DEF PumpEnds
<1>11. ASSUME NEW c \in Conns, Dial(c) PROVE Table'
  BY <1>11 DEF Dial
<1>12. ASSUME NEW c \in Conns, HangUp(c) PROVE Table'
  BY <1>12 DEF HangUp
<1>13. CASE UNCHANGED vars
  BY <1>13, <1>1 DEF vars, hubVars
<1> QED
  BY <1>1, <1>2, <1>3, <1>4, <1>5, <1>6, <1>7, <1>8, <1>9, <1>10, <1>11, <1>12, <1>13,
     Frames
     DEF Next, System, HubStep, Pump

(* What a client got is a number. *)
LEMMA GotNat ==
    ASSUME Contents, NEW c \in Conns
    PROVE  Len(wire[c]) \in Nat /\ Len(send[c]) \in Nat /\ Got(c) \in Nat
<1>1. Len(wire[c]) \in Nat /\ Len(send[c]) \in Nat
  BY QueueFacts DEF Contents
<1>2. \A w, s \in Nat : w + s \in Nat
  OBVIOUS
<1> QED BY <1>1, <1>2 DEF Got

(* A message that moves from the queue to the connection is counted once. *)
LEMMA Sums ==
    \A w, s \in Nat : w + (s + 1) = (w + s) + 1 /\ (w + 1) + (s - 1) = w + s
OBVIOUS

(* Each message taken is counted once for every client that is kept. *)
LEMMA CountedStep == Contents /\ Table /\ Counted /\ [Next]_vars => Counted'
<1> SUFFICES ASSUME Contents, Table, Counted, [Next]_vars PROVE Counted'
  OBVIOUS
<1>0. /\ taken \in Nat /\ joined \in [Conns -> Nat]
      /\ \A c \in clients \ dropping :
            /\ Got(c) + Held(c) = taken - joined[c]
            /\ c \in Conns /\ Got(c) \in Nat
  BY GotNat DEF Counted, Table
<1>1. ASSUME UNCHANGED <<hub, taken, send, wire, joined>>,
             clients' \ dropping' \subseteq clients \ dropping
      PROVE  Counted'
  BY <1>1 DEF Counted, Got, Held
<1>2. CASE UNCHANGED <<hub, taken, clientVars, panicked>>
  BY <1>2, <1>1 DEF clientVars
<1>3. CASE Take
  <2>1. hub.to = {} /\ hub'.to = clients /\ taken' = taken + 1
    BY <1>3 DEF Take, Idle
  <2>2. UNCHANGED <<clients, dropping, joined>> /\ \A d : Got(d)' = Got(d)
    BY <1>3 DEF Take, clientVars, Got
  <2>3. \A d \in clients : Held(d) = 0 /\ Held(d)' = 1
    BY <2>1 DEF Held
  <2> QED BY <1>0, <2>1, <2>2, <2>3 DEF Counted
<1>4. CASE Served
  <2>1. hub.to = hub'.to /\ UNCHANGED <<taken, clientVars>>
    BY <1>4 DEF Served, Idle
  <2> QED BY <2>1, <1>0 DEF Counted, Got, Held, clientVars
<1>5. ASSUME NEW c \in Conns, Register(c) PROVE Counted'
  <2>1. /\ clients' = clients \cup {c} /\ joined' = [joined EXCEPT ![c] = taken]
        /\ UNCHANGED <<taken, hub, dropping, send, wire>> /\ hub.to = {}
    BY <1>5 DEF Register, Idle
  <2>2. \A d : Got(d)' = Got(d) /\ Held(d)' = Held(d)
    BY <2>1 DEF Got, Held
  <2>3. Got(c) = 0 /\ Held(c) = 0
    <3>1. wire[c] = <<>> /\ send[c] = <<>>
      BY <1>5 DEF Register, Table
    <3>2. Len(wire[c]) = 0 /\ Len(send[c]) = 0
      BY <3>1, EmptySeq
    <3> QED BY <3>2, <2>1 DEF Got, Held
  <2>4. \A d \in clients' : d # c => d \in clients
    BY <2>1
  <2> QED BY <1>0, <2>1, <2>2, <2>3, <2>4 DEF Counted
<1>6. ASSUME NEW c \in Conns, Unregister(c) PROVE Counted'
  BY <1>6, <1>1 DEF Unregister, RemoveClient
<1>7. ASSUME NEW c \in Conns, Deliver(c) PROVE Counted'
  <2>1. hub'.to = hub.to \ {c} /\ c \in hub.to /\ UNCHANGED <<clients, taken, joined, wire>>
    BY <1>7 DEF Deliver, Contents
  <2>2. /\ dropping \subseteq dropping'
        /\ \A d \in Conns \ {c} : Got(d)' = Got(d) /\ Held(d)' = Held(d)
    BY <2>1, <1>7 DEF Deliver, Contents, Got, Held
  <2>3. ASSUME c \in clients \ dropping'
        PROVE  Got(c)' = Got(c) + 1 /\ Held(c)' = 0 /\ Held(c) = 1
    <3>1. send' = [send EXCEPT ![c] = Append(@, hub.msg)]
      BY <2>3, <1>7 DEF Deliver, Table
    <3>2. hub.msg \in Said
      BY <2>1 DEF Contents
    <3>3. Len(send'[c]) = Len(send[c]) + 1
      BY <3>1, <3>2, QueueFacts DEF Contents
    <3>4. Len(wire[c]) + (Len(send[c]) + 1) = (Len(wire[c]) + Len(send[c])) + 1
      BY GotNat, Sums
    <3> QED BY <3>3, <3>4, <2>1 DEF Got, Held
  <2> QED BY <1>0, <2>1, <2>2, <2>3 DEF Counted
<1>8. ASSUME NEW c \in Conns, Drop(c) PROVE Counted'
  BY <1>8, <1>1 DEF Drop, RemoveClient
<1>9. ASSUME NEW c \in Conns, PumpWrites(c) PROVE Counted'
  <2>1. /\ send[c] \in Seq(Said) /\ send[c] # <<>> /\ wire[c] \in Seq(Said)
        /\ send' = [send EXCEPT ![c] = Tail(@)]
        /\ wire' = [wire EXCEPT ![c] = Append(@, Head(send[c]))]
    BY <1>9 DEF PumpWrites, Contents
  <2>2. Len(send'[c]) = Len(send[c]) - 1 /\ Len(wire'[c]) = Len(wire[c]) + 1
    <3>1. Head(send[c]) \in Said /\ Len(Tail(send[c])) = Len(send[c]) - 1
      BY <2>1, QueueFacts
    <3>2. Len(Append(wire[c], Head(send[c]))) = Len(wire[c]) + 1
      BY <2>1, <3>1, QueueFacts
    <3> QED BY <2>1, <3>1, <3>2 DEF Contents
  <2>3. Got(c)' = Got(c)
    <3>1. (Len(wire[c]) + 1) + (Len(send[c]) - 1) = Len(wire[c]) + Len(send[c])
      BY GotNat, Sums
    <3> QED BY <3>1, <2>2 DEF Got
  <2>4. \A d \in Conns : Got(d)' = Got(d)
    BY <2>1, <2>3 DEF Contents, Got
  <2>5. UNCHANGED <<clients, dropping, taken, joined, hub>>
    BY <1>9 DEF PumpWrites
  <2> QED BY <1>0, <2>4, <2>5 DEF Counted, Held
<1>10. ASSUME NEW c \in Conns, PumpFails(c) PROVE Counted'
  <2>1. /\ UNCHANGED <<wire, hub, taken, joined, dropping>> /\ clients' = clients \ {c}
        /\ \A d \in Conns \ {c} : send'[d] = send[d]
    BY <1>10 DEF PumpFails, RemoveClient, Contents
  <2>2. \A d \in Conns \ {c} : Got(d)' = Got(d) /\ Held(d)' = Held(d)
    BY <2>1 DEF Got, Held
  <2> QED BY <1>0, <2>1, <2>2 DEF Counted
<1>11. ASSUME NEW c \in Conns, PumpEnds(c) \/ Dial(c) \/ HangUp(c) PROVE Counted'
  BY <1>11, <1>1 DEF PumpEnds, Dial, HangUp
<1>12. CASE UNCHANGED vars
  BY <1>12, <1>2 DEF vars, hubVars
<1> QED
  BY <1>2, <1>3, <1>4, <1>5, <1>6, <1>7, <1>8, <1>9, <1>10, <1>11, <1>12, Frames
     DEF Next, System, HubStep, Pump

(* What was written and what waits, as one sequence. *)
LEMMA StreamSaid ==
    ASSUME Contents, NEW c \in Conns
    PROVE  /\ Stream(c) \in Seq(Said) /\ Len(Stream(c)) = Got(c)
           /\ \A i \in 1..Len(Stream(c)) : Stream(c)[i] \in Said
<1>1. Stream(c) \in Seq(Said) /\ Len(Stream(c)) = Got(c)
  BY ConcatProperties DEF Contents, Stream, Got
<1> QED BY <1>1, ElementOfSeq

(* Moving the head of a queue to the end of what stands before it changes    *)
(* nothing, and what is put at the end of the queue is at the end of both.   *)
LEMMA MoveKeeps ==
    ASSUME NEW S, NEW w \in Seq(S), NEW s \in Seq(S)
    PROVE  /\ s # <<>> => Append(w, Head(s)) \o Tail(s) = w \o s
           /\ \A m \in S : w \o Append(s, m) = Append(w \o s, m)
<1>1. ASSUME s # <<>> PROVE Append(w, Head(s)) \o Tail(s) = w \o s
  <2>1. /\ Head(s) \in S /\ Tail(s) \in Seq(S) /\ <<Head(s)>> \in Seq(S)
        /\ Append(w, Head(s)) = w \o <<Head(s)>>
    BY <1>1, HeadTailProperties, AppendIsConcat
  <2>2. <<Head(s)>> \o Tail(s) = s
    <3>1. Len(s) \in Nat \ {0}
      BY <1>1, EmptySeq
    <3>2. SubSeq(s, 1, Len(s)) = <<s[1]>> \o SubSeq(s, 2, Len(s))
      BY <3>1, SubSeqRecursiveFirst
    <3>3. Head(s) = s[1] /\ Tail(s) = SubSeq(s, 2, Len(s)) /\ SubSeq(s, 1, Len(s)) = s
      BY <1>1, <3>1, TailIsSubSeq, SubSeqFull
    <3> QED BY <3>2, <3>3
  <2> QED BY <2>1, <2>2, ConcatAssociative
<1>2. ASSUME NEW m \in S PROVE w \o Append(s, m) = Append(w \o s, m)
  <2>1. <<m>> \in Seq(S) /\ w \o s \in Seq(S)
    BY ConcatProperties
  <2> QED BY <2>1, AppendIsConcat, ConcatAssociative
<1> QED BY <1>1, <1>2

(* Without its head a queue is the same but for that place. *)
LEMMA LossShifts ==
    ASSUME NEW S, NEW w \in Seq(S), NEW s \in Seq(S), s # <<>>
    PROVE  /\ Len(w \o Tail(s)) = Len(w \o s) - 1
           /\ \A i \in 1..Len(w \o Tail(s)) :
                (w \o Tail(s))[i] = (w \o s)[IF i <= Len(w) THEN i ELSE i + 1]
<1>1. Len(w) \in Nat /\ Len(s) \in Nat \ {0}
  BY EmptySeq, LenProperties
<1>2. /\ Tail(s) \in Seq(S) /\ Len(Tail(s)) = Len(s) - 1
      /\ \A i \in 1..Len(Tail(s)) : Tail(s)[i] = s[i + 1]
  BY HeadTailProperties
<1>3. /\ Len(w \o Tail(s)) = Len(w) + Len(Tail(s)) /\ Len(w \o s) = Len(w) + Len(s)
      /\ \A i \in 1..Len(w) + Len(Tail(s)) :
            (w \o Tail(s))[i] = IF i <= Len(w) THEN w[i] ELSE Tail(s)[i - Len(w)]
      /\ \A i \in 1..Len(w) + Len(s) :
            (w \o s)[i] = IF i <= Len(w) THEN w[i] ELSE s[i - Len(w)]
  BY <1>2, ConcatProperties
<1> QED BY <1>1, <1>2, <1>3

(* The n-th message sent has the number n, the completion the last one. *)
LEMMA SentNumbers ==
    ASSUME Flow
    PROVE  /\ lines \in Nat /\ SentSoFar \in {lines, lines + 1}
           /\ \A n \in Nat : n > 0 /\ n <= SentSoFar => Number(Sent(n)) = n
           /\ \A m \in Said : Number(m) \in Nat
<1>1. lines \in Nat /\ SentSoFar \in {lines, lines + 1} /\ out.code \in Codes
  BY ExecutionBoundsAssumption DEF Flow, SentSoFar
<1>2. \A n \in Nat : ~ IsComplete([line |-> n])
  BY DEF IsComplete, Complete
<1>3. \A k \in Codes : IsComplete(Complete(k))
  BY DEF IsComplete
<1>4. \A m \in Said : IsComplete(m) \/ \E n \in Nat : m = [line |-> n]
  BY <1>1, <1>3, ExecutionBoundsAssumption DEF Said, Lines
<1> QED BY <1>1, <1>2, <1>3, <1>4 DEF Sent, Number

(* Messages keep their numbers: lines are read before the completion is sent *)
(* (wg.Wait), and its code is fixed when it is.                              *)
LEMMA NumbersStay ==
    ASSUME Flow, [Next]_vars
    PROVE  /\ \A n \in Nat : n <= SentSoFar => Sent(n)' = Sent(n)
           /\ \A m \in Said : Number(m)' = Number(m)
<1>0. lines \in Nat /\ ~ (\E m \in Lines : IsComplete(m))
  BY ExecutionBoundsAssumption DEF Flow, Lines, IsComplete, Complete
<1>1. CASE UNCHANGED <<at, lines, out>>
  BY <1>1 DEF Sent, Number
<1>2. CASE at \in Late /\ UNCHANGED <<lines, out>>
  BY <1>2 DEF Sent, Number
<1>3. CASE at \notin Late /\ lines' \in {lines, lines + 1}
  BY <1>0, <1>3 DEF Sent, Number, SentSoFar, Said
<1>4. CASE Run
  <2>1. at \in Late => UNCHANGED <<lines, out>>
    BY <1>4 DEF Run, Late, InsertLog, RegisterCancel, Start, StartFails, ReadLine, ReadEnds,
                Wait, SendComplete, Finish, UnregisterCancel
  <2>2. lines' \in {lines, lines + 1}
    BY <1>4 DEF Run, InsertLog, RegisterCancel, Start, StartFails, ReadLine, ReadEnds,
                Wait, SendComplete, Finish, UnregisterCancel
  <2> QED BY <2>1, <2>2, <1>2, <1>3
<1>5. CASE Cancel \/ ProcessEnds
  BY <1>5, <1>1 DEF Cancel, ProcessEnds
<1>6. CASE UNCHANGED <<execVars, faults>>
  BY <1>6, <1>1 DEF execVars
<1>7. CASE HubStep
  BY <1>7, <1>1 DEF HubStep, Take, Served, Register, Unregister, Deliver, execVars
<1> QED BY <1>1, <1>4, <1>5, <1>6, <1>7, Frames DEF Next, System, vars, execVars

(* What a client that is kept has got was sent before. *)
LEMMA GotWasSent ==
    ASSUME IInv, NEW c \in clients \ dropping, NEW i \in 1..Len(Stream(c))
    PROVE  joined[c] + i \in Nat /\ joined[c] + i <= taken /\ taken <= SentSoFar
<1>1. c \in Conns /\ Len(Stream(c)) = Got(c) /\ Got(c) \in Nat
  BY StreamSaid, GotNat DEF IInv, Table
<1>2. Len(broadcast) \in Nat
  BY LenProperties DEF IInv, Contents
<1>3. SentSoFar \in Nat
  BY SentNumbers DEF IInv
<1> QED BY <1>1, <1>2, <1>3 DEF IInv, Counted, Ordered, Held

(* A stream that does not change keeps its numbers. *)
LEMMA StreamStays ==
    ASSUME IInv, [Next]_vars, NEW c \in Conns,
           UNCHANGED <<Stream(c), joined[c]>>,
           taken - Held(c) <= taken' - Held(c)',
           c \in clients' \ dropping' => c \in clients \ dropping
    PROVE  Streamed(c)'
<1>1. /\ \A i \in 1..Len(Stream(c)) : Stream(c)[i] \in Said /\ Number(Stream(c)[i]) \in Nat
      /\ Len(Stream(c)) \in Nat
  BY StreamSaid, GotNat, SentNumbers DEF IInv
<1>2. taken \in Nat /\ taken' \in Nat /\ Held(c) \in {0, 1} /\ Held(c)' \in {0, 1}
  BY CountedStep DEF IInv, Counted, Held
<1>3. ASSUME NEW i \in 1..Len(Stream(c))
      PROVE  /\ Number(Stream(c)[i]) <= taken' - Held(c)'
             /\ \A j \in 1..(i - 1) : /\ Number(Stream(c)[j]) < Number(Stream(c)[i])
                                      /\ j \in 1..Len(Stream(c))
             /\ c \in clients \ dropping => Stream(c)[i] = Sent(joined[c] + i)
  <2>1. /\ Number(Stream(c)[i]) <= taken - Held(c)
        /\ \A j \in 1..(i - 1) : Number(Stream(c)[j]) < Number(Stream(c)[i])
        /\ c \in clients \ dropping => Stream(c)[i] = Sent(joined[c] + i)
    BY DEF IInv, Ordered, Streamed
  <2>2. Number(Stream(c)[i]) \in Nat
    BY <1>1
  <2>3. Number(Stream(c)[i]) <= taken' - Held(c)'
    BY <1>2, <2>1, <2>2
  <2>4. \A j \in 1..(i - 1) : j \in 1..Len(Stream(c))
    BY <1>1
  <2> QED BY <2>1, <2>3, <2>4
<1>4. \A m \in Said : Number(m)' = Number(m)
  BY NumbersStay DEF IInv
<1>5. \A i \in 1..Len(Stream(c)) : Number(Stream(c)[i])' = Number(Stream(c)[i])
  BY <1>1, <1>4 DEF Number
<1>6. ASSUME NEW i \in 1..Len(Stream(c)), c \in clients \ dropping
      PROVE  Sent(joined[c] + i)' = Sent(joined[c] + i)
  <2>1. joined[c] + i \in Nat /\ joined[c] + i <= SentSoFar
    BY <1>6, GotWasSent, SentNumbers DEF IInv, Counted
  <2>2. \A n \in Nat : n <= SentSoFar => Sent(n)' = Sent(n)
    BY NumbersStay DEF IInv
  <2> QED BY <2>1, <2>2 DEF Sent
<1> QED BY <1>3, <1>5, <1>6 DEF Streamed

(* Every step keeps the messages in the order of their sending. *)
LEMMA OrderedStep == IInv /\ [Next]_vars => Ordered'
<1> SUFFICES ASSUME IInv, [Next]_vars PROVE Ordered'
  OBVIOUS
<1>0. /\ taken \in Nat /\ Len(broadcast) \in Nat /\ lines \in Nat /\ SentSoFar \in Nat
      /\ Flow' /\ Contents' /\ Counted'
  BY LenProperties, SentNumbers, FlowStep, ContentsStep, CountedStep DEF IInv, Counted, Contents
<1>00. SentSoFar' \in Nat
  <2>1. lines' \in 0..MaxLines
    BY <1>0 DEF Flow
  <2>2. lines' \in Nat
    BY <2>1, ExecutionBoundsAssumption
  <2>3. SentSoFar' = lines' \/ SentSoFar' = lines' + 1
    BY DEF SentSoFar
  <2>4. \A n \in Nat : n + 1 \in Nat
    OBVIOUS
  <2> QED BY <2>2, <2>3, <2>4
<1>1. ASSUME UNCHANGED <<hub, taken, clientVars>> PROVE \A c \in Conns : Streamed(c)'
  BY <1>1, <1>0, StreamStays DEF clientVars, Stream, Held
<1>2. ASSUME NEW n \in Nat, n <= SentSoFar PROVE Sent(n)' = Sent(n)
  BY <1>2, NumbersStay DEF IInv
<1>3. ASSUME UNCHANGED <<broadcast, hub, taken>>,
             SentSoFar <= SentSoFar', at' \notin Late => at \notin Late /\ lines' = lines
      PROVE  /\ taken' + Len(broadcast') <= SentSoFar'
             /\ at' \notin Late => taken' + Len(broadcast') = lines'
             /\ \A i \in 1..Len(broadcast') : broadcast'[i] = Sent(taken + i)'
             /\ hub'.msg # NoMsg => taken' > 0 /\ hub'.msg = Sent(taken)'
  <2>2. taken' + Len(broadcast') <= SentSoFar' /\ (at' \notin Late => taken' + Len(broadcast') = lines')
    BY <1>3, <1>0, <1>00 DEF IInv, Ordered
  <2>3. \A i \in 1..Len(broadcast) : broadcast[i] = Sent(taken + i) /\ Sent(taken + i) = Sent(taken + i)'
    BY <1>3, <1>0, <1>2 DEF IInv, Ordered, Sent
  <2>4. hub.msg # NoMsg => taken > 0 /\ hub.msg = Sent(taken) /\ Sent(taken) = Sent(taken)'
    BY <1>3, <1>0, <1>2 DEF IInv, Ordered, Sent
  <2> QED BY <1>3, <2>2, <2>3, <2>4
<1>4. ASSUME UNCHANGED <<broadcast, hub, taken, clientVars>>,
             SentSoFar <= SentSoFar', at' \notin Late => at \notin Late /\ lines' = lines
      PROVE  Ordered'
  BY <1>4, <1>1, <1>3 DEF Ordered
<1>5. CASE UNCHANGED <<execVars, faults>> /\ UNCHANGED <<broadcast, hub, taken, clientVars>>
  BY <1>5, <1>4, <1>0 DEF SentSoFar, execVars
<1>6. ASSUME NEW m \in Said', Broadcast(m), UNCHANGED <<hub, taken, clientVars>>, at \notin Late,
             m = IF lines + 1 <= lines' THEN [line |-> lines + 1] ELSE Complete(out'.code),
             SentSoFar' = lines + 1, at' \notin Late => lines' = lines + 1
      PROVE  Ordered'
  <2>1. /\ Len(broadcast') = Len(broadcast) + 1 /\ broadcast'[Len(broadcast) + 1] = m
        /\ \A i \in 1..Len(broadcast) : broadcast'[i] = broadcast[i]
    <3>1. broadcast \in Seq(Said')
      BY SaidGrows, SeqMonotonic DEF IInv, Contents
    <3> QED BY <3>1, <1>6, AppendProperties DEF Broadcast
  <2>2. taken + Len(broadcast) = lines /\ SentSoFar = lines
    BY <1>6 DEF IInv, Ordered, SentSoFar
  <2>3. ASSUME NEW i \in 1..Len(broadcast') PROVE broadcast'[i] = Sent(taken + i)'
    <3>1. CASE i \in 1..Len(broadcast)
      <4>1. broadcast'[i] = Sent(taken + i) /\ taken + i \in Nat /\ taken + i <= SentSoFar
        BY <2>1, <2>2, <3>1, <1>0 DEF IInv, Ordered
      <4> QED BY <4>1, <1>2, <1>6 DEF Sent
    <3>2. CASE i = Len(broadcast) + 1
      <4>1. taken' + i = lines + 1
        BY <2>2, <3>2, <1>0, <1>6
      <4> QED BY <4>1, <2>1, <3>2, <1>6 DEF Sent
    <3> QED BY <3>1, <3>2, <2>1, <1>0
  <2>4. hub.msg # NoMsg => taken > 0 /\ hub.msg = Sent(taken) /\ Sent(taken)' = Sent(taken)
    BY <1>6, <2>2, <1>0, <1>2 DEF IInv, Ordered, Sent
  <2>5. hub'.msg # NoMsg => taken' > 0 /\ hub'.msg = Sent(taken)'
    BY <2>4, <1>6
  <2>6. taken' + Len(broadcast') = lines + 1
    BY <2>1, <2>2, <1>0, <1>6
  <2>7. \A c \in Conns : Streamed(c)'
    BY <1>1, <1>6
  <2> QED BY <2>3, <2>5, <2>6, <2>7, <1>0, <1>6 DEF Ordered
<1>7. CASE Run
  <2>1. CASE ReadLine
    <3>1. at = "read" /\ at' = "read" /\ lines' = lines + 1 /\ UNCHANGED out
      BY <2>1 DEF ReadLine
    <3>2. lines + 1 <= lines' /\ SentSoFar' = lines + 1
      BY <3>1, <1>0 DEF SentSoFar, Late
    <3>3. [line |-> lines + 1] \in Said'
      BY <3>1, <1>0, ExecutionBoundsAssumption DEF Said, Lines, Flow
    <3>4. Broadcast([line |-> lines + 1]) /\ UNCHANGED <<hub, taken, clientVars>>
      BY <2>1 DEF ReadLine
    <3> QED BY <3>1, <3>2, <3>3, <3>4, <1>6 DEF Late
  <2>2. CASE SendComplete
    <3>1. at = "complete" /\ at' = "finish" /\ lines' = lines /\ out'.code = FinalCode(out)
      BY <2>2 DEF SendComplete, IInv, Flow
    <3>2. ~ (lines + 1 <= lines') /\ SentSoFar' = lines + 1
      BY <3>1, <1>0 DEF SentSoFar, Late
    <3>3. Complete(out'.code) \in Said'
      BY <3>1 DEF Said, Late
    <3>4. Broadcast(Complete(out'.code)) /\ UNCHANGED <<hub, taken, clientVars>>
      BY <3>1, <2>2 DEF SendComplete
    <3> QED BY <3>1, <3>2, <3>3, <3>4, <1>6 DEF Late
  <2>3. CASE Run /\ ~ ReadLine /\ ~ SendComplete
    <3>1. UNCHANGED <<broadcast, hub, taken, clientVars, lines>> /\ (at \in Late => at' \in Late)
      BY <2>3 DEF Run, InsertLog, RegisterCancel, Start, StartFails, ReadEnds, Wait, Finish,
                  UnregisterCancel, hubVars, Late
    <3> QED BY <3>1, <1>0, <1>4 DEF SentSoFar
  <2> QED BY <1>7, <2>1, <2>2, <2>3
<1>8. CASE Cancel \/ ProcessEnds
  BY <1>8, <1>0, <1>4 DEF Cancel, ProcessEnds, SentSoFar, hubVars
<1>9. ASSUME UNCHANGED <<execVars, faults>>
      PROVE  SentSoFar' = SentSoFar /\ UNCHANGED <<at, lines, out>>
             /\ \A n : Sent(n)' = Sent(n)
  BY <1>9 DEF execVars, SentSoFar, Sent
<1>10. CASE Take
  <2>1. /\ hub = Idle /\ hub' = [msg |-> Head(broadcast), to |-> clients] /\ taken' = taken + 1
        /\ broadcast' = Tail(broadcast) /\ broadcast # <<>> /\ UNCHANGED clientVars
        /\ UNCHANGED <<execVars, faults>>
    BY <1>10 DEF Take
  <2>2. /\ Len(broadcast) > 0 /\ Len(Tail(broadcast)) = Len(broadcast) - 1
        /\ Head(broadcast) = broadcast[1]
        /\ \A i \in 1..Len(Tail(broadcast)) : Tail(broadcast)[i] = broadcast[i + 1]
    BY <2>1, <1>0, HeadTailProperties, EmptySeq DEF IInv, Contents
  <2>3. ASSUME NEW c \in Conns PROVE Streamed(c)'
    <3>1. Held(c) = 0 /\ Held(c)' \in {0, 1} /\ taken' = taken + 1
      BY <2>1 DEF Held, Idle
    <3>2. UNCHANGED <<Stream(c), joined[c], clients, dropping>>
      BY <2>1 DEF clientVars, Stream
    <3> QED BY <3>1, <3>2, <1>0, StreamStays
  <2>4. \A i \in 1..Len(broadcast) : broadcast[i] = Sent(taken + i)
    BY DEF IInv, Ordered
  <2>5. \A i \in 1..Len(Tail(broadcast)) :
            taken' + i = taken + (i + 1) /\ i + 1 \in 1..Len(broadcast)
    BY <2>1, <2>2, <1>0
  <2>6. \A i \in 1..Len(broadcast') : broadcast'[i] = Sent(taken + i)'
    BY <2>1, <2>2, <2>4, <2>5, <1>9 DEF Sent
  <2>7. hub'.msg = Sent(taken)' /\ taken' > 0
    BY <2>1, <2>2, <2>4, <1>9, <1>0 DEF Sent
  <2>8. taken' + Len(broadcast') = taken + Len(broadcast)
    BY <2>1, <2>2, <1>0
  <2> QED BY <2>1, <2>3, <2>6, <2>7, <2>8, <1>9 DEF Ordered, IInv
<1>11. CASE Served
  <2>1. /\ hub' = Idle /\ hub.to = {} /\ UNCHANGED <<broadcast, taken, clientVars>>
        /\ UNCHANGED <<execVars, faults>>
    BY <1>11 DEF Served
  <2>2. ASSUME NEW c \in Conns PROVE Streamed(c)'
    <3>1. Held(c) = 0 /\ Held(c)' = 0 /\ UNCHANGED <<Stream(c), joined[c], clients, dropping>>
      BY <2>1 DEF Held, Idle, Stream, clientVars
    <3> QED BY <3>1, <2>1, <1>0, StreamStays
  <2>3. hub'.msg = NoMsg
    BY <2>1 DEF Idle
  <2>4. \A i \in 1..Len(broadcast) : broadcast[i] = Sent(taken + i)
    BY DEF IInv, Ordered
  <2>5. \A i \in 1..Len(broadcast') : broadcast'[i] = Sent(taken + i)'
    BY <2>1, <2>4, <1>9 DEF Sent
  <2> QED BY <2>1, <2>2, <2>3, <2>5, <1>9 DEF Ordered, IInv
<1>12. ASSUME NEW c \in Conns, UNCHANGED <<broadcast, taken>>, UNCHANGED <<execVars, faults>>,
              hub'.msg = hub.msg, Streamed(c)',
              \A d \in Conns \ {c} :
                UNCHANGED <<Stream(d), joined[d], Held(d)>>
                  /\ (d \in clients' \ dropping' => d \in clients \ dropping)
       PROVE  Ordered'
  <2>1. \A d \in Conns : Streamed(d)'
    BY <1>12, <1>0, StreamStays DEF Held
  <2>2. \A i \in 1..Len(broadcast') : broadcast'[i] = Sent(taken + i)'
    BY <1>9, <1>12 DEF Ordered, IInv, Sent
  <2>3. hub'.msg # NoMsg => taken' > 0 /\ hub'.msg = Sent(taken)'
    BY <1>9, <1>12 DEF Ordered, IInv, Sent
  <2> QED BY <2>1, <2>2, <2>3, <1>9, <1>12 DEF Ordered, IInv
<1>13. ASSUME NEW c \in Conns, Register(c) PROVE Ordered'
  <2>1. /\ UNCHANGED <<broadcast, taken, hub, send, wire, dropping>> /\ UNCHANGED <<execVars, faults>>
        /\ clients' = clients \cup {c} /\ \A d \in Conns \ {c} : joined'[d] = joined[d]
    BY <1>13 DEF Register, IInv, Counted
  <2>2. Streamed(c)'
    <3>1. Stream(c)' = <<>>
      BY <1>13 DEF Register, IInv, Table, Stream
    <3> QED BY <3>1, EmptySeq DEF Streamed
  <2> QED BY <2>1, <2>2, <1>12 DEF Stream, Held
<1>14. ASSUME NEW c \in Conns, Unregister(c) \/ Drop(c) \/ PumpEnds(c) \/ Dial(c) \/ HangUp(c)
       PROVE  Ordered'
  <2>1. /\ UNCHANGED <<broadcast, taken, hub, send, wire, joined>> /\ UNCHANGED <<execVars, faults>>
        /\ clients' \ dropping' \subseteq clients \ dropping
    BY <1>14 DEF Unregister, Drop, PumpEnds, Dial, HangUp, RemoveClient
  <2>2. \A d \in Conns : UNCHANGED <<Stream(d), joined[d], Held(d)>>
                             /\ (d \in clients' \ dropping' => d \in clients \ dropping)
    BY <2>1 DEF Stream, Held
  <2>3. Streamed(c)'
    BY <2>1, <2>2, <1>0, StreamStays DEF Held
  <2> QED BY <2>1, <2>2, <2>3, <1>12
<1>15. ASSUME NEW c \in Conns, PumpWrites(c) PROVE Ordered'
  <2>1. /\ UNCHANGED <<broadcast, taken, hub, joined, clients, dropping>>
        /\ UNCHANGED <<execVars, faults>>
        /\ send' = [send EXCEPT ![c] = Tail(@)]
        /\ wire' = [wire EXCEPT ![c] = Append(@, Head(send[c]))]
        /\ send[c] # <<>>
    BY <1>15 DEF PumpWrites
  <2>2. \A d \in Conns : Stream(d)' = Stream(d)
    <3>0. wire[c] \in Seq(Said) /\ send[c] \in Seq(Said)
      BY DEF IInv, Contents
    <3>1. Append(wire[c], Head(send[c])) \o Tail(send[c]) = wire[c] \o send[c]
      BY <3>0, <2>1, MoveKeeps
    <3> QED BY <3>1, <2>1 DEF Stream, IInv, Contents
  <2>3. \A d \in Conns : UNCHANGED <<Stream(d), joined[d], Held(d)>>
                             /\ (d \in clients' \ dropping' => d \in clients \ dropping)
    BY <2>1, <2>2 DEF Held
  <2>4. Streamed(c)'
    BY <2>1, <2>3, <1>0, StreamStays DEF Held
  <2> QED BY <2>1, <2>3, <2>4, <1>12
<1>16. ASSUME NEW c \in Conns, PumpFails(c) PROVE Ordered'
  <2>1. /\ UNCHANGED <<broadcast, taken, hub, joined, wire, dropping>>
        /\ UNCHANGED <<execVars, faults>>
        /\ send' = [send EXCEPT ![c] = Tail(@)] /\ clients' = clients \ {c}
        /\ send[c] # <<>>
    BY <1>16 DEF PumpFails, RemoveClient
  <2>2. /\ Stream(c)' = wire[c] \o Tail(send[c])
        /\ \A d \in Conns \ {c} : UNCHANGED <<Stream(d), joined[d], Held(d)>>
                             /\ (d \in clients' \ dropping' => d \in clients \ dropping)
    BY <2>1 DEF Stream, IInv, Contents, Held
  <2>3. /\ Len(Stream(c)') = Len(Stream(c)) - 1
        /\ \A i \in 1..Len(Stream(c)') :
              Stream(c)'[i] = Stream(c)[IF i <= Len(wire[c]) THEN i ELSE i + 1]
    BY <2>1, <2>2, LossShifts DEF IInv, Contents, Stream
  <2>4. Streamed(c)'
    <3>1. /\ Len(Stream(c)) \in Nat /\ Len(wire[c]) \in Nat
          /\ \A i \in 1..Len(Stream(c)) : Number(Stream(c)[i]) \in Nat
      BY StreamSaid, GotNat, SentNumbers DEF IInv
    <3>2. \A m : Number(m)' = Number(m)
      BY <1>9, <2>1 DEF Number
    <3>3. ASSUME NEW i \in 1..Len(Stream(c)')
          PROVE  /\ Number(Stream(c)'[i]) <= taken - Held(c)
                 /\ \A j \in 1..(i - 1) : Number(Stream(c)'[j]) < Number(Stream(c)'[i])
      <4> DEFINE At(k) == IF k <= Len(wire[c]) THEN k ELSE k + 1
      <4>1. /\ At(i) \in 1..Len(Stream(c)) /\ i \in 1..Len(Stream(c)')
            /\ \A j \in 1..(i - 1) : j \in 1..Len(Stream(c)') /\ At(j) \in 1..(At(i) - 1)
        BY <2>3, <3>1
      <4>2. \A k \in 1..Len(Stream(c)') : Stream(c)'[k] = Stream(c)[At(k)]
        BY <2>3
      <4>3. /\ Number(Stream(c)[At(i)]) <= taken - Held(c)
            /\ \A j \in 1..(At(i) - 1) : Number(Stream(c)[j]) < Number(Stream(c)[At(i)])
        BY <4>1 DEF IInv, Ordered, Streamed
      <4> HIDE DEF At
      <4> QED BY <4>1, <4>2, <4>3
    <3>4. \A i \in 1..Len(Stream(c)') : Number(Stream(c)[i])' = Number(Stream(c)'[i])
      BY <1>9, <2>1 DEF Number
    <3> QED BY <2>1, <3>3, <3>4 DEF Streamed, Held
  <2> QED BY <2>1, <2>2, <2>4, <1>12
<1>17. ASSUME NEW c \in Conns, Deliver(c) PROVE Ordered'
  <2>1. /\ UNCHANGED <<broadcast, taken, joined, clients, wire>> /\ UNCHANGED <<execVars, faults>>
        /\ hub' = [hub EXCEPT !.to = @ \ {c}] /\ c \in hub.to
    BY <1>17 DEF Deliver
  <2>2. hub'.msg = hub.msg /\ hub'.to = hub.to \ {c} /\ hub.msg # NoMsg /\ hub.msg \in Said
    BY <2>1 DEF IInv, Contents
  <2>3. \A d \in Conns \ {c} : UNCHANGED <<Stream(d), joined[d], Held(d)>>
                             /\ (d \in clients' \ dropping' => d \in clients \ dropping)
    BY <1>17, <2>1, <2>2 DEF Deliver, Stream, Held, IInv, Contents
  <2>4. CASE UNCHANGED send /\ c \notin clients' \ dropping'
    <3>1. Stream(c)' = Stream(c) /\ Held(c) = 1 /\ Held(c)' = 0
      BY <2>4, <2>1, <2>2 DEF Stream, Held
    <3>2. Streamed(c)'
      BY <3>1, <2>1, <2>4, <1>0, StreamStays
    <3> QED BY <3>2, <2>1, <2>2, <2>3, <1>12
  <2>5. CASE send' = [send EXCEPT ![c] = Append(@, hub.msg)] /\ UNCHANGED dropping
    <3>1. Stream(c)' = Append(Stream(c), hub.msg)
      <4>1. wire[c] \o Append(send[c], hub.msg) = Append(wire[c] \o send[c], hub.msg)
        BY <2>2, MoveKeeps DEF IInv, Contents
      <4> QED BY <4>1, <2>1, <2>5 DEF Stream, IInv, Contents
    <3>2. /\ Len(Stream(c)') = Len(Stream(c)) + 1 /\ Stream(c)'[Len(Stream(c)) + 1] = hub.msg
          /\ \A i \in 1..Len(Stream(c)) : Stream(c)'[i] = Stream(c)[i]
      BY <3>1, <2>2, StreamSaid, AppendProperties DEF IInv
    <3>3. /\ Held(c) = 1 /\ Held(c)' = 0 /\ Len(Stream(c)) \in Nat
          /\ \A i \in 1..Len(Stream(c)) : Number(Stream(c)[i]) \in Nat
      BY <2>1, <2>2, StreamSaid, GotNat, SentNumbers DEF Held, IInv
    <3>4. hub.msg = Sent(taken) /\ Number(hub.msg) = taken
      BY <2>2, <1>0, SentNumbers DEF IInv, Ordered
    <3>5. c \in clients \ dropping => joined[c] + (Len(Stream(c)) + 1) = taken
      <4>1. \A g, h, t, j \in Int : g + h = t - j /\ h = 1 => j + (g + 1) = t
        OBVIOUS
      <4>2. Len(Stream(c)) = Got(c) /\ Got(c) \in Int /\ joined[c] \in Int
        BY StreamSaid, GotNat DEF IInv, Counted
      <4> QED BY <3>3, <4>1, <4>2, <1>0 DEF IInv, Counted
    <3>6. ASSUME NEW i \in 1..Len(Stream(c)')
          PROVE  /\ Number(Stream(c)'[i]) <= taken
                 /\ \A j \in 1..(i - 1) : Number(Stream(c)'[j]) < Number(Stream(c)'[i])
                 /\ c \in clients \ dropping => Stream(c)'[i] = Sent(joined[c] + i)
      <4>1. ASSUME NEW k \in 1..Len(Stream(c))
            PROVE  /\ Number(Stream(c)[k]) <= taken - 1
                   /\ \A j \in 1..(k - 1) : Number(Stream(c)[j]) < Number(Stream(c)[k])
                   /\ c \in clients \ dropping => Stream(c)[k] = Sent(joined[c] + k)
        BY <3>3 DEF IInv, Ordered, Streamed
      <4>2. \A j \in 1..(i - 1) : j \in 1..Len(Stream(c))
        BY <3>2, <3>3
      <4>3. CASE i \in 1..Len(Stream(c))
        <5>1. Stream(c)'[i] = Stream(c)[i]
          BY <3>2, <4>3
        <5>2. \A j \in 1..(i - 1) : Stream(c)'[j] = Stream(c)[j]
          BY <3>2, <4>2
        <5>3. Number(Stream(c)[i]) <= taken
          BY <4>1, <4>3, <3>3, <1>0
        <5> QED BY <5>1, <5>2, <5>3, <4>1, <4>3
      <4>4. CASE i = Len(Stream(c)) + 1
        <5>1. \A j \in 1..(i - 1) : Stream(c)'[j] = Stream(c)[j] /\ Number(Stream(c)[j]) < taken
          BY <3>2, <3>3, <4>1, <4>2, <1>0
        <5>2. Stream(c)'[i] = hub.msg
          BY <3>2, <4>4
        <5> QED BY <3>4, <3>5, <4>4, <5>1, <5>2, <1>0
      <4> QED BY <4>3, <4>4, <3>2, <3>3
    <3>7. /\ \A i \in 1..Len(Stream(c)') : Number(Stream(c)[i])' = Number(Stream(c)'[i])
          /\ \A i \in 1..Len(Stream(c)') : Sent(joined[c] + i)' = Sent(joined[c] + i)
      BY <1>9, <2>1 DEF Number, Sent
    <3>8. Streamed(c)'
      BY <2>1, <2>5, <3>3, <3>6, <3>7, <1>0 DEF Streamed
    <3> QED BY <3>8, <2>1, <2>2, <2>3, <1>12
  <2> QED BY <1>17, <2>1, <2>4, <2>5 DEF Deliver, IInv, Table
<1>18. CASE UNCHANGED vars
  BY <1>18, <1>5 DEF vars, hubVars
<1> QED
  BY <1>7, <1>8, <1>10, <1>11, <1>13, <1>14, <1>15, <1>16, <1>17, <1>18
     DEF Next, System, HubStep, Pump

(* The conjunction is inductive. *)
LEMMA InvStep == IInv /\ [Next]_vars => IInv'
BY FlowStep, ContentsStep, TableStep, CountedStep, OrderedStep DEF IInv

(* The inductive invariant holds. *)
THEOREM InductiveInvariant == Spec => []IInv
BY InitIInv, InvStep, PTL DEF Spec

(* A client is among those still to serve once or not at all. *)
LEMMA OneOrNone ==
    ASSUME NEW S, NEW c
    PROVE  Cardinality({c} \cap S) = IF c \in S THEN 1 ELSE 0
<1>1. CASE c \in S
  <2>1. {c} \cap S = {c}
    BY <1>1
  <2> QED BY <2>1, <1>1, FS_Singleton
<1>2. CASE c \notin S
  <2>1. {c} \cap S = {}
    BY <1>2
  <2> QED BY <2>1, <1>2, FS_EmptySet
<1> QED BY <1>1, <1>2

(* Type correctness, for any connections and capacities. *)
THEOREM TypeCorrect == Spec => []TypeOK
<1>1. ASSUME IInv PROVE TypeOK
  <2>1. \A i \in 1..Len(broadcast) : broadcast[i] \in Messages
    <3>1. \A i \in 1..Len(broadcast) : broadcast[i] \in Said
      BY <1>1, ElementOfSeq DEF IInv, Contents
    <3> QED BY <3>1, <1>1, SaidIsNoBlank DEF IInv
  <2> QED BY <2>1, <1>1 DEF IInv, Flow, Contents, Table, TypeOK
<1> QED BY <1>1, InductiveInvariant, PTL

(* The Hub never skips a message for a client it keeps (broadcastMessage).   *)
THEOREM KeptClientsMissNothing == Spec => []NoGap
<1>1. ASSUME IInv PROVE NoGap
  <2> SUFFICES ASSUME NEW c \in clients, c \notin dropping
               PROVE  Len(Stream(c)) + Cardinality({c} \cap hub.to) = taken - joined[c]
    BY DEF NoGap
  <2>1. c \in Conns
    BY <1>1 DEF IInv, Table
  <2>2. Len(Stream(c)) = Len(wire[c]) + Len(send[c])
    BY <1>1, <2>1, StreamSaid DEF IInv, Got
  <2>3. Cardinality({c} \cap hub.to) = IF c \in hub.to THEN 1 ELSE 0
    BY OneOrNone
  <2> QED BY <1>1, <2>2, <2>3 DEF IInv, Counted, Got, Held
<1> QED BY <1>1, InductiveInvariant, PTL

(* Whatever the browser, it sees the output in the order in which the        *)
(* readers passed it on and the completion last; a kept client has exactly   *)
(* the messages from its registration on (readStream, wg.Wait, Hub.Run,      *)
(* broadcastMessage, writePump).                                             *)
THEOREM OutputIsInOrder == Spec => []InOrder
<1>1. ASSUME IInv PROVE InOrder
  <2> SUFFICES ASSUME NEW c \in Conns, NEW i \in 1..Len(Stream(c))
               PROVE  /\ \A j \in 1..(i - 1) : Earlier(Stream(c)[j], Stream(c)[i])
                      /\ c \in clients \ dropping => Stream(c)[i] = Sent(joined[c] + i)
    BY DEF InOrder
  <2>1. /\ Number(Stream(c)[i]) <= taken - Held(c)
        /\ \A j \in 1..(i - 1) : Number(Stream(c)[j]) < Number(Stream(c)[i])
        /\ c \in clients \ dropping => Stream(c)[i] = Sent(joined[c] + i)
    BY <1>1 DEF IInv, Ordered, Streamed
  <2>2. Number(Stream(c)[i]) <= lines + 1
    <3>1. taken \in Nat /\ Held(c) \in {0, 1} /\ taken + Len(broadcast) <= SentSoFar
      BY <1>1 DEF IInv, Counted, Ordered, Held
    <3>2. Len(broadcast) \in Nat /\ SentSoFar \in {lines, lines + 1} /\ lines \in Nat
      BY <1>1, LenProperties, SentNumbers DEF IInv, Contents
    <3>3. Number(Stream(c)[i]) \in Nat
      BY <1>1, StreamSaid, SentNumbers DEF IInv
    <3> QED BY <2>1, <3>1, <3>2, <3>3
  <2>3. ASSUME NEW j \in 1..(i - 1) PROVE Earlier(Stream(c)[j], Stream(c)[i])
    <3>1. j \in 1..Len(Stream(c))
      BY <1>1, StreamSaid, GotNat DEF IInv
    <3>2. Number(Stream(c)[j]) \in Nat /\ Number(Stream(c)[i]) \in Nat /\ lines \in Nat
      BY <1>1, <3>1, StreamSaid, SentNumbers DEF IInv
    <3> QED BY <2>1, <2>2, <3>2 DEF Number, Earlier
  <2> QED BY <2>1, <2>3
<1> QED BY <1>1, InductiveInvariant, PTL

(* Log row, result and completion message agree on the end of a command      *)
(* (SendComplete, finishLog, ExecResult).                                    *)
THEOREM EndsAreOne == Spec => []EndsAgree
<1>1. ASSUME IInv PROVE EndsAgree
  <2> SUFFICES ASSUME at = "returned", row.st \in Ends
               PROVE  /\ row.code = result.code
                      /\ row.st = "success" <=> result.code = 0
                      /\ \A c \in Conns : \A i \in 1..Len(Stream(c)) :
                            IsComplete(Stream(c)[i]) => Stream(c)[i].code = row.code
    BY DEF EndsAgree, Ends
  <2>1. row.code = out.code /\ row.code = result.code /\ (row.st = "success" <=> result.code = 0)
    BY <1>1 DEF IInv, Flow, Ends, Late
  <2>2. ASSUME NEW m \in Said, IsComplete(m) PROVE m.code = out.code
    BY <2>2 DEF Said, Lines, IsComplete, Complete
  <2>3. \A c \in Conns : \A i \in 1..Len(Stream(c)) : Stream(c)[i] \in Said
    BY <1>1, StreamSaid DEF IInv
  <2> QED BY <2>1, <2>2, <2>3
<1> QED BY <1>1, InductiveInvariant, PTL

(* finishLog and the failure to start are the only ends, and there is one.  *)
LEMMA EndIsFinal ==
    ASSUME Flow, [Next]_vars
    PROVE  row.st \in Ends => row' = row
<1> SUFFICES ASSUME row.st \in Ends PROVE row' = row
  OBVIOUS
<1>1. at \in {"unregister", "returned"}
  BY DEF Flow
<1>2. CASE UNCHANGED vars
  BY <1>2 DEF vars, execVars
<1>3. CASE Run
  <2>1. UnregisterCancel
    BY <1>1, <1>3 DEF Run, InsertLog, RegisterCancel, Start, StartFails, ReadLine, ReadEnds,
                      Wait, SendComplete, Finish
  <2> QED BY <2>1 DEF UnregisterCancel
<1>4. CASE Cancel \/ ProcessEnds
  BY <1>4 DEF Cancel, ProcessEnds
<1>5. CASE HubStep
  BY <1>5 DEF HubStep, Take, Served, Register, Unregister, Deliver, execVars
<1>6. CASE \E c \in Conns : Drop(c) \/ Pump(c) \/ Dial(c) \/ HangUp(c)
  BY <1>6, Frames DEF execVars
<1> QED BY <1>2, <1>3, <1>4, <1>5, <1>6 DEF Next, System

(* The end of an execution is recorded once: whatever is cancelled, fails or  *)
(* comes late, no later step writes over it (finishLog).                     *)
THEOREM LogIsFinal == Spec => [][row.st \in Ends => row' = row]_vars
<1>1. IInv => Flow
  BY DEF IInv
<1>2. Flow /\ [Next]_vars => [row.st \in Ends => row' = row]_vars
  BY EndIsFinal
<1> QED BY <1>1, <1>2, InductiveInvariant, PTL DEF Spec

(* No client leaves the table while the Hub hands out a message, as it would *)
(* be if broadcastMessage kept the lock.                                     *)
RemovalsWait == hub # Idle => clients \subseteq clients'

(* The panic has one cause: a client of the snapshot is removed, and its     *)
(* channel closed, before broadcastMessage comes to it (removeClient).       *)
THEOREM OnlyRemovalsPanic == Spec /\ [][RemovalsWait]_vars => []HubSurvivesRemoval
<1> DEFINE Safe == hub.to \subseteq clients /\ ~ panicked
<1>1. Init => Safe
  BY DEF Init, Idle
<1>2. ASSUME IInv, Safe, [Next]_vars, [RemovalsWait]_vars PROVE Safe'
  <2> USE <1>2
  <2>1. Table /\ Contents
    BY DEF IInv
  <2>2. CASE UNCHANGED <<hub, clients, panicked>>
    BY <2>2
  <2>3. CASE Take
    BY <2>3 DEF Take, clientVars
  <2>4. CASE Served
    BY <2>4 DEF Served, Idle, clientVars
  <2>5. ASSUME NEW c \in Conns, Register(c) PROVE Safe'
    BY <2>5 DEF Register
  <2>6. ASSUME NEW c \in Conns, Unregister(c) PROVE Safe'
    BY <2>6 DEF Unregister, Idle
  <2>7. ASSUME NEW c \in Conns, Deliver(c) PROVE Safe'
    BY <2>1, <2>7 DEF Deliver, Table, Contents
  <2>8. ASSUME NEW c \in Conns, Drop(c) \/ PumpFails(c) PROVE Safe'
    <3>1. UNCHANGED <<hub, panicked>>
      BY <2>8 DEF Drop, PumpFails
    <3>2. hub.to = {} \/ clients \subseteq clients'
      BY DEF RemovalsWait, Idle, vars, hubVars, clientVars
    <3> QED BY <3>1, <3>2
  <2>9. ASSUME NEW c \in Conns, PumpWrites(c) \/ PumpEnds(c) \/ Dial(c) \/ HangUp(c) PROVE Safe'
    BY <2>9, <2>2 DEF PumpWrites, PumpEnds, Dial, HangUp
  <2>10. CASE UNCHANGED vars
    BY <2>10, <2>2 DEF vars, hubVars, clientVars
  <2> QED
    BY <2>2, <2>3, <2>4, <2>5, <2>6, <2>7, <2>8, <2>9, <2>10, Frames
       DEF Next, System, HubStep, Pump, clientVars
<1>3. Safe => HubSurvivesRemoval
  BY DEF HubSurvivesRemoval
<1> HIDE DEF Safe
<1> QED BY <1>1, <1>2, <1>3, InductiveInvariant, PTL DEF Spec
=============================================================================
