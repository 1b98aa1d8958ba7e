-------------------------- MODULE DomainSyncProofs --------------------------
(***************************************************************************)
(* Proofs about DomainSync for any number of requests and credentials and   *)
(* any bounds.  The argument follows a load.  Its generation is one above   *)
(* the row's (Generation), so what it stores mixes with no other record     *)
(* (OneGeneration, Stored) and what is shown stays until it is published    *)
(* (Kept); the row says neither success nor failed meanwhile (Unsettled).   *)
(* A reset between its two statements has met no load (Resetting); the      *)
(* credentials that were asked with are the row's unless a reset is due     *)
(* (Current).  Clean behaviours are those without the exceptions that the   *)
(* histories name.                                                          *)
(***************************************************************************)
EXTENDS DomainSync, TLAPS

Working == {"command", "store", "sweep", "publish"}
Clean == ~ overlap /\ ~ left
Someone(point) == \E u \in Users : user[u].at = point
Records(gen) == {c \in Creds : <<c, gen>> \in rows}

(* Only Updates write the repository row. *)
Writing == \A u \in Users : user[u].at = "store" => user[u].kind \in {"resync", "rename"}

(* A payload is what restic said. *)
Unread == load.at \in {"none", "start", "mark", "command"} => load.payload = {}

(* The generation of a load that works. *)
Generation ==
    load.at \in {"mark"} \cup Working =>
        /\ load.g > 0
        /\ Clean => load.g = row.gen + 1

Unsettled == load.at \in Working => row.st \notin {"success", "failed"}

Resetting ==
    Someone("resetRows") =>
        /\ ~ overlap => load.at = "none" /\ row.st # "success"
        /\ Clean => row.gen = 0

Stored ==
    (load.at \in {"sweep", "publish"} /\ ~ overlap /\ (domain = "stats" \/ ~ left)) =>
        Records(load.g) = load.payload

(* The generations a record may have. *)
Expected(gen) ==
    /\ load.at = "sweep" => gen \in {row.gen, load.g}
    /\ load.at = "publish" => gen = load.g
    /\ load.at \notin {"sweep", "publish"} => gen = row.gen

OneGeneration ==
    Clean /\ ~ Someone("resetRows") => \A x \in rows : Expected(x[2])

Kept == Clean /\ row.gen > 0 /\ load.at # "publish" => Served = published

Current ==
    Clean /\ ~ reverted /\ ~ Someone("resetState") =>
        /\ row.st = "success" => published \subseteq {cred}
        /\ load.at \in {"store", "sweep", "publish"} => load.payload \subseteq {cred}

Ended == faults = 0 /\ load.at \in {"exit", "none"} => row.st # "running"

IInv ==
    /\ TypeOK
    /\ Writing /\ Unread /\ Generation /\ Unsettled
    /\ Resetting
    /\ Stored /\ OneGeneration
    /\ Kept /\ Current /\ Ended
    /\ SuccessShowsListing

-----------------------------------------------------------------------------
(* Nothing is stored or shown before the first load. *)
LEMMA InitIInv == Init => IInv
<1> SUFFICES ASSUME Init PROVE IInv
  OBVIOUS
<1> USE DEF Init, NoRow, NoLoad, NoUser
<1>1. load \in [at : LoadPoints, g : Nat, payload : SUBSET Creds]
  BY DEF LoadPoints
<1>2. user \in [Users -> [at : UserPoints, kind : {"none", "resync", "rename", "import"},
                        cred : Creds, gen : Nat]]
  BY CredsAssumption DEF UserPoints
<1>3. TypeOK
  <2>1. row.st = "none" /\ row.gen = 0 /\ rows = {}
    OBVIOUS
  <2>2. updates \in 0..MaxUpdates /\ faults \in 0..MaxFaults
    BY BoundsAssumption
  <2> QED BY <1>1, <1>2, <2>1, <2>2, CredsAssumption DEF TypeOK
<1>4. Writing /\ Unread /\ Generation /\ Unsettled /\ Resetting /\ Stored /\ OneGeneration
  BY DEF Writing, Unread, Generation, Unsettled, Resetting, Stored, OneGeneration,
         Someone, Working
<1>5. Kept /\ Current /\ Ended /\ SuccessShowsListing
  BY DEF Kept, Current, Ended, SuccessShowsListing
<1> QED BY <1>3, <1>4, <1>5 DEF IInv

(* What a command leaves: an answer, nothing but a zero exit code, or a      *)
(* failure; the generations stay.                                          *)
LEMMA CommandFacts ==
    ASSUME TypeOK, Command
    PROVE  /\ load.at = "command" /\ load'.g = load.g /\ row'.gen = row.gen
           /\ \/ load'.at = "store" /\ load'.payload = {cred} /\ row'.st = "running"
              \/ /\ load'.at = "store" /\ load'.payload = load.payload /\ row' = row
                 /\ faults' # 0
              \/ load'.at = "exit" /\ row'.st = "failed" /\ faults' # 0
           /\ load' \in [at : LoadPoints, g : Nat, payload : SUBSET Creds]
<1>1. \/ load' = [load EXCEPT !.at = "store", !.payload = {cred}] /\ row'.st = "running"
      \/ load' = [load EXCEPT !.at = "store"] /\ row' = row /\ faults' # 0
      \/ load' = [load EXCEPT !.at = "exit"] /\ row'.st = "failed" /\ faults' # 0
  BY DEF TypeOK, Command, LoadGoto, SetState, Fault
<1>2. load.at = "command" /\ row'.gen = row.gen
  BY DEF TypeOK, Command, LoadGoto, SetState, Fault
<1>3. load' \in [at : LoadPoints, g : Nat, payload : SUBSET Creds]
  <2>1. CASE load' = [load EXCEPT !.at = "store", !.payload = {cred}]
    BY <2>1 DEF TypeOK, LoadPoints
  <2>2. CASE load' = [load EXCEPT !.at = "store"]
    BY <2>2 DEF TypeOK, LoadPoints
  <2>3. CASE load' = [load EXCEPT !.at = "exit"]
    BY <2>3 DEF TypeOK, LoadPoints
  <2> QED BY <1>1, <2>1, <2>2, <2>3
<1>4. \/ load'.at = "store" /\ load'.payload = {cred} /\ load'.g = load.g
      \/ load'.at = "store" /\ load'.payload = load.payload /\ load'.g = load.g
      \/ load'.at = "exit" /\ load'.g = load.g
  BY <1>1 DEF TypeOK
<1>5. load'.g = load.g
  BY <1>4
<1>6. \/ load'.at = "store" /\ load'.payload = {cred} /\ row'.st = "running"
      \/ load'.at = "store" /\ load'.payload = load.payload /\ row' = row /\ faults' # 0
      \/ load'.at = "exit" /\ row'.st = "failed" /\ faults' # 0
  BY <1>1 DEF TypeOK
<1> QED BY <1>2, <1>3, <1>5, <1>6

(* A statement of a reset deletes its rows, and notes the load it has met,   *)
(* or fails and leaves everything as it was.                               *)
LEMMA ResetStateFacts ==
    ASSUME NEW u \in Users, ResetState(u)
    PROVE  \/ /\ row' = NoRow
              /\ ~ overlap' => ~ overlap /\ load.at = "none"
              /\ ~ left' => ~ left
           \/ row' = row /\ left' /\ (~ overlap' => ~ overlap)
BY Zenon DEF ResetState, Met, ResetFails

LEMMA ResetRowsFacts ==
    ASSUME NEW u \in Users, ResetRows(u)
    PROVE  \/ /\ rows' = {}
              /\ ~ overlap' => ~ overlap /\ load.at = "none"
              /\ ~ left' => ~ left
           \/ rows' = rows /\ left' /\ (~ overlap' => ~ overlap)
BY Zenon DEF ResetRows, Met, ResetFails

(* Every step preserves the type invariant: a generation that is stored is    *)
(* above zero.                                                             *)
LEMMA TypeStep == TypeOK /\ Generation /\ [Next]_vars => TypeOK'
<1> SUFFICES ASSUME TypeOK, Generation, [Next]_vars
             PROVE  TypeOK'
  OBVIOUS
<1> USE DEF TypeOK, LoadPoints, UserPoints
<1>1. CASE Refresh
  BY <1>1 DEF Refresh, LoadGoto, cache, bounds
<1>2. CASE NextGeneration
  <2>1. load' = [at |-> "mark", g |-> row.gen + 1, payload |-> load.payload]
    BY <1>2 DEF NextGeneration
  <2> QED BY <2>1, <1>2 DEF NextGeneration, cache, bounds, hist
<1>3. CASE MarkRunning
  BY <1>3 DEF MarkRunning, SetState, LoadGoto, bounds, hist
<1>4. CASE Command
  <2>1. load' \in [at : LoadPoints, g : Nat, payload : SUBSET Creds]
    BY <1>4, CommandFacts
  <2>2. row'.st \in {"none", "stale", "running", "success", "failed"} /\ row'.gen \in Nat
    BY <1>4 DEF Command, SetState
  <2> QED BY <2>1, <2>2, <1>4, BoundsAssumption DEF Command, Fault, hist
<1>5. CASE Store
  BY <1>5, BoundsAssumption DEF Generation, Working, Store, SetState, LoadGoto, Fault, hist
<1>6. CASE Sweep
  <2>1. load' \in [at : LoadPoints, g : Nat, payload : SUBSET Creds]
    BY <1>6 DEF Sweep, LoadGoto
  <2>2. rows' \subseteq Creds \X (Nat \ {0})
    BY <1>6 DEF Sweep
  <2>3. row'.st \in {"none", "stale", "running", "success", "failed"} /\ row'.gen \in Nat
    BY <1>6 DEF Sweep, SetState
  <2>4. faults' \in 0..MaxFaults
    BY <1>6, BoundsAssumption DEF Sweep, Fault
  <2>5. left' \in BOOLEAN
    BY <1>6, Zenon DEF Sweep
  <2> QED BY <2>1, <2>2, <2>3, <2>4, <2>5, <1>6 DEF Sweep
<1>7. CASE Publish
  <2>1. load' \in [at : LoadPoints, g : Nat, payload : SUBSET Creds]
    BY <1>7 DEF Publish, LoadGoto
  <2>2. row'.st \in {"none", "stale", "running", "success", "failed"} /\ row'.gen \in Nat
    BY <1>7 DEF Publish, SetState
  <2>3. faults' \in 0..MaxFaults
    BY <1>7, BoundsAssumption DEF Publish, Fault
  <2>4. left' \in BOOLEAN
    BY <1>7, Zenon DEF Publish
  <2> QED BY <2>1, <2>2, <2>3, <2>4, <1>7 DEF Publish
<1>8. CASE LoadDies
  BY <1>8, BoundsAssumption DEF LoadDies, LoadGoto, Fault, cache, hist
<1>9. CASE finishLoad
  BY <1>9 DEF finishLoad, NoLoad, cache, bounds, hist
<1>10. CASE Restart
  BY <1>10, CredsAssumption, BoundsAssumption DEF Restart, Fault, NoLoad, NoUser, cache
<1>11. ASSUME NEW u \in Users, Begin(u) PROVE TypeOK'
  <2>1. PICK kind \in Kinds, c \in Creds :
          user' = [user EXCEPT ![u] = [NoUser EXCEPT
              !.kind = IF kind = "prune" THEN "import" ELSE kind, !.cred = c,
              !.at = IF kind \in {"resync", "rename"} THEN "store" ELSE "readStale"]]
    BY <1>11 DEF Begin
  <2>2. user' \in [Users -> [at : UserPoints, kind : {"none", "resync", "rename", "import"},
                             cred : Creds, gen : Nat]]
    BY <2>1 DEF Kinds, NoUser
  <2> QED BY <2>2, <1>11, BoundsAssumption DEF Begin, cache, hist
<1>12. ASSUME NEW u \in Users, StoreUpdate(u) PROVE TypeOK'
  <2>1. user' \in [Users -> [at : UserPoints, kind : {"none", "resync", "rename", "import"},
                             cred : Creds, gen : Nat]]
    BY <1>12, CredsAssumption DEF StoreUpdate, UserGoto, Done, NoUser
  <2>2. cred' \in Creds /\ faults' \in 0..MaxFaults
    BY <1>12, BoundsAssumption DEF StoreUpdate, Fault
  <2>3. reverted' \in BOOLEAN
    BY <1>12, Zenon DEF StoreUpdate
  <2> QED BY <2>1, <2>2, <2>3, <1>12 DEF StoreUpdate, cache
<1>13. ASSUME NEW u \in Users, ResetState(u) PROVE TypeOK'
  <2>1. user' \in [Users -> [at : UserPoints, kind : {"none", "resync", "rename", "import"},
                             cred : Creds, gen : Nat]]
    BY <1>13, CredsAssumption DEF ResetState, ResetFails, UserGoto, Done, NoUser
  <2>2. row'.st \in {"none", "stale", "running", "success", "failed"} /\ row'.gen \in Nat
    BY <1>13 DEF ResetState, NoRow, ResetFails
  <2>3. faults' \in 0..MaxFaults
    BY <1>13, BoundsAssumption DEF ResetState, ResetFails, Fault
  <2>4. left' \in BOOLEAN /\ overlap' \in BOOLEAN
    BY <1>13, Zenon DEF ResetState, Met, ResetFails
  <2> QED BY <2>1, <2>2, <2>3, <2>4, <1>13 DEF ResetState
<1>14. ASSUME NEW u \in Users, ResetRows(u) PROVE TypeOK'
  <2>1. user' \in [Users -> [at : UserPoints, kind : {"none", "resync", "rename", "import"},
                             cred : Creds, gen : Nat]]
    BY <1>14, CredsAssumption DEF ResetRows, ResetFails, UserGoto, Done, NoUser
  <2>2. rows' \subseteq Creds \X (Nat \ {0})
    BY <1>14 DEF ResetRows, NoRow, ResetFails
  <2>3. faults' \in 0..MaxFaults
    BY <1>14, BoundsAssumption DEF ResetRows, ResetFails, Fault
  <2>4. left' \in BOOLEAN /\ overlap' \in BOOLEAN
    BY <1>14, Zenon DEF ResetRows, Met, ResetFails
  <2> QED BY <2>1, <2>2, <2>3, <2>4, <1>14 DEF ResetRows
<1>15. ASSUME NEW u \in Users, ReadStale(u) PROVE TypeOK'
  <2>1. user' \in [Users -> [at : UserPoints, kind : {"none", "resync", "rename", "import"},
                             cred : Creds, gen : Nat]]
    BY <1>15 DEF ReadStale
  <2> QED BY <2>1, <1>15 DEF ReadStale, cache, bounds, hist
<1>16. ASSUME NEW u \in Users, WriteStale(u) PROVE TypeOK'
  BY <1>16, BoundsAssumption, CredsAssumption DEF WriteStale, SetState, Done, NoUser, bounds
<1>17. CASE UNCHANGED vars
  BY <1>17 DEF vars, cache, bounds, hist
<1> QED
  BY <1>1, <1>2, <1>3, <1>4, <1>5, <1>6, <1>7, <1>8, <1>9, <1>10, <1>11,
     <1>12, <1>13, <1>14, <1>15, <1>16, <1>17
     DEF Next, LoadStep, UserStep

(* Only an Update writes the repository row.                                 *)
LEMMA WritingStep == TypeOK /\ Writing /\ [Next]_vars => Writing'
<1> SUFFICES ASSUME TypeOK, Writing, [Next]_vars
             PROVE  Writing'
  OBVIOUS
<1> USE DEF TypeOK, Writing
<1>1. CASE Refresh
  BY <1>1 DEF Refresh, LoadGoto, cache, bounds
<1>2. CASE NextGeneration
  BY <1>2 DEF NextGeneration, cache, bounds, hist
<1>3. CASE MarkRunning
  BY <1>3 DEF MarkRunning, SetState, LoadGoto, bounds, hist
<1>4. CASE Command
  BY <1>4 DEF Command, SetState, LoadGoto, Fault, hist
<1>5. CASE Store
  BY <1>5 DEF Store, SetState, LoadGoto, Fault, hist
<1>6. CASE Sweep
  BY <1>6 DEF Sweep, SetState, LoadGoto, Fault
<1>7. CASE Publish
  BY <1>7 DEF Publish, SetState, LoadGoto, Fault
<1>8. CASE LoadDies
  BY <1>8 DEF LoadDies, LoadGoto, Fault, cache, hist
<1>9. CASE finishLoad
  BY <1>9 DEF finishLoad, NoLoad, cache, bounds, hist
<1>10. CASE Restart
  BY <1>10 DEF Restart, Fault, NoLoad, NoUser, cache
<1>11. ASSUME NEW u \in Users, Begin(u) PROVE Writing'
  <2>1. PICK kind \in Kinds, c \in Creds :
          user' = [user EXCEPT ![u] = [NoUser EXCEPT
              !.kind = IF kind = "prune" THEN "import" ELSE kind, !.cred = c,
              !.at = IF kind \in {"resync", "rename"} THEN "store" ELSE "readStale"]]
    BY <1>11 DEF Begin
  <2> QED BY <2>1 DEF Kinds, NoUser
<1>12. ASSUME NEW u \in Users, StoreUpdate(u) PROVE Writing'
  BY <1>12 DEF StoreUpdate, UserGoto, Done, NoUser, Fault, cache
<1>13. ASSUME NEW u \in Users, ResetState(u) PROVE Writing'
  BY <1>13 DEF ResetState, Met, ResetFails, UserGoto, Done, NoUser, NoRow, Fault
<1>14. ASSUME NEW u \in Users, ResetRows(u) PROVE Writing'
  BY <1>14 DEF ResetRows, Met, ResetFails, UserGoto, Done, NoUser, Fault
<1>15. ASSUME NEW u \in Users, ReadStale(u) PROVE Writing'
  BY <1>15 DEF ReadStale, cache, bounds, hist
<1>16. ASSUME NEW u \in Users, WriteStale(u) PROVE Writing'
  BY <1>16 DEF WriteStale, SetState, Done, NoUser, bounds
<1>17. CASE UNCHANGED vars
  BY <1>17 DEF vars, cache, bounds, hist
<1> QED
  BY <1>1, <1>2, <1>3, <1>4, <1>5, <1>6, <1>7, <1>8, <1>9, <1>10, <1>11,
     <1>12, <1>13, <1>14, <1>15, <1>16, <1>17
     DEF Next, LoadStep, UserStep

(* A load has no payload before it has asked restic.                       *)
LEMMA UnreadStep == TypeOK /\ Unread /\ [Next]_vars => Unread'
<1> SUFFICES ASSUME TypeOK, Unread, [Next]_vars
             PROVE  Unread'
  OBVIOUS
<1> USE DEF TypeOK, Unread
<1>1. CASE Refresh
  BY <1>1 DEF Refresh, LoadGoto, cache, bounds
<1>2. CASE NextGeneration
  BY <1>2 DEF NextGeneration, cache, bounds, hist
<1>3. CASE MarkRunning
  BY <1>3 DEF MarkRunning, SetState, LoadGoto, bounds, hist
<1>4. CASE Command
  BY <1>4 DEF Command, SetState, LoadGoto, Fault, hist
<1>5. CASE Store
  BY <1>5 DEF Store, SetState, LoadGoto, Fault, hist
<1>6. CASE Sweep
  BY <1>6 DEF Sweep, SetState, LoadGoto, Fault
<1>7. CASE Publish
  BY <1>7 DEF Publish, SetState, LoadGoto, Fault
<1>8. CASE LoadDies
  BY <1>8 DEF LoadDies, LoadGoto, Fault, cache, hist
<1>9. CASE finishLoad
  BY <1>9 DEF finishLoad, NoLoad, cache, bounds, hist
<1>10. CASE Restart
  BY <1>10 DEF Restart, Fault, NoLoad, NoUser, cache
<1>11. ASSUME NEW u \in Users, Begin(u) PROVE Unread'
  BY <1>11 DEF Begin, Kinds, NoUser, cache, hist
<1>12. ASSUME NEW u \in Users, StoreUpdate(u) PROVE Unread'
  BY <1>12 DEF StoreUpdate, UserGoto, Done, NoUser, Fault, cache
<1>13. ASSUME NEW u \in Users, ResetState(u) PROVE Unread'
  BY <1>13 DEF ResetState, Met, ResetFails, UserGoto, Done, NoUser, NoRow, Fault
<1>14. ASSUME NEW u \in Users, ResetRows(u) PROVE Unread'
  BY <1>14 DEF ResetRows, Met, ResetFails, UserGoto, Done, NoUser, Fault
<1>15. ASSUME NEW u \in Users, ReadStale(u) PROVE Unread'
  BY <1>15 DEF ReadStale, cache, bounds, hist
<1>16. ASSUME NEW u \in Users, WriteStale(u) PROVE Unread'
  BY <1>16 DEF WriteStale, SetState, Done, NoUser, bounds
<1>17. CASE UNCHANGED vars
  BY <1>17 DEF vars, cache, bounds, hist
<1> QED
  BY <1>1, <1>2, <1>3, <1>4, <1>5, <1>6, <1>7, <1>8, <1>9, <1>10, <1>11,
     <1>12, <1>13, <1>14, <1>15, <1>16, <1>17
     DEF Next, LoadStep, UserStep

(* A load is one generation above the row: only a reset, or a stale mark    *)
(* with an older generation, moves the row meanwhile.                       *)
LEMMA GenerationStep == TypeOK /\ Generation /\ [Next]_vars => Generation'
<1> SUFFICES ASSUME TypeOK, Generation, [Next]_vars
             PROVE  Generation'
  OBVIOUS
<1> USE DEF TypeOK, Generation, Working, Clean
<1>1. CASE Refresh
  BY <1>1 DEF Refresh, LoadGoto, cache, bounds
<1>2. CASE NextGeneration
  BY <1>2 DEF NextGeneration, cache, bounds, hist
<1>3. CASE MarkRunning
  BY <1>3 DEF MarkRunning, SetState, LoadGoto, bounds, hist
<1>4. CASE Command
  BY <1>4, CommandFacts DEF Command, hist
<1>5. CASE Store
  BY <1>5 DEF Store, SetState, LoadGoto, Fault, hist
<1>6. CASE Sweep
  BY <1>6 DEF Sweep, SetState, LoadGoto, Fault
<1>7. CASE Publish
  BY <1>7 DEF Publish, SetState, LoadGoto, Fault
<1>8. CASE LoadDies
  BY <1>8 DEF LoadDies, LoadGoto, Fault, cache, hist
<1>9. CASE finishLoad
  BY <1>9 DEF finishLoad, NoLoad, cache, bounds, hist
<1>10. CASE Restart
  BY <1>10 DEF Restart, Fault, NoLoad, NoUser, cache
<1>11. ASSUME NEW u \in Users, Begin(u) PROVE Generation'
  BY <1>11 DEF Begin, Kinds, NoUser, cache, hist
<1>12. ASSUME NEW u \in Users, StoreUpdate(u) PROVE Generation'
  BY <1>12 DEF StoreUpdate, UserGoto, Done, NoUser, Fault, cache
<1>13. ASSUME NEW u \in Users, ResetState(u) PROVE Generation'
  BY <1>13 DEF ResetState, Met, ResetFails, UserGoto, Done, NoUser, NoRow, Fault
<1>14. ASSUME NEW u \in Users, ResetRows(u) PROVE Generation'
  BY <1>14 DEF ResetRows, Met, ResetFails, UserGoto, Done, NoUser, Fault
<1>15. ASSUME NEW u \in Users, ReadStale(u) PROVE Generation'
  BY <1>15 DEF ReadStale, cache, bounds, hist
<1>16. ASSUME NEW u \in Users, WriteStale(u) PROVE Generation'
  BY <1>16 DEF WriteStale, SetState, Done, NoUser, bounds
<1>17. CASE UNCHANGED vars
  BY <1>17 DEF vars, cache, bounds, hist
<1> QED
  BY <1>1, <1>2, <1>3, <1>4, <1>5, <1>6, <1>7, <1>8, <1>9, <1>10, <1>11,
     <1>12, <1>13, <1>14, <1>15, <1>16, <1>17
     DEF Next, LoadStep, UserStep

(* The row of a load that runs is neither a success nor a failure.           *)
LEMMA UnsettledStep == TypeOK /\ Unsettled /\ [Next]_vars => Unsettled'
<1> SUFFICES ASSUME TypeOK, Unsettled, [Next]_vars
             PROVE  Unsettled'
  OBVIOUS
<1> USE DEF TypeOK, Unsettled, Working
<1>1. CASE Refresh
  BY <1>1 DEF Refresh, LoadGoto, cache, bounds
<1>2. CASE NextGeneration
  BY <1>2 DEF NextGeneration, cache, bounds, hist
<1>3. CASE MarkRunning
  BY <1>3 DEF MarkRunning, SetState, LoadGoto, bounds, hist
<1>4. CASE Command
  BY <1>4 DEF Command, SetState, LoadGoto, Fault, hist
<1>5. CASE Store
  BY <1>5 DEF Store, SetState, LoadGoto, Fault, hist
<1>6. CASE Sweep
  BY <1>6 DEF Sweep, SetState, LoadGoto, Fault
<1>7. CASE Publish
  BY <1>7 DEF Publish, SetState, LoadGoto, Fault
<1>8. CASE LoadDies
  BY <1>8 DEF LoadDies, LoadGoto, Fault, cache, hist
<1>9. CASE finishLoad
  BY <1>9 DEF finishLoad, NoLoad, cache, bounds, hist
<1>10. CASE Restart
  BY <1>10 DEF Restart, Fault, NoLoad, NoUser, cache
<1>11. ASSUME NEW u \in Users, Begin(u) PROVE Unsettled'
  BY <1>11 DEF Begin, Kinds, NoUser, cache, hist
<1>12. ASSUME NEW u \in Users, StoreUpdate(u) PROVE Unsettled'
  BY <1>12 DEF StoreUpdate, UserGoto, Done, NoUser, Fault, cache
<1>13. ASSUME NEW u \in Users, ResetState(u) PROVE Unsettled'
  BY <1>13 DEF ResetState, Met, ResetFails, UserGoto, Done, NoUser, NoRow, Fault
<1>14. ASSUME NEW u \in Users, ResetRows(u) PROVE Unsettled'
  BY <1>14 DEF ResetRows, Met, ResetFails, UserGoto, Done, NoUser, Fault
<1>15. ASSUME NEW u \in Users, ReadStale(u) PROVE Unsettled'
  BY <1>15 DEF ReadStale, cache, bounds, hist
<1>16. ASSUME NEW u \in Users, WriteStale(u) PROVE Unsettled'
  BY <1>16 DEF WriteStale, SetState, Done, NoUser, bounds
<1>17. CASE UNCHANGED vars
  BY <1>17 DEF vars, cache, bounds, hist
<1> QED
  BY <1>1, <1>2, <1>3, <1>4, <1>5, <1>6, <1>7, <1>8, <1>9, <1>10, <1>11,
     <1>12, <1>13, <1>14, <1>15, <1>16, <1>17
     DEF Next, LoadStep, UserStep

(* A reset between its statements has met no load, and its row is fresh.     *)
LEMMA ResettingStep == TypeOK /\ Resetting /\ [Next]_vars => Resetting'
<1> SUFFICES ASSUME TypeOK, Resetting, [Next]_vars
             PROVE  Resetting'
  OBVIOUS
<1> USE DEF TypeOK, Resetting, Someone, Clean
<1>1. CASE Refresh
  BY <1>1 DEF Refresh, LoadGoto, cache, bounds
<1>2. CASE NextGeneration
  BY <1>2 DEF NextGeneration, cache, bounds, hist
<1>3. CASE MarkRunning
  BY <1>3 DEF MarkRunning, SetState, LoadGoto, bounds, hist
<1>4. CASE Command
  BY <1>4 DEF Command, SetState, LoadGoto, Fault, hist
<1>5. CASE Store
  BY <1>5 DEF Store, SetState, LoadGoto, Fault, hist
<1>6. CASE Sweep
  BY <1>6 DEF Sweep, SetState, LoadGoto, Fault
<1>7. CASE Publish
  BY <1>7 DEF Publish, SetState, LoadGoto, Fault
<1>8. CASE LoadDies
  BY <1>8 DEF LoadDies, LoadGoto, Fault, cache, hist
<1>9. CASE finishLoad
  BY <1>9 DEF finishLoad, NoLoad, cache, bounds, hist
<1>10. CASE Restart
  BY <1>10 DEF Restart, Fault, NoLoad, NoUser, cache
<1>11. ASSUME NEW u \in Users, Begin(u) PROVE Resetting'
  BY <1>11 DEF Begin, Kinds, NoUser, cache, hist
<1>12. ASSUME NEW u \in Users, StoreUpdate(u) PROVE Resetting'
  BY <1>12 DEF StoreUpdate, UserGoto, Done, NoUser, Fault, cache
<1>13. ASSUME NEW u \in Users, ResetState(u) PROVE Resetting'
  <2>1. CASE row' = NoRow /\ (~ overlap' => ~ overlap /\ load.at = "none")
    BY <2>1, <1>13 DEF ResetState, NoRow
  <2>2. CASE ResetFails(u) /\ UNCHANGED <<row, overlap>>
    BY <2>2, <1>13 DEF ResetState, ResetFails, Done, NoUser
  <2>3. \/ row' = NoRow /\ Met
        \/ ResetFails(u) /\ UNCHANGED <<row, overlap>>
    BY <1>13, Zenon DEF ResetState
  <2>4. Met => (~ overlap' => ~ overlap /\ load.at = "none")
    BY Zenon DEF Met
  <2> QED BY <2>1, <2>2, <2>3, <2>4
<1>14. ASSUME NEW u \in Users, ResetRows(u) PROVE Resetting'
  BY <1>14 DEF ResetRows, Met, ResetFails, UserGoto, Done, NoUser, Fault
<1>15. ASSUME NEW u \in Users, ReadStale(u) PROVE Resetting'
  BY <1>15 DEF ReadStale, cache, bounds, hist
<1>16. ASSUME NEW u \in Users, WriteStale(u) PROVE Resetting'
  BY <1>16 DEF WriteStale, SetState, Done, NoUser, bounds
<1>17. CASE UNCHANGED vars
  BY <1>17 DEF vars, cache, bounds, hist
<1> QED
  BY <1>1, <1>2, <1>3, <1>4, <1>5, <1>6, <1>7, <1>8, <1>9, <1>10, <1>11,
     <1>12, <1>13, <1>14, <1>15, <1>16, <1>17
     DEF Next, LoadStep, UserStep

(* What a load has stored are all the records of its generation.             *)
LEMMA StoredStep ==
    TypeOK /\ Generation /\ Resetting /\ Stored /\ OneGeneration /\ [Next]_vars
        => Stored'
<1> SUFFICES ASSUME TypeOK, Generation, Resetting, Stored, OneGeneration, [Next]_vars
             PROVE  Stored'
  OBVIOUS
<1> USE DEF TypeOK, Stored, Records
<1>1. CASE Refresh
  BY <1>1 DEF Refresh, LoadGoto, cache, bounds
<1>2. CASE NextGeneration
  BY <1>2 DEF NextGeneration, cache, bounds, hist
<1>3. CASE MarkRunning
  BY <1>3 DEF MarkRunning, SetState, LoadGoto, bounds, hist
<1>4. CASE Command
  BY <1>4 DEF Command, SetState, LoadGoto, Fault, hist
<1>5. CASE Store
  <2>1. load.at = "store" /\ load.g > 0 /\ (Clean => load.g = row.gen + 1)
    BY <1>5 DEF Store, Generation, Working
  <2>2. SUFFICES ASSUME load'.at \in {"sweep", "publish"}, ~ overlap, domain = "stats" \/ ~ left
                 PROVE  Records(load.g)' = load.payload
    BY <1>5 DEF Store, LoadGoto, hist
  <2>3. ~ Refused /\ rows' = rows \cup (load.payload \X {load.g})
    BY <1>5, <2>2 DEF Store, LoadGoto
  <2>4. \A c \in Creds : <<c, load.g>> \notin rows
    <3>1. CASE domain = "stats"
      BY <3>1, <2>3 DEF Refused
    <3>2. CASE ~ left
      <4>1. ~ Someone("resetRows") /\ Clean
        BY <3>2, <2>1, <2>2 DEF Resetting, Clean
      <4> QED BY <4>1, <2>1 DEF OneGeneration, Expected
    <3> QED BY <3>1, <3>2, <2>2
  <2>5. load.payload \subseteq Creds
    OBVIOUS
  <2>6. load'.g = load.g
    BY <1>5 DEF Store, LoadGoto
  <2> QED BY <2>3, <2>4, <2>5, <2>6
<1>6. CASE Sweep
  BY <1>6 DEF Sweep, LoadGoto, SetState
<1>7. CASE Publish
  BY <1>7 DEF Publish, SetState, LoadGoto, Fault
<1>8. CASE LoadDies
  BY <1>8 DEF LoadDies, LoadGoto, Fault, cache, hist
<1>9. CASE finishLoad
  BY <1>9 DEF finishLoad, NoLoad, cache, bounds, hist
<1>10. CASE Restart
  BY <1>10 DEF Restart, Fault, NoLoad, NoUser, cache
<1>11. ASSUME NEW u \in Users, Begin(u) PROVE Stored'
  BY <1>11 DEF Begin, Kinds, NoUser, cache, hist
<1>12. ASSUME NEW u \in Users, StoreUpdate(u) PROVE Stored'
  BY <1>12 DEF StoreUpdate, UserGoto, Done, NoUser, Fault, cache
<1>13. ASSUME NEW u \in Users, ResetState(u) PROVE Stored'
  BY <1>13, ResetStateFacts DEF ResetState
<1>14. ASSUME NEW u \in Users, ResetRows(u) PROVE Stored'
  BY <1>14, ResetRowsFacts DEF ResetRows
<1>15. ASSUME NEW u \in Users, ReadStale(u) PROVE Stored'
  BY <1>15 DEF ReadStale, cache, bounds, hist
<1>16. ASSUME NEW u \in Users, WriteStale(u) PROVE Stored'
  BY <1>16 DEF WriteStale, SetState, Done, NoUser, bounds
<1>17. CASE UNCHANGED vars
  BY <1>17 DEF vars, cache, bounds, hist
<1> QED
  BY <1>1, <1>2, <1>3, <1>4, <1>5, <1>6, <1>7, <1>8, <1>9, <1>10, <1>11,
     <1>12, <1>13, <1>14, <1>15, <1>16, <1>17
     DEF Next, LoadStep, UserStep

(* Apart from the load that has stored and not yet published, the records    *)
(* are of the row's generation.                                            *)
LEMMA OneGenerationStep ==
    TypeOK /\ Generation /\ Resetting /\ OneGeneration /\ [Next]_vars
        => OneGeneration'
<1> SUFFICES ASSUME TypeOK, Generation, Resetting, OneGeneration, [Next]_vars
             PROVE  OneGeneration'
  OBVIOUS
<1> USE DEF TypeOK, OneGeneration, Expected, Someone, Clean
<1>1. CASE Refresh
  BY <1>1 DEF Refresh, LoadGoto, cache, bounds
<1>2. CASE NextGeneration
  BY <1>2 DEF NextGeneration, cache, bounds, hist
<1>3. CASE MarkRunning
  BY <1>3 DEF MarkRunning, SetState, LoadGoto, bounds, hist
<1>4. CASE Command
  BY <1>4, CommandFacts DEF Command, hist
<1>5. CASE Store
  BY <1>5 DEF Store, SetState, LoadGoto, Fault, hist
<1>6. CASE Sweep
  BY <1>6 DEF Sweep, SetState, LoadGoto, Fault
<1>7. CASE Publish
  BY <1>7 DEF Publish, SetState, LoadGoto, Fault
<1>8. CASE LoadDies
  BY <1>8 DEF LoadDies, LoadGoto, Fault, cache, hist
<1>9. CASE finishLoad
  BY <1>9 DEF finishLoad, NoLoad, cache, bounds, hist
<1>10. CASE Restart
  BY <1>10 DEF Restart, Fault, NoLoad, NoUser, cache
<1>11. ASSUME NEW u \in Users, Begin(u) PROVE OneGeneration'
  BY <1>11 DEF Begin, Kinds, NoUser, cache, hist
<1>12. ASSUME NEW u \in Users, StoreUpdate(u) PROVE OneGeneration'
  BY <1>12 DEF StoreUpdate, UserGoto, Done, NoUser, Fault, cache
<1>13. ASSUME NEW u \in Users, ResetState(u) PROVE OneGeneration'
  BY <1>13 DEF ResetState, Met, ResetFails, UserGoto, Done, NoUser, NoRow, Fault
<1>14. ASSUME NEW u \in Users, ResetRows(u) PROVE OneGeneration'
  BY <1>14 DEF ResetRows, Met, ResetFails, UserGoto, Done, NoUser, Fault
<1>15. ASSUME NEW u \in Users, ReadStale(u) PROVE OneGeneration'
  BY <1>15 DEF ReadStale, cache, bounds, hist
<1>16. ASSUME NEW u \in Users, WriteStale(u) PROVE OneGeneration'
  BY <1>16 DEF WriteStale, SetState, Done, NoUser, bounds
<1>17. CASE UNCHANGED vars
  BY <1>17 DEF vars, cache, bounds, hist
<1> QED
  BY <1>1, <1>2, <1>3, <1>4, <1>5, <1>6, <1>7, <1>8, <1>9, <1>10, <1>11,
     <1>12, <1>13, <1>14, <1>15, <1>16, <1>17
     DEF Next, LoadStep, UserStep

(* What is shown changes when a load publishes, and only then.               *)
LEMMA KeptStep ==
    TypeOK /\ Generation /\ Resetting /\ Stored /\ Kept /\ [Next]_vars
        => Kept'
<1> SUFFICES ASSUME TypeOK, Generation, Resetting, Stored, Kept, [Next]_vars
             PROVE  Kept'
  OBVIOUS
<1> USE DEF TypeOK, Kept, Served, Clean
<1>1. CASE Refresh
  BY <1>1 DEF Refresh, LoadGoto, cache, bounds
<1>2. CASE NextGeneration
  BY <1>2 DEF NextGeneration, cache, bounds, hist
<1>3. CASE MarkRunning
  BY <1>3 DEF MarkRunning, SetState, LoadGoto, bounds, hist
<1>4. CASE Command
  BY <1>4 DEF Command, SetState, LoadGoto, Fault, hist
<1>5. CASE Store
  BY <1>5 DEF Generation, Working, Store, SetState, LoadGoto, hist
<1>6. CASE Sweep
  BY <1>6 DEF Sweep, SetState, LoadGoto, Fault
<1>7. CASE Publish
  <2>1. CASE row' = [st |-> "success", gen |-> load.g] /\ published' = load.payload
    BY <2>1, <1>7 DEF Publish, Stored, Records
  <2>2. CASE left'
    BY <2>2
  <2> QED BY <2>1, <2>2, <1>7 DEF Publish, SetState, Generation, Working
<1>8. CASE LoadDies
  BY <1>8 DEF LoadDies, LoadGoto, Fault, cache, hist
<1>9. CASE finishLoad
  BY <1>9 DEF finishLoad, NoLoad, cache, bounds, hist
<1>10. CASE Restart
  BY <1>10 DEF Restart, Fault, NoLoad, NoUser, cache
<1>11. ASSUME NEW u \in Users, Begin(u) PROVE Kept'
  BY <1>11 DEF Begin, Kinds, NoUser, cache, hist
<1>12. ASSUME NEW u \in Users, StoreUpdate(u) PROVE Kept'
  BY <1>12 DEF StoreUpdate, UserGoto, Done, NoUser, Fault, cache
<1>13. ASSUME NEW u \in Users, ResetState(u) PROVE Kept'
  BY <1>13, ResetStateFacts DEF ResetState, NoRow
<1>14. ASSUME NEW u \in Users, ResetRows(u) PROVE Kept'
  BY <1>14, ResetRowsFacts DEF ResetRows, Resetting, Someone
<1>15. ASSUME NEW u \in Users, ReadStale(u) PROVE Kept'
  BY <1>15 DEF ReadStale, cache, bounds, hist
<1>16. ASSUME NEW u \in Users, WriteStale(u) PROVE Kept'
  BY <1>16 DEF WriteStale, SetState, Done, NoUser, bounds
<1>17. CASE UNCHANGED vars
  BY <1>17 DEF vars, cache, bounds, hist
<1> QED
  BY <1>1, <1>2, <1>3, <1>4, <1>5, <1>6, <1>7, <1>8, <1>9, <1>10, <1>11,
     <1>12, <1>13, <1>14, <1>15, <1>16, <1>17
     DEF Next, LoadStep, UserStep

(* What was asked with other credentials awaits a reset.                     *)
LEMMA CurrentStep ==
    TypeOK /\ Unread /\ Writing /\ Current /\ [Next]_vars
        => Current'
<1> SUFFICES ASSUME TypeOK, Unread, Writing, Current, [Next]_vars
             PROVE  Current'
  OBVIOUS
<1> USE DEF TypeOK, Current, Someone, Clean
<1>1. CASE Refresh
  BY <1>1 DEF Refresh, LoadGoto, cache, bounds
<1>2. CASE NextGeneration
  BY <1>2 DEF NextGeneration, cache, bounds, hist
<1>3. CASE MarkRunning
  BY <1>3 DEF MarkRunning, SetState, LoadGoto, bounds, hist
<1>4. CASE Command
  BY <1>4, CommandFacts DEF Unread, Command, hist
<1>5. CASE Store
  BY <1>5 DEF Store, SetState, LoadGoto, Fault, hist
<1>6. CASE Sweep
  BY <1>6 DEF Sweep, SetState, LoadGoto, Fault
<1>7. CASE Publish
  BY <1>7 DEF Publish, SetState, LoadGoto, Fault
<1>8. CASE LoadDies
  BY <1>8 DEF LoadDies, LoadGoto, Fault, cache, hist
<1>9. CASE finishLoad
  BY <1>9 DEF finishLoad, NoLoad, cache, bounds, hist
<1>10. CASE Restart
  BY <1>10 DEF Restart, Fault, NoLoad, NoUser, cache
<1>11. ASSUME NEW u \in Users, Begin(u) PROVE Current'
  BY <1>11 DEF Begin, Kinds, NoUser, cache, hist
<1>12. ASSUME NEW u \in Users, StoreUpdate(u) PROVE Current'
  <2>1. CASE cred' = cred /\ ~ Someone("resetState")
    BY <2>1, <1>12 DEF StoreUpdate, cache
  <2>2. CASE cred' # cred
    <3>1. reverted' \/ user' = [user EXCEPT ![u].at = "resetState"]
      BY <2>2, <1>12 DEF Writing, StoreUpdate, UserGoto
    <3> QED BY <3>1
  <2>3. CASE Someone("resetState")
    BY <2>3, <1>12 DEF StoreUpdate, UserGoto, Done, NoUser
  <2> QED BY <2>1, <2>2, <2>3
<1>13. ASSUME NEW u \in Users, ResetState(u) PROVE Current'
  <2>1. CASE row' = NoRow /\ (~ overlap' => ~ overlap /\ load.at = "none")
    BY <2>1, <1>13 DEF ResetState, NoRow
  <2>2. CASE left'
    BY <2>2
  <2> QED BY <2>1, <2>2, <1>13, ResetStateFacts
<1>14. ASSUME NEW u \in Users, ResetRows(u) PROVE Current'
  BY <1>14 DEF ResetRows, Met, ResetFails, UserGoto, Done, NoUser, Fault
<1>15. ASSUME NEW u \in Users, ReadStale(u) PROVE Current'
  BY <1>15 DEF ReadStale, cache, bounds, hist
<1>16. ASSUME NEW u \in Users, WriteStale(u) PROVE Current'
  BY <1>16 DEF WriteStale, SetState, Done, NoUser, bounds
<1>17. CASE UNCHANGED vars
  BY <1>17 DEF vars, cache, bounds, hist
<1> QED
  BY <1>1, <1>2, <1>3, <1>4, <1>5, <1>6, <1>7, <1>8, <1>9, <1>10, <1>11,
     <1>12, <1>13, <1>14, <1>15, <1>16, <1>17
     DEF Next, LoadStep, UserStep

(* A load that ends without a fault leaves no row running.                   *)
LEMMA EndedStep == TypeOK /\ Ended /\ [Next]_vars => Ended'
<1> SUFFICES ASSUME TypeOK, Ended, [Next]_vars
             PROVE  Ended'
  OBVIOUS
<1> USE DEF TypeOK, Ended
<1>1. CASE Refresh
  BY <1>1 DEF Refresh, LoadGoto, cache, bounds
<1>2. CASE NextGeneration
  BY <1>2 DEF NextGeneration, cache, bounds, hist
<1>3. CASE MarkRunning
  BY <1>3 DEF MarkRunning, SetState, LoadGoto, bounds, hist
<1>4. CASE Command
  BY <1>4, CommandFacts DEF Command, hist
<1>5. CASE Store
  BY <1>5 DEF Store, SetState, LoadGoto, Fault, hist
<1>6. CASE Sweep
  BY <1>6 DEF Sweep, SetState, LoadGoto, Fault
<1>7. CASE Publish
  BY <1>7 DEF Publish, SetState, LoadGoto, Fault
<1>8. CASE LoadDies
  BY <1>8 DEF LoadDies, LoadGoto, Fault, cache, hist
<1>9. CASE finishLoad
  BY <1>9 DEF finishLoad, NoLoad, cache, bounds, hist
<1>10. CASE Restart
  BY <1>10 DEF Restart, Fault, NoLoad, NoUser, cache
<1>11. ASSUME NEW u \in Users, Begin(u) PROVE Ended'
  BY <1>11 DEF Begin, Kinds, NoUser, cache, hist
<1>12. ASSUME NEW u \in Users, StoreUpdate(u) PROVE Ended'
  BY <1>12 DEF StoreUpdate, UserGoto, Done, NoUser, Fault, cache
<1>13. ASSUME NEW u \in Users, ResetState(u) PROVE Ended'
  BY <1>13 DEF ResetState, Met, ResetFails, UserGoto, Done, NoUser, NoRow, Fault
<1>14. ASSUME NEW u \in Users, ResetRows(u) PROVE Ended'
  BY <1>14 DEF ResetRows, Met, ResetFails, UserGoto, Done, NoUser, Fault
<1>15. ASSUME NEW u \in Users, ReadStale(u) PROVE Ended'
  BY <1>15 DEF ReadStale, cache, bounds, hist
<1>16. ASSUME NEW u \in Users, WriteStale(u) PROVE Ended'
  BY <1>16 DEF WriteStale, SetState, Done, NoUser, bounds
<1>17. CASE UNCHANGED vars
  BY <1>17 DEF vars, cache, bounds, hist
<1> QED
  BY <1>1, <1>2, <1>3, <1>4, <1>5, <1>6, <1>7, <1>8, <1>9, <1>10, <1>11,
     <1>12, <1>13, <1>14, <1>15, <1>16, <1>17
     DEF Next, LoadStep, UserStep

(* What a success shows stays as it is until the next load has begun.        *)
LEMMA ListingStep ==
    TypeOK /\ Generation /\ Unsettled /\ Resetting /\ Stored /\ SuccessShowsListing /\ [Next]_vars
        => SuccessShowsListing'
<1> SUFFICES ASSUME TypeOK, Generation, Unsettled, Resetting, Stored, SuccessShowsListing, [Next]_vars
             PROVE  SuccessShowsListing'
  OBVIOUS
<1> USE DEF TypeOK, SuccessShowsListing, Served
<1>1. CASE Refresh
  BY <1>1 DEF Refresh, LoadGoto, cache, bounds
<1>2. CASE NextGeneration
  BY <1>2 DEF NextGeneration, cache, bounds, hist
<1>3. CASE MarkRunning
  BY <1>3 DEF MarkRunning, SetState, LoadGoto, bounds, hist
<1>4. CASE Command
  BY <1>4 DEF Command, SetState, LoadGoto, Fault, hist
<1>5. CASE Store
  BY <1>5 DEF Unsettled, Working, Store, SetState, LoadGoto, hist
<1>6. CASE Sweep
  BY <1>6 DEF Unsettled, Working, Sweep, SetState, LoadGoto
<1>7. CASE Publish
  <2>1. CASE row' = [st |-> "success", gen |-> load.g] /\ published' = load.payload
    BY <2>1, <1>7 DEF Publish, Stored, Records
  <2>2. CASE row' = row
    BY <2>2, <1>7 DEF Publish, Unsettled, Working
  <2> QED BY <2>1, <2>2, <1>7 DEF Publish, SetState, Generation, Working
<1>8. CASE LoadDies
  BY <1>8 DEF LoadDies, LoadGoto, Fault, cache, hist
<1>9. CASE finishLoad
  BY <1>9 DEF finishLoad, NoLoad, cache, bounds, hist
<1>10. CASE Restart
  BY <1>10 DEF Restart, Fault, NoLoad, NoUser, cache
<1>11. ASSUME NEW u \in Users, Begin(u) PROVE SuccessShowsListing'
  BY <1>11 DEF Begin, Kinds, NoUser, cache, hist
<1>12. ASSUME NEW u \in Users, StoreUpdate(u) PROVE SuccessShowsListing'
  BY <1>12 DEF StoreUpdate, UserGoto, Done, NoUser, Fault, cache
<1>13. ASSUME NEW u \in Users, ResetState(u) PROVE SuccessShowsListing'
  BY <1>13, ResetStateFacts DEF ResetState, NoRow
<1>14. ASSUME NEW u \in Users, ResetRows(u) PROVE SuccessShowsListing'
  BY <1>14, ResetRowsFacts DEF ResetRows, Resetting, Someone
<1>15. ASSUME NEW u \in Users, ReadStale(u) PROVE SuccessShowsListing'
  BY <1>15 DEF ReadStale, cache, bounds, hist
<1>16. ASSUME NEW u \in Users, WriteStale(u) PROVE SuccessShowsListing'
  BY <1>16 DEF WriteStale, SetState, Done, NoUser, bounds
<1>17. CASE UNCHANGED vars
  BY <1>17 DEF vars, cache, bounds, hist
<1> QED
  BY <1>1, <1>2, <1>3, <1>4, <1>5, <1>6, <1>7, <1>8, <1>9, <1>10, <1>11,
     <1>12, <1>13, <1>14, <1>15, <1>16, <1>17
     DEF Next, LoadStep, UserStep

(* The conjunction is inductive. *)
LEMMA InvStep == IInv /\ [Next]_vars => IInv'
BY TypeStep, WritingStep, UnreadStep, GenerationStep, UnsettledStep, ResettingStep,
   StoredStep, OneGenerationStep, KeptStep, CurrentStep, EndedStep, ListingStep
   DEF IInv

(* The inductive invariant holds. *)
THEOREM InductiveInvariant == Spec => []IInv
BY InitIInv, InvStep, PTL DEF Spec

(* Type correctness, for any number of requests, credentials and faults. *)
THEOREM TypeCorrect == Spec => []TypeOK
<1>1. IInv => TypeOK
  BY DEF IInv
<1> QED BY <1>1, InductiveInvariant, PTL

(* A page that says success shows what the last successful load was told    *)
(* (runStatsSync, runKeysSync).                                            *)
THEOREM SuccessIsListing == Spec => []SuccessShowsListing
<1>1. IInv => SuccessShowsListing
  BY DEF IInv
<1> QED BY <1>1, InductiveInvariant, PTL

(* Nothing that was read with replaced credentials is shown as a success,   *)
(* outside the exceptions it names (Update, ResetRepository).              *)
THEOREM CredentialsAreCurrent == Spec => []SuccessIsCurrent
<1>1. IInv => SuccessIsCurrent
  <2> SUFFICES ASSUME IInv, row.st = "success", Clean, ~ reverted,
                      ~ Someone("resetState")
               PROVE  Served \subseteq {cred}
    BY Zenon DEF SuccessIsCurrent, Clean, Someone
  <2>1. published \subseteq {cred}
    BY DEF IInv, Current
  <2>2. Served = published
    BY DEF IInv, SuccessShowsListing, Clean
  <2> QED BY <2>1, <2>2
<1> QED BY <1>1, InductiveInvariant, PTL

(* A refresh that fails leaves what was shown (runStatsSync, runKeysSync).   *)
THEOREM FailuresKeep == Spec => []FailureKeepsRows
<1>1. IInv => FailureKeepsRows
  <2> SUFFICES ASSUME IInv, row.st = "failed", row.gen > 0, Clean
               PROVE  Served = published
    BY Zenon DEF FailureKeepsRows, Clean
  <2>1. load.at # "publish"
    BY DEF IInv, Unsettled, Working
  <2> QED BY <2>1 DEF IInv, Kept
<1> QED BY <1>1, InductiveInvariant, PTL

(* Without faults a row that says running has its load (finishLoad).        *)
THEOREM RunningHasLoad == Spec => []RunningIsLoading
<1>1. IInv => RunningIsLoading
  BY DEF IInv, Ended, RunningIsLoading
<1> QED BY <1>1, InductiveInvariant, PTL

-----------------------------------------------------------------------------
(* The variables of MetadataCache, as DomainSync has them. *)
Answers == IF Heard THEN {load.payload} ELSE {}
Shown == IF Promised THEN Served ELSE {}

(* Steps that give up the promise, or leave the page and what was heard,     *)
(* keep it.                                                                  *)
LEMMA PageSteps ==
    ASSUME UNCHANGED cred, Heard' => Heard /\ load'.payload = load.payload,
           Promised' => Promised /\ Served' = Served
    PROVE  Cache!GiveUp
<1>1. Answers' \subseteq Answers
  BY DEF Answers
<1>2. ~ Promised' => Shown' = {}
  BY DEF Shown
<1>3. Promised' => Promised /\ Shown' = Shown
  BY DEF Shown
<1> QED BY <1>1, <1>2, <1>3 DEF Cache!GiveUp, Answers, Shown

(* A load that restic has answered has nothing promised beside it. *)
LEMMA WorkingIsUnpromised ==
    ASSUME Unsettled, load.at \in Working
    PROVE  ~ Promised
BY DEF Unsettled, Promised

(* Every step of a domain is a step of MetadataCache or changes nothing a    *)
(* reader can tell.                                                          *)
LEMMA CacheStep == IInv /\ [Next]_vars => [Cache!Next]_(Cache!vars)
<1> SUFFICES ASSUME IInv, [Next]_vars PROVE [Cache!Next]_(Cache!vars)
  OBVIOUS
<1>0. TypeOK /\ Unread /\ Generation /\ Unsettled /\ Resetting /\ Stored
  BY DEF IInv
<1>1. Cache!GiveUp \/ Cache!Answer \/ Cache!Publish \/ Cache!Change => [Cache!Next]_(Cache!vars)
  BY DEF Cache!Next
<1>2. ASSUME UNCHANGED cred, Heard' => Heard /\ load'.payload = load.payload,
             Promised' => Promised /\ Served' = Served
      PROVE  [Cache!Next]_(Cache!vars)
  BY <1>1, <1>2, PageSteps
<1>3. ASSUME UNCHANGED cred, ~ Promised', Heard' => Heard /\ load'.payload = load.payload
      PROVE  [Cache!Next]_(Cache!vars)
  BY <1>2, <1>3
<1>4. CASE Refresh \/ LoadDies \/ finishLoad
  <2>1. /\ UNCHANGED <<cred, row, rows, published, left>> /\ (overlap => overlap')
        /\ load'.at \notin {"store", "sweep", "publish"}
    BY <1>0, <1>4 DEF Refresh, LoadDies, finishLoad, LoadGoto, NoLoad, cache, hist, TypeOK
  <2> QED BY <2>1, <1>2 DEF Heard, Promised, Served
<1>5. CASE NextGeneration \/ MarkRunning
  <2>1. /\ UNCHANGED <<cred, rows, published, left, overlap>> /\ (row' = row \/ row'.st = "running")
        /\ load'.at \notin {"store", "sweep", "publish"}
    <3>1. load'.at \in {"mark", "command"}
      <4>1. CASE NextGeneration
        BY <1>0, <4>1 DEF NextGeneration, TypeOK
      <4>2. CASE MarkRunning
        BY <1>0, <4>2 DEF MarkRunning, LoadGoto, TypeOK
      <4> QED BY <1>5, <4>1, <4>2
    <3>2. row' = row \/ row'.st = "running"
      BY <1>5 DEF NextGeneration, MarkRunning, SetState, cache
    <3>3. UNCHANGED <<cred, rows, published, left, overlap>>
      BY <1>5 DEF NextGeneration, MarkRunning, cache, hist
    <3> QED BY <3>1, <3>2, <3>3
  <2>2. ~ Heard'
    BY <2>1 DEF Heard
  <2>3. Promised' => Promised /\ Served' = Served
    BY <2>1 DEF Promised, Served
  <2> QED BY <2>1, <2>2, <2>3, <1>2
<1>6. CASE Command
  <2>1. /\ UNCHANGED <<cred, rows, published, left, overlap>> /\ load.at = "command"
        /\ ~ Promised /\ ~ Heard
        /\ row'.st # "success"
    BY <1>0, <1>6, CommandFacts, WorkingIsUnpromised DEF Command, hist, Heard, Working, Unsettled
  <2>2. ~ Promised'
    BY <2>1 DEF Promised
  <2>3. CASE ~ Heard'
    BY <2>1, <2>2, <2>3, <1>3
  <2>4. CASE Heard'
    <3>1. load'.payload = {cred}
      BY <1>0, <1>6, <2>1, <2>4, CommandFacts DEF Heard, Unread
    <3>2. Answers = {} /\ Answers' = {{cred}} /\ Shown = {} /\ Shown' = {}
      BY <2>1, <2>2, <2>4, <3>1 DEF Answers, Shown
    <3>3. Promised' = Promised
      BY <2>1, <2>2, Zenon DEF Promised
    <3>4. UNCHANGED cred /\ Answers' = {{cred}} /\ Shown' = Shown
      BY <2>1, <3>2
    <3>5. Cache!Answer
      BY <2>1, <3>2, <3>3, <3>4 DEF Cache!Answer, Answers, Shown
    <3> QED BY <3>5, <1>1
  <2> QED BY <2>3, <2>4
<1>7. CASE Store \/ Sweep
  <2>1. /\ UNCHANGED <<cred, published, overlap>> /\ (left => left')
        /\ row'.st # "success"
        /\ load.at \in {"store", "sweep"} /\ load'.payload = load.payload
    BY <1>0, <1>7 DEF Store, Sweep, SetState, LoadGoto, hist, TypeOK, Unsettled, Working
  <2> QED BY <2>1, <1>3 DEF Heard, Promised
<1>8. CASE Publish
  <2>1. /\ UNCHANGED <<cred, rows, overlap>> /\ load.at = "publish" /\ load'.at = "exit"
        /\ ~ Promised /\ ~ Heard' /\ (left => left')
    BY <1>0, <1>8, WorkingIsUnpromised DEF Publish, LoadGoto, TypeOK, Heard, Working
  <2>2. CASE ~ Promised'
    BY <2>1, <2>2, <1>3
  <2>3. CASE Promised'
    <3>1. /\ ~ overlap /\ ~ left /\ published' # {}
          /\ row'.st = "success" /\ row.st # "success"
      BY <1>0, <2>1, <2>3 DEF Promised, Unsettled, Working
    <3>2. SetState("success", load.g) /\ published' = load.payload
      BY <1>8, <3>1 DEF Publish
    <3>3. row'.gen = load.g
      BY <1>0, <2>1, <3>2 DEF SetState, Generation, Working
    <3>4. Served' = load.payload
      BY <1>0, <2>1, <3>1, <3>3 DEF Stored, Records, Served
    <3>5. Heard
      BY <2>1, <3>1, <3>2 DEF Heard
    <3>6. Answers = {load.payload} /\ Answers' = {} /\ Shown' = load.payload \cup {}
      BY <2>1, <2>3, <3>4, <3>5 DEF Answers, Shown
    <3>7. Cache!Publish
      BY <2>1, <2>3, <3>6 DEF Cache!Publish, Answers, Shown
    <3> QED BY <3>7, <1>1
  <2> QED BY <2>2, <2>3
<1>9. CASE Restart
  <2>1. /\ UNCHANGED <<cred, row, rows, published, overlap>> /\ (left => left') /\ load'.at = "none"
    BY <1>9 DEF Restart, NoLoad, cache
  <2> QED BY <2>1, <1>2 DEF Heard, Promised, Served
<1>10. ASSUME NEW u \in Users, Begin(u) \/ ReadStale(u) \/ WriteStale(u)
       PROVE  [Cache!Next]_(Cache!vars)
  <2>1. UNCHANGED <<cred, rows, load, published, overlap>>
    BY <1>10 DEF Begin, ReadStale, WriteStale, cache, hist
  <2>2. (row' = row /\ left' = left) \/ row'.st = "stale"
    <3>1. CASE Begin(u) \/ ReadStale(u)
      BY <3>1 DEF Begin, ReadStale, cache, hist
    <3>2. CASE WriteStale(u)
      BY <3>2 DEF WriteStale, SetState
    <3> QED BY <1>10, <3>1, <3>2
  <2>3. left => left'
    <3>1. CASE Begin(u) \/ ReadStale(u)
      BY <3>1 DEF Begin, ReadStale, cache, hist
    <3>2. CASE WriteStale(u)
      BY <3>2, Zenon DEF WriteStale
    <3> QED BY <1>10, <3>1, <3>2
  <2>4. Heard' => Heard /\ load'.payload = load.payload
    BY <2>1, <2>3 DEF Heard
  <2>5. Promised' => Promised /\ Served' = Served
    BY <2>1, <2>2, <2>3 DEF Promised, Served
  <2> QED BY <2>1, <2>4, <2>5, <1>2
<1>11. ASSUME NEW u \in Users, StoreUpdate(u) PROVE [Cache!Next]_(Cache!vars)
  <2>1. UNCHANGED <<row, rows, load, published, overlap, left>> /\ cred' \in Creds
    BY <1>0, <1>11, TypeStep DEF StoreUpdate, cache, TypeOK
  <2>2. Answers' = Answers /\ Shown' = Shown /\ (Promised' <=> Promised)
    BY <2>1 DEF Answers, Shown, Heard, Promised, Served
  <2>3. Cache!Change
    BY <2>1, <2>2 DEF Cache!Change, Answers, Shown
  <2> QED BY <2>3, <1>1
<1>12. ASSUME NEW u \in Users, ResetState(u) PROVE [Cache!Next]_(Cache!vars)
  <2>1. /\ UNCHANGED <<cred, load, rows, published>>
        /\ (left => left') /\ (overlap => overlap')
    <3>1. UNCHANGED <<cred, load, rows, published>>
      BY <1>12 DEF ResetState
    <3>2. left => left'
      BY <1>12, Zenon DEF ResetState, Met, ResetFails
    <3>3. overlap => overlap'
      BY <1>12, Zenon DEF ResetState, Met, ResetFails
    <3> QED BY <3>1, <3>2, <3>3
  <2>2. row' = NoRow \/ left'
    BY <1>12, ResetStateFacts
  <2>3. ~ Promised'
    BY <2>2 DEF Promised, NoRow
  <2> QED BY <2>1, <2>3, <1>3 DEF Heard
<1>13. ASSUME NEW u \in Users, ResetRows(u) PROVE [Cache!Next]_(Cache!vars)
  <2>1. /\ UNCHANGED <<cred, load, row, published>>
        /\ (left => left') /\ (overlap => overlap')
    <3>1. UNCHANGED <<cred, load, row, published>>
      BY <1>13 DEF ResetRows
    <3>2. left => left'
      BY <1>13, Zenon DEF ResetRows, Met, ResetFails
    <3>3. overlap => overlap'
      BY <1>13, Zenon DEF ResetRows, Met, ResetFails
    <3> QED BY <3>1, <3>2, <3>3
  <2>2. Someone("resetRows")
    BY <1>13 DEF ResetRows, Someone
  <2>3. ~ Promised'
    BY <1>0, <2>1, <2>2 DEF Promised, Resetting
  <2> QED BY <2>1, <2>3, <1>3 DEF Heard
<1>14. CASE UNCHANGED vars
  BY <1>14, <1>2 DEF vars, cache, hist, Heard, Promised, Served
<1> QED
  BY <1>4, <1>5, <1>6, <1>7, <1>8, <1>9, <1>10, <1>11, <1>12, <1>13, <1>14
     DEF Next, LoadStep, UserStep

(* Statistics and keys keep what MetadataCache promises their readers, for   *)
(* any requests, credentials and faults.                                     *)
THEOREM DomainPagesKeepPromise == Spec => ImplementsCache
<1>1. Init => Cache!Init
  BY CredsAssumption DEF Init, NoRow, NoLoad, Cache!Init, Heard, Promised
<1> QED BY <1>1, CacheStep, InductiveInvariant, PTL DEF Spec, ImplementsCache, Cache!Spec
=============================================================================
