-------------------------- MODULE FileIndexProofs --------------------------
(***************************************************************************)
(* Proofs about FileIndex for any snapshots, directories and callers and    *)
(* any bounds.  The argument follows the worker: a request it has taken is  *)
(* in its hands until it is done with it (WorkKeys), callers build roots    *)
(* only (ReaderRoots), the row of a directory in the worker's hands is not  *)
(* a success (InHand), and when it becomes one, its file rows are those the *)
(* worker has just stored (StoredFiles).                                    *)
(***************************************************************************)
EXTENDS FileIndex, TLAPS

Works == [at : WorkPoints, gen : Nat, key : Keys \cup {NoKey}, known : BOOLEAN,
          processed : BOOLEAN, onlyPrewarm : BOOLEAN, stale : BOOLEAN]
Indexes == [st : Statuses, stale : BOOLEAN, gen : Nat, full : BOOLEAN]
Reads == [at : ReadPoints, key : Keys \cup {NoKey}, refresh : BOOLEAN, gen : Nat,
          known : BOOLEAN]
Marks == [at : MarkPoints, listing : SUBSET Snaps, gen : Nat]

(* The records, whose fields TypeOK names only in part. *)
Shapes ==
    /\ work \in Works
    /\ idx \in [Keys -> Indexes]
    /\ reader \in [Readers -> Reads]
    /\ marker \in [Markers -> Marks]
    /\ frow.gen \in Nat /\ faults \in Nat
    /\ files \subseteq Keys \X (Nat \ {0})

Values ==
    /\ published \in BOOLEAN /\ relaunch \in BOOLEAN
    /\ paths \in [Snaps -> {"absent", "unknown", "known"}]
    /\ queue \in [Keys -> {"no", "prewarm", "normal"}]
    /\ frow.st \in Statuses
    /\ \A k \in Keys : idx[k].st = "none" => idx[k] = NoIndex
    /\ work.at = "none" => work = NoWork
    /\ faults \in 0..MaxFaults /\ marks \in 0..MaxMarks

InWork == {"index", "row", "paths", "ls", "store", "success"}

WorkKeys ==
    /\ work.key # NoKey <=> work.at \in InWork
    /\ work.at \notin {"none", "start", "exit"} => work.gen > 0
    /\ work.at = "paths" => IsRoot(work.key)
    /\ work.at = "ls" => ~ IsRoot(work.key)
    /\ work.at = "store" /\ ~ IsRoot(work.key) => work.known = TRUE

ReaderRoots ==
    \A r \in Readers :
        /\ reader[r].at \in {"generation", "paths", "store", "success"} =>
              reader[r].key \in Keys /\ IsRoot(reader[r].key)
        /\ reader[r].at \in {"paths", "store", "success"} => reader[r].gen > 0
        /\ reader[r].at \in {"look", "enqueue"} => reader[r].key \in Keys

InHand ==
    (work.at \in InWork \ {"index"} /\ ~ IsRoot(work.key)) => idx[work.key].st # "success"

StoredFiles ==
    (work.at = "success" /\ ~ IsRoot(work.key)) =>
        \A x \in files : x[1] = work.key => x[2] = work.gen

IInv ==
    /\ Shapes /\ Values
    /\ WorkKeys /\ ReaderRoots
    /\ InHand /\ StoredFiles
    /\ RunningHasWorker
    /\ DirGenerationMatches

-----------------------------------------------------------------------------
(* A reader that is done, a worker that is done, an index that is gone.     *)
LEMMA Initials ==
    /\ NoIndex \in Indexes /\ NoWork \in Works /\ Ending \in Works /\ NoRead \in Reads
    /\ NoWork.key = NoKey /\ NoWork.at = "none" /\ Ending.key = NoKey /\ Ending.at = "exit"
BY DEF NoIndex, Indexes, Statuses, NoWork, Ending, Works, WorkPoints, NoRead, Reads, ReadPoints

(* Before the first request nobody works on anything. *)
LEMMA InitIInv == Init => IInv
<1> SUFFICES ASSUME Init PROVE IInv
  OBVIOUS
<1>1. Shapes
  <2>1. \A m \in Markers : marker[m] \in Marks
    BY DEF Init, Marks, MarkPoints
  <2>2. marker \in [Markers -> Marks]
    BY <2>1 DEF Init
  <2> QED BY <2>2, Initials DEF Init, Shapes
<1>2. WorkKeys /\ ReaderRoots /\ InHand /\ StoredFiles
  BY Initials DEF Init, NoWork, NoRead, WorkKeys, ReaderRoots, InHand, StoredFiles, InWork
<1>3. RunningHasWorker /\ DirGenerationMatches
  BY DEF Init, NoIndex, RunningHasWorker, DirGenerationMatches
<1>4. Values
  <2>1. faults \in 0..MaxFaults /\ marks \in 0..MaxMarks
    BY FileBoundsAssumption DEF Init
  <2>2. \A k \in Keys : idx[k] = NoIndex
    BY DEF Init
  <2> QED BY <2>1, <2>2 DEF Init, Values, Statuses
<1> QED BY <1>1, <1>2, <1>3, <1>4 DEF IInv

(* What SetIndex writes is an index row. *)
LEMMA IndexRows ==
    ASSUME Shapes, NEW k \in Keys, NEW st \in Statuses, NEW full \in BOOLEAN,
           NEW stale \in BOOLEAN, NEW gen \in Nat, SetIndex(k, st, full, stale, gen)
    PROVE  idx' \in [Keys -> Indexes]
<1>1. idx[k].gen \in Nat
  BY DEF Shapes, Indexes
<1>2. [st |-> st, stale |-> stale, gen |-> Keep(gen, idx[k].gen), full |-> full] \in Indexes
  BY <1>1 DEF Keep, Indexes
<1> QED BY <1>2 DEF Shapes, SetIndex

(* What StoreRows leaves are rows of keys at generations above zero. *)
LEMMA FileRows ==
    ASSUME Shapes, NEW k \in Keys, NEW gen \in Nat \ {0}, StoreRows(k, gen)
    PROVE  files' \subseteq Keys \X (Nat \ {0})
BY DEF Shapes, StoreRows

(* Every step preserves the shapes of the records.                           *)
LEMMA ShapesStep ==
    Shapes /\ WorkKeys /\ ReaderRoots /\ [Next]_vars => Shapes'
<1> SUFFICES ASSUME Shapes, WorkKeys, ReaderRoots, [Next]_vars
             PROVE  Shapes'
  OBVIOUS
<1> USE DEF Shapes
<1>1. CASE NextGeneration
  <2>1. work' = [at |-> "mark", gen |-> frow.gen + 1, key |-> work.key,
                 known |-> work.known, processed |-> work.processed,
                 onlyPrewarm |-> work.onlyPrewarm, stale |-> work.stale]
    BY <1>1 DEF NextGeneration, Works
  <2>2. work' \in Works
    BY <2>1 DEF Works, WorkPoints
  <2> QED BY <2>2, <1>1 DEF NextGeneration, core
<1>2. CASE WorkerDies
  BY <1>2, Initials
     DEF WorkKeys, InWork, ReaderRoots, Works, Indexes, Reads, Marks,
         WorkPoints, ReadPoints, MarkPoints, Statuses, WorkerDies, Fault,
         Ending, NoWork, core
<1>3. CASE MarkRunning
  BY <1>3, Initials
     DEF WorkKeys, InWork, ReaderRoots, Works, Indexes, Reads, Marks,
         WorkPoints, ReadPoints, MarkPoints, Statuses, MarkRunning, SetRow,
         Keep, Goto, core
<1>4. CASE Take
  <2>1. CASE Queued = {}
    BY <2>1, <1>4 DEF Take, Goto, Works, WorkPoints, core
  <2>2. ASSUME NEW k \in Keys,
               work' = [work EXCEPT !.at = "index", !.key = k, !.processed = TRUE,
                          !.onlyPrewarm = @ /\ queue[k] = "prewarm"]
        PROVE  work' \in Works
    BY <2>2 DEF Works, WorkPoints
  <2> QED BY <2>1, <2>2, <1>4 DEF Take, Queued, core
<1>5. CASE IndexRunning
  BY <1>5, Initials
     DEF WorkKeys, InWork, ReaderRoots, Works, Indexes, Reads, Marks,
         WorkPoints, ReadPoints, MarkPoints, Statuses, IndexRunning, SetIndex,
         Keep, Goto, core
<1>6. CASE RowRunning
  BY <1>6, Initials
     DEF WorkKeys, InWork, ReaderRoots, Works, Indexes, Reads, Marks,
         WorkPoints, ReadPoints, MarkPoints, Statuses, RowRunning, SetRow, Keep,
         Goto, core
<1>7. CASE IndexFails
  <2>1. work.key \in Keys
    BY <1>7 DEF IndexFails, WorkKeys, InWork, Works
  <2>2. idx' \in [Keys -> Indexes]
    BY <2>1, <1>7, IndexRows DEF IndexFails, Statuses
  <2>3. work' \in Works
    BY <1>7 DEF IndexFails, Works, WorkPoints
  <2>4. frow'.gen \in Nat /\ faults' \in Nat
    BY <1>7 DEF IndexFails, SetRow, Keep, Fault
  <2> QED BY <2>2, <2>3, <2>4, <1>7 DEF IndexFails, core
<1>8. CASE SnapshotPaths
  BY <1>8, Initials
     DEF WorkKeys, InWork, ReaderRoots, Works, Indexes, Reads, Marks,
         WorkPoints, ReadPoints, MarkPoints, Statuses, SnapshotPaths, core
<1>9. CASE ResticLs
  BY <1>9, Initials
     DEF WorkKeys, InWork, ReaderRoots, Works, Indexes, Reads, Marks,
         WorkPoints, ReadPoints, MarkPoints, Statuses, ResticLs, SetRow, Keep,
         core
<1>10. CASE Store
  <2>1. work' \in Works
    BY <1>10 DEF Store, Goto, Works, WorkPoints
  <2>2. work.key \in Keys /\ work.gen \in Nat \ {0}
    BY <1>10 DEF Store, WorkKeys, InWork, Works
  <2>3. idx' \in [Keys -> Indexes]
    BY <1>10, <2>2, IndexRows DEF Store, Statuses
  <2>4. files' \subseteq Keys \X (Nat \ {0})
    BY <1>10, <2>2, FileRows DEF Store
  <2> QED BY <2>1, <2>3, <2>4, <1>10 DEF Store, core
<1>11. CASE IndexSuccess
  BY <1>11, Initials
     DEF WorkKeys, InWork, ReaderRoots, Works, Indexes, Reads, Marks,
         WorkPoints, ReadPoints, MarkPoints, Statuses, IndexSuccess, SetIndex,
         Keep, core
<1>12. CASE HasStale
  <2>1. PICK late \in BOOLEAN :
          work' = [at |-> "close", gen |-> work.gen, key |-> NoKey, known |-> FALSE,
                   processed |-> FALSE, onlyPrewarm |-> TRUE, stale |-> late]
    BY <1>12 DEF HasStale, NoWork
  <2>2. work' \in Works
    BY <2>1 DEF Works, WorkPoints
  <2> QED BY <2>2, <1>12 DEF HasStale, core
<1>13. CASE Close
  BY <1>13, Initials
     DEF WorkKeys, InWork, ReaderRoots, Works, Indexes, Reads, Marks,
         WorkPoints, ReadPoints, MarkPoints, Statuses, Close, SetRow, Keep,
         Ending, NoWork, core
<1>14. CASE FinishLoad
  BY <1>14, Initials
     DEF WorkKeys, InWork, ReaderRoots, Works, Indexes, Reads, Marks,
         WorkPoints, ReadPoints, MarkPoints, Statuses, FinishLoad, NoWork, core
<1>15. CASE Relaunch
  BY <1>15, Initials
     DEF WorkKeys, InWork, ReaderRoots, Works, Indexes, Reads, Marks,
         WorkPoints, ReadPoints, MarkPoints, Statuses, Relaunch, Begin, NoWork,
         core
<1>16. CASE Finalize
  <2>1. marker' \in [Markers -> Marks]
    BY <1>16 DEF Finalize, Markers, Marks, MarkPoints
  <2>2. idx' \in [Keys -> Indexes]
    BY <1>16, Initials DEF Finalize
  <2>3. files' \subseteq Keys \X (Nat \ {0})
    BY <1>16 DEF Finalize
  <2> QED BY <2>1, <2>2, <2>3, <1>16 DEF Finalize
<1>17. CASE StoreBackupSummary
  <2>1. marker' \in [Markers -> Marks]
    BY <1>17, Initials DEF StoreBackupSummary, Markers, Marks, MarkPoints
  <2> QED BY <2>1, <1>17 DEF StoreBackupSummary, core
<1>18. CASE Publish
  <2>1. marker' \in [Markers -> Marks]
    BY <1>18, Initials DEF Publish, Markers, Marks, MarkPoints
  <2> QED BY <2>1, <1>18 DEF Publish, core
<1>19. CASE Prewarm
  <2>1. marker' \in [Markers -> Marks]
    BY <1>19, Initials DEF Prewarm, Markers, Marks, MarkPoints
  <2> QED BY <2>1, <1>19 DEF Prewarm, core
<1>20. CASE PrewarmWorker
  <2>1. marker' \in [Markers -> Marks]
    BY <1>20 DEF PrewarmWorker, Markers, Marks, MarkPoints
  <2>2. work' \in Works
    BY <1>20, Initials DEF PrewarmWorker, Begin, Works, WorkPoints
  <2> QED BY <2>1, <2>2, <1>20 DEF PrewarmWorker, core
<1>21. ASSUME NEW m \in Markers, MarkIndexes(m) PROVE Shapes'
  <2>1. marker' \in [Markers -> Marks]
    BY <1>21 DEF MarkIndexes, Marks, MarkPoints
  <2>2. idx' \in [Keys -> Indexes]
    BY <1>21 DEF MarkIndexes, Indexes, Statuses
  <2> QED BY <2>1, <2>2, <1>21 DEF MarkIndexes, core
<1>22. ASSUME NEW m \in Markers, ReadRow(m) PROVE Shapes'
  <2>1. marker' \in [Markers -> Marks]
    BY <1>22, Initials DEF ReadRow, Markers, Marks, MarkPoints
  <2> QED BY <2>1, <1>22 DEF ReadRow, core
<1>23. ASSUME NEW m \in Markers, WriteRow(m) PROVE Shapes'
  <2>1. marker' \in [Markers -> Marks]
    BY <1>23 DEF WriteRow, Marks, MarkPoints
  <2>2. frow'.gen \in Nat
    BY <1>23 DEF WriteRow, SetRow, Keep, Marks
  <2> QED BY <2>1, <2>2, <1>23 DEF WriteRow, core
<1>24. ASSUME NEW r \in Readers, Open(r) PROVE Shapes'
  <2>1. PICK k \in Keys, refresh \in BOOLEAN :
          reader' = [reader EXCEPT ![r] = [NoRead EXCEPT
                      !.at = IF IsRoot(k) THEN "generation" ELSE "look",
                      !.key = k, !.refresh = refresh /\ ~ IsRoot(k)]]
    BY <1>24 DEF Open
  <2> DEFINE point == IF IsRoot(k) THEN "generation" ELSE "look"
             again == refresh /\ ~ IsRoot(k)
  <2>2. point \in ReadPoints /\ again \in BOOLEAN
    BY DEF ReadPoints
  <2>3. reader' = [reader EXCEPT ![r] =
                     [NoRead EXCEPT !.at = point, !.key = k, !.refresh = again]]
    BY <2>1
  <2> HIDE DEF point, again
  <2>4. [NoRead EXCEPT !.at = point, !.key = k, !.refresh = again] \in Reads
    BY <2>2 DEF NoRead, Reads
  <2> QED BY <2>3, <2>4, <1>24 DEF Open, core
<1>25. ASSUME NEW r \in Readers, QueueFilesSync(r) PROVE Shapes'
  BY <1>25, Initials
     DEF WorkKeys, InWork, ReaderRoots, Works, Indexes, Reads, Marks,
         WorkPoints, ReadPoints, MarkPoints, Statuses, QueueFilesSync,
         EnqueueAll, core
<1>26. ASSUME NEW r \in Readers, RootGeneration(r) PROVE Shapes'
  <2>1. [reader[r] EXCEPT !.at = "paths", !.gen = frow.gen + 1] \in Reads
    <3>1. reader[r] \in Reads /\ frow.gen + 1 \in Nat
      OBVIOUS
    <3> QED BY <3>1 DEF Reads, ReadPoints
  <2>2. reader' = [reader EXCEPT ![r] =
                     [reader[r] EXCEPT !.at = "paths", !.gen = frow.gen + 1]]
    BY <1>26 DEF RootGeneration, Reads
  <2>3. reader' \in [Readers -> Reads]
    BY <2>1, <2>2
  <2> QED BY <2>3, <1>26 DEF RootGeneration, core
<1>27. ASSUME NEW r \in Readers, RootPaths(r) PROVE Shapes'
  <2>1. PICK known \in BOOLEAN :
          reader' = [reader EXCEPT ![r].at = "store", ![r].known = known]
    BY <1>27 DEF RootPaths
  <2>2. [reader[r] EXCEPT !.at = "store", !.known = known] \in Reads
    BY DEF Reads, ReadPoints
  <2>3. reader' \in [Readers -> Reads]
    BY <2>1, <2>2 DEF Reads
  <2> QED BY <2>3, <1>27 DEF RootPaths, core
<1>28. ASSUME NEW r \in Readers, RootStore(r) PROVE Shapes'
  <2>1. reader' \in [Readers -> Reads]
    BY <1>28 DEF RootStore, Reads, ReadPoints
  <2>2. reader[r].key \in Keys /\ reader[r].gen \in Nat \ {0}
    BY <1>28 DEF RootStore, ReaderRoots, Reads
  <2>3. idx' \in [Keys -> Indexes]
    BY <1>28, <2>2, IndexRows DEF RootStore, Statuses
  <2>4. files' \subseteq Keys \X (Nat \ {0})
    BY <1>28, <2>2, FileRows DEF RootStore
  <2> QED BY <2>1, <2>3, <2>4, <1>28 DEF RootStore, core
<1>29. ASSUME NEW r \in Readers, RootSuccess(r) PROVE Shapes'
  BY <1>29, Initials
     DEF WorkKeys, InWork, ReaderRoots, Works, Indexes, Reads, Marks,
         WorkPoints, ReadPoints, MarkPoints, Statuses, RootSuccess, SetIndex,
         Keep, NoRead, core
<1>30. ASSUME NEW r \in Readers, RootFails(r) PROVE Shapes'
  BY <1>30, Initials
     DEF WorkKeys, InWork, ReaderRoots, Works, Indexes, Reads, Marks,
         WorkPoints, ReadPoints, MarkPoints, Statuses, RootFails, Fault, NoRead,
         core
<1>31. ASSUME NEW r \in Readers, Look(r) PROVE Shapes'
  <2>1. reader' \in [Readers -> Reads]
    BY <1>31, Initials DEF Look, Reads, ReadPoints
  <2> QED BY <2>1, <1>31 DEF Look, core
<1>32. ASSUME NEW r \in Readers, Enqueue(r) PROVE Shapes'
  <2>1. reader' \in [Readers -> Reads]
    BY <1>32, Initials DEF Enqueue, Reads, ReadPoints
  <2> QED BY <2>1, <1>32 DEF Enqueue, core
<1>33. ASSUME NEW r \in Readers, EnsureFileWorker(r) PROVE Shapes'
  BY <1>33, Initials
     DEF WorkKeys, InWork, ReaderRoots, Works, Indexes, Reads, Marks,
         WorkPoints, ReadPoints, MarkPoints, Statuses, EnsureFileWorker, Begin,
         NoRead, NoWork, core
<1>34. CASE UNCHANGED vars
  BY <1>34 DEF vars, core
<1> QED
  BY <1>1, <1>2, <1>3, <1>4, <1>5, <1>6, <1>7, <1>8, <1>9, <1>10, <1>11, <1>12,
     <1>13, <1>14, <1>15, <1>16, <1>17, <1>18, <1>19, <1>20, <1>21, <1>22,
     <1>23, <1>24, <1>25, <1>26, <1>27, <1>28, <1>29, <1>30, <1>31, <1>32,
     <1>33, <1>34
     DEF Next, Worker, Marker, Reader

(* A request stays in the worker's hands until it is done with it.           *)
LEMMA WorkKeysStep ==
    Shapes /\ WorkKeys /\ [Next]_vars => WorkKeys'
<1> SUFFICES ASSUME Shapes, WorkKeys, [Next]_vars
             PROVE  WorkKeys'
  OBVIOUS
<1> USE DEF Shapes, Works, Indexes, Reads, Marks, WorkKeys, InWork
<1>1. CASE NextGeneration
  BY <1>1, Initials, NoKeyAssumption DEF NextGeneration, core
<1>2. CASE WorkerDies
  BY <1>2, Initials, NoKeyAssumption DEF WorkerDies, Fault, Ending, NoWork, core
<1>3. CASE MarkRunning
  BY <1>3, Initials, NoKeyAssumption DEF MarkRunning, SetRow, Keep, Goto, core
<1>4. CASE Take
  <2>1. CASE Queued = {}
    BY <2>1, <1>4 DEF Take, Goto, core
  <2>2. CASE Queued # {}
    <3>1. PICK k \in Keys : work' = [work EXCEPT !.at = "index", !.key = k,
                                 !.processed = TRUE, !.onlyPrewarm = @ /\ queue[k] = "prewarm"]
      BY <2>2, <1>4 DEF Take, Queued
    <3>2. work'.at = "index" /\ work'.key = k /\ work'.gen = work.gen
      BY <3>1
    <3> QED BY <3>2, <1>4, NoKeyAssumption DEF Take
  <2> QED BY <2>1, <2>2
<1>5. CASE IndexRunning
  BY <1>5, Initials, NoKeyAssumption DEF IndexRunning, SetIndex, Keep, Goto, core
<1>6. CASE RowRunning
  BY <1>6, Initials, NoKeyAssumption DEF RowRunning, SetRow, Keep, Goto, core
<1>7. CASE IndexFails
  BY <1>7, Initials, NoKeyAssumption
     DEF IndexFails, Fault, SetIndex, SetRow, Keep, core
<1>8. CASE SnapshotPaths
  BY <1>8, Initials, NoKeyAssumption DEF SnapshotPaths, core
<1>9. CASE ResticLs
  BY <1>9, Initials, NoKeyAssumption DEF ResticLs, SetRow, Keep, core
<1>10. CASE Store
  BY <1>10, Initials, NoKeyAssumption DEF Store, StoreRows, SetIndex, Keep, Goto, core
<1>11. CASE IndexSuccess
  BY <1>11, Initials, NoKeyAssumption DEF IndexSuccess, SetIndex, Keep, core
<1>12. CASE HasStale
  BY <1>12, Initials, NoKeyAssumption DEF HasStale, NoWork, core
<1>13. CASE Close
  BY <1>13, Initials, NoKeyAssumption DEF Close, SetRow, Keep, Ending, NoWork, core
<1>14. CASE FinishLoad
  BY <1>14, Initials, NoKeyAssumption DEF FinishLoad, NoWork, core
<1>15. CASE Relaunch
  BY <1>15, Initials, NoKeyAssumption DEF Relaunch, Begin, NoWork, core
<1>16. CASE Finalize
  BY <1>16, Initials, NoKeyAssumption DEF Finalize, NoIndex
<1>17. CASE StoreBackupSummary
  BY <1>17, Initials, NoKeyAssumption DEF StoreBackupSummary
<1>18. CASE Publish
  BY <1>18, Initials, NoKeyAssumption DEF Publish
<1>19. CASE Prewarm
  BY <1>19, Initials, NoKeyAssumption DEF Prewarm, EnqueueAll, core
<1>20. CASE PrewarmWorker
  BY <1>20, Initials, NoKeyAssumption DEF PrewarmWorker, Begin, NoWork, core
<1>21. ASSUME NEW m \in Markers, MarkIndexes(m) PROVE WorkKeys'
  BY <1>21, Initials, NoKeyAssumption DEF MarkIndexes, core
<1>22. ASSUME NEW m \in Markers, ReadRow(m) PROVE WorkKeys'
  BY <1>22, Initials, NoKeyAssumption DEF ReadRow, core
<1>23. ASSUME NEW m \in Markers, WriteRow(m) PROVE WorkKeys'
  BY <1>23, Initials, NoKeyAssumption DEF WriteRow, SetRow, Keep, core
<1>24. ASSUME NEW r \in Readers, Open(r) PROVE WorkKeys'
  BY <1>24, Initials, NoKeyAssumption DEF Open, NoRead, core
<1>25. ASSUME NEW r \in Readers, QueueFilesSync(r) PROVE WorkKeys'
  BY <1>25, Initials, NoKeyAssumption DEF QueueFilesSync, EnqueueAll, core
<1>26. ASSUME NEW r \in Readers, RootGeneration(r) PROVE WorkKeys'
  BY <1>26, Initials, NoKeyAssumption DEF RootGeneration, core
<1>27. ASSUME NEW r \in Readers, RootPaths(r) PROVE WorkKeys'
  BY <1>27, Initials, NoKeyAssumption DEF RootPaths, core
<1>28. ASSUME NEW r \in Readers, RootStore(r) PROVE WorkKeys'
  BY <1>28, Initials, NoKeyAssumption DEF RootStore, StoreRows, SetIndex, Keep, core
<1>29. ASSUME NEW r \in Readers, RootSuccess(r) PROVE WorkKeys'
  BY <1>29, Initials, NoKeyAssumption DEF RootSuccess, SetIndex, Keep, NoRead, core
<1>30. ASSUME NEW r \in Readers, RootFails(r) PROVE WorkKeys'
  BY <1>30, Initials, NoKeyAssumption DEF RootFails, Fault, NoRead, core
<1>31. ASSUME NEW r \in Readers, Look(r) PROVE WorkKeys'
  BY <1>31, Initials, NoKeyAssumption DEF Look, NoRead, core
<1>32. ASSUME NEW r \in Readers, Enqueue(r) PROVE WorkKeys'
  BY <1>32, Initials, NoKeyAssumption DEF Enqueue, EnqueueAll, core
<1>33. ASSUME NEW r \in Readers, EnsureFileWorker(r) PROVE WorkKeys'
  BY <1>33, Initials, NoKeyAssumption
     DEF EnsureFileWorker, Begin, NoRead, NoWork, core
<1>34. CASE UNCHANGED vars
  BY <1>34 DEF vars, core
<1> QED
  BY <1>1, <1>2, <1>3, <1>4, <1>5, <1>6, <1>7, <1>8, <1>9, <1>10, <1>11, <1>12,
     <1>13, <1>14, <1>15, <1>16, <1>17, <1>18, <1>19, <1>20, <1>21, <1>22,
     <1>23, <1>24, <1>25, <1>26, <1>27, <1>28, <1>29, <1>30, <1>31, <1>32,
     <1>33, <1>34
     DEF Next, Worker, Marker, Reader

(* Callers build roots only.                                                 *)
LEMMA ReaderRootsStep ==
    Shapes /\ ReaderRoots /\ [Next]_vars => ReaderRoots'
<1> SUFFICES ASSUME Shapes, ReaderRoots, [Next]_vars
             PROVE  ReaderRoots'
  OBVIOUS
<1> USE DEF Shapes, Works, Indexes, Reads, Marks, ReaderRoots
<1>1. CASE NextGeneration
  BY <1>1, Initials DEF NextGeneration, core
<1>2. CASE WorkerDies
  BY <1>2, Initials DEF WorkerDies, Fault, Ending, NoWork, core
<1>3. CASE MarkRunning
  BY <1>3, Initials DEF MarkRunning, SetRow, Keep, Goto, core
<1>4. CASE Take
  BY <1>4, Initials DEF Take, Goto, Queued, core
<1>5. CASE IndexRunning
  BY <1>5, Initials DEF IndexRunning, SetIndex, Keep, Goto, core
<1>6. CASE RowRunning
  BY <1>6, Initials DEF RowRunning, SetRow, Keep, Goto, core
<1>7. CASE IndexFails
  BY <1>7, Initials DEF IndexFails, Fault, SetIndex, SetRow, Keep, core
<1>8. CASE SnapshotPaths
  BY <1>8, Initials DEF SnapshotPaths, core
<1>9. CASE ResticLs
  BY <1>9, Initials DEF ResticLs, SetRow, Keep, core
<1>10. CASE Store
  BY <1>10, Initials DEF Store, StoreRows, SetIndex, Keep, Goto, core
<1>11. CASE IndexSuccess
  BY <1>11, Initials DEF IndexSuccess, SetIndex, Keep, core
<1>12. CASE HasStale
  BY <1>12, Initials DEF HasStale, NoWork, core
<1>13. CASE Close
  BY <1>13, Initials DEF Close, SetRow, Keep, Ending, NoWork, core
<1>14. CASE FinishLoad
  BY <1>14, Initials DEF FinishLoad, NoWork, core
<1>15. CASE Relaunch
  BY <1>15, Initials DEF Relaunch, Begin, NoWork, core
<1>16. CASE Finalize
  BY <1>16, Initials DEF Finalize, NoIndex
<1>17. CASE StoreBackupSummary
  BY <1>17, Initials DEF StoreBackupSummary
<1>18. CASE Publish
  BY <1>18, Initials DEF Publish
<1>19. CASE Prewarm
  BY <1>19, Initials DEF Prewarm, EnqueueAll, core
<1>20. CASE PrewarmWorker
  BY <1>20, Initials DEF PrewarmWorker, Begin, NoWork, core
<1>21. ASSUME NEW m \in Markers, MarkIndexes(m) PROVE ReaderRoots'
  BY <1>21, Initials DEF MarkIndexes, core
<1>22. ASSUME NEW m \in Markers, ReadRow(m) PROVE ReaderRoots'
  BY <1>22, Initials DEF ReadRow, core
<1>23. ASSUME NEW m \in Markers, WriteRow(m) PROVE ReaderRoots'
  BY <1>23, Initials DEF WriteRow, SetRow, Keep, core
<1>24. ASSUME NEW r \in Readers, Open(r) PROVE ReaderRoots'
  BY <1>24, Initials DEF Open, NoRead, core
<1>25. ASSUME NEW r \in Readers, QueueFilesSync(r) PROVE ReaderRoots'
  BY <1>25, Initials DEF QueueFilesSync, EnqueueAll, core
<1>26. ASSUME NEW r \in Readers, RootGeneration(r) PROVE ReaderRoots'
  BY <1>26, Initials DEF RootGeneration, core
<1>27. ASSUME NEW r \in Readers, RootPaths(r) PROVE ReaderRoots'
  BY <1>27, Initials DEF RootPaths, core
<1>28. ASSUME NEW r \in Readers, RootStore(r) PROVE ReaderRoots'
  BY <1>28, Initials DEF RootStore, StoreRows, SetIndex, Keep, core
<1>29. ASSUME NEW r \in Readers, RootSuccess(r) PROVE ReaderRoots'
  BY <1>29, Initials DEF RootSuccess, SetIndex, Keep, NoRead, core
<1>30. ASSUME NEW r \in Readers, RootFails(r) PROVE ReaderRoots'
  BY <1>30, Initials DEF RootFails, Fault, NoRead, core
<1>31. ASSUME NEW r \in Readers, Look(r) PROVE ReaderRoots'
  BY <1>31, Initials DEF Look, NoRead, core
<1>32. ASSUME NEW r \in Readers, Enqueue(r) PROVE ReaderRoots'
  BY <1>32, Initials DEF Enqueue, EnqueueAll, core
<1>33. ASSUME NEW r \in Readers, EnsureFileWorker(r) PROVE ReaderRoots'
  BY <1>33, Initials DEF EnsureFileWorker, Begin, NoRead, NoWork, core
<1>34. CASE UNCHANGED vars
  BY <1>34 DEF vars, core
<1> QED
  BY <1>1, <1>2, <1>3, <1>4, <1>5, <1>6, <1>7, <1>8, <1>9, <1>10, <1>11, <1>12,
     <1>13, <1>14, <1>15, <1>16, <1>17, <1>18, <1>19, <1>20, <1>21, <1>22,
     <1>23, <1>24, <1>25, <1>26, <1>27, <1>28, <1>29, <1>30, <1>31, <1>32,
     <1>33, <1>34
     DEF Next, Worker, Marker, Reader

(* The row of a directory in the worker's hands is no success.               *)
LEMMA InHandStep ==
    Shapes /\ WorkKeys /\ ReaderRoots /\ InHand /\ [Next]_vars => InHand'
<1> SUFFICES ASSUME Shapes, WorkKeys, ReaderRoots, InHand, [Next]_vars
             PROVE  InHand'
  OBVIOUS
<1> USE DEF Shapes, Works, Indexes, Reads, Marks, WorkKeys, InWork, InHand
<1>1. CASE NextGeneration
  BY <1>1, Initials DEF NextGeneration, core
<1>2. CASE WorkerDies
  BY <1>2, Initials DEF WorkerDies, Fault, Ending, NoWork, core
<1>3. CASE MarkRunning
  BY <1>3, Initials DEF MarkRunning, SetRow, Keep, Goto, core
<1>4. CASE Take
  BY <1>4, Initials DEF Take, Goto, Queued, core
<1>5. CASE IndexRunning
  BY <1>5, Initials DEF IndexRunning, SetIndex, Keep, Goto, core
<1>6. CASE RowRunning
  BY <1>6, Initials DEF RowRunning, SetRow, Keep, Goto, core
<1>7. CASE IndexFails
  BY <1>7, Initials DEF IndexFails, Fault, SetIndex, SetRow, Keep, core
<1>8. CASE SnapshotPaths
  BY <1>8, Initials DEF SnapshotPaths, core
<1>9. CASE ResticLs
  BY <1>9, Initials DEF ResticLs, SetRow, Keep, core
<1>10. CASE Store
  BY <1>10, Initials DEF Store, StoreRows, SetIndex, Keep, Goto, core
<1>11. CASE IndexSuccess
  BY <1>11, Initials DEF IndexSuccess, SetIndex, Keep, core
<1>12. CASE HasStale
  BY <1>12, Initials DEF HasStale, NoWork, core
<1>13. CASE Close
  BY <1>13, Initials DEF Close, SetRow, Keep, Ending, NoWork, core
<1>14. CASE FinishLoad
  BY <1>14, Initials DEF FinishLoad, NoWork, core
<1>15. CASE Relaunch
  BY <1>15, Initials DEF Relaunch, Begin, NoWork, core
<1>16. CASE Finalize
  BY <1>16, Initials DEF Finalize, NoIndex
<1>17. CASE StoreBackupSummary
  BY <1>17, Initials DEF StoreBackupSummary
<1>18. CASE Publish
  BY <1>18, Initials DEF Publish
<1>19. CASE Prewarm
  BY <1>19, Initials DEF Prewarm, EnqueueAll, core
<1>20. CASE PrewarmWorker
  BY <1>20, Initials DEF PrewarmWorker, Begin, NoWork, core
<1>21. ASSUME NEW m \in Markers, MarkIndexes(m) PROVE InHand'
  BY <1>21, Initials DEF MarkIndexes, core
<1>22. ASSUME NEW m \in Markers, ReadRow(m) PROVE InHand'
  BY <1>22, Initials DEF ReadRow, core
<1>23. ASSUME NEW m \in Markers, WriteRow(m) PROVE InHand'
  BY <1>23, Initials DEF WriteRow, SetRow, Keep, core
<1>24. ASSUME NEW r \in Readers, Open(r) PROVE InHand'
  BY <1>24, Initials DEF Open, NoRead, core
<1>25. ASSUME NEW r \in Readers, QueueFilesSync(r) PROVE InHand'
  BY <1>25, Initials DEF QueueFilesSync, EnqueueAll, core
<1>26. ASSUME NEW r \in Readers, RootGeneration(r) PROVE InHand'
  BY <1>26, Initials DEF RootGeneration, core
<1>27. ASSUME NEW r \in Readers, RootPaths(r) PROVE InHand'
  BY <1>27, Initials DEF RootPaths, core
<1>28. ASSUME NEW r \in Readers, RootStore(r) PROVE InHand'
  BY <1>28, Initials DEF RootStore, StoreRows, SetIndex, Keep, core
<1>29. ASSUME NEW r \in Readers, RootSuccess(r) PROVE InHand'
  BY <1>29 DEF ReaderRoots, IsRoot, RootSuccess, SetIndex, Keep, NoRead, core
<1>30. ASSUME NEW r \in Readers, RootFails(r) PROVE InHand'
  BY <1>30, Initials DEF RootFails, Fault, NoRead, core
<1>31. ASSUME NEW r \in Readers, Look(r) PROVE InHand'
  BY <1>31, Initials DEF Look, NoRead, core
<1>32. ASSUME NEW r \in Readers, Enqueue(r) PROVE InHand'
  BY <1>32, Initials DEF Enqueue, EnqueueAll, core
<1>33. ASSUME NEW r \in Readers, EnsureFileWorker(r) PROVE InHand'
  BY <1>33, Initials DEF EnsureFileWorker, Begin, NoRead, NoWork, core
<1>34. CASE UNCHANGED vars
  BY <1>34 DEF vars, core
<1> QED
  BY <1>1, <1>2, <1>3, <1>4, <1>5, <1>6, <1>7, <1>8, <1>9, <1>10, <1>11, <1>12,
     <1>13, <1>14, <1>15, <1>16, <1>17, <1>18, <1>19, <1>20, <1>21, <1>22,
     <1>23, <1>24, <1>25, <1>26, <1>27, <1>28, <1>29, <1>30, <1>31, <1>32,
     <1>33, <1>34
     DEF Next, Worker, Marker, Reader

(* The file rows of a directory that is about to be a success are those that *)
(* the worker has stored.                                                   *)
LEMMA StoredFilesStep ==
    Shapes /\ WorkKeys /\ ReaderRoots /\ StoredFiles /\ [Next]_vars => StoredFiles'
<1> SUFFICES ASSUME Shapes, WorkKeys, ReaderRoots, StoredFiles, [Next]_vars
             PROVE  StoredFiles'
  OBVIOUS
<1> USE DEF Shapes, Works, Indexes, Reads, Marks, WorkKeys, InWork, StoredFiles
<1>1. CASE NextGeneration
  BY <1>1, Initials DEF NextGeneration, core
<1>2. CASE WorkerDies
  BY <1>2, Initials DEF WorkerDies, Fault, Ending, NoWork, core
<1>3. CASE MarkRunning
  BY <1>3, Initials DEF MarkRunning, SetRow, Keep, Goto, core
<1>4. CASE Take
  BY <1>4, Initials DEF Take, Goto, Queued, core
<1>5. CASE IndexRunning
  BY <1>5, Initials DEF IndexRunning, SetIndex, Keep, Goto, core
<1>6. CASE RowRunning
  BY <1>6, Initials DEF RowRunning, SetRow, Keep, Goto, core
<1>7. CASE IndexFails
  BY <1>7, Initials DEF IndexFails, Fault, SetIndex, SetRow, Keep, core
<1>8. CASE SnapshotPaths
  BY <1>8, Initials DEF SnapshotPaths, core
<1>9. CASE ResticLs
  BY <1>9, Initials DEF ResticLs, SetRow, Keep, core
<1>10. CASE Store
  BY <1>10, Initials DEF Store, StoreRows, SetIndex, Keep, Goto, core
<1>11. CASE IndexSuccess
  BY <1>11, Initials DEF IndexSuccess, SetIndex, Keep, core
<1>12. CASE HasStale
  BY <1>12, Initials DEF HasStale, NoWork, core
<1>13. CASE Close
  BY <1>13, Initials DEF Close, SetRow, Keep, Ending, NoWork, core
<1>14. CASE FinishLoad
  BY <1>14, Initials DEF FinishLoad, NoWork, core
<1>15. CASE Relaunch
  BY <1>15, Initials DEF Relaunch, Begin, NoWork, core
<1>16. CASE Finalize
  BY <1>16, Initials DEF Finalize, NoIndex
<1>17. CASE StoreBackupSummary
  BY <1>17, Initials DEF StoreBackupSummary
<1>18. CASE Publish
  BY <1>18, Initials DEF Publish
<1>19. CASE Prewarm
  BY <1>19, Initials DEF Prewarm, EnqueueAll, core
<1>20. CASE PrewarmWorker
  BY <1>20, Initials DEF PrewarmWorker, Begin, NoWork, core
<1>21. ASSUME NEW m \in Markers, MarkIndexes(m) PROVE StoredFiles'
  BY <1>21, Initials DEF MarkIndexes, core
<1>22. ASSUME NEW m \in Markers, ReadRow(m) PROVE StoredFiles'
  BY <1>22, Initials DEF ReadRow, core
<1>23. ASSUME NEW m \in Markers, WriteRow(m) PROVE StoredFiles'
  BY <1>23, Initials DEF WriteRow, SetRow, Keep, core
<1>24. ASSUME NEW r \in Readers, Open(r) PROVE StoredFiles'
  BY <1>24, Initials DEF Open, NoRead, core
<1>25. ASSUME NEW r \in Readers, QueueFilesSync(r) PROVE StoredFiles'
  BY <1>25, Initials DEF QueueFilesSync, EnqueueAll, core
<1>26. ASSUME NEW r \in Readers, RootGeneration(r) PROVE StoredFiles'
  BY <1>26, Initials DEF RootGeneration, core
<1>27. ASSUME NEW r \in Readers, RootPaths(r) PROVE StoredFiles'
  BY <1>27, Initials DEF RootPaths, core
<1>28. ASSUME NEW r \in Readers, RootStore(r) PROVE StoredFiles'
  BY <1>28 DEF ReaderRoots, IsRoot, RootStore, StoreRows, SetIndex, Keep, core
<1>29. ASSUME NEW r \in Readers, RootSuccess(r) PROVE StoredFiles'
  BY <1>29, Initials DEF RootSuccess, SetIndex, Keep, NoRead, core
<1>30. ASSUME NEW r \in Readers, RootFails(r) PROVE StoredFiles'
  BY <1>30, Initials DEF RootFails, Fault, NoRead, core
<1>31. ASSUME NEW r \in Readers, Look(r) PROVE StoredFiles'
  BY <1>31, Initials DEF Look, NoRead, core
<1>32. ASSUME NEW r \in Readers, Enqueue(r) PROVE StoredFiles'
  BY <1>32, Initials DEF Enqueue, EnqueueAll, core
<1>33. ASSUME NEW r \in Readers, EnsureFileWorker(r) PROVE StoredFiles'
  BY <1>33, Initials DEF EnsureFileWorker, Begin, NoRead, NoWork, core
<1>34. CASE UNCHANGED vars
  BY <1>34 DEF vars, core
<1> QED
  BY <1>1, <1>2, <1>3, <1>4, <1>5, <1>6, <1>7, <1>8, <1>9, <1>10, <1>11, <1>12,
     <1>13, <1>14, <1>15, <1>16, <1>17, <1>18, <1>19, <1>20, <1>21, <1>22,
     <1>23, <1>24, <1>25, <1>26, <1>27, <1>28, <1>29, <1>30, <1>31, <1>32,
     <1>33, <1>34
     DEF Next, Worker, Marker, Reader

(* Without faults a running row is in the worker's hands.                    *)
LEMMA RunningStep ==
    Shapes /\ WorkKeys /\ ReaderRoots /\ RunningHasWorker /\ [Next]_vars => RunningHasWorker'
<1> SUFFICES ASSUME Shapes, WorkKeys, ReaderRoots, RunningHasWorker, [Next]_vars
             PROVE  RunningHasWorker'
  OBVIOUS
<1> USE DEF Shapes, Works, Indexes, Reads, Marks, WorkKeys, InWork, RunningHasWorker
<1>1. CASE NextGeneration
  BY <1>1, Initials, NoKeyAssumption DEF NextGeneration, core
<1>2. CASE WorkerDies
  BY <1>2, Initials, NoKeyAssumption DEF WorkerDies, Fault, Ending, NoWork, core
<1>3. CASE MarkRunning
  BY <1>3, Initials, NoKeyAssumption DEF MarkRunning, SetRow, Keep, Goto, core
<1>4. CASE Take
  <2>1. work.key = NoKey /\ UNCHANGED <<idx, faults>>
    BY <1>4 DEF Take
  <2> QED BY <2>1, NoKeyAssumption
<1>5. CASE IndexRunning
  BY <1>5, Initials, NoKeyAssumption DEF IndexRunning, SetIndex, Keep, Goto, core
<1>6. CASE RowRunning
  BY <1>6, Initials, NoKeyAssumption DEF RowRunning, SetRow, Keep, Goto, core
<1>7. CASE IndexFails
  BY <1>7, Initials, NoKeyAssumption
     DEF IndexFails, Fault, SetIndex, SetRow, Keep, core
<1>8. CASE SnapshotPaths
  BY <1>8, Initials, NoKeyAssumption DEF SnapshotPaths, core
<1>9. CASE ResticLs
  BY <1>9, Initials, NoKeyAssumption DEF ResticLs, SetRow, Keep, core
<1>10. CASE Store
  BY <1>10, Initials, NoKeyAssumption DEF Store, StoreRows, SetIndex, Keep, Goto, core
<1>11. CASE IndexSuccess
  BY <1>11, Initials, NoKeyAssumption DEF IndexSuccess, SetIndex, Keep, core
<1>12. CASE HasStale
  BY <1>12, Initials, NoKeyAssumption DEF HasStale, NoWork, core
<1>13. CASE Close
  BY <1>13, Initials, NoKeyAssumption DEF Close, SetRow, Keep, Ending, NoWork, core
<1>14. CASE FinishLoad
  BY <1>14, Initials, NoKeyAssumption DEF FinishLoad, NoWork, core
<1>15. CASE Relaunch
  BY <1>15, Initials, NoKeyAssumption DEF Relaunch, Begin, NoWork, core
<1>16. CASE Finalize
  BY <1>16, Initials, NoKeyAssumption DEF Finalize, NoIndex
<1>17. CASE StoreBackupSummary
  BY <1>17, Initials, NoKeyAssumption DEF StoreBackupSummary
<1>18. CASE Publish
  BY <1>18, Initials, NoKeyAssumption DEF Publish
<1>19. CASE Prewarm
  BY <1>19, Initials, NoKeyAssumption DEF Prewarm, EnqueueAll, core
<1>20. CASE PrewarmWorker
  BY <1>20, Initials, NoKeyAssumption DEF PrewarmWorker, Begin, NoWork, core
<1>21. ASSUME NEW m \in Markers, MarkIndexes(m) PROVE RunningHasWorker'
  BY <1>21, Initials, NoKeyAssumption DEF MarkIndexes, core
<1>22. ASSUME NEW m \in Markers, ReadRow(m) PROVE RunningHasWorker'
  BY <1>22, Initials, NoKeyAssumption DEF ReadRow, core
<1>23. ASSUME NEW m \in Markers, WriteRow(m) PROVE RunningHasWorker'
  BY <1>23, Initials, NoKeyAssumption DEF WriteRow, SetRow, Keep, core
<1>24. ASSUME NEW r \in Readers, Open(r) PROVE RunningHasWorker'
  BY <1>24, Initials, NoKeyAssumption DEF Open, NoRead, core
<1>25. ASSUME NEW r \in Readers, QueueFilesSync(r) PROVE RunningHasWorker'
  BY <1>25, Initials, NoKeyAssumption DEF QueueFilesSync, EnqueueAll, core
<1>26. ASSUME NEW r \in Readers, RootGeneration(r) PROVE RunningHasWorker'
  BY <1>26, Initials, NoKeyAssumption DEF RootGeneration, core
<1>27. ASSUME NEW r \in Readers, RootPaths(r) PROVE RunningHasWorker'
  BY <1>27, Initials, NoKeyAssumption DEF RootPaths, core
<1>28. ASSUME NEW r \in Readers, RootStore(r) PROVE RunningHasWorker'
  BY <1>28, Initials, NoKeyAssumption DEF RootStore, StoreRows, SetIndex, Keep, core
<1>29. ASSUME NEW r \in Readers, RootSuccess(r) PROVE RunningHasWorker'
  BY <1>29, Initials, NoKeyAssumption DEF RootSuccess, SetIndex, Keep, NoRead, core
<1>30. ASSUME NEW r \in Readers, RootFails(r) PROVE RunningHasWorker'
  BY <1>30, Initials, NoKeyAssumption DEF RootFails, Fault, NoRead, core
<1>31. ASSUME NEW r \in Readers, Look(r) PROVE RunningHasWorker'
  BY <1>31, Initials, NoKeyAssumption DEF Look, NoRead, core
<1>32. ASSUME NEW r \in Readers, Enqueue(r) PROVE RunningHasWorker'
  BY <1>32, Initials, NoKeyAssumption DEF Enqueue, EnqueueAll, core
<1>33. ASSUME NEW r \in Readers, EnsureFileWorker(r) PROVE RunningHasWorker'
  BY <1>33, Initials, NoKeyAssumption
     DEF EnsureFileWorker, Begin, NoRead, NoWork, core
<1>34. CASE UNCHANGED vars
  BY <1>34 DEF vars, core
<1> QED
  BY <1>1, <1>2, <1>3, <1>4, <1>5, <1>6, <1>7, <1>8, <1>9, <1>10, <1>11, <1>12,
     <1>13, <1>14, <1>15, <1>16, <1>17, <1>18, <1>19, <1>20, <1>21, <1>22,
     <1>23, <1>24, <1>25, <1>26, <1>27, <1>28, <1>29, <1>30, <1>31, <1>32,
     <1>33, <1>34
     DEF Next, Worker, Marker, Reader

(* A successful directory names the generation of its file rows.             *)
LEMMA MatchesStep ==
    Shapes /\ WorkKeys /\ ReaderRoots /\ InHand /\ StoredFiles /\ DirGenerationMatches
        /\ [Next]_vars => DirGenerationMatches'
<1> SUFFICES ASSUME Shapes, WorkKeys, ReaderRoots, InHand, StoredFiles,
                    DirGenerationMatches, [Next]_vars
             PROVE  DirGenerationMatches'
  OBVIOUS
<1> USE DEF Shapes, Works, Indexes, Reads, Marks, WorkKeys, InWork, DirGenerationMatches
<1>1. CASE NextGeneration
  BY <1>1, Initials DEF NextGeneration, core
<1>2. CASE WorkerDies
  BY <1>2, Initials DEF WorkerDies, Fault, Ending, NoWork, core
<1>3. CASE MarkRunning
  BY <1>3, Initials DEF MarkRunning, SetRow, Keep, Goto, core
<1>4. CASE Take
  BY <1>4, Initials DEF Take, Goto, Queued, core
<1>5. CASE IndexRunning
  BY <1>5, Initials DEF IndexRunning, SetIndex, Keep, Goto, core
<1>6. CASE RowRunning
  BY <1>6, Initials DEF RowRunning, SetRow, Keep, Goto, core
<1>7. CASE IndexFails
  BY <1>7, Initials DEF IndexFails, Fault, SetIndex, SetRow, Keep, core
<1>8. CASE SnapshotPaths
  BY <1>8, Initials DEF SnapshotPaths, core
<1>9. CASE ResticLs
  BY <1>9, Initials DEF ResticLs, SetRow, Keep, core
<1>10. CASE Store
  BY <1>10 DEF InHand, Store, StoreRows, SetIndex, Keep, Goto, core
<1>11. CASE IndexSuccess
  BY <1>11 DEF StoredFiles, IndexSuccess, SetIndex, Keep, core
<1>12. CASE HasStale
  BY <1>12, Initials DEF HasStale, NoWork, core
<1>13. CASE Close
  BY <1>13, Initials DEF Close, SetRow, Keep, Ending, NoWork, core
<1>14. CASE FinishLoad
  BY <1>14, Initials DEF FinishLoad, NoWork, core
<1>15. CASE Relaunch
  BY <1>15, Initials DEF Relaunch, Begin, NoWork, core
<1>16. CASE Finalize
  BY <1>16, Initials DEF Finalize, NoIndex
<1>17. CASE StoreBackupSummary
  BY <1>17, Initials DEF StoreBackupSummary
<1>18. CASE Publish
  BY <1>18, Initials DEF Publish
<1>19. CASE Prewarm
  BY <1>19, Initials DEF Prewarm, EnqueueAll, core
<1>20. CASE PrewarmWorker
  BY <1>20, Initials DEF PrewarmWorker, Begin, NoWork, core
<1>21. ASSUME NEW m \in Markers, MarkIndexes(m) PROVE DirGenerationMatches'
  BY <1>21, Initials DEF MarkIndexes, core
<1>22. ASSUME NEW m \in Markers, ReadRow(m) PROVE DirGenerationMatches'
  BY <1>22, Initials DEF ReadRow, core
<1>23. ASSUME NEW m \in Markers, WriteRow(m) PROVE DirGenerationMatches'
  BY <1>23, Initials DEF WriteRow, SetRow, Keep, core
<1>24. ASSUME NEW r \in Readers, Open(r) PROVE DirGenerationMatches'
  BY <1>24, Initials DEF Open, NoRead, core
<1>25. ASSUME NEW r \in Readers, QueueFilesSync(r) PROVE DirGenerationMatches'
  BY <1>25, Initials DEF QueueFilesSync, EnqueueAll, core
<1>26. ASSUME NEW r \in Readers, RootGeneration(r) PROVE DirGenerationMatches'
  BY <1>26, Initials DEF RootGeneration, core
<1>27. ASSUME NEW r \in Readers, RootPaths(r) PROVE DirGenerationMatches'
  BY <1>27, Initials DEF RootPaths, core
<1>28. ASSUME NEW r \in Readers, RootStore(r) PROVE DirGenerationMatches'
  BY <1>28 DEF ReaderRoots, IsRoot, RootStore, StoreRows, SetIndex, Keep, core
<1>29. ASSUME NEW r \in Readers, RootSuccess(r) PROVE DirGenerationMatches'
  BY <1>29 DEF ReaderRoots, IsRoot, RootSuccess, SetIndex, Keep, NoRead, core
<1>30. ASSUME NEW r \in Readers, RootFails(r) PROVE DirGenerationMatches'
  BY <1>30, Initials DEF RootFails, Fault, NoRead, core
<1>31. ASSUME NEW r \in Readers, Look(r) PROVE DirGenerationMatches'
  BY <1>31, Initials DEF Look, NoRead, core
<1>32. ASSUME NEW r \in Readers, Enqueue(r) PROVE DirGenerationMatches'
  BY <1>32, Initials DEF Enqueue, EnqueueAll, core
<1>33. ASSUME NEW r \in Readers, EnsureFileWorker(r) PROVE DirGenerationMatches'
  BY <1>33, Initials DEF EnsureFileWorker, Begin, NoRead, NoWork, core
<1>34. CASE UNCHANGED vars
  BY <1>34 DEF vars, core
<1> QED
  BY <1>1, <1>2, <1>3, <1>4, <1>5, <1>6, <1>7, <1>8, <1>9, <1>10, <1>11, <1>12,
     <1>13, <1>14, <1>15, <1>16, <1>17, <1>18, <1>19, <1>20, <1>21, <1>22,
     <1>23, <1>24, <1>25, <1>26, <1>27, <1>28, <1>29, <1>30, <1>31, <1>32,
     <1>33, <1>34
     DEF Next, Worker, Marker, Reader

(* A row that SetIndex writes exists. *)
LEMMA RowsExist ==
    ASSUME Shapes, Values, NEW k \in Keys, NEW st \in Statuses \ {"none"}, NEW full, NEW stale,
           NEW gen, SetIndex(k, st, full, stale, gen)
    PROVE  \A x \in Keys : idx'[x].st = "none" => idx'[x] = NoIndex
<1>1. idx'[k].st = st
  BY DEF SetIndex, Shapes
<1>2. \A x \in Keys \ {k} : idx'[x] = idx[x]
  BY DEF SetIndex, Shapes
<1> QED BY <1>1, <1>2 DEF Values

(* The values TypeOK names beside the records: nothing is left in a row that *)
(* does not exist or in a worker that does not run.                          *)
LEMMA ValuesStep ==
    Shapes /\ WorkKeys /\ ReaderRoots /\ Values /\ [Next]_vars => Values'
<1> SUFFICES ASSUME Shapes, WorkKeys, ReaderRoots, Values, [Next]_vars
             PROVE  Values'
  OBVIOUS
<1> USE FileBoundsAssumption DEF Shapes, Works, Indexes, WorkKeys, InWork, Values, Statuses
<1>1. CASE NextGeneration
  BY <1>1 DEF NextGeneration, core
<1>2. CASE WorkerDies
  BY <1>2 DEF WorkerDies, Fault, Ending, core
<1>3. CASE MarkRunning
  BY <1>3 DEF MarkRunning, SetRow, Goto, core
<1>4. CASE Take
  BY <1>4 DEF Take, Goto, Queued, core
<1>5. CASE IndexRunning
  BY <1>5 DEF IndexRunning, SetIndex, Goto, core
<1>6. CASE RowRunning
  BY <1>6 DEF RowRunning, SetRow, Goto, core
<1>7. CASE IndexFails
  BY <1>7 DEF IndexFails, Fault, SetIndex, SetRow, core
<1>8. CASE SnapshotPaths
  BY <1>8 DEF SnapshotPaths, core
<1>9. CASE ResticLs
  BY <1>9 DEF ResticLs, SetRow, core
<1>10. CASE Store
  BY <1>10 DEF Store, StoreRows, SetIndex, Goto, core
<1>11. CASE IndexSuccess
  BY <1>11 DEF IndexSuccess, SetIndex, core
<1>12. CASE HasStale
  BY <1>12 DEF HasStale, NoWork, core
<1>13. CASE Close
  BY <1>13 DEF Close, SetRow, Ending, core
<1>14. CASE FinishLoad
  BY <1>14 DEF FinishLoad, core
<1>15. CASE Relaunch
  BY <1>15 DEF Relaunch, Begin, NoWork, core
<1>16. CASE Finalize
  <2>1. marks' \in 0..MaxMarks
    BY <1>16 DEF Finalize
  <2>2. paths' \in [Snaps -> {"absent", "unknown", "known"}]
    BY <1>16 DEF Finalize
  <2>3. \A k \in Keys : idx'[k] = idx[k] \/ idx'[k] = NoIndex
    BY <1>16 DEF Finalize
  <2> QED BY <2>1, <2>2, <2>3, <1>16 DEF Finalize
<1>17. CASE StoreBackupSummary
  BY <1>17 DEF StoreBackupSummary, core
<1>18. CASE Publish
  BY <1>18 DEF Publish, core
<1>19. CASE Prewarm
  BY <1>19 DEF Prewarm, EnqueueAll, core
<1>20. CASE PrewarmWorker
  BY <1>20 DEF PrewarmWorker, Begin, NoWork, core
<1>21. ASSUME NEW m \in Markers, MarkIndexes(m) PROVE Values'
  BY <1>21 DEF MarkIndexes, core
<1>22. ASSUME NEW m \in Markers, ReadRow(m) PROVE Values'
  BY <1>22 DEF ReadRow, core
<1>23. ASSUME NEW m \in Markers, WriteRow(m) PROVE Values'
  BY <1>23 DEF WriteRow, SetRow, core
<1>24. ASSUME NEW r \in Readers, Open(r) PROVE Values'
  BY <1>24 DEF Open, core
<1>25. ASSUME NEW r \in Readers, QueueFilesSync(r) PROVE Values'
  BY <1>25 DEF QueueFilesSync, EnqueueAll, core
<1>26. ASSUME NEW r \in Readers, RootGeneration(r) PROVE Values'
  BY <1>26 DEF RootGeneration, ReaderRoots, core
<1>27. ASSUME NEW r \in Readers, RootPaths(r) PROVE Values'
  BY <1>27 DEF RootPaths, ReaderRoots, core
<1>28. ASSUME NEW r \in Readers, RootStore(r) PROVE Values'
  <2>1. reader[r].key \in Keys
    BY <1>28 DEF RootStore, ReaderRoots
  <2>2. \A k \in Keys : idx'[k].st = "none" => idx'[k] = NoIndex
    <3>1. CASE UNCHANGED idx
      BY <3>1
    <3>2. CASE SetIndex(reader[r].key, "stale", FALSE, TRUE, 0)
      BY <3>2, <2>1, RowsExist
    <3> QED BY <3>1, <3>2, <1>28 DEF RootStore
  <2> QED BY <2>2, <1>28 DEF RootStore, core
<1>29. ASSUME NEW r \in Readers, RootSuccess(r) PROVE Values'
  <2>1. reader[r].key \in Keys
    BY <1>29 DEF RootSuccess, ReaderRoots
  <2>2. \A k \in Keys : idx'[k].st = "none" => idx'[k] = NoIndex
    BY <2>1, <1>29, RowsExist DEF RootSuccess
  <2> QED BY <2>2, <1>29 DEF RootSuccess, core
<1>30. ASSUME NEW r \in Readers, RootFails(r) PROVE Values'
  BY <1>30 DEF RootFails, Fault, ReaderRoots, core
<1>31. ASSUME NEW r \in Readers, Look(r) PROVE Values'
  BY <1>31 DEF Look, core
<1>32. ASSUME NEW r \in Readers, Enqueue(r) PROVE Values'
  BY <1>32 DEF Enqueue, EnqueueAll, core
<1>33. ASSUME NEW r \in Readers, EnsureFileWorker(r) PROVE Values'
  BY <1>33 DEF EnsureFileWorker, Begin, NoWork, core
<1>34. CASE UNCHANGED vars
  BY <1>34 DEF vars, core
<1> QED
  BY <1>1, <1>2, <1>3, <1>4, <1>5, <1>6, <1>7, <1>8, <1>9, <1>10, <1>11, <1>12,
     <1>13, <1>14, <1>15, <1>16, <1>17, <1>18, <1>19, <1>20, <1>21, <1>22, <1>23, <1>24,
     <1>25, <1>26, <1>27, <1>28, <1>29, <1>30, <1>31, <1>32, <1>33, <1>34
     DEF Next, Worker, Marker, Reader

(* The conjunction is inductive. *)
LEMMA InvStep == IInv /\ [Next]_vars => IInv'
BY ShapesStep, ValuesStep, WorkKeysStep, ReaderRootsStep, InHandStep, StoredFilesStep, RunningStep,
   MatchesStep
   DEF IInv

(* The inductive invariant holds. *)
THEOREM InductiveInvariant == Spec => []IInv
BY InitIInv, InvStep, PTL DEF Spec

(* Type correctness, for any snapshots, directories, callers and bounds. *)
THEOREM TypeCorrect == Spec => []TypeOK
<1>1. IInv => TypeOK
  BY DEF IInv, TypeOK, Shapes, Values, Works, Indexes, Reads, Marks
<1> QED BY <1>1, InductiveInvariant, PTL

(* Unless a statement failed, a directory shown as being indexed is in the   *)
(* hands of the worker (runFilesSync).                                      *)
THEOREM RunningIsWorked == Spec => []RunningHasWorker
<1>1. IInv => RunningHasWorker
  BY DEF IInv
<1> QED BY <1>1, InductiveInvariant, PTL

(* A successful directory names the generation whose rows are stored         *)
(* (storeSnapshotFiles, setFileIndexState).                                 *)
THEOREM DirectoriesMatch == Spec => []DirGenerationMatches
<1>1. IInv => DirGenerationMatches
  BY DEF IInv
<1> QED BY <1>1, InductiveInvariant, PTL
=============================================================================
