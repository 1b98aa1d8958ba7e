--------------------------- MODULE CoreSyncProofs ---------------------------
(***************************************************************************)
(* Proofs about CoreSync for any number of snapshots and jobs and any       *)
(* bounds.  The argument does not need generations to grow: a stale mark    *)
(* may set the row back, and a load may use a generation again.  Every row  *)
(* that no backup has added by itself has the config row of its generation  *)
(* (Explained), so a load that gets past its config row finds only rows of  *)
(* backups in its generation (Fresh), what it then stores is what restic    *)
(* said (Stored), and until it ends the row is no success (Unsettled).      *)
(***************************************************************************)
EXTENDS CoreSync, TLAPS

Working == {"config", "store", "progress", "list", "listed", "replace", "finalize", "publish"}

(* A load has the answer of restic from its listing on. *)
Answered == {"listed", "replace", "finalize", "publish"}

(* A job has its snapshot until its summary is stored; a load that works    *)
(* has a generation.                                                        *)
Places ==
    /\ \A j \in Jobs : job[j] \in {"summary", "upsert"} => snap[j] \in created
    /\ load \in {"mark"} \cup Working => g > 0

Unsettled == load \in Working => row.st # "success"

HasConfig == load \in {"progress", "list"} \cup Answered => g \in config

Explained == \A x \in rows : x \in summaries \/ x[2] \in config

Fresh ==
    load \in {"progress", "list", "listed", "replace"} =>
        \A x \in rows : x[2] = g => x \in summaries

Stored ==
    load \in {"finalize", "publish"} =>
        /\ \A s \in listing : <<s, g>> \in rows
        /\ \A x \in rows : x[2] = g => x[1] \in listing \/ x \in summaries

(* Rows are pairs, which TypeOK says of their fields only. *)
Pairs == rows \subseteq Snaps \X Nat

IInv ==
    /\ TypeOK
    /\ Pairs
    /\ Places
    /\ Unsettled
    /\ HasConfig /\ Explained /\ Fresh /\ Stored
    /\ SuccessShowsListing
    /\ SuccessHasConfig

-----------------------------------------------------------------------------
(* Nothing is stored before the first load. *)
LEMMA InitIInv == Init => IInv
<1> SUFFICES ASSUME Init PROVE IInv
  OBVIOUS
<1> USE DEF Init
<1>1. TypeOK /\ Pairs
  BY BoundsAssumption DEF TypeOK, Pairs, Statuses, LoadPoints, JobPoints
<1>2. Places /\ Unsettled /\ HasConfig /\ Explained /\ Fresh /\ Stored
  BY DEF Places, Unsettled, HasConfig, Explained, Fresh, Stored, Working, Answered
<1>3. SuccessShowsListing /\ SuccessHasConfig
  BY DEF SuccessShowsListing, SuccessHasConfig
<1> QED BY <1>1, <1>2, <1>3 DEF IInv

(* Every step preserves the type invariant: a summary is of a snapshot that  *)
(* exists, and a config row has a generation above zero.                     *)
LEMMA TypeStep ==
    TypeOK /\ Pairs /\ Places /\ [Next]_vars => TypeOK'
<1> SUFFICES ASSUME TypeOK, Pairs, Places, [Next]_vars
             PROVE  TypeOK'
  OBVIOUS
<1> USE DEF TypeOK, Pairs, Places, Working, Statuses, LoadPoints, JobPoints
<1>1. CASE UserSync
  BY <1>1, BoundsAssumption DEF UserSync, Queue, db, jobs, hist
<1>2. CASE Plan
  BY <1>2 DEF Plan, Queue, db, jobs, hist
<1>3. CASE NextGeneration
  BY <1>3, BoundsAssumption DEF NextGeneration, Fault, db, jobs, hist
<1>4. CASE MarkRunning
  BY <1>4, BoundsAssumption DEF MarkRunning, SetState, WritesRunning, Fails, Fault, jobs, hist
<1>5. CASE CatConfig
  BY <1>5, BoundsAssumption DEF CatConfig, SetState, WritesRunning, Fails, Fault, jobs, hist
<1>6. CASE StoreConfig
  <2>1. config' \subseteq Nat \ {0}
    <3>1. g \in Nat \ {0}
      BY <1>6 DEF StoreConfig
    <3>2. CASE config' = config
      BY <3>2
    <3>3. CASE config' = config \cup {g}
      BY <3>1, <3>3
    <3> QED BY <1>6, <3>2, <3>3 DEF StoreConfig
  <2>2. row'.st \in Statuses /\ row'.gen \in Nat /\ (row'.st = "none" => row'.gen = 0)
    BY <1>6 DEF StoreConfig, Fails
  <2>3. load' \in LoadPoints /\ load' \notin {"none", "start"}
    BY <1>6 DEF StoreConfig, Fails
  <2> QED BY <2>1, <2>2, <2>3, <1>6, BoundsAssumption DEF StoreConfig, Fault, jobs
<1>7. CASE ListSnapshots
  BY <1>7, BoundsAssumption DEF ListSnapshots, SetState, WritesRunning, Fails, Fault, jobs, hist
<1>8. CASE ReplaceSnapshots
  BY <1>8, BoundsAssumption DEF ReplaceSnapshots, Fails, Fault, jobs, hist
<1>9. CASE FinalizeCoreGeneration
  <2>1. row' = row /\ load' \in {"publish", "failed"} /\ faults' \in 0..MaxFaults
    BY <1>9, BoundsAssumption DEF FinalizeCoreGeneration, Fails, Fault
  <2>2. rows' \subseteq rows /\ config' \subseteq config
    BY <1>9 DEF FinalizeCoreGeneration
  <2>3. /\ UNCHANGED <<remote, created, g, listing, asks, job, snap, seen, again>>
        /\ load = "finalize"
    BY <1>9 DEF FinalizeCoreGeneration, jobs
  <2> QED BY <2>1, <2>2, <2>3
<1>10. CASE Publish
  BY <1>10, BoundsAssumption DEF Publish, SetState, Fault, jobs
<1>11. CASE FinishLoad
  BY <1>11 DEF FinishLoad, db, jobs, hist
<1>12. CASE Restart
  BY <1>12, BoundsAssumption DEF Restart, Fault, db, hist
<1>13. ASSUME NEW j \in Jobs, Backup(j) PROVE TypeOK'
  BY <1>13 DEF Backup, JobGoto, db, hist
<1>14. ASSUME NEW j \in Jobs, Forget(j) PROVE TypeOK'
  BY <1>14 DEF Forget, JobGoto, db, hist
<1>15. ASSUME NEW j \in Jobs, ReadGeneration(j) PROVE TypeOK'
  BY <1>15 DEF ReadGeneration, JobGoto, db, hist
<1>16. ASSUME NEW j \in Jobs, StoreBackupSummary(j) PROVE TypeOK'
  BY <1>16 DEF StoreBackupSummary, JobGoto
<1>17. ASSUME NEW j \in Jobs, ForgetPolicy(j) PROVE TypeOK'
  BY <1>17 DEF ForgetPolicy, JobGoto, db, hist
<1>18. ASSUME NEW j \in Jobs, ReadStale(j) PROVE TypeOK'
  BY <1>18 DEF ReadStale, JobGoto, db, hist
<1>19. ASSUME NEW j \in Jobs, WriteStale(j) PROVE TypeOK'
  BY <1>19 DEF WriteStale, SetState, JobGoto, hist
<1>20. ASSUME NEW j \in Jobs, QueueCoreSync(j) PROVE TypeOK'
  BY <1>20 DEF QueueCoreSync, Queue, JobGoto, db, hist
<1>21. CASE UNCHANGED vars
  BY <1>21 DEF vars
<1>22. CASE ProgressBefore
  BY <1>22, BoundsAssumption DEF ProgressBefore, SetState, WritesRunning, Fails, Fault, jobs, hist
<1>23. CASE ProgressAfter
  BY <1>23, BoundsAssumption DEF ProgressAfter, SetState, WritesRunning, Fails, Fault, jobs, hist
<1>24. CASE MarkFailed
  BY <1>24, BoundsAssumption DEF MarkFailed, SetState, Fault, jobs, hist
<1>25. ASSUME NEW j \in Jobs, LoseSummary(j) PROVE TypeOK'
  BY <1>25, BoundsAssumption DEF LoseSummary, Fault, JobGoto, db, hist
<1>26. ASSUME NEW j \in Jobs, LoseMark(j) PROVE TypeOK'
  BY <1>26, BoundsAssumption DEF LoseMark, Fault, JobGoto, db, hist
<1> QED
  BY <1>1, <1>2, <1>3, <1>4, <1>5, <1>6, <1>7, <1>8, <1>9, <1>10, <1>11, <1>12,
     <1>13, <1>14, <1>15, <1>16, <1>17, <1>18, <1>19, <1>20, <1>21, <1>22,
     <1>23, <1>24, <1>25, <1>26
     DEF Next, LoadStep, JobStep

(* Rows are pairs of a snapshot and a generation.                            *)
LEMMA PairsStep ==
    TypeOK /\ Pairs /\ Places /\ [Next]_vars => Pairs'
<1> SUFFICES ASSUME TypeOK, Pairs, Places, [Next]_vars
             PROVE  Pairs'
  OBVIOUS
<1> USE DEF TypeOK, Pairs, Places
<1>1. CASE UserSync
  BY <1>1 DEF UserSync, Queue, db, jobs, hist
<1>2. CASE Plan
  BY <1>2 DEF Plan, Queue, db, jobs, hist
<1>3. CASE NextGeneration
  BY <1>3 DEF NextGeneration, Fault, db, jobs, hist
<1>4. CASE MarkRunning
  BY <1>4 DEF MarkRunning, SetState, WritesRunning, Fails, Fault, jobs, hist
<1>5. CASE CatConfig
  BY <1>5 DEF CatConfig, SetState, WritesRunning, Fails, Fault, jobs, hist
<1>6. CASE StoreConfig
  BY <1>6 DEF StoreConfig, Fails, Fault, jobs, hist
<1>7. CASE ListSnapshots
  BY <1>7 DEF ListSnapshots, SetState, WritesRunning, Fails, Fault, jobs, hist
<1>8. CASE ReplaceSnapshots
  BY <1>8 DEF ReplaceSnapshots, Fails, Fault, jobs, hist
<1>9. CASE FinalizeCoreGeneration
  BY <1>9 DEF FinalizeCoreGeneration, Fails, Fault, jobs
<1>10. CASE Publish
  BY <1>10 DEF Publish, SetState, Fault, jobs
<1>11. CASE FinishLoad
  BY <1>11 DEF FinishLoad, db, jobs, hist
<1>12. CASE Restart
  BY <1>12 DEF Restart, Fault, db, hist
<1>13. ASSUME NEW j \in Jobs, Backup(j) PROVE Pairs'
  BY <1>13 DEF Backup, JobGoto, db, hist
<1>14. ASSUME NEW j \in Jobs, Forget(j) PROVE Pairs'
  BY <1>14 DEF Forget, JobGoto, db, hist
<1>15. ASSUME NEW j \in Jobs, ReadGeneration(j) PROVE Pairs'
  BY <1>15 DEF ReadGeneration, JobGoto, db, hist
<1>16. ASSUME NEW j \in Jobs, StoreBackupSummary(j) PROVE Pairs'
  BY <1>16 DEF StoreBackupSummary, JobGoto
<1>17. ASSUME NEW j \in Jobs, ForgetPolicy(j) PROVE Pairs'
  BY <1>17 DEF ForgetPolicy, JobGoto, db, hist
<1>18. ASSUME NEW j \in Jobs, ReadStale(j) PROVE Pairs'
  BY <1>18 DEF ReadStale, JobGoto, db, hist
<1>19. ASSUME NEW j \in Jobs, WriteStale(j) PROVE Pairs'
  BY <1>19 DEF WriteStale, SetState, JobGoto, hist
<1>20. ASSUME NEW j \in Jobs, QueueCoreSync(j) PROVE Pairs'
  BY <1>20 DEF QueueCoreSync, Queue, JobGoto, db, hist
<1>21. CASE UNCHANGED vars
  BY <1>21 DEF vars
<1>22. CASE ProgressBefore
  BY <1>22 DEF ProgressBefore, SetState, WritesRunning, Fails, Fault, jobs, hist
<1>23. CASE ProgressAfter
  BY <1>23 DEF ProgressAfter, SetState, WritesRunning, Fails, Fault, jobs, hist
<1>24. CASE MarkFailed
  BY <1>24 DEF MarkFailed, SetState, Fault, jobs, hist
<1>25. ASSUME NEW j \in Jobs, LoseSummary(j) PROVE Pairs'
  BY <1>25 DEF LoseSummary, Fault, JobGoto, db, hist
<1>26. ASSUME NEW j \in Jobs, LoseMark(j) PROVE Pairs'
  BY <1>26 DEF LoseMark, Fault, JobGoto, db, hist
<1> QED
  BY <1>1, <1>2, <1>3, <1>4, <1>5, <1>6, <1>7, <1>8, <1>9, <1>10, <1>11, <1>12,
     <1>13, <1>14, <1>15, <1>16, <1>17, <1>18, <1>19, <1>20, <1>21, <1>22,
     <1>23, <1>24, <1>25, <1>26
     DEF Next, LoadStep, JobStep

(* Every step preserves what the points of jobs and loads imply.             *)
LEMMA PlacesStep ==
    TypeOK /\ Places /\ [Next]_vars => Places'
<1> SUFFICES ASSUME TypeOK, Places, [Next]_vars
             PROVE  Places'
  OBVIOUS
<1> USE DEF TypeOK, Places, Working
<1>1. CASE UserSync
  BY <1>1 DEF UserSync, Queue, db, jobs, hist
<1>2. CASE Plan
  BY <1>2 DEF Plan, Queue, db, jobs, hist
<1>3. CASE NextGeneration
  BY <1>3 DEF NextGeneration, Fault, db, jobs, hist
<1>4. CASE MarkRunning
  BY <1>4 DEF MarkRunning, SetState, WritesRunning, Fails, Fault, jobs, hist
<1>5. CASE CatConfig
  BY <1>5 DEF CatConfig, SetState, WritesRunning, Fails, Fault, jobs, hist
<1>6. CASE StoreConfig
  BY <1>6 DEF StoreConfig, Fails, Fault, jobs, hist
<1>7. CASE ListSnapshots
  BY <1>7 DEF ListSnapshots, SetState, WritesRunning, Fails, Fault, jobs, hist
<1>8. CASE ReplaceSnapshots
  BY <1>8 DEF ReplaceSnapshots, Fails, Fault, jobs, hist
<1>9. CASE FinalizeCoreGeneration
  BY <1>9 DEF FinalizeCoreGeneration, Fails, Fault, jobs
<1>10. CASE Publish
  BY <1>10 DEF Publish, SetState, Fault, jobs
<1>11. CASE FinishLoad
  BY <1>11 DEF FinishLoad, db, jobs, hist
<1>12. CASE Restart
  BY <1>12 DEF Restart, Fault, db, hist
<1>13. ASSUME NEW j \in Jobs, Backup(j) PROVE Places'
  BY <1>13 DEF Backup, JobGoto, db, hist
<1>14. ASSUME NEW j \in Jobs, Forget(j) PROVE Places'
  BY <1>14 DEF Forget, JobGoto, db, hist
<1>15. ASSUME NEW j \in Jobs, ReadGeneration(j) PROVE Places'
  BY <1>15 DEF ReadGeneration, JobGoto, db, hist
<1>16. ASSUME NEW j \in Jobs, StoreBackupSummary(j) PROVE Places'
  BY <1>16 DEF StoreBackupSummary, JobGoto
<1>17. ASSUME NEW j \in Jobs, ForgetPolicy(j) PROVE Places'
  BY <1>17 DEF ForgetPolicy, JobGoto, db, hist
<1>18. ASSUME NEW j \in Jobs, ReadStale(j) PROVE Places'
  BY <1>18 DEF ReadStale, JobGoto, db, hist
<1>19. ASSUME NEW j \in Jobs, WriteStale(j) PROVE Places'
  BY <1>19 DEF WriteStale, SetState, JobGoto, hist
<1>20. ASSUME NEW j \in Jobs, QueueCoreSync(j) PROVE Places'
  BY <1>20 DEF QueueCoreSync, Queue, JobGoto, db, hist
<1>21. CASE UNCHANGED vars
  BY <1>21 DEF vars
<1>22. CASE ProgressBefore
  BY <1>22 DEF ProgressBefore, SetState, WritesRunning, Fails, Fault, jobs, hist
<1>23. CASE ProgressAfter
  BY <1>23 DEF ProgressAfter, SetState, WritesRunning, Fails, Fault, jobs, hist
<1>24. CASE MarkFailed
  BY <1>24 DEF MarkFailed, SetState, Fault, jobs, hist
<1>25. ASSUME NEW j \in Jobs, LoseSummary(j) PROVE Places'
  BY <1>25 DEF LoseSummary, Fault, JobGoto, db, hist
<1>26. ASSUME NEW j \in Jobs, LoseMark(j) PROVE Places'
  BY <1>26 DEF LoseMark, Fault, JobGoto, db, hist
<1> QED
  BY <1>1, <1>2, <1>3, <1>4, <1>5, <1>6, <1>7, <1>8, <1>9, <1>10, <1>11, <1>12,
     <1>13, <1>14, <1>15, <1>16, <1>17, <1>18, <1>19, <1>20, <1>21, <1>22,
     <1>23, <1>24, <1>25, <1>26
     DEF Next, LoadStep, JobStep

(* No row is a success while its load works.                                *)
LEMMA UnsettledStep ==
    TypeOK /\ Unsettled /\ [Next]_vars => Unsettled'
<1> SUFFICES ASSUME TypeOK, Unsettled, [Next]_vars
             PROVE  Unsettled'
  OBVIOUS
<1> USE DEF TypeOK, Unsettled, Working
<1>1. CASE UserSync
  BY <1>1 DEF UserSync, Queue, db, jobs, hist
<1>2. CASE Plan
  BY <1>2 DEF Plan, Queue, db, jobs, hist
<1>3. CASE NextGeneration
  BY <1>3 DEF NextGeneration, Fault, db, jobs, hist
<1>4. CASE MarkRunning
  BY <1>4 DEF MarkRunning, SetState, WritesRunning, Fails, Fault, jobs, hist
<1>5. CASE CatConfig
  BY <1>5 DEF CatConfig, SetState, WritesRunning, Fails, Fault, jobs, hist
<1>6. CASE StoreConfig
  BY <1>6 DEF StoreConfig, Fails, Fault, jobs, hist
<1>7. CASE ListSnapshots
  BY <1>7 DEF ListSnapshots, SetState, WritesRunning, Fails, Fault, jobs, hist
<1>8. CASE ReplaceSnapshots
  BY <1>8 DEF ReplaceSnapshots, Fails, Fault, jobs, hist
<1>9. CASE FinalizeCoreGeneration
  BY <1>9 DEF FinalizeCoreGeneration, Fails, Fault, jobs
<1>10. CASE Publish
  BY <1>10 DEF Publish, SetState, Fault, jobs
<1>11. CASE FinishLoad
  BY <1>11 DEF FinishLoad, db, jobs, hist
<1>12. CASE Restart
  BY <1>12 DEF Restart, Fault, db, hist
<1>13. ASSUME NEW j \in Jobs, Backup(j) PROVE Unsettled'
  BY <1>13 DEF Backup, JobGoto, db, hist
<1>14. ASSUME NEW j \in Jobs, Forget(j) PROVE Unsettled'
  BY <1>14 DEF Forget, JobGoto, db, hist
<1>15. ASSUME NEW j \in Jobs, ReadGeneration(j) PROVE Unsettled'
  BY <1>15 DEF ReadGeneration, JobGoto, db, hist
<1>16. ASSUME NEW j \in Jobs, StoreBackupSummary(j) PROVE Unsettled'
  BY <1>16 DEF StoreBackupSummary, JobGoto
<1>17. ASSUME NEW j \in Jobs, ForgetPolicy(j) PROVE Unsettled'
  BY <1>17 DEF ForgetPolicy, JobGoto, db, hist
<1>18. ASSUME NEW j \in Jobs, ReadStale(j) PROVE Unsettled'
  BY <1>18 DEF ReadStale, JobGoto, db, hist
<1>19. ASSUME NEW j \in Jobs, WriteStale(j) PROVE Unsettled'
  BY <1>19 DEF WriteStale, SetState, JobGoto, hist
<1>20. ASSUME NEW j \in Jobs, QueueCoreSync(j) PROVE Unsettled'
  BY <1>20 DEF QueueCoreSync, Queue, JobGoto, db, hist
<1>21. CASE UNCHANGED vars
  BY <1>21 DEF vars
<1>22. CASE ProgressBefore
  BY <1>22 DEF ProgressBefore, SetState, WritesRunning, Fails, Fault, jobs, hist
<1>23. CASE ProgressAfter
  BY <1>23 DEF ProgressAfter, SetState, WritesRunning, Fails, Fault, jobs, hist
<1>24. CASE MarkFailed
  BY <1>24 DEF MarkFailed, SetState, Fault, jobs, hist
<1>25. ASSUME NEW j \in Jobs, LoseSummary(j) PROVE Unsettled'
  BY <1>25 DEF LoseSummary, Fault, JobGoto, db, hist
<1>26. ASSUME NEW j \in Jobs, LoseMark(j) PROVE Unsettled'
  BY <1>26 DEF LoseMark, Fault, JobGoto, db, hist
<1> QED
  BY <1>1, <1>2, <1>3, <1>4, <1>5, <1>6, <1>7, <1>8, <1>9, <1>10, <1>11, <1>12,
     <1>13, <1>14, <1>15, <1>16, <1>17, <1>18, <1>19, <1>20, <1>21, <1>22,
     <1>23, <1>24, <1>25, <1>26
     DEF Next, LoadStep, JobStep

(* A load past its config row keeps it, and rows that a backup has not added *)
(* have the one of their generation.                                        *)
LEMMA ConfigStep ==
    TypeOK /\ HasConfig /\ Explained /\ [Next]_vars => (HasConfig /\ Explained)'
<1> SUFFICES ASSUME TypeOK, HasConfig, Explained, [Next]_vars
             PROVE  (HasConfig /\ Explained)'
  OBVIOUS
<1> USE DEF TypeOK, HasConfig, Explained, Answered
<1>1. CASE UserSync
  BY <1>1 DEF UserSync, Queue, db, jobs, hist
<1>2. CASE Plan
  BY <1>2 DEF Plan, Queue, db, jobs, hist
<1>3. CASE NextGeneration
  BY <1>3 DEF NextGeneration, Fault, db, jobs, hist
<1>4. CASE MarkRunning
  BY <1>4 DEF MarkRunning, SetState, WritesRunning, Fails, Fault, jobs, hist
<1>5. CASE CatConfig
  BY <1>5 DEF CatConfig, SetState, WritesRunning, Fails, Fault, jobs, hist
<1>6. CASE StoreConfig
  BY <1>6 DEF StoreConfig, Fails, Fault, jobs, hist
<1>7. CASE ListSnapshots
  BY <1>7 DEF ListSnapshots, SetState, WritesRunning, Fails, Fault, jobs, hist
<1>8. CASE ReplaceSnapshots
  BY <1>8 DEF ReplaceSnapshots, Fails, Fault, jobs, hist
<1>9. CASE FinalizeCoreGeneration
  BY <1>9 DEF FinalizeCoreGeneration, Fails, Fault, jobs
<1>10. CASE Publish
  BY <1>10 DEF Publish, SetState, Fault, jobs
<1>11. CASE FinishLoad
  BY <1>11 DEF FinishLoad, db, jobs, hist
<1>12. CASE Restart
  BY <1>12 DEF Restart, Fault, db, hist
<1>13. ASSUME NEW j \in Jobs, Backup(j) PROVE (HasConfig /\ Explained)'
  BY <1>13 DEF Backup, JobGoto, db, hist
<1>14. ASSUME NEW j \in Jobs, Forget(j) PROVE (HasConfig /\ Explained)'
  BY <1>14 DEF Forget, JobGoto, db, hist
<1>15. ASSUME NEW j \in Jobs, ReadGeneration(j) PROVE (HasConfig /\ Explained)'
  BY <1>15 DEF ReadGeneration, JobGoto, db, hist
<1>16. ASSUME NEW j \in Jobs, StoreBackupSummary(j) PROVE (HasConfig /\ Explained)'
  BY <1>16 DEF StoreBackupSummary, JobGoto
<1>17. ASSUME NEW j \in Jobs, ForgetPolicy(j) PROVE (HasConfig /\ Explained)'
  BY <1>17 DEF ForgetPolicy, JobGoto, db, hist
<1>18. ASSUME NEW j \in Jobs, ReadStale(j) PROVE (HasConfig /\ Explained)'
  BY <1>18 DEF ReadStale, JobGoto, db, hist
<1>19. ASSUME NEW j \in Jobs, WriteStale(j) PROVE (HasConfig /\ Explained)'
  BY <1>19 DEF WriteStale, SetState, JobGoto, hist
<1>20. ASSUME NEW j \in Jobs, QueueCoreSync(j) PROVE (HasConfig /\ Explained)'
  BY <1>20 DEF QueueCoreSync, Queue, JobGoto, db, hist
<1>21. CASE UNCHANGED vars
  BY <1>21 DEF vars
<1>22. CASE ProgressBefore
  BY <1>22 DEF ProgressBefore, SetState, WritesRunning, Fails, Fault, jobs, hist
<1>23. CASE ProgressAfter
  BY <1>23 DEF ProgressAfter, SetState, WritesRunning, Fails, Fault, jobs, hist
<1>24. CASE MarkFailed
  BY <1>24 DEF MarkFailed, SetState, Fault, jobs, hist
<1>25. ASSUME NEW j \in Jobs, LoseSummary(j) PROVE (HasConfig /\ Explained)'
  BY <1>25 DEF LoseSummary, Fault, JobGoto, db, hist
<1>26. ASSUME NEW j \in Jobs, LoseMark(j) PROVE (HasConfig /\ Explained)'
  BY <1>26 DEF LoseMark, Fault, JobGoto, db, hist
<1> QED
  BY <1>1, <1>2, <1>3, <1>4, <1>5, <1>6, <1>7, <1>8, <1>9, <1>10, <1>11, <1>12,
     <1>13, <1>14, <1>15, <1>16, <1>17, <1>18, <1>19, <1>20, <1>21, <1>22,
     <1>23, <1>24, <1>25, <1>26
     DEF Next, LoadStep, JobStep

(* What a load stores beside the rows of backups is what restic said.        *)
LEMMA StoredStep ==
    TypeOK /\ Pairs /\ Explained /\ Fresh /\ Stored /\ [Next]_vars => (Fresh /\ Stored)'
<1> SUFFICES ASSUME TypeOK, Pairs, Explained, Fresh, Stored, [Next]_vars
             PROVE  (Fresh /\ Stored)'
  OBVIOUS
<1> USE DEF TypeOK, Pairs, Explained, Fresh, Stored
<1>1. CASE UserSync
  BY <1>1 DEF UserSync, Queue, db, jobs, hist
<1>2. CASE Plan
  BY <1>2 DEF Plan, Queue, db, jobs, hist
<1>3. CASE NextGeneration
  BY <1>3 DEF NextGeneration, Fault, db, jobs, hist
<1>4. CASE MarkRunning
  BY <1>4 DEF MarkRunning, SetState, WritesRunning, Fails, Fault, jobs, hist
<1>5. CASE CatConfig
  BY <1>5 DEF CatConfig, SetState, WritesRunning, Fails, Fault, jobs, hist
<1>6. CASE StoreConfig
  BY <1>6 DEF StoreConfig, Fails, Fault, jobs, hist
<1>7. CASE ListSnapshots
  BY <1>7 DEF ListSnapshots, SetState, WritesRunning, Fails, Fault, jobs, hist
<1>8. CASE ReplaceSnapshots
  BY <1>8 DEF ReplaceSnapshots, Fails, Fault, jobs, hist
<1>9. CASE FinalizeCoreGeneration
  BY <1>9 DEF FinalizeCoreGeneration, Fails, Fault, jobs
<1>10. CASE Publish
  BY <1>10 DEF Publish, SetState, Fault, jobs
<1>11. CASE FinishLoad
  BY <1>11 DEF FinishLoad, db, jobs, hist
<1>12. CASE Restart
  BY <1>12 DEF Restart, Fault, db, hist
<1>13. ASSUME NEW j \in Jobs, Backup(j) PROVE (Fresh /\ Stored)'
  BY <1>13 DEF Backup, JobGoto, db, hist
<1>14. ASSUME NEW j \in Jobs, Forget(j) PROVE (Fresh /\ Stored)'
  BY <1>14 DEF Forget, JobGoto, db, hist
<1>15. ASSUME NEW j \in Jobs, ReadGeneration(j) PROVE (Fresh /\ Stored)'
  BY <1>15 DEF ReadGeneration, JobGoto, db, hist
<1>16. ASSUME NEW j \in Jobs, StoreBackupSummary(j) PROVE (Fresh /\ Stored)'
  BY <1>16 DEF StoreBackupSummary, JobGoto
<1>17. ASSUME NEW j \in Jobs, ForgetPolicy(j) PROVE (Fresh /\ Stored)'
  BY <1>17 DEF ForgetPolicy, JobGoto, db, hist
<1>18. ASSUME NEW j \in Jobs, ReadStale(j) PROVE (Fresh /\ Stored)'
  BY <1>18 DEF ReadStale, JobGoto, db, hist
<1>19. ASSUME NEW j \in Jobs, WriteStale(j) PROVE (Fresh /\ Stored)'
  BY <1>19 DEF WriteStale, SetState, JobGoto, hist
<1>20. ASSUME NEW j \in Jobs, QueueCoreSync(j) PROVE (Fresh /\ Stored)'
  BY <1>20 DEF QueueCoreSync, Queue, JobGoto, db, hist
<1>21. CASE UNCHANGED vars
  BY <1>21 DEF vars
<1>22. CASE ProgressBefore
  BY <1>22 DEF ProgressBefore, SetState, WritesRunning, Fails, Fault, jobs, hist
<1>23. CASE ProgressAfter
  BY <1>23 DEF ProgressAfter, SetState, WritesRunning, Fails, Fault, jobs, hist
<1>24. CASE MarkFailed
  BY <1>24 DEF MarkFailed, SetState, Fault, jobs, hist
<1>25. ASSUME NEW j \in Jobs, LoseSummary(j) PROVE (Fresh /\ Stored)'
  BY <1>25 DEF LoseSummary, Fault, JobGoto, db, hist
<1>26. ASSUME NEW j \in Jobs, LoseMark(j) PROVE (Fresh /\ Stored)'
  BY <1>26 DEF LoseMark, Fault, JobGoto, db, hist
<1> QED
  BY <1>1, <1>2, <1>3, <1>4, <1>5, <1>6, <1>7, <1>8, <1>9, <1>10, <1>11, <1>12,
     <1>13, <1>14, <1>15, <1>16, <1>17, <1>18, <1>19, <1>20, <1>21, <1>22,
     <1>23, <1>24, <1>25, <1>26
     DEF Next, LoadStep, JobStep

(* What a success shows stays until the next load works, but for summaries.  *)
LEMMA ListingStep ==
    TypeOK /\ Pairs /\ Places /\ Unsettled /\ Stored /\ SuccessShowsListing /\ [Next]_vars
        => SuccessShowsListing'
<1> SUFFICES ASSUME TypeOK, Pairs, Places, Unsettled, Stored, SuccessShowsListing, [Next]_vars
             PROVE  SuccessShowsListing'
  OBVIOUS
<1> USE DEF TypeOK, Pairs, Unsettled, Working, SuccessShowsListing, Served
<1>1. CASE UserSync
  BY <1>1 DEF UserSync, Queue, db, jobs, hist
<1>2. CASE Plan
  BY <1>2 DEF Plan, Queue, db, jobs, hist
<1>3. CASE NextGeneration
  BY <1>3 DEF NextGeneration, Fault, db, jobs, hist
<1>4. CASE MarkRunning
  BY <1>4 DEF MarkRunning, SetState, WritesRunning, Fails, Fault, jobs, hist
<1>5. CASE CatConfig
  BY <1>5 DEF CatConfig, SetState, WritesRunning, Fails, Fault, jobs, hist
<1>6. CASE StoreConfig
  BY <1>6 DEF StoreConfig, Fails, Fault, jobs, hist
<1>7. CASE ListSnapshots
  BY <1>7 DEF ListSnapshots, SetState, WritesRunning, Fails, Fault, jobs, hist
<1>8. CASE ReplaceSnapshots
  BY <1>8 DEF ReplaceSnapshots, Fails, Fault, jobs, hist
<1>9. CASE FinalizeCoreGeneration
  BY <1>9 DEF FinalizeCoreGeneration, Fails, Fault, jobs
<1>10. CASE Publish
  <2>1. CASE row' = [st |-> "success", gen |-> g] /\ published' = listing
    BY <2>1, <1>10 DEF Publish, Stored, Places
  <2>2. CASE row' = row
    BY <2>2, <1>10 DEF Publish
  <2> QED BY <2>1, <2>2, <1>10 DEF Publish, SetState, Places
<1>11. CASE FinishLoad
  BY <1>11 DEF FinishLoad, db, jobs, hist
<1>12. CASE Restart
  BY <1>12 DEF Restart, Fault, db, hist
<1>13. ASSUME NEW j \in Jobs, Backup(j) PROVE SuccessShowsListing'
  BY <1>13 DEF Backup, JobGoto, db, hist
<1>14. ASSUME NEW j \in Jobs, Forget(j) PROVE SuccessShowsListing'
  BY <1>14 DEF Forget, JobGoto, db, hist
<1>15. ASSUME NEW j \in Jobs, ReadGeneration(j) PROVE SuccessShowsListing'
  BY <1>15 DEF ReadGeneration, JobGoto, db, hist
<1>16. ASSUME NEW j \in Jobs, StoreBackupSummary(j) PROVE SuccessShowsListing'
  BY <1>16 DEF StoreBackupSummary, JobGoto
<1>17. ASSUME NEW j \in Jobs, ForgetPolicy(j) PROVE SuccessShowsListing'
  BY <1>17 DEF ForgetPolicy, JobGoto, db, hist
<1>18. ASSUME NEW j \in Jobs, ReadStale(j) PROVE SuccessShowsListing'
  BY <1>18 DEF ReadStale, JobGoto, db, hist
<1>19. ASSUME NEW j \in Jobs, WriteStale(j) PROVE SuccessShowsListing'
  BY <1>19 DEF WriteStale, SetState, JobGoto, hist
<1>20. ASSUME NEW j \in Jobs, QueueCoreSync(j) PROVE SuccessShowsListing'
  BY <1>20 DEF QueueCoreSync, Queue, JobGoto, db, hist
<1>21. CASE UNCHANGED vars
  BY <1>21 DEF vars
<1>22. CASE ProgressBefore
  BY <1>22 DEF ProgressBefore, SetState, WritesRunning, Fails, Fault, jobs, hist
<1>23. CASE ProgressAfter
  BY <1>23 DEF ProgressAfter, SetState, WritesRunning, Fails, Fault, jobs, hist
<1>24. CASE MarkFailed
  BY <1>24 DEF MarkFailed, SetState, Fault, jobs, hist
<1>25. ASSUME NEW j \in Jobs, LoseSummary(j) PROVE SuccessShowsListing'
  BY <1>25 DEF LoseSummary, Fault, JobGoto, db, hist
<1>26. ASSUME NEW j \in Jobs, LoseMark(j) PROVE SuccessShowsListing'
  BY <1>26 DEF LoseMark, Fault, JobGoto, db, hist
<1> QED
  BY <1>1, <1>2, <1>3, <1>4, <1>5, <1>6, <1>7, <1>8, <1>9, <1>10, <1>11, <1>12,
     <1>13, <1>14, <1>15, <1>16, <1>17, <1>18, <1>19, <1>20, <1>21, <1>22,
     <1>23, <1>24, <1>25, <1>26
     DEF Next, LoadStep, JobStep

(* The config row of a success stays until the next load works.              *)
LEMMA SuccessConfigStep ==
    TypeOK /\ Places /\ Unsettled /\ HasConfig /\ SuccessHasConfig /\ [Next]_vars => SuccessHasConfig'
<1> SUFFICES ASSUME TypeOK, Places, Unsettled, HasConfig, SuccessHasConfig, [Next]_vars
             PROVE  SuccessHasConfig'
  OBVIOUS
<1> USE DEF TypeOK, Places, Unsettled, HasConfig, Working, Answered, SuccessHasConfig
<1>1. CASE UserSync
  BY <1>1 DEF UserSync, Queue, db, jobs, hist
<1>2. CASE Plan
  BY <1>2 DEF Plan, Queue, db, jobs, hist
<1>3. CASE NextGeneration
  BY <1>3 DEF NextGeneration, Fault, db, jobs, hist
<1>4. CASE MarkRunning
  BY <1>4 DEF MarkRunning, SetState, WritesRunning, Fails, Fault, jobs, hist
<1>5. CASE CatConfig
  BY <1>5 DEF CatConfig, SetState, WritesRunning, Fails, Fault, jobs, hist
<1>6. CASE StoreConfig
  BY <1>6 DEF StoreConfig, Fails, Fault, jobs, hist
<1>7. CASE ListSnapshots
  BY <1>7 DEF ListSnapshots, SetState, WritesRunning, Fails, Fault, jobs, hist
<1>8. CASE ReplaceSnapshots
  BY <1>8 DEF ReplaceSnapshots, Fails, Fault, jobs, hist
<1>9. CASE FinalizeCoreGeneration
  BY <1>9 DEF FinalizeCoreGeneration, Fails, Fault, jobs
<1>10. CASE Publish
  BY <1>10 DEF Publish, SetState, Fault, jobs
<1>11. CASE FinishLoad
  BY <1>11 DEF FinishLoad, db, jobs, hist
<1>12. CASE Restart
  BY <1>12 DEF Restart, Fault, db, hist
<1>13. ASSUME NEW j \in Jobs, Backup(j) PROVE SuccessHasConfig'
  BY <1>13 DEF Backup, JobGoto, db, hist
<1>14. ASSUME NEW j \in Jobs, Forget(j) PROVE SuccessHasConfig'
  BY <1>14 DEF Forget, JobGoto, db, hist
<1>15. ASSUME NEW j \in Jobs, ReadGeneration(j) PROVE SuccessHasConfig'
  BY <1>15 DEF ReadGeneration, JobGoto, db, hist
<1>16. ASSUME NEW j \in Jobs, StoreBackupSummary(j) PROVE SuccessHasConfig'
  BY <1>16 DEF StoreBackupSummary, JobGoto
<1>17. ASSUME NEW j \in Jobs, ForgetPolicy(j) PROVE SuccessHasConfig'
  BY <1>17 DEF ForgetPolicy, JobGoto, db, hist
<1>18. ASSUME NEW j \in Jobs, ReadStale(j) PROVE SuccessHasConfig'
  BY <1>18 DEF ReadStale, JobGoto, db, hist
<1>19. ASSUME NEW j \in Jobs, WriteStale(j) PROVE SuccessHasConfig'
  BY <1>19 DEF WriteStale, SetState, JobGoto, hist
<1>20. ASSUME NEW j \in Jobs, QueueCoreSync(j) PROVE SuccessHasConfig'
  BY <1>20 DEF QueueCoreSync, Queue, JobGoto, db, hist
<1>21. CASE UNCHANGED vars
  BY <1>21 DEF vars
<1>22. CASE ProgressBefore
  BY <1>22 DEF ProgressBefore, SetState, WritesRunning, Fails, Fault, jobs, hist
<1>23. CASE ProgressAfter
  BY <1>23 DEF ProgressAfter, SetState, WritesRunning, Fails, Fault, jobs, hist
<1>24. CASE MarkFailed
  BY <1>24 DEF MarkFailed, SetState, Fault, jobs, hist
<1>25. ASSUME NEW j \in Jobs, LoseSummary(j) PROVE SuccessHasConfig'
  BY <1>25 DEF LoseSummary, Fault, JobGoto, db, hist
<1>26. ASSUME NEW j \in Jobs, LoseMark(j) PROVE SuccessHasConfig'
  BY <1>26 DEF LoseMark, Fault, JobGoto, db, hist
<1> QED
  BY <1>1, <1>2, <1>3, <1>4, <1>5, <1>6, <1>7, <1>8, <1>9, <1>10, <1>11, <1>12,
     <1>13, <1>14, <1>15, <1>16, <1>17, <1>18, <1>19, <1>20, <1>21, <1>22,
     <1>23, <1>24, <1>25, <1>26
     DEF Next, LoadStep, JobStep

(* The conjunction is inductive. *)
LEMMA InvStep == IInv /\ [Next]_vars => IInv'
BY TypeStep, PairsStep, PlacesStep, UnsettledStep, ConfigStep, StoredStep, ListingStep,
   SuccessConfigStep
   DEF IInv

(* The inductive invariant holds. *)
THEOREM InductiveInvariant == Spec => []IInv
BY InitIInv, InvStep, PTL DEF Spec

(* Type correctness, for any number of snapshots, jobs, faults and requests. *)
THEOREM TypeCorrect == Spec => []TypeOK
<1>1. IInv => TypeOK
  BY DEF IInv
<1> QED BY <1>1, InductiveInvariant, PTL

(* An index that says success shows what its load was told and what backups  *)
(* have added since (runCoreSync, finalizeCoreGeneration).                  *)
THEOREM SuccessIsListing == Spec => []SuccessShowsListing
<1>1. IInv => SuccessShowsListing
  BY DEF IInv
<1> QED BY <1>1, InductiveInvariant, PTL

(* An index that says success has the config row of its generation           *)
(* (storeResticConfig, finalizeCoreGeneration).                             *)
THEOREM SuccessIsComplete == Spec => []SuccessHasConfig
<1>1. IInv => SuccessHasConfig
  BY DEF IInv
<1> QED BY <1>1, InductiveInvariant, PTL
-----------------------------------------------------------------------------
(* The variables of MetadataCache, as CoreSync has them. *)
Answers == IF load \in Answered THEN {listing} ELSE {}
Announced == {s \in Snaps : \E x \in summaries : x[1] = s}
Shown == IF row.st = "success" THEN Served ELSE {}

(* Steps that leave the page, or take its success away, keep the promise.    *)
LEMMA PageSteps ==
    ASSUME UNCHANGED <<remote, summaries>>, Answers' \subseteq Answers,
           UNCHANGED <<row, rows>> \/ row'.st # "success"
    PROVE  Cache!GiveUp
<1>1. Answers' \subseteq Answers /\ Announced' = Announced
  BY DEF Announced
<1>2. row'.st # "success" => Shown' = {}
  BY DEF Shown
<1>3. UNCHANGED <<row, rows>> => Shown' = Shown /\ (row'.st = "success") = (row.st = "success")
  BY DEF Shown, Served
<1> QED BY <1>1, <1>2, <1>3 DEF Cache!GiveUp, Answers, Answered, Announced, Shown

(* While a load works the page shows nothing, whatever happens to the rows.  *)
LEMMA HiddenSteps ==
    ASSUME UNCHANGED <<remote, row>>, row.st # "success",
           Answers' = Answers, Announced' \subseteq Announced
    PROVE  Cache!Settle
<1>1. Shown = {} /\ Shown' = {}
  BY DEF Shown
<1> QED BY <1>1 DEF Cache!Settle, Answers, Answered, Announced, Shown

(* Every step of the core domain is a step of MetadataCache or changes       *)
(* nothing a reader can tell.                                                *)
LEMMA CacheStep == IInv /\ [Next]_vars => [Cache!Next]_(Cache!vars)
<1> SUFFICES ASSUME IInv, [Next]_vars PROVE [Cache!Next]_(Cache!vars)
  OBVIOUS
<1>0. TypeOK /\ Pairs /\ Places /\ Unsettled /\ Stored /\ TypeOK'
  BY TypeStep DEF IInv
<1>1. Cache!GiveUp \/ Cache!Settle \/ Cache!Answer \/ Cache!Publish \/ Cache!Change
        \/ (\E x \in Snaps : Cache!Announce(x)) => [Cache!Next]_(Cache!vars)
  BY DEF Cache!Next
<1>2. CASE UserSync \/ Plan
  BY <1>1, <1>2, PageSteps DEF UserSync, Plan, Queue, db, hist, Answers, Answered
<1>3. CASE NextGeneration \/ MarkRunning \/ CatConfig \/ StoreConfig \/ ProgressBefore \/ MarkFailed
  BY <1>1, <1>3, PageSteps
     DEF NextGeneration, MarkRunning, CatConfig, StoreConfig, ProgressBefore, MarkFailed,
         SetState, WritesRunning, Fails, db, hist, Answers, Answered
<1>4. CASE ListSnapshots
  <2>1. CASE listing' = remote /\ load' = "listed" /\ UNCHANGED row
    <3>1. UNCHANGED <<remote, summaries>> /\ row.st # "success" /\ row'.st # "success"
      BY <1>0, <1>4, <2>1 DEF ListSnapshots, hist, Unsettled, Working
    <3>2. Answers = {} /\ Answers' = {remote} /\ Shown = {} /\ Shown' = {} /\ Announced' = Announced
      BY <1>4, <2>1, <3>1 DEF ListSnapshots, Answers, Answered, Shown, Announced
    <3>3. Cache!Answer
      BY <3>1, <3>2 DEF Cache!Answer, Answers, Answered, Shown, Announced
    <3> QED BY <3>3, <1>1
  <2>2. CASE load' = "failed"
    BY <1>1, <1>4, <2>2, PageSteps DEF ListSnapshots, SetState, hist, Answers, Answered
  <2> QED BY <1>4, <2>1, <2>2 DEF ListSnapshots
<1>5. CASE ReplaceSnapshots
  <2>1. CASE load' = "finalize" /\ UNCHANGED row
    <3>1. UNCHANGED <<remote, row, summaries>> /\ row.st # "success" /\ Answers' = Answers
      BY <1>0, <1>5, <2>1 DEF ReplaceSnapshots, hist, Unsettled, Working, Answers, Answered
    <3> QED BY <3>1, <1>1, HiddenSteps DEF Announced
  <2>2. CASE Fails
    BY <1>1, <1>5, <2>2, PageSteps DEF ReplaceSnapshots, Fails, hist, Answers, Answered
  <2> QED BY <1>5, <2>1, <2>2 DEF ReplaceSnapshots
<1>6. CASE FinalizeCoreGeneration
  <2>1. CASE load' = "publish" /\ UNCHANGED row /\ summaries' \subseteq summaries
    <3>1. UNCHANGED <<remote, row>> /\ row.st # "success" /\ Answers' = Answers
      BY <1>0, <1>6, <2>1 DEF FinalizeCoreGeneration, Unsettled, Working, Answers, Answered
    <3>2. Announced' \subseteq Announced
      BY <2>1 DEF Announced
    <3> QED BY <3>1, <3>2, <1>1, HiddenSteps
  <2>2. CASE Fails /\ UNCHANGED <<summaries, rows>>
    BY <1>1, <1>6, <2>2, PageSteps DEF FinalizeCoreGeneration, Fails, Answers, Answered
  <2> QED BY <1>6, <2>1, <2>2 DEF FinalizeCoreGeneration
<1>7. CASE Publish
  <2>1. CASE SetState("success", g)
    <3>1. /\ UNCHANGED <<remote, summaries, rows>>
          /\ row'.st = "success" /\ row'.gen = g /\ load = "publish" /\ load' = "exit"
      BY <1>0, <1>7, <2>1 DEF Publish, SetState, Places, Working
    <3>2. Answers = {listing} /\ Answers' = {} /\ Announced' = Announced
      BY <3>1 DEF Answers, Answered, Announced
    <3>3. Shown' = {s \in Snaps : <<s, g>> \in rows}
      BY <3>1 DEF Shown, Served
    <3>4. listing \subseteq Shown' /\ Shown' \ listing \subseteq Announced
      BY <1>0, <3>1, <3>3 DEF TypeOK, Stored, Announced
    <3>5. Shown' = listing \cup (Shown' \ listing)
      BY <3>4
    <3>6. Cache!Publish
      BY <3>1, <3>2, <3>4, <3>5 DEF Cache!Publish, Answers, Answered, Announced, Shown
    <3> QED BY <3>6, <1>1
  <2>2. CASE UNCHANGED row
    BY <1>1, <1>7, <2>2, PageSteps DEF Publish, Answers, Answered
  <2> QED BY <1>7, <2>1, <2>2 DEF Publish
<1>8. CASE FinishLoad \/ Restart
  BY <1>1, <1>8, PageSteps DEF FinishLoad, Restart, db, hist, Answers, Answered
<1>9. ASSUME NEW j \in Jobs, Backup(j) \/ Forget(j) \/ ForgetPolicy(j)
      PROVE  [Cache!Next]_(Cache!vars)
  <2>1. UNCHANGED <<row, rows, load, listing, summaries>> /\ remote' \subseteq Snaps
    BY <1>0, <1>9 DEF Backup, Forget, ForgetPolicy, db, hist, TypeOK
  <2>2. Answers' = Answers /\ Announced' = Announced /\ Shown' = Shown
    BY <2>1 DEF Answers, Announced, Shown, Served
  <2>3. Cache!Change
    BY <2>1, <2>2 DEF Cache!Change, Answers, Answered, Announced, Shown
  <2> QED BY <2>3, <1>1
<1>10. ASSUME NEW j \in Jobs, ReadGeneration(j) \/ LoseSummary(j) \/ ReadStale(j) \/ WriteStale(j)
                                \/ LoseMark(j) \/ QueueCoreSync(j)
       PROVE  [Cache!Next]_(Cache!vars)
  BY <1>1, <1>10, PageSteps
     DEF ReadGeneration, LoseSummary, ReadStale, WriteStale, LoseMark, QueueCoreSync, Queue,
         SetState, db, hist, Answers, Answered
<1>11. ASSUME NEW j \in Jobs, StoreBackupSummary(j) PROVE [Cache!Next]_(Cache!vars)
  <2>1. PICK s \in Snaps : s = snap[j]
    BY <1>0, <1>11 DEF StoreBackupSummary, Places, TypeOK
  <2>2. /\ UNCHANGED <<row, load, listing, remote>>
        /\ rows' = rows \cup {<<s, seen[j]>>}
        /\ summaries' = summaries \cup {<<s, seen[j]>>}
    BY <2>1, <1>11 DEF StoreBackupSummary
  <2>3. Answers' = Answers
    BY <2>2 DEF Answers
  <2>4. Announced' = Announced \cup {s}
    <3>1. \A k \in Snaps : (\E x \in summaries' : x[1] = k) <=> k = s \/ \E x \in summaries : x[1] = k
      <4>1. \A x : x \in summaries' <=> x \in summaries \/ x = <<s, seen[j]>>
        BY <2>2
      <4>2. <<s, seen[j]>>[1] = s
        OBVIOUS
      <4> QED BY <4>1, <4>2, Zenon
    <3> QED BY <3>1 DEF Announced
  <2>5. Shown' \in {Shown, Shown \cup {s}} /\ (Shown' # Shown => row.st = "success")
    <3>1. row.st # "success" => Shown' = {} /\ Shown = {}
      BY <2>2 DEF Shown
    <3>2. row.st = "success" => Shown' = Served' /\ Shown = Served
      BY <2>2 DEF Shown
    <3>3. seen[j] = row.gen => Served' = Served \cup {s}
      BY <2>2 DEF Served
    <3>4. seen[j] # row.gen => Served' = Served
      BY <2>2 DEF Served
    <3> QED BY <3>1, <3>2, <3>3, <3>4
  <2>6. Cache!Announce(s)
    BY <2>2, <2>3, <2>4, <2>5 DEF Cache!Announce, Answers, Answered, Announced, Shown
  <2> QED BY <2>6, <1>1
<1>12. CASE UNCHANGED vars
  BY <1>1, <1>12, PageSteps DEF vars, Answers
<1>13. CASE ProgressAfter
  <2>1. UNCHANGED <<remote, rows, summaries>> /\ Answers' = Answers /\ row.st # "success"
    BY <1>0, <1>13 DEF ProgressAfter, WritesRunning, hist, Answers, Answered, Unsettled, Working
  <2>2. UNCHANGED row \/ row'.st # "success"
    BY <1>13 DEF ProgressAfter, WritesRunning, SetState
  <2> QED BY <2>1, <2>2, <1>1, PageSteps
<1> QED
  BY <1>2, <1>3, <1>4, <1>5, <1>6, <1>7, <1>8, <1>9, <1>10, <1>11, <1>12, <1>13
     DEF Next, LoadStep, JobStep

(* The core domain keeps what MetadataCache promises its readers, whatever   *)
(* loads, backups, forgets, the planner and restarts do.                     *)
THEOREM CorePagesKeepPromise == Spec => ImplementsCache
<1>1. Init => Cache!Init
  BY DEF Init, Cache!Init, Served
<1> QED BY <1>1, CacheStep, InductiveInvariant, PTL DEF Spec, ImplementsCache, Cache!Spec

-----------------------------------------------------------------------------
(* Where a job is that has still to mark the index. *)
Marking == {"summary", "upsert", "policy", "readStale", "writeStale"}
UnderWay == \E j \in Jobs : job[j] \in Marking

(* A mark found by a load that has its listing stays: neither the progress   *)
(* after the listing (ProgressAfter) nor the success (Publish) is written    *)
(* over it.                                                                  *)
MarksHold == load \in {"listed", "publish"} /\ row.st = "stale" => row'.st \notin {"running", "success"}

(* A job that has still to mark the index goes on to a row that is marked:   *)
(* no restart ends it before (Restart), and no read or write of its mark     *)
(* fails (LoseMark).                                                         *)
MarksArrive == \A j \in Jobs : job[j] \in Marking /\ job'[j] \notin Marking => row'.st = "stale"

(* What an index that says success, or a load about to say so, does not know *)
(* is still to be marked.                                                    *)
Known ==
    /\ row.st = "success" /\ ~ UnderWay => remote \subseteq Served
    /\ (load \in Answered /\ row.st # "stale" /\ ~ UnderWay) => remote \subseteq listing

LEMMA KnownStep ==
    IInv /\ Known /\ [Next]_vars /\ [MarksHold /\ MarksArrive]_vars => Known'
<1> SUFFICES ASSUME IInv, Known, [Next]_vars, [MarksHold /\ MarksArrive]_vars PROVE Known'
  OBVIOUS
<1>0. TypeOK /\ Places /\ Unsettled /\ Stored
  BY DEF IInv
<1>1. ASSUME UNCHANGED <<remote, row, rows, job, listing>>, load' \in Answered => load \in Answered
      PROVE  Known'
  BY <1>1 DEF Known, UnderWay, Served
<1>2. ASSUME row'.st # "success", load' \in Answered => row'.st = "stale"
      PROVE  Known'
  BY <1>2 DEF Known
<1>3. CASE UserSync \/ Plan \/ NextGeneration \/ FinishLoad
  <2>1. CASE UserSync \/ Plan \/ NextGeneration
    BY <1>1, <2>1 DEF UserSync, Plan, Queue, NextGeneration, Answered, db, jobs
  <2>2. CASE FinishLoad
    BY <2>2 DEF FinishLoad, Known, UnderWay, Served, Answered, db, jobs
  <2> QED BY <1>3, <2>1, <2>2
<1>4. CASE MarkRunning \/ CatConfig \/ StoreConfig \/ ProgressBefore \/ MarkFailed
  <2>1. /\ UNCHANGED <<remote, rows, job, listing>> /\ load' \notin Answered
        /\ UNCHANGED row \/ row'.st # "success"
    BY <1>4 DEF MarkRunning, CatConfig, StoreConfig, ProgressBefore, MarkFailed, SetState,
                WritesRunning, Fails, Answered, jobs
  <2> QED BY <1>1, <1>2, <2>1
<1>5. CASE ListSnapshots
  <2>1. CASE listing' = remote /\ UNCHANGED <<remote, row>>
    BY <1>0, <1>5, <2>1 DEF ListSnapshots, Known, Unsettled, Working
  <2>2. CASE load' = "failed" /\ UNCHANGED <<remote, rows, job, listing>>
                              /\ (UNCHANGED row \/ row'.st # "success")
    BY <1>1, <1>2, <2>2 DEF Answered
  <2> QED BY <1>5, <2>1, <2>2 DEF ListSnapshots, SetState, jobs
<1>6. CASE ProgressAfter
  <2>1. /\ load = "listed" /\ load' = "replace" /\ UNCHANGED <<remote, rows, job, listing>>
        /\ vars' # vars
    BY <1>6 DEF ProgressAfter, WritesRunning, jobs, vars
  <2>2. CASE UNCHANGED row
    BY <1>1, <2>1, <2>2 DEF Answered
  <2>3. CASE row'.st = "running"
    <3>1. row.st # "stale"
      BY <2>1, <2>3 DEF MarksHold
    <3> QED BY <2>1, <2>3, <3>1 DEF Known, UnderWay, Answered
  <2> QED BY <1>6, <2>2, <2>3 DEF ProgressAfter, WritesRunning, SetState
<1>7. CASE ReplaceSnapshots \/ FinalizeCoreGeneration
  <2>1. /\ UNCHANGED <<remote, row, job, listing>> /\ load \in Answered
        /\ row.st # "success"
    BY <1>0, <1>7 DEF ReplaceSnapshots, FinalizeCoreGeneration, Fails, Answered, Unsettled,
                      Working, jobs
  <2> QED BY <2>1 DEF Known, UnderWay
<1>8. CASE Publish
  <2>1. /\ load = "publish" /\ load' = "exit" /\ UNCHANGED <<remote, rows, job, listing>>
        /\ vars' # vars
    BY <1>8 DEF Publish, jobs, vars
  <2>2. CASE SetState("success", g)
    <3>1. row'.st = "success" /\ row'.gen = g
      BY <1>0, <2>1, <2>2 DEF SetState, Places, Working
    <3>2. row.st # "stale"
      BY <2>1, <3>1 DEF MarksHold
    <3>3. \A s \in listing : s \in Served'
      BY <1>0, <2>1, <3>1 DEF Stored, Served, TypeOK
    <3> QED BY <2>1, <3>1, <3>2, <3>3 DEF Known, UnderWay, Answered
  <2>3. CASE UNCHANGED row
    BY <1>1, <2>1, <2>3 DEF Answered
  <2> QED BY <1>8, <2>2, <2>3 DEF Publish
<1>9. CASE Restart
  <2>1. /\ UNCHANGED <<remote, row, rows>> /\ load' = "none" /\ vars' # vars
        /\ \A j \in Jobs : job'[j] = "idle"
    BY <1>0, <1>9 DEF Restart, Fault, db, vars, TypeOK
  <2>2. CASE UnderWay
    <3>1. row.st = "stale"
      BY <2>1, <2>2 DEF UnderWay, MarksArrive, Marking
    <3> QED BY <1>2, <2>1, <3>1 DEF Answered
  <2>3. CASE ~ UnderWay
    BY <2>1, <2>3 DEF Known, Served, Answered
  <2> QED BY <2>2, <2>3
<1>10. ASSUME NEW j \in Jobs, JobGoto(j, "summary") \/ JobGoto(j, "upsert") \/ JobGoto(j, "policy")
                                \/ JobGoto(j, "readStale") \/ JobGoto(j, "writeStale")
       PROVE  UnderWay'
  BY <1>0, <1>10 DEF TypeOK, JobGoto, UnderWay, Marking
<1>11. ASSUME NEW j \in Jobs,
              Backup(j) \/ Forget(j) \/ ReadGeneration(j) \/ StoreBackupSummary(j)
                \/ LoseSummary(j) \/ ForgetPolicy(j) \/ ReadStale(j)
       PROVE  Known'
  <2>1. UnderWay'
    BY <1>10, <1>11 DEF Backup, Forget, ReadGeneration, StoreBackupSummary, LoseSummary,
                        ForgetPolicy, ReadStale
  <2> QED BY <2>1 DEF Known
<1>12. ASSUME NEW j \in Jobs, WriteStale(j) PROVE Known'
  BY <1>2, <1>12 DEF WriteStale, SetState
<1>13. ASSUME NEW j \in Jobs, LoseMark(j) PROVE Known'
  <2>1. job[j] \in Marking /\ job'[j] = "queue" /\ vars' # vars
    BY <1>0, <1>13 DEF LoseMark, JobGoto, Marking, TypeOK, vars
  <2>2. row'.st = "stale"
    BY <2>1 DEF MarksArrive, Marking
  <2> QED BY <1>2, <2>2
<1>14. ASSUME NEW j \in Jobs, QueueCoreSync(j) PROVE Known'
  <2>1. /\ UNCHANGED <<remote, row, rows, listing>> /\ job[j] = "queue"
        /\ load' \in Answered => load \in Answered
        /\ \A k \in Jobs \ {j} : job'[k] = job[k]
    BY <1>0, <1>14 DEF QueueCoreSync, Queue, JobGoto, db, TypeOK, Answered
  <2>2. ~ UnderWay' => ~ UnderWay
    BY <2>1 DEF UnderWay, Marking
  <2> QED BY <2>1, <2>2 DEF Known, Served
<1>15. CASE UNCHANGED vars
  BY <1>15, <1>1 DEF vars
<1> QED
  BY <1>3, <1>4, <1>5, <1>6, <1>7, <1>8, <1>9, <1>11, <1>12, <1>13, <1>14, <1>15
     DEF Next, LoadStep, JobStep

(* At rest, an index that says success shows every snapshot, if no load that *)
(* has its listing writes over a mark (by its progress or by its success)    *)
(* and the mark of every finished command is written (no restart comes       *)
(* before it, and neither of its statements fails).  A summary, a listing or *)
(* a state write of a load that is lost is no further cause.                 *)
THEOREM MarkedBackupsAppear ==
    Spec /\ [][MarksHold /\ MarksArrive]_vars => []BackupAppears
<1>1. Init => Known
  BY DEF Init, Known, Answered
<1>2. ASSUME Known PROVE BackupAppears
  BY <1>2 DEF Known, BackupAppears, UnderWay, Marking
<1> QED BY <1>1, <1>2, KnownStep, InductiveInvariant, PTL DEF Spec

-----------------------------------------------------------------------------
(* The next load will meet the config row that a failed one has left behind, *)
(* and no mark is under way that would change the generation of the row.     *)
Colliding ==
    /\ row.st # "success" /\ row.gen + 1 \in config
    /\ load \in {"none", "start", "mark", "config", "store", "failed", "exit"}
    /\ load \in {"mark", "config", "store"} => g = row.gen + 1
    /\ \A j \in Jobs : job[j] = "writeStale" => seen[j] \in {0, row.gen}

(* Neither the planner, nor the user, nor a job, nor a restart gets past it. *)
LEMMA CollidingStep == TypeOK /\ Colliding /\ [Next]_vars => Colliding'
<1> SUFFICES ASSUME TypeOK, Colliding, [Next]_vars PROVE Colliding'
  OBVIOUS
<1> USE DEF Colliding
<1>1. CASE UserSync \/ Plan \/ FinishLoad
  BY <1>1 DEF UserSync, Plan, FinishLoad, Queue, db, jobs
<1>2. CASE NextGeneration
  BY <1>2 DEF NextGeneration, db, jobs
<1>3. CASE MarkRunning
  BY <1>3 DEF MarkRunning, SetState, WritesRunning, jobs
<1>4. CASE CatConfig
  BY <1>4 DEF CatConfig, SetState, WritesRunning, jobs
<1>5. CASE StoreConfig
  BY <1>5 DEF StoreConfig, Fails, jobs
<1>6. CASE \/ ProgressBefore \/ ListSnapshots \/ ProgressAfter
           \/ ReplaceSnapshots \/ FinalizeCoreGeneration \/ Publish
  BY <1>6 DEF ProgressBefore, ListSnapshots, ProgressAfter, ReplaceSnapshots,
              FinalizeCoreGeneration, Publish
<1>7. CASE Restart
  BY <1>7 DEF Restart, db, TypeOK
<1>8. ASSUME NEW j \in Jobs, Backup(j) \/ Forget(j) \/ ReadGeneration(j) \/ StoreBackupSummary(j)
                               \/ ForgetPolicy(j) \/ QueueCoreSync(j)
      PROVE  Colliding'
  <2>1. /\ UNCHANGED <<row, config, g>> /\ (load' = load \/ load' = "start")
        /\ load = "none" \/ load' = load
        /\ job[j] # "writeStale" /\ job'[j] # "writeStale"
        /\ \A k \in Jobs \ {j} : job'[k] = job[k] /\ seen'[k] = seen[k]
    BY <1>8 DEF Backup, Forget, ReadGeneration, StoreBackupSummary, ForgetPolicy, QueueCoreSync,
                Queue, JobGoto, db, TypeOK
  <2> QED BY <2>1
<1>9. ASSUME NEW j \in Jobs, ReadStale(j) PROVE Colliding'
  BY <1>9 DEF ReadStale, JobGoto, db, TypeOK
<1>10. ASSUME NEW j \in Jobs, WriteStale(j) PROVE Colliding'
  BY <1>10 DEF WriteStale, SetState, JobGoto, TypeOK
<1>11. CASE UNCHANGED vars
  BY <1>11 DEF vars
<1>12. CASE MarkFailed
  BY <1>12 DEF MarkFailed, SetState, jobs
<1>13. ASSUME NEW j \in Jobs, LoseSummary(j) \/ LoseMark(j) PROVE Colliding'
  <2>1. /\ UNCHANGED <<row, config, g, load>> /\ job'[j] # "writeStale"
        /\ \A k \in Jobs \ {j} : job'[k] = job[k] /\ seen'[k] = seen[k]
    BY <1>13 DEF LoseSummary, LoseMark, JobGoto, db, TypeOK
  <2> QED BY <2>1
<1> QED
  BY <1>1, <1>2, <1>3, <1>4, <1>5, <1>6, <1>7, <1>8, <1>9, <1>10, <1>11, <1>12, <1>13
     DEF Next, LoadStep, JobStep

(* Once a load has failed behind its config row and no mark changes the      *)
(* generation, the index is never a success again (storeResticConfig).       *)
THEOREM CollisionIsForever == Spec => [](Colliding => [](row.st # "success"))
<1>1. Colliding => row.st # "success"
  BY DEF Colliding
<1>2. IInv => TypeOK
  BY DEF IInv
<1> QED BY <1>1, <1>2, CollidingStep, InductiveInvariant, PTL DEF Spec
=============================================================================
