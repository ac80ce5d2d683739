--------------------- MODULE StageApplyRefinementProofs ---------------------
(***************************************************************************)
(* Two promises of the apply transaction that only hold on a condition,    *)
(* each with the condition under which it holds for every number of        *)
(* processes, runs, paths, crashes and errors: a failed merge is rolled    *)
(* back unless a stage swaps a file and a directory, and the transaction   *)
(* is atomic unless two runs half cover the same tree.                     *)
(***************************************************************************)
EXTENDS StageApplyRefinement, StageApplyProofs

USE DEF disk, store, locks, procs, env, At, Root

-----------------------------------------------------------------------------
(***************************************************************************)
(* The rollback.                                                           *)
(***************************************************************************)
\* No stage turns a file into a directory or a directory into a file.
NoSwap ==
    \A s \in Stages, f \in Paths :
        f \in Files(s.before) \union Files(s.after) =>
            Dir[f] \notin Files(s.before) \union Files(s.after)

FilesAreNotDirs == \A f \in Paths : ws[f] # Absent => f \notin dirs

\* The processes that will have to undo their merge if it fails.
Undoing(p) ==
    \/ pc[p] \in {"applying", "receipting"}
    \/ pc[p] \in {"unlinking", "rewriting"} /\ cause[p] = "rollback"

\* How far a restore is: nothing stands in the way of the files still to be
\* written, and everything else is as it was.
RollbackHeld(p) ==
    /\ pc[p] \in Merging => ~litter
    /\ (edits = 0 /\ Undoing(p)) => Files(Before(p)) \cap dirs = {}
    /\ (edits = 0 /\ pc[p] = "unlinking") =>
          \A f \in AddedOnly(p) \ todo[p] : ws[f] = Absent
    /\ pc[p] = "rewriting" => todo[p] \subseteq Files(Before(p))
    /\ (edits = 0 /\ pc[p] = "rewriting") =>
          \A f \in Paths \ todo[p] : ws[f] = Before(p)[f]

RollbackInv == FilesAreNotDirs /\ \A p \in Procs : RollbackHeld(p)

StageInv == TypeOK /\ LockInv /\ BackupInv /\ ContentInv

\* Writing a file makes no directory of another.
LEMMA WriteKeepsFiles ==
    ASSUME TypeOK, FilesAreNotDirs, NEW f \in Paths, CanWrite(f), MakeParent(f),
           NEW c \in Contents \union {Absent},
           ws' = ws \/ ws' = [ws EXCEPT ![f] = c]
    PROVE  FilesAreNotDirs'
<1>1. Dir[f] # f
    BY PathAssumption DEF PathAssumption, Paths
<1>2. SUFFICES ASSUME NEW g \in Paths, ws'[g] # Absent, g \in dirs' PROVE FALSE
    BY DEF FilesAreNotDirs
<1>3. ws[g] # Absent \/ g = f
    BY <1>2 DEF TypeOK, Snapshots
<1>4. g \notin dirs
    BY <1>3 DEF FilesAreNotDirs, CanWrite
<1>5. g = Dir[f] /\ Dir[f] # Root
    BY <1>2, <1>4 DEF MakeParent
<1>6. ws[g] = Absent
    BY <1>5 DEF CanWrite
<1> QED BY <1>1, <1>3, <1>5, <1>6

\* What p writes to the workspace is a file of one of its two snapshots.
WritesFile(p) ==
    \E f \in Paths, c \in Contents \union {Absent} :
        /\ CanWrite(f) /\ MakeParent(f)
        /\ f \in Files(Before(p)) \union Files(After(p))
        /\ ws' = ws \/ ws' = [ws EXCEPT ![f] = c]

LEMMA FileWritten ==
    ASSUME NEW p \in Procs, NEW f \in Paths, NEW c \in Contents \union {Absent},
           CanWrite(f), MakeParent(f), f \in Files(Before(p)) \union Files(After(p)),
           ws' = ws \/ ws' = [ws EXCEPT ![f] = c]
    PROVE  WritesFile(p)
    BY DEF WritesFile

\* A step of p makes directories only while it writes a file.
Touches(p) ==
    \/ dirs' = dirs /\ \A f \in Paths : ws'[f] # Absent => ws[f] # Absent
    \/ pc[p] \in Merging /\ WritesFile(p)

LEMMA BackupIsBefore ==
    ASSUME TypeOK, BackupInv, NEW p \in Procs, pc[p] \in Merging
    PROVE  backup[run[p]] = Before(p) /\ inflight = run[p]
    BY DEF BackupInv, BackupHeld, HasBackup, BackupIsExact, Before

LEMMA CheckTouches ==
    ASSUME TypeOK, NEW p \in Procs, Check(p)
    PROVE  UNCHANGED disk
    BY DEF Check, AlreadyApplied, RefuseReceipt, RefuseDeletion, RefuseDrift, StartBackup,
           ReplaceBackup, ReuseBackup, Reseal, Recover

LEMMA BackupTouches ==
    ASSUME TypeOK, NEW p \in Procs, Backup(p)
    PROVE  UNCHANGED disk
    BY DEF Backup, RemoveBackupFile, RecreateBackup, CopyToBackup, BackupFails, BackupDone

LEMMA MergeTouches ==
    ASSUME TypeOK, NEW p \in Procs, Merge(p)
    PROVE  Touches(p) /\ UNCHANGED litter
<1> USE Evidence, PathSets DEF TypeOK, Snapshots, Touches
<1>1. CASE BeginMerge(p)
    BY <1>1 DEF BeginMerge
<1>2. CASE RefuseLateDrift(p)
    BY <1>2 DEF RefuseLateDrift
<1>3. CASE ApplyDelete(p)
    BY <1>3 DEF ApplyDelete
<1>4. CASE ApplyWrite(p)
  <2> PICK f \in Paths : /\ After(p)[f] # Absent /\ CanWrite(f) /\ MakeParent(f)
                         /\ ws' = [ws EXCEPT ![f] = After(p)[f]]
      BY <1>4 DEF ApplyWrite
  <2>1. WritesFile(p)
      BY FileWritten DEF Files
  <2> QED BY <1>4, <2>1 DEF ApplyWrite, Merging
<1>5. CASE ApplyRefused(p)
    BY <1>5 DEF ApplyRefused
<1>6. CASE MergeVerified(p)
    BY <1>6 DEF MergeVerified
<1>7. CASE MergeMismatch(p)
    BY <1>7 DEF MergeMismatch
<1>8. CASE WriteReceipt(p)
    BY <1>8 DEF WriteReceipt
<1> QED BY <1>1, <1>2, <1>3, <1>4, <1>5, <1>6, <1>7, <1>8 DEF Merge

LEMMA RestoreSnapshotTouches ==
    ASSUME TypeOK, BackupInv, NEW p \in Procs, RestoreSnapshot(p)
    PROVE  Touches(p) /\ UNCHANGED litter
<1> USE Evidence, PathSets DEF TypeOK, Snapshots, Touches
<1>1. CASE UnlinkAdded(p)
    BY <1>1 DEF UnlinkAdded
<1>2. CASE UnlinkedAll(p)
    BY <1>2 DEF UnlinkedAll
<1>3. CASE RewriteFile(p)
  <2> PICK f \in Paths : /\ backup[run[p]][f] # Absent /\ CanWrite(f) /\ MakeParent(f)
                         /\ ws' = [ws EXCEPT ![f] = backup[run[p]][f]]
      BY <1>3 DEF RewriteFile
  <2>1. backup[run[p]] = Before(p)
      BY <1>3, BackupIsBefore DEF RewriteFile, Merging
  <2>2. WritesFile(p)
      BY <2>1, FileWritten DEF Files
  <2> QED BY <1>3, <2>2 DEF RewriteFile, Merging
<1>4. CASE RewriteRefused(p)
    BY <1>4 DEF RewriteRefused
<1>5. CASE RolledBack(p)
    BY <1>5 DEF RolledBack
<1>6. CASE Recovered(p)
    BY <1>6 DEF Recovered
<1>7. CASE NotRestored(p)
    BY <1>7 DEF NotRestored
<1> QED BY <1>1, <1>2, <1>3, <1>4, <1>5, <1>6, <1>7 DEF RestoreSnapshot

LEMMA FaultTouches ==
    ASSUME TypeOK, BackupInv, NEW p \in Procs, RollbackHeld(p), Fault(p)
    PROVE  Touches(p) /\ (litter' = litter \/ pc'[p] = "idle")
<1> USE Evidence, PathSets DEF TypeOK, Snapshots, Touches
<1>1. CASE ErrorBeforeMerge(p)
    BY <1>1 DEF ErrorBeforeMerge
<1>2. CASE ErrorInMerge(p)
  <2>1. CASE UNCHANGED <<ws, dirs>>
      BY <1>2, <2>1 DEF ErrorInMerge
  <2>2. CASE \E f \in First(todo[p]) : After(p)[f] # Absent /\ Installed(f, After(p)[f])
    <3> PICK f \in Paths : /\ After(p)[f] # Absent /\ CanWrite(f) /\ MakeParent(f)
                           /\ ws' = ws \/ ws' = [ws EXCEPT ![f] = After(p)[f]]
        BY <2>2 DEF Installed
    <3>1. After(p)[f] \in Contents \union {Absent} /\ f \in Files(After(p))
        BY DEF Files
    <3>2. WritesFile(p)
        BY <3>1, FileWritten
    <3> QED BY <1>2, <3>2 DEF ErrorInMerge, Merging
  <2> QED BY <1>2, <2>1, <2>2 DEF ErrorInMerge
<1>3. CASE ErrorInReceipt(p)
    BY <1>3 DEF ErrorInReceipt
<1>4. CASE ErrorInRestore(p)
  <2>1. CASE UNCHANGED <<ws, dirs>>
      BY <1>4, <2>1 DEF ErrorInRestore
  <2>2. CASE At(p, "rewriting") /\ \E f \in First(todo[p]) : Installed(f, backup[run[p]][f])
    <3> PICK f \in First(todo[p]) : /\ CanWrite(f) /\ MakeParent(f)
                                    /\ ws' = ws \/ ws' = [ws EXCEPT ![f] = backup[run[p]][f]]
        BY <2>2 DEF Installed
    <3>1. backup[run[p]] = Before(p)
        BY <2>2, BackupIsBefore DEF Merging
    <3>2. f \in Paths /\ f \in Files(Before(p)) /\ Before(p)[f] \in Contents \union {Absent}
        BY <2>2 DEF First, RollbackHeld
    <3>3. WritesFile(p)
        BY <3>1, <3>2, FileWritten
    <3> QED BY <1>4, <2>2, <3>3 DEF ErrorInRestore, Merging
  <2> QED BY <1>4, <2>1, <2>2 DEF ErrorInRestore
<1>5. CASE Crash(p)
    BY <1>5 DEF Crash, Killed
<1>6. CASE CrashInBackupCopy(p)
    BY <1>6 DEF CrashInBackupCopy, Killed
<1>7. CASE CrashInWrite(p)
  <2> PICK f \in Paths, c \in Contents :
          /\ Writing(p, f, c) /\ Killed(p) /\ MakeParent(f)
          /\ ws' = ws \/ ws' = [ws EXCEPT ![f] = c]
      BY <1>7 DEF CrashInWrite
  <2>1. pc[p] \in Merging /\ CanWrite(f) /\ f \in Files(Before(p)) \union Files(After(p))
      BY BackupIsBefore DEF Writing, Merging, Files
  <2>2. WritesFile(p)
      BY <2>1, FileWritten
  <2> QED BY <2>1, <2>2 DEF Killed
<1> QED BY <1>1, <1>2, <1>3, <1>4, <1>5, <1>6, <1>7 DEF Fault

\* A stage that swaps nothing makes no directory of a file to be restored.
LEMMA DirsKept ==
    ASSUME NoSwap, TypeOK, NEW p \in Procs, Touches(p), Files(Before(p)) \cap dirs = {}
    PROVE  Files(Before(p)) \cap dirs' = {}
<1>1. CASE dirs' = dirs
    BY <1>1
<1>2. CASE WritesFile(p)
  <2>1. PICK f \in Paths : MakeParent(f) /\ f \in Files(Before(p)) \union Files(After(p))
      BY <1>2 DEF WritesFile
  <2>2. Dir[f] \notin Files(Before(p))
      BY <2>1, Evidence DEF NoSwap, Before, After
  <2> QED BY <2>1, <2>2 DEF MakeParent
<1> QED BY <1>1, <1>2 DEF Touches

LEMMA CheckRollback ==
    ASSUME TypeOK, NEW p \in Procs, RollbackHeld(p), Check(p)
    PROVE  RollbackHeld(p)'
<1> USE DEF TypeOK, RollbackHeld, Undoing, Merging, Permitted, GoTo, Leave, Restore
<1>1. CASE AlreadyApplied(p)
    BY <1>1 DEF AlreadyApplied
<1>2. CASE RefuseReceipt(p)
    BY <1>2 DEF RefuseReceipt
<1>3. CASE RefuseDeletion(p)
    BY <1>3 DEF RefuseDeletion
<1>4. CASE RefuseDrift(p)
    BY <1>4 DEF RefuseDrift
<1>5. CASE StartBackup(p)
    BY <1>5 DEF StartBackup
<1>6. CASE ReplaceBackup(p)
    BY <1>6 DEF ReplaceBackup
<1>7. CASE ReuseBackup(p)
    BY <1>7 DEF ReuseBackup
<1>8. CASE Reseal(p)
    BY <1>8 DEF Reseal
<1>9. CASE Recover(p)
    BY <1>9 DEF Recover, MayRecover, IsInterrupted, AddedOnly, Before, After
<1> QED BY <1>1, <1>2, <1>3, <1>4, <1>5, <1>6, <1>7, <1>8, <1>9 DEF Check

LEMMA BackupRollback ==
    ASSUME TypeOK, NEW p \in Procs, RollbackHeld(p), Backup(p)
    PROVE  RollbackHeld(p)'
<1> USE DEF TypeOK, RollbackHeld, Undoing, Merging, GoTo, Done, Leave
<1>1. CASE RemoveBackupFile(p)
    BY <1>1 DEF RemoveBackupFile
<1>2. CASE RecreateBackup(p)
    BY <1>2 DEF RecreateBackup
<1>3. CASE CopyToBackup(p)
    BY <1>3 DEF CopyToBackup
<1>4. CASE BackupFails(p)
    BY <1>4 DEF BackupFails
<1>5. CASE BackupDone(p)
    BY <1>5 DEF BackupDone
<1> QED BY <1>1, <1>2, <1>3, <1>4, <1>5 DEF Backup

LEMMA MergeRollback ==
    ASSUME NoSwap, TypeOK, FilesAreNotDirs, NEW p \in Procs, RollbackHeld(p), Merge(p)
    PROVE  RollbackHeld(p)'
<1>0. Touches(p)
    BY MergeTouches
<1> USE DEF TypeOK, RollbackHeld, Undoing, Merging, GoTo, Done, Leave, Restore
<1>1. CASE BeginMerge(p)
  <2>1. Files(Before(p)) \cap dirs = {}
      BY <1>1 DEF BeginMerge, Matches, FilesAreNotDirs, Files
  <2> QED BY <1>1, <2>1 DEF BeginMerge, Matches, Before
<1>2. CASE RefuseLateDrift(p)
    BY <1>2 DEF RefuseLateDrift
<1>3. CASE ApplyDelete(p)
    BY <1>3 DEF ApplyDelete, Before
<1>4. CASE ApplyWrite(p)
  <2>1. edits' = 0 => Files(Before(p)) \cap dirs' = {}
      BY <1>0, <1>4, DirsKept DEF ApplyWrite
  <2> QED BY <1>4, <2>1 DEF ApplyWrite, Before
<1>5. CASE ApplyRefused(p)
    BY <1>5 DEF ApplyRefused, Before, After, AddedOnly
<1>6. CASE MergeVerified(p)
    BY <1>6 DEF MergeVerified, Before
<1>7. CASE MergeMismatch(p)
    BY <1>7 DEF MergeMismatch, Before, After, AddedOnly
<1>8. CASE WriteReceipt(p)
    BY <1>8 DEF WriteReceipt
<1> QED BY <1>1, <1>2, <1>3, <1>4, <1>5, <1>6, <1>7, <1>8 DEF Merge

LEMMA RestoreSnapshotRollback ==
    ASSUME NoSwap, TypeOK, BackupInv, ContentInv, NEW p \in Procs, RollbackHeld(p),
           RestoreSnapshot(p)
    PROVE  RollbackHeld(p)'
<1>0. Touches(p)
    BY RestoreSnapshotTouches
<1> USE DEF TypeOK, RollbackHeld, Undoing, Merging, GoTo, Done, Leave
<1>1. CASE UnlinkAdded(p)
  <2>1. PICK f \in Last(todo[p]) : /\ ws' = [ws EXCEPT ![f] = Absent]
                                   /\ todo' = [todo EXCEPT ![p] = @ \ {f}]
      BY <1>1 DEF UnlinkAdded
  <2>2. edits = 0 => \A g \in AddedOnly(p) \ todo'[p] : ws'[g] = Absent
      BY <1>1, <2>1 DEF UnlinkAdded, Snapshots, AddedOnly
  <2> QED BY <1>1, <2>2 DEF UnlinkAdded, Before, After, AddedOnly
<1>2. CASE UnlinkedAll(p)
  <2>1. ASSUME edits = 0, NEW f \in Paths \ Files(Before(p))
        PROVE  ws[f] = Before(p)[f]
    <3>1. ws[f] \in {Before(p)[f], After(p)[f]}
        BY <1>2, <2>1, BackupIsBefore, Evidence
           DEF UnlinkedAll, ContentInv, InflightKnown, Before, After
    <3>2. f \in AddedOnly(p) => ws[f] = Absent
        BY <1>2, <2>1 DEF UnlinkedAll
    <3> QED BY <2>1, <3>1, <3>2 DEF Files, AddedOnly
  <2> QED BY <1>2, <2>1 DEF UnlinkedAll, Before
<1>3. CASE RewriteFile(p)
  <2>1. PICK f \in First(todo[p]) : /\ ws' = [ws EXCEPT ![f] = Before(p)[f]]
                                    /\ todo' = [todo EXCEPT ![p] = @ \ {f}]
      BY <1>3, BackupIsBefore DEF RewriteFile
  <2>2. edits = 0 => \A g \in Paths \ todo'[p] : ws'[g] = Before(p)[g]
      BY <1>3, <2>1 DEF RewriteFile, Snapshots
  <2>3. (edits = 0 /\ Undoing(p)) => Files(Before(p)) \cap dirs' = {}
      BY <1>0, DirsKept
  <2> QED BY <1>3, <2>1, <2>2, <2>3 DEF RewriteFile, Before
<1>4. CASE RewriteRefused(p)
    BY <1>4 DEF RewriteRefused
<1>5. CASE RolledBack(p)
    BY <1>5 DEF RolledBack
<1>6. CASE Recovered(p)
    BY <1>6 DEF Recovered
<1>7. CASE NotRestored(p)
    BY <1>7 DEF NotRestored
<1> QED BY <1>1, <1>2, <1>3, <1>4, <1>5, <1>6, <1>7 DEF RestoreSnapshot

LEMMA FaultRollback ==
    ASSUME NoSwap, TypeOK, BackupInv, NEW p \in Procs, RollbackHeld(p), Fault(p)
    PROVE  RollbackHeld(p)'
<1>0. Touches(p)
    BY FaultTouches
<1> USE DEF TypeOK, RollbackHeld, Undoing, Merging, CanError, Killed, Leave, Restore
<1>1. CASE ErrorBeforeMerge(p)
    BY <1>1 DEF ErrorBeforeMerge
<1>2. CASE ErrorInMerge(p)
  <2>1. edits' = 0 => Files(Before(p)) \cap dirs' = {}
      BY <1>0, <1>2, DirsKept DEF ErrorInMerge
  <2> QED BY <1>2, <2>1 DEF ErrorInMerge, Before, After, AddedOnly
<1>3. CASE ErrorInReceipt(p)
    BY <1>3 DEF ErrorInReceipt, Before, After, AddedOnly
<1>4. CASE ErrorInRestore(p)
    BY <1>4 DEF ErrorInRestore
<1>5. CASE Crash(p)
    BY <1>5 DEF Crash
<1>6. CASE CrashInBackupCopy(p)
    BY <1>6 DEF CrashInBackupCopy
<1>7. CASE CrashInWrite(p)
    BY <1>7 DEF CrashInWrite
<1> QED BY <1>1, <1>2, <1>3, <1>4, <1>5, <1>6, <1>7 DEF Fault

\* The step of a process whose place is outside the critical section is a kill.
LEMMA OutsideFault ==
    ASSUME NEW p \in Procs, pc[p] \notin Critical, Fault(p)
    PROVE  Crash(p)
    BY DEF Fault, ErrorBeforeMerge, ErrorInMerge, ErrorInReceipt, ErrorInRestore,
           CrashInBackupCopy, CrashInWrite, Writing, Critical

LEMMA TouchKeepsFiles ==
    ASSUME TypeOK, FilesAreNotDirs, NEW p \in Procs, Touches(p)
    PROVE  FilesAreNotDirs'
    BY WriteKeepsFiles DEF Touches, WritesFile, FilesAreNotDirs

\* Outside the critical section nothing is held.
LEMMA NotHeldOutside ==
    ASSUME NEW p \in Procs, pc[p] \notin Critical
    PROVE  RollbackHeld(p)
    BY DEF RollbackHeld, Undoing, Merging, Critical

LEMMA StepTouches ==
    ASSUME TypeOK, BackupInv, NEW p \in Procs, RollbackHeld(p), Step(p) \/ Fault(p)
    PROVE  Touches(p)
    BY CheckTouches, BackupTouches, MergeTouches, RestoreSnapshotTouches, FaultTouches
       DEF Step, Touches

LEMMA StepRollback ==
    ASSUME NoSwap, StageInv, RollbackInv, NEW p \in Procs, Step(p) \/ Fault(p)
    PROVE  RollbackInv'
<1> USE DEF StageInv, RollbackInv
<1>1. FilesAreNotDirs'
    BY StepTouches, TouchKeepsFiles
<1>2. RollbackHeld(p)'
    BY CheckRollback, BackupRollback, MergeRollback, RestoreSnapshotRollback, FaultRollback DEF Step
<1>3. pc[p] # "idle" /\ Advances(p)
    BY StepAdvances, FaultAdvances DEF Critical
<1>4. ASSUME NEW q \in Procs, q # p
      PROVE  RollbackHeld(q)'
  <2>1. CASE pc[p] \in Critical
    <3>1. pc'[q] \notin Critical
        BY <1>3, <1>4, <2>1, OthersAreOutside
    <3> QED BY <3>1 DEF RollbackHeld, Undoing, Merging, Critical
  <2>2. CASE pc[p] \notin Critical
    <3>1. Crash(p)
        BY <2>2, OutsideFault, StepAdvances
    <3> QED BY <3>1, <1>4 DEF Crash, Killed, RollbackHeld, Undoing, TypeOK, Before, After, AddedOnly
  <2> QED BY <2>1, <2>2
<1> QED BY <1>1, <1>2, <1>4

LEMMA RollbackInit == Init => RollbackInv
<1> SUFFICES ASSUME Init PROVE RollbackInv
    OBVIOUS
<1>1. PICK s \in Stages : ws = s.before /\ dirs = DirsOf(s.before)
    BY DEF Init
<1>2. FilesAreNotDirs
  <2>1. Tree(s.before)
      BY DataAssumption DEF DataAssumption
  <2> QED BY <1>1, <2>1 DEF FilesAreNotDirs, DirsOf, Files, Tree
<1>3. \A p \in Procs : pc[p] \notin Critical
    BY DEF Init, Critical
<1> QED BY <1>2, <1>3, NotHeldOutside DEF RollbackInv

LEMMA RollbackNext ==
    ASSUME NoSwap
    PROVE  StageInv /\ RollbackInv /\ [Next]_vars => RollbackInv'
<1> SUFFICES ASSUME StageInv, RollbackInv, [Next]_vars PROVE RollbackInv'
    OBVIOUS
<1> USE DEF RollbackInv
<1>1. ASSUME NEW p \in Procs, NEW r \in Runs, TakeRunLock(p, r)
      PROVE  RollbackInv'
  <2>1. FilesAreNotDirs'
      BY <1>1 DEF TakeRunLock, FilesAreNotDirs
  <2>2. ASSUME NEW q \in Procs
        PROVE  RollbackHeld(q)'
    <3>1. CASE q = p
        BY <1>1, <3>1 DEF TakeRunLock, StageInv, TypeOK, RollbackHeld, Undoing, Merging
    <3>2. CASE q # p
        BY <1>1, <3>2 DEF TakeRunLock, StageInv, TypeOK, RollbackHeld, Undoing, Before, After, AddedOnly
    <3> QED BY <3>1, <3>2
  <2> QED BY <2>1, <2>2
<1>2. ASSUME NEW p \in Procs, TakeWorkspaceLock(p)
      PROVE  RollbackInv'
  <2>1. FilesAreNotDirs'
      BY <1>2 DEF TakeWorkspaceLock, FilesAreNotDirs
  <2>2. ASSUME NEW q \in Procs
        PROVE  RollbackHeld(q)'
    <3>1. CASE q = p
        BY <1>2, <3>1 DEF TakeWorkspaceLock, StageInv, TypeOK, RollbackHeld, Undoing, Merging
    <3>2. CASE q # p
        BY <1>2, <3>2 DEF TakeWorkspaceLock, StageInv, TypeOK, RollbackHeld, Undoing, Before, After,
                          AddedOnly
    <3> QED BY <3>1, <3>2
  <2> QED BY <2>1, <2>2
<1>3. ASSUME NEW p \in Procs, Step(p) \/ Fault(p)
      PROVE  RollbackInv'
    BY <1>3, StepRollback
<1>4. ASSUME NEW f \in Paths, NEW c \in Contents \union {Absent}, Edit(f, c)
      PROVE  RollbackInv'
  <2>1. edits' # 0
      BY <1>4 DEF Edit, StageInv, TypeOK
  <2>2. FilesAreNotDirs'
    <3>1. Dir[f] # f
        BY PathAssumption DEF PathAssumption, Paths
    <3> QED BY <1>4, <3>1 DEF Edit, FilesAreNotDirs, StageInv, TypeOK, Snapshots
  <2>3. ASSUME NEW q \in Procs
        PROVE  RollbackHeld(q)'
      BY <1>4, <2>1 DEF Edit, RollbackHeld, Before
  <2> QED BY <2>2, <2>3
<1>5. CASE RemoveLitter
  <2>1. edits' # 0
      BY <1>5 DEF RemoveLitter, StageInv, TypeOK
  <2> QED BY <1>5, <2>1 DEF RemoveLitter, FilesAreNotDirs, RollbackHeld, Before
<1>6. CASE UNCHANGED vars
    BY <1>6 DEF vars, FilesAreNotDirs, RollbackHeld, Undoing, Before, After, AddedOnly
<1> QED BY <1>1, <1>2, <1>3, <1>4, <1>5, <1>6 DEF Next

\* The ends of a restore that leave the workspace between the two snapshots.
Fails(p) == outcome[p] # "unrestored" /\ outcome'[p] = "unrestored"

LEMMA StepFails ==
    ASSUME TypeOK, NEW p \in Procs, Step(p) \/ Fault(p), Fails(p)
    PROVE  RewriteRefused(p) \/ NotRestored(p) \/ errors' # errors
<1> USE DEF TypeOK, Fails, Permitted, GoTo, Done, Leave, Restore, CanError, Killed
<1>1. CASE Check(p)
    BY <1>1 DEF Check, AlreadyApplied, RefuseReceipt, RefuseDeletion, RefuseDrift, StartBackup,
                ReplaceBackup, ReuseBackup, Reseal, Recover
<1>2. CASE Backup(p)
    BY <1>2 DEF Backup, RemoveBackupFile, RecreateBackup, CopyToBackup, BackupFails, BackupDone
<1>3. CASE Merge(p)
    BY <1>3 DEF Merge, BeginMerge, RefuseLateDrift, ApplyDelete, ApplyWrite, ApplyRefused,
                MergeVerified, MergeMismatch, WriteReceipt
<1>4. CASE RestoreSnapshot(p)
    BY <1>4 DEF RestoreSnapshot, UnlinkAdded, UnlinkedAll, RewriteFile, RolledBack, Recovered
<1>5. CASE Fault(p)
    BY <1>5 DEF Fault, ErrorBeforeMerge, ErrorInMerge, ErrorInReceipt, ErrorInRestore, Crash,
                CrashInBackupCopy, CrashInWrite
<1> QED BY <1>1, <1>2, <1>3, <1>4, <1>5 DEF Step

\* Nothing refuses the files a rollback rewrites, and it ends where it began.
LEMMA RollbackSucceeds ==
    ASSUME NoSwap, StageInv, RollbackInv, edits = 0,
           NEW p \in Procs, pc[p] = "rewriting", cause[p] = "rollback"
    PROVE  ~RewriteRefused(p) /\ ~NotRestored(p)
<1>1. RollbackHeld(p) /\ Undoing(p) /\ pc[p] \in Merging
    BY DEF RollbackInv, Undoing, Merging
<1>2. backup[run[p]] = Before(p) /\ inflight = run[p]
    BY <1>1, BackupIsBefore DEF StageInv
<1>3. ASSUME NEW f \in First(todo[p])
      PROVE  Before(p)[f] # Absent /\ CanWrite(f)
  <2>1. f \in Paths /\ f \in Files(Before(p))
      BY <1>1, <1>3 DEF First, RollbackHeld, Files
  <2>2. f \notin dirs
      BY <1>1, <2>1 DEF RollbackHeld
  <2>3. ASSUME Dir[f] # Root
        PROVE  ws[Dir[f]] = Absent
    <3>1. Dir[f] \in Paths
        BY <2>1, <2>3, PathAssumption DEF PathAssumption, Paths
    <3>2. Before(p)[Dir[f]] = Absent /\ After(p)[Dir[f]] = Absent
        BY <2>1, <3>1, Evidence DEF NoSwap, Files, Before, After, StageInv
    <3>3. ws[Dir[f]] \in {Before(p)[Dir[f]], After(p)[Dir[f]]}
        BY <1>2, <3>1, Evidence DEF StageInv, ContentInv, InflightKnown, Before, After
    <3> QED BY <3>2, <3>3
  <2> QED BY <2>1, <2>2, <2>3 DEF CanWrite, Files
<1>4. todo[p] = {} => Matches(Before(p))
  <2>1. ws \in Snapshots /\ Before(p) \in Snapshots
      BY Evidence DEF StageInv, TypeOK
  <2> QED BY <1>1, <2>1 DEF RollbackHeld, Matches, Snapshots
<1> QED BY <1>2, <1>3, <1>4 DEF RewriteRefused, NotRestored

\* A merge that fails is rolled back, whatever made it fail and wherever it
\* stopped, unless a second error hits the rollback itself or somebody edits
\* meanwhile -- provided no stage turns a file into a directory or back.  The
\* run that expects a violation shows that without this the restore can fail
\* by itself (_restore_snapshot, staged.py).
THEOREM FailedMergesAreUndone ==
    ASSUME NoSwap
    PROVE  Spec => RollsBackOnFailure
<1> DEFINE Undone == \A p \in Procs :
              /\ outcome[p] # "unrestored" /\ outcome'[p] = "unrestored"
              /\ cause[p] = "rollback"
              => errors' # errors \/ edits > 0
<1>1. StageInv /\ RollbackInv /\ [Next]_vars => [Undone]_vars
  <2>0. StageInv => edits \in Nat
      BY BoundAssumption DEF StageInv, TypeOK, BoundAssumption
  <2> SUFFICES ASSUME StageInv, RollbackInv, Next, NEW p \in Procs, Fails(p),
                      cause[p] = "rollback", edits = 0
               PROVE  errors' # errors
      BY <2>0 DEF Fails
  <2>1. Step(p) \/ Fault(p)
    <3>1. ASSUME NEW q \in Procs, Step(q) \/ Fault(q)
          PROVE  q = p
        BY <3>1, StepAdvances, FaultAdvances DEF Advances, Fails, StageInv
    <3>2. ASSUME NEW q \in Procs, NEW r \in Runs, TakeRunLock(q, r)
          PROVE  FALSE
        BY <3>2 DEF TakeRunLock, StageInv, TypeOK, Fails
    <3> QED BY <3>1, <3>2 DEF Next, TakeWorkspaceLock, Edit, RemoveLitter, Fails
  <2>2. RewriteRefused(p) \/ NotRestored(p) \/ errors' # errors
      BY <2>1, StepFails DEF StageInv
  <2> QED BY <2>2, RollbackSucceeds DEF RewriteRefused, NotRestored
<1>2. Spec => []RollbackInv
  <2>1. StageInv /\ RollbackInv /\ [Next]_vars => RollbackInv'
      BY RollbackNext
  <2> QED BY <2>1, RollbackInit, Invariants, PTL DEF Spec, StageInv
<1>3. Spec => [][Undone]_vars
    BY <1>1, <1>2, Invariants, PTL DEF Spec, StageInv
<1> QED BY <1>3 DEF RollsBackOnFailure

-----------------------------------------------------------------------------
(***************************************************************************)
(* The refinement.  Each file of a torn workspace comes from one of the    *)
(* two snapshots of the run in flight, so the committed tree is always one *)
(* of them, and what a step may do is to switch between the two.  A run is *)
(* in flight for another only through a tree that both half cover; that is *)
(* what SeparateRuns excludes.                                             *)
(***************************************************************************)
Mixes(r, t) == \A f \in Paths : t[f] \in {evidence[r].before[f], evidence[r].after[f]}
Whole(r, t) == t \in {evidence[r].before, evidence[r].after}

\* A tree that two runs with different evidence could both have left half
\* merged is a whole snapshot for each of them.  No run is staged from a half
\* merged workspace; for a single run this always holds.
SeparateRuns ==
    \A q, r \in Runs, t \in Snapshots :
        Mixes(q, t) /\ Mixes(r, t) => evidence[q] = evidence[r] \/ (Whole(q, t) /\ Whole(r, t))

\* Without edits and late errors: nothing races, a run at work has no receipt,
\* and a workspace at rest is torn for no run that could take it for its own.
AtRest == inflight = Nobody => \A r \in Runs : backupDir[r] /\ Mixes(r, ws) => Whole(r, ws)

AtomHeld(p) ==
    /\ raced[p] = {}
    /\ pc[p] \in Critical \ {"checking"} => ~receipt[run[p]]

AtomInv == AtRest /\ \A p \in Procs : AtomHeld(p)

Quiet == MaxEdits = 0 /\ SyncFails = FALSE

-----------------------------------------------------------------------------
\* Only five steps put a run in flight, take it back or write a receipt.
Effect(p) ==
    /\ \A q \in Procs : raced'[q] \subseteq raced[q]
    /\ pc'[p] \in Critical \ {"checking"} => ~receipt[run[p]]
    /\ \/ UNCHANGED <<inflight, receipt>>
       \/ BeginMerge(p) \/ Recover(p) \/ WriteReceipt(p) \/ RolledBack(p) \/ Recovered(p)
    /\ UNCHANGED backupDir \/ StartBackup(p)

LEMMA CheckEffect ==
    ASSUME TypeOK, NEW p \in Procs, Check(p)
    PROVE  Effect(p)
<1> USE DEF TypeOK, Effect, Critical, Permitted, GoTo, Leave, Restore, Look
<1>1. CASE AlreadyApplied(p)
    BY <1>1 DEF AlreadyApplied
<1>2. CASE RefuseReceipt(p)
    BY <1>2 DEF RefuseReceipt
<1>3. CASE RefuseDeletion(p)
    BY <1>3 DEF RefuseDeletion
<1>4. CASE RefuseDrift(p)
    BY <1>4 DEF RefuseDrift
<1>5. CASE StartBackup(p)
    BY <1>5 DEF StartBackup
<1>6. CASE ReplaceBackup(p)
    BY <1>6 DEF ReplaceBackup
<1>7. CASE ReuseBackup(p)
    BY <1>7 DEF ReuseBackup
<1>8. CASE Reseal(p)
    BY <1>8 DEF Reseal
<1>9. CASE Recover(p)
    BY <1>9 DEF Recover
<1> QED BY <1>1, <1>2, <1>3, <1>4, <1>5, <1>6, <1>7, <1>8, <1>9 DEF Check

LEMMA BackupEffect ==
    ASSUME TypeOK, NEW p \in Procs, AtomHeld(p), Backup(p)
    PROVE  Effect(p)
<1> USE DEF TypeOK, Effect, AtomHeld, Critical, GoTo, Done, Leave, Look
<1>1. CASE RemoveBackupFile(p)
    BY <1>1 DEF RemoveBackupFile
<1>2. CASE RecreateBackup(p)
    BY <1>2 DEF RecreateBackup
<1>3. CASE CopyToBackup(p)
    BY <1>3 DEF CopyToBackup
<1>4. CASE BackupFails(p)
    BY <1>4 DEF BackupFails
<1>5. CASE BackupDone(p)
    BY <1>5 DEF BackupDone
<1> QED BY <1>1, <1>2, <1>3, <1>4, <1>5 DEF Backup

LEMMA MergeEffect ==
    ASSUME TypeOK, NEW p \in Procs, AtomHeld(p), Merge(p)
    PROVE  Effect(p)
<1> USE DEF TypeOK, Effect, AtomHeld, Critical, GoTo, Done, Leave, Restore, Look
<1>1. CASE BeginMerge(p)
    BY <1>1 DEF BeginMerge
<1>2. CASE RefuseLateDrift(p)
    BY <1>2 DEF RefuseLateDrift
<1>3. CASE ApplyDelete(p)
    BY <1>3 DEF ApplyDelete
<1>4. CASE ApplyWrite(p)
    BY <1>4 DEF ApplyWrite
<1>5. CASE ApplyRefused(p)
    BY <1>5 DEF ApplyRefused
<1>6. CASE MergeVerified(p)
    BY <1>6 DEF MergeVerified
<1>7. CASE MergeMismatch(p)
    BY <1>7 DEF MergeMismatch
<1>8. CASE WriteReceipt(p)
    BY <1>8 DEF WriteReceipt
<1> QED BY <1>1, <1>2, <1>3, <1>4, <1>5, <1>6, <1>7, <1>8 DEF Merge

LEMMA RestoreSnapshotEffect ==
    ASSUME TypeOK, NEW p \in Procs, AtomHeld(p), RestoreSnapshot(p)
    PROVE  Effect(p)
<1> USE DEF TypeOK, Effect, AtomHeld, Critical, GoTo, Done, Leave, Look
<1>1. CASE UnlinkAdded(p)
    BY <1>1 DEF UnlinkAdded
<1>2. CASE UnlinkedAll(p)
    BY <1>2 DEF UnlinkedAll
<1>3. CASE RewriteFile(p)
    BY <1>3 DEF RewriteFile
<1>4. CASE RewriteRefused(p)
    BY <1>4 DEF RewriteRefused
<1>5. CASE RolledBack(p)
    BY <1>5 DEF RolledBack
<1>6. CASE Recovered(p)
    BY <1>6 DEF Recovered
<1>7. CASE NotRestored(p)
    BY <1>7 DEF NotRestored
<1> QED BY <1>1, <1>2, <1>3, <1>4, <1>5, <1>6, <1>7 DEF RestoreSnapshot

\* Without a late error no receipt outlives the failure of its write.
LEMMA FaultEffect ==
    ASSUME Quiet, TypeOK, NEW p \in Procs, AtomHeld(p), Fault(p)
    PROVE  Effect(p) /\ UNCHANGED <<inflight, receipt>>
<1> USE DEF TypeOK, Effect, AtomHeld, Critical, CanError, Killed, Leave, Restore, Look
<1>1. CASE ErrorBeforeMerge(p)
    BY <1>1 DEF ErrorBeforeMerge
<1>2. CASE ErrorInMerge(p)
    BY <1>2 DEF ErrorInMerge
<1>3. CASE ErrorInReceipt(p)
  <2>1. receipt' = [receipt EXCEPT ![run[p]] = FALSE]
      BY <1>3 DEF ErrorInReceipt, LinkedOnError, Quiet
  <2>2. ~receipt[run[p]]
      BY <1>3 DEF ErrorInReceipt
  <2>3. receipt' = receipt
      BY <2>1, <2>2
  <2>4. CASE Restore(p, "rollback") /\ UNCHANGED raced
      BY <1>3, <2>2, <2>3, <2>4 DEF ErrorInReceipt
  <2>5. CASE Leave(p, "rejected")
      BY <1>3, <2>2, <2>3, <2>5 DEF ErrorInReceipt
  <2> QED BY <1>3, <2>4, <2>5 DEF ErrorInReceipt
<1>4. CASE ErrorInRestore(p)
    BY <1>4 DEF ErrorInRestore
<1>5. CASE Crash(p)
    BY <1>5 DEF Crash
<1>6. CASE CrashInBackupCopy(p)
    BY <1>6 DEF CrashInBackupCopy
<1>7. CASE CrashInWrite(p)
    BY <1>7 DEF CrashInWrite
<1> QED BY <1>1, <1>2, <1>3, <1>4, <1>5, <1>6, <1>7 DEF Fault

LEMMA StepEffect ==
    ASSUME Quiet, TypeOK, NEW p \in Procs, AtomHeld(p), Step(p) \/ Fault(p)
    PROVE  Effect(p)
    BY CheckEffect, BackupEffect, MergeEffect, RestoreSnapshotEffect, FaultEffect DEF Step

-----------------------------------------------------------------------------
(* The tree the refinement shows. *)

LEMMA RunEvidence ==
    ASSUME TypeOK, NEW r \in Runs
    PROVE  evidence[r].before \in Snapshots /\ evidence[r].after \in Snapshots
    BY DataAssumption DEF DataAssumption, TypeOK

\* In flight, it is the after snapshot or the before snapshot of the run.
LEMMA TreeInFlight ==
    ASSUME TypeOK, NEW r \in Runs, inflight = r, Mixes(r, ws)
    PROVE  CommittedTree = IF ws = evidence[r].after THEN evidence[r].after
                                                     ELSE evidence[r].before
<1>1. inflight # Nobody
    BY DataAssumption DEF DataAssumption
<1>2. evidence[r].before \in [Paths -> Contents \union {Absent}]
    BY RunEvidence DEF Snapshots
<1>3. CASE ws = evidence[r].after
    BY <1>1, <1>3 DEF CommittedTree
<1>4. CASE ws # evidence[r].after
  <2>1. CommittedTree = [f \in Paths |-> evidence[r].before[f]]
      BY <1>1, <1>4 DEF CommittedTree, Mixes
  <2>2. evidence[r].before = [f \in Paths |-> evidence[r].before[f]]
      BY <1>2
  <2> QED BY <1>4, <2>1, <2>2
<1> QED BY <1>3, <1>4

LEMMA WholeMixes ==
    ASSUME TypeOK, NEW r \in Runs, Whole(r, ws)
    PROVE  Mixes(r, ws)
    BY DEF Whole, Mixes

LEMMA TreeOfWhole ==
    ASSUME TypeOK, inflight = Nobody \/ Whole(inflight, ws)
    PROVE  CommittedTree = ws
<1>1. CASE inflight = Nobody
    BY <1>1 DEF CommittedTree
<1>2. CASE inflight # Nobody
  <2>1. inflight \in Runs /\ Whole(inflight, ws)
      BY <1>2 DEF TypeOK
  <2> QED BY <2>1, WholeMixes, TreeInFlight DEF Whole
<1> QED BY <1>1, <1>2

\* A whole tree of one run is whole for every run that could be torn in it.
LEMMA WholeForAll ==
    ASSUME TypeOK, SeparateRuns, NEW q \in Runs, Whole(q, ws), NEW r \in Runs, Mixes(r, ws)
    PROVE  Whole(r, ws)
<1>1. Mixes(q, ws) /\ ws \in Snapshots
    BY WholeMixes DEF TypeOK
<1>2. evidence[q] = evidence[r] \/ Whole(r, ws)
    BY <1>1 DEF SeparateRuns
<1> QED BY <1>2 DEF Whole

\* With no edits the run in flight knows every file.
LEMMA InflightMixes ==
    ASSUME Quiet, StageInv
    PROVE  edits = 0 /\ \A r \in Runs : inflight = r => Mixes(r, ws)
<1>1. edits = 0
    BY DEF Quiet, StageInv, TypeOK
<1> QED BY <1>1 DEF StageInv, ContentInv, InflightKnown, Mixes

-----------------------------------------------------------------------------
(* Each step of a process is a step of the promise, or none. *)

Shows == [Promise!Next]_<<evidence, CommittedTree, receipt>>

\* While the run in flight stays, and no receipt is written, the tree may only
\* switch between the snapshots of that run, and only before its receipt.
LEMMA SteadyShows ==
    ASSUME TypeOK, TypeOK', UNCHANGED <<evidence, inflight, receipt>>,
           ws' # ws => inflight \in Runs /\ ~receipt[inflight],
           \A r \in Runs : inflight = r => Mixes(r, ws) /\ Mixes(r, ws)'
    PROVE  Shows
<1>1. CASE ws' = ws
  <2>1. CommittedTree' = CommittedTree
      BY <1>1 DEF CommittedTree
  <2> QED BY <2>1 DEF Shows
<1>2. CASE ws' # ws
  <2> DEFINE r == inflight
             b == evidence[r].before
             a == evidence[r].after
  <2>1. r \in Runs /\ ~receipt[r] /\ Mixes(r, ws) /\ Mixes(r, ws)' /\ r' = r
      BY <1>2
  <2>2. CommittedTree = IF ws = a THEN a ELSE b
      BY <2>1, TreeInFlight
  <2>3. CommittedTree' = IF ws' = a THEN a ELSE b
    <3>1. /\ r' \in Runs /\ evidence' = evidence /\ inflight' # Nobody
          /\ \A f \in Paths : ws'[f] \in {b[f], a[f]}
        BY <2>1, DataAssumption DEF DataAssumption, Mixes
    <3>2. b \in [Paths -> Contents \union {Absent}]
        BY <2>1, RunEvidence DEF Snapshots
    <3>3. CASE ws' = a
        BY <3>1, <3>3 DEF CommittedTree
    <3>4. CASE ws' # a
      <4>1. CommittedTree' = [f \in Paths |-> b[f]]
          BY <3>1, <3>4 DEF CommittedTree
      <4>2. b = [f \in Paths |-> b[f]]
          BY <3>2
      <4> QED BY <3>4, <4>1, <4>2
    <3> QED BY <3>3, <3>4
  <2>4. \/ CommittedTree' = CommittedTree
        \/ CommittedTree = b /\ CommittedTree' = a
        \/ CommittedTree = a /\ CommittedTree' = b
      BY <2>2, <2>3
  <2>5. CommittedTree' = CommittedTree \/ Promise!Land(r) \/ Promise!TakeBack(r)
      BY <2>1, <2>4 DEF Promise!Land, Promise!TakeBack
  <2> QED BY <2>1, <2>5 DEF Shows, Promise!Next
<1> QED BY <1>1, <1>2

\* Taking a run in flight, or out of it, where the tree is whole shows nothing.
LEMMA HandOverShows ==
    ASSUME TypeOK, TypeOK', UNCHANGED <<evidence, ws, receipt>>,
           inflight = Nobody \/ Whole(inflight, ws),
           inflight' = Nobody \/ Whole(inflight, ws)'
    PROVE  Shows
<1>1. CommittedTree = ws
    BY TreeOfWhole
<1>2. CommittedTree' = ws
  <2>1. CASE inflight' = Nobody
      BY <2>1 DEF CommittedTree
  <2>2. CASE inflight' # Nobody
    <3> DEFINE b == evidence[inflight'].before
               a == evidence[inflight'].after
    <3>1. ws = b \/ ws = a
        BY <2>2 DEF Whole
    <3>2. b \in [Paths -> Contents \union {Absent}]
        BY <2>2, DataAssumption DEF DataAssumption, TypeOK, Snapshots
    <3>3. ws \in [Paths -> Contents \union {Absent}]
        BY DEF TypeOK, Snapshots
    <3>4. CASE ws = a
        BY <2>2, <3>4 DEF CommittedTree
    <3>5. CASE ws # a
      <4>1. CommittedTree' = [f \in Paths |-> ws[f]]
          BY <2>2, <3>1, <3>5 DEF CommittedTree
      <4> QED BY <3>3, <4>1
    <3> QED BY <3>4, <3>5
  <2> QED BY <2>1, <2>2
<1> QED BY <1>1, <1>2 DEF Shows

\* What holds at a step of the system, and after it.
Holds == Quiet /\ StageInv /\ AtomInv /\ SeparateRuns

LEMMA BeginMergeShows ==
    ASSUME Holds, StageInv', NEW p \in Procs, BeginMerge(p)
    PROVE  Shows /\ Whole(run[p], ws)
<1> USE DEF Holds, StageInv
<1>1. run[p] \in Runs /\ ws = Before(p) /\ inflight' = run[p] /\ UNCHANGED <<evidence, ws, receipt>>
    BY Evidence DEF BeginMerge, Matches
<1>2. Whole(run[p], ws) /\ Whole(inflight, ws)'
    BY <1>1 DEF Whole, Before
<1>3. inflight = Nobody \/ Whole(inflight, ws)
  <2> SUFFICES ASSUME inflight # Nobody PROVE Whole(inflight, ws)
      OBVIOUS
  <2>1. inflight \in Runs /\ Mixes(inflight, ws)
      BY InflightMixes DEF TypeOK
  <2> QED BY <1>1, <1>2, <2>1, WholeForAll
<1> QED BY <1>1, <1>2, <1>3, HandOverShows

\* A recovery is of the run in flight, or of one with the same evidence.
LEMMA RecoverShows ==
    ASSUME Holds, NEW p \in Procs, Recover(p)
    PROVE  Shows /\ inflight # Nobody
<1> USE DEF Holds, StageInv
<1>1. /\ run[p] \in Runs /\ inflight' = run[p] /\ UNCHANGED <<evidence, ws, receipt>>
      /\ backupDir[run[p]] /\ Mixes(run[p], ws) /\ ~Whole(run[p], ws)
  <2>1. MayRecover(p) /\ HasBackup(p) /\ inflight' = run[p] /\ UNCHANGED <<evidence, ws, receipt>>
      BY DEF Recover
  <2>2. ~litter /\ Mixes(run[p], ws)
      BY <2>1 DEF MayRecover, IsInterrupted, Mixes
  <2>3. ~Whole(run[p], ws)
      BY <2>1, <2>2 DEF MayRecover, IsMerged, Matches, Whole, Before, After
  <2> QED BY <2>1, <2>2, <2>3, Evidence DEF HasBackup
<1>2. inflight # Nobody
    BY <1>1 DEF AtomInv, AtRest
<1>3. inflight \in Runs /\ Mixes(inflight, ws) /\ ws \in Snapshots
    BY <1>2, InflightMixes DEF TypeOK
<1>4. evidence[inflight] = evidence[run[p]]
    BY <1>1, <1>3 DEF SeparateRuns
<1>5. inflight' # Nobody /\ evidence'[inflight'] = evidence[inflight]
    BY <1>1, <1>4, DataAssumption DEF DataAssumption
<1>6. CommittedTree' = CommittedTree
    BY <1>1, <1>2, <1>5 DEF CommittedTree
<1> QED BY <1>1, <1>2, <1>6 DEF Shows

LEMMA RestoredShows ==
    ASSUME Holds, StageInv', NEW p \in Procs, RolledBack(p) \/ Recovered(p)
    PROVE  Shows /\ Whole(run[p], ws)
<1> USE DEF Holds, StageInv
<1>1. /\ run[p] \in Runs /\ ws = Before(p) /\ inflight' = Nobody
      /\ UNCHANGED <<evidence, ws, receipt>>
    BY Evidence DEF RolledBack, Recovered, Matches
<1>2. Whole(run[p], ws)
    BY <1>1 DEF Whole, Before
<1>3. inflight = Nobody \/ Whole(inflight, ws)
  <2> SUFFICES ASSUME inflight # Nobody PROVE Whole(inflight, ws)
      OBVIOUS
  <2>1. inflight \in Runs /\ Mixes(inflight, ws)
      BY InflightMixes DEF TypeOK
  <2> QED BY <1>1, <1>2, <2>1, WholeForAll
<1> QED BY <1>1, <1>2, <1>3, HandOverShows

\* The receipt is written for the tree that the promise has landed.
LEMMA WriteReceiptShows ==
    ASSUME Holds, NEW p \in Procs, WriteReceipt(p)
    PROVE  Shows /\ Whole(run[p], ws)
<1> USE DEF Holds, StageInv
<1>1. /\ run[p] \in Runs /\ inflight' = Nobody /\ UNCHANGED <<evidence, ws>>
      /\ receipt' = [receipt EXCEPT ![run[p]] = TRUE] /\ ~receipt[run[p]]
    BY Evidence DEF WriteReceipt, AtomInv, AtomHeld, Critical
<1>2. ws = evidence[run[p]].after
  <2>1. \A f \in Paths : ws[f] = After(p)[f]
      BY DEF WriteReceipt, ContentInv, ContentHeld, AtomInv, AtomHeld
  <2>2. ws \in Snapshots /\ After(p) \in Snapshots
      BY Evidence DEF TypeOK
  <2> QED BY <2>1, <2>2 DEF Snapshots, After
<1>3. Whole(run[p], ws)
    BY <1>2 DEF Whole
<1>4. inflight = Nobody \/ Whole(inflight, ws)
  <2> SUFFICES ASSUME inflight # Nobody PROVE Whole(inflight, ws)
      OBVIOUS
  <2>1. inflight \in Runs /\ Mixes(inflight, ws)
      BY InflightMixes DEF TypeOK
  <2> QED BY <1>1, <1>3, <2>1, WholeForAll
<1>5. CommittedTree = ws /\ CommittedTree' = ws
    BY <1>1, <1>4, TreeOfWhole DEF CommittedTree
<1>6. Promise!Record(run[p])
    BY <1>1, <1>2, <1>5 DEF Promise!Record
<1> QED BY <1>1, <1>3, <1>6 DEF Shows, Promise!Next

LEMMA StepShows ==
    ASSUME Holds, StageInv', NEW p \in Procs, Step(p) \/ Fault(p)
    PROVE  Shows
<1> USE DEF Holds, StageInv
<1>1. Effect(p) /\ Advances(p)
    BY StepEffect, StepAdvances, FaultAdvances DEF AtomInv
<1>2. CASE BeginMerge(p) \/ Recover(p) \/ WriteReceipt(p) \/ RolledBack(p) \/ Recovered(p)
    BY <1>2, BeginMergeShows, RecoverShows, WriteReceiptShows, RestoredShows
<1>3. CASE UNCHANGED <<inflight, receipt>>
  <2>1. evidence' = evidence
      BY <1>1 DEF Advances
  <2>2. \A r \in Runs : inflight = r => Mixes(r, ws) /\ Mixes(r, ws)'
    <3>1. edits' = 0
        BY DEF Quiet, TypeOK
    <3>2. \A r \in Runs : inflight' = r => Mixes(r, ws)'
        BY <3>1 DEF ContentInv, InflightKnown, Mixes
    <3> QED BY <1>3, <3>2, InflightMixes
  <2>3. ASSUME ws' # ws
        PROVE  inflight \in Runs /\ ~receipt[inflight]
    <3>1. PICK f \in Paths : ws'[f] # ws[f]
        BY <2>3 DEF TypeOK, Snapshots
    <3>2. pc[p] \in Merging
        BY <3>1, StepWritesOwn DEF WritesOwn
    <3>3. inflight = run[p] /\ run[p] \in Runs
        BY <3>2, BackupIsBefore, Evidence
    <3>4. ~receipt[run[p]]
        BY <3>2 DEF AtomInv, AtomHeld, Merging, Critical
    <3> QED BY <3>3, <3>4
  <2> QED BY <1>3, <2>1, <2>2, <2>3, SteadyShows
<1> QED BY <1>1, <1>2, <1>3 DEF Effect

LEMMA StepAtom ==
    ASSUME Holds, StageInv', NEW p \in Procs, Step(p) \/ Fault(p)
    PROVE  AtomInv'
<1> USE DEF Holds, StageInv
<1>1. Effect(p) /\ Advances(p) /\ pc[p] # "idle"
    BY StepEffect, StepAdvances, FaultAdvances DEF AtomInv, Critical
<1>2. ASSUME NEW q \in Procs
      PROVE  AtomHeld(q)'
  <2>1. raced'[q] = {}
      BY <1>1 DEF Effect, AtomInv, AtomHeld
  <2>2. CASE q = p
    <3>1. ASSUME pc'[p] \in Critical \ {"checking"}
          PROVE  ~receipt'[run'[p]]
      <4>1. run' = run /\ ~receipt[run[p]]
          BY <1>1, <3>1 DEF Advances, Effect
      <4>2. ~WriteReceipt(p)
          BY <3>1 DEF WriteReceipt, Leave, TypeOK, Critical
      <4>3. receipt' = receipt
          BY <1>1, <4>2 DEF Effect, BeginMerge, Recover, RolledBack, Recovered
      <4> QED BY <4>1, <4>3
    <3> QED BY <2>1, <2>2, <3>1 DEF AtomHeld
  <2>3. CASE q # p /\ pc[p] \in Critical
    <3>1. pc'[q] \notin Critical
        BY <1>1, <2>3, OthersAreOutside
    <3> QED BY <2>1, <3>1 DEF AtomHeld
  <2>4. CASE q # p /\ pc[p] \notin Critical
    <3>1. Crash(p)
        BY <2>4, OutsideFault, StepAdvances
    <3> QED BY <2>1, <2>4, <3>1 DEF Crash, Killed, AtomHeld, AtomInv, TypeOK
  <2> QED BY <2>2, <2>3, <2>4
<1>3. AtRest'
  <2> SUFFICES ASSUME inflight' = Nobody, NEW r \in Runs, backupDir'[r], Mixes(r, ws)'
               PROVE  Whole(r, ws)'
      BY DEF AtRest
  <2>1. evidence' = evidence
      BY <1>1 DEF Advances
  <2>2. CASE WriteReceipt(p) \/ RolledBack(p) \/ Recovered(p)
    <3>1. Whole(run[p], ws) /\ ws' = ws /\ run[p] \in Runs
        BY <2>2, WriteReceiptShows, RestoredShows, Evidence DEF WriteReceipt, RolledBack, Recovered
    <3>2. Mixes(r, ws)
        BY <2>1, <3>1 DEF Mixes
    <3>3. Whole(r, ws)
        BY <3>1, <3>2, WholeForAll
    <3> QED BY <2>1, <3>1, <3>3 DEF Whole
  <2>3. CASE UNCHANGED <<inflight, receipt>>
    <3>1. inflight = Nobody
        BY <2>3
    <3>2. ws' = ws
      <4>1. pc[p] \notin Merging
          BY <3>1, BackupIsBefore, Evidence, DataAssumption DEF DataAssumption
      <4>2. \A f \in Paths : ws'[f] = ws[f]
          BY <4>1, StepWritesOwn DEF WritesOwn
      <4> QED BY <4>2 DEF TypeOK, Snapshots
    <3>3. Mixes(r, ws)
        BY <2>1, <3>2 DEF Mixes
    <3>4. Whole(r, ws)
      <4>1. CASE backupDir' = backupDir
          BY <3>1, <3>3, <4>1 DEF AtomInv, AtRest
      <4>2. CASE StartBackup(p)
        <5>1. Whole(run[p], ws) /\ run[p] \in Runs
            BY <4>2, Evidence DEF StartBackup, Matches, Whole, Before
        <5> QED BY <3>3, <5>1, WholeForAll
      <4> QED BY <1>1, <4>1, <4>2 DEF Effect
    <3> QED BY <2>1, <3>2, <3>4 DEF Whole
  <2>4. CASE BeginMerge(p) \/ Recover(p)
      BY <2>4, Evidence, DataAssumption DEF BeginMerge, Recover, DataAssumption
  <2> QED BY <1>1, <2>2, <2>3, <2>4 DEF Effect
<1> QED BY <1>2, <1>3 DEF AtomInv

\* The moves outside the critical section show nothing.
LEMMA ElsewhereShows ==
    ASSUME Holds, UNCHANGED <<evidence, disk, store, inflight, raced>>,
           \A q \in Procs : pc'[q] \in {"idle", "waiting", "checking"}
                            \/ (pc'[q] = pc[q] /\ run'[q] = run[q])
    PROVE  Shows /\ AtomInv'
<1>1. CommittedTree' = CommittedTree
    BY DEF CommittedTree
<1>2. AtRest'
    BY DEF Holds, AtomInv, AtRest, Mixes, Whole
<1>3. \A q \in Procs : AtomHeld(q)'
    BY DEF Holds, AtomInv, AtomHeld, Critical
<1> QED BY <1>1, <1>2, <1>3 DEF Shows, AtomInv

LEMMA AtomInit == Init => AtomInv
<1> SUFFICES ASSUME Init PROVE AtomInv
    OBVIOUS
<1>1. AtRest
    BY DEF Init, AtRest
<1>2. ASSUME NEW p \in Procs
      PROVE  AtomHeld(p)
    BY DEF Init, AtomHeld, Critical
<1> QED BY <1>1, <1>2 DEF AtomInv

\* Every step of the system is a step of the promise, or shows nothing.
LEMMA NextShows ==
    ASSUME Holds, StageInv', [Next]_vars
    PROVE  Shows /\ AtomInv' /\ SeparateRuns'
<1> USE DEF Holds
<1>1. ASSUME NEW p \in Procs, NEW r \in Runs, TakeRunLock(p, r)
      PROVE  Shows /\ AtomInv' /\ evidence' = evidence
  <2>1. ASSUME NEW q \in Procs
        PROVE  \/ pc'[q] \in {"idle", "waiting", "checking"}
               \/ pc'[q] = pc[q] /\ run'[q] = run[q]
      BY <1>1 DEF TakeRunLock, StageInv, TypeOK
  <2>2. UNCHANGED <<evidence, disk, store, inflight, raced>>
      BY <1>1 DEF TakeRunLock
  <2> QED BY <2>1, <2>2, ElsewhereShows
<1>2. ASSUME NEW p \in Procs, TakeWorkspaceLock(p)
      PROVE  Shows /\ AtomInv' /\ evidence' = evidence
  <2>1. ASSUME NEW q \in Procs
        PROVE  \/ pc'[q] \in {"idle", "waiting", "checking"}
               \/ pc'[q] = pc[q] /\ run'[q] = run[q]
      BY <1>2 DEF TakeWorkspaceLock, StageInv, TypeOK
  <2>2. UNCHANGED <<evidence, disk, store, inflight, raced>>
      BY <1>2 DEF TakeWorkspaceLock
  <2> QED BY <2>1, <2>2, ElsewhereShows
<1>3. ASSUME NEW p \in Procs, Step(p) \/ Fault(p)
      PROVE  Shows /\ AtomInv' /\ evidence' = evidence
  <2>1. evidence' = evidence
      BY <1>3, StepAdvances, FaultAdvances DEF Advances, StageInv
  <2> QED BY <1>3, <2>1, StepShows, StepAtom
<1>4. ~RemoveLitter /\ \A f \in Paths, c \in Contents \union {Absent} : ~Edit(f, c)
    BY DEF RemoveLitter, Edit, Quiet, StageInv, TypeOK
<1>5. ASSUME UNCHANGED vars
      PROVE  Shows /\ AtomInv' /\ evidence' = evidence
  <2>1. UNCHANGED <<evidence, disk, store, inflight, raced>> /\ pc' = pc /\ run' = run
      BY <1>5 DEF vars
  <2>2. \A q \in Procs : pc'[q] \in {"idle", "waiting", "checking"}
                          \/ (pc'[q] = pc[q] /\ run'[q] = run[q])
      BY <2>1
  <2> QED BY <2>1, <2>2, ElsewhereShows
<1>6. Shows /\ AtomInv' /\ evidence' = evidence
  <2> SUFFICES ASSUME Next PROVE Shows /\ AtomInv' /\ evidence' = evidence
      BY <1>5
  <2>1. \E p \in Procs : (\E r \in Runs : TakeRunLock(p, r))
                          \/ TakeWorkspaceLock(p) \/ Step(p) \/ Fault(p)
      BY <1>4 DEF Next
  <2> QED BY <2>1, <1>1, <1>2, <1>3
<1>7. SeparateRuns'
    BY <1>6 DEF SeparateRuns, Mixes, Whole
<1> QED BY <1>6, <1>7

\* Crashes, errors, retries and recoveries included, the workspace and its
\* receipts behave as if every apply happened at once and could be taken back
\* at once until its receipt is written, for every number of processes, runs,
\* paths, crashes and errors (_merge_or_recover, _restore_snapshot and
\* finalize_staged_apply, staged.py).  The conditions are those the code
\* cannot enforce: nobody else edits the workspace meanwhile, the directory
\* fsync after a file is in place does not raise, and no two runs half cover
\* the same tree.
THEOREM ApplyIsAtomic ==
    ASSUME Quiet
    PROVE  Spec /\ SeparateRuns => ImplementsAtomicApply
<1>1. Init => Promise!Init
    BY DEF Init, Promise!Init
<1>2. StageInv /\ StageInv' /\ AtomInv /\ SeparateRuns /\ [Next]_vars
        => AtomInv' /\ SeparateRuns' /\ [Promise!Next]_<<evidence, CommittedTree, receipt>>
    BY NextShows DEF Holds, Shows
<1>3. Spec /\ SeparateRuns => Promise!Init /\ [][Promise!Next]_<<evidence, CommittedTree, receipt>>
    BY <1>1, <1>2, AtomInit, Invariants, PTL DEF Spec, StageInv
<1> QED BY <1>3 DEF ImplementsAtomicApply, Promise!Spec

\* With one run to apply, by as many processes at once and as often as one
\* likes, no condition on the evidence is left.
COROLLARY OneRunIsAtomic ==
    ASSUME Quiet, \A q, r \in Runs : q = r
    PROVE  Spec => ImplementsAtomicApply
<1>1. SeparateRuns
    BY DEF SeparateRuns
<1> QED BY <1>1, ApplyIsAtomic
=============================================================================
