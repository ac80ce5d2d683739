-------------------------- MODULE StageApplyProofs --------------------------
(***************************************************************************)
(* Theorems about the apply transaction, for every number of processes,    *)
(* runs, paths, stages, crashes, errors and edits.                         *)
(***************************************************************************)
EXTENDS StageApply, TLAPS

\* The helpers that every action is written with.
USE DEF disk, store, locks, procs, env, At, Root

-----------------------------------------------------------------------------
LEMMA Evidence ==
    ASSUME TypeOK, NEW p \in Procs
    PROVE  /\ run[p] \in Runs
           /\ Before(p) \in Snapshots /\ After(p) \in Snapshots
           /\ evidence[run[p]] \in Stages
    BY DataAssumption DEF DataAssumption, TypeOK, Before, After

LEMMA PathSets ==
    ASSUME TypeOK, NEW p \in Procs
    PROVE  /\ Changed(p) \subseteq Paths /\ AddedOnly(p) \subseteq Paths
           /\ First(todo[p]) \subseteq Paths /\ Last(todo[p]) \subseteq Paths
           /\ \A t : Files(t) \subseteq Paths
    BY DEF TypeOK, Changed, AddedOnly, First, Last, Files

LEMMA ParentType ==
    ASSUME TypeOK, NEW f \in Paths, MakeParent(f)
    PROVE  dirs' \subseteq Paths
<1>1. Dir[f] \in 0..NumPaths
    BY PathAssumption DEF PathAssumption
<1>2. {Dir[f]} \ {Root} \subseteq Paths
    BY <1>1, PathAssumption DEF PathAssumption, Paths
<1>3. dirs \subseteq Paths
    BY DEF TypeOK
<1> QED BY <1>2, <1>3 DEF MakeParent

LEMMA WriteType ==
    ASSUME TypeOK, NEW f, NEW c \in Contents \union {Absent},
           ws' = [ws EXCEPT ![f] = c]
    PROVE  ws' \in Snapshots
    BY DEF TypeOK, Snapshots

LEMMA CheckType ==
    ASSUME TypeOK, NEW p \in Procs, Check(p)
    PROVE  TypeOK'
<1> USE Evidence, PathSets, ParentType
    DEF TypeOK, Snapshots, Critical, Permitted, GoTo, Done, Leave, Restore, ReleaseWorkspace, Look
<1>1. CASE AlreadyApplied(p)
    BY <1>1 DEF AlreadyApplied
<1>2. CASE RefuseReceipt(p)
    BY <1>2 DEF RefuseReceipt
<1>3. CASE RefuseDeletion(p)
    BY <1>3 DEF RefuseDeletion
<1>4. CASE RefuseDrift(p)
    BY <1>4 DEF RefuseDrift
<1>5. CASE StartBackup(p)
    BY <1>5 DEF StartBackup
<1>6. CASE ReplaceBackup(p)
    BY <1>6 DEF ReplaceBackup
<1>7. CASE ReuseBackup(p)
    BY <1>7 DEF ReuseBackup
<1>8. CASE Reseal(p)
    BY <1>8 DEF Reseal
<1>9. CASE Recover(p)
    BY <1>9 DEF Recover
<1> QED BY <1>1, <1>2, <1>3, <1>4, <1>5, <1>6, <1>7, <1>8, <1>9 DEF Check

LEMMA BackupType ==
    ASSUME TypeOK, NEW p \in Procs, Backup(p)
    PROVE  TypeOK'
<1> USE Evidence, PathSets, ParentType
    DEF TypeOK, Snapshots, Critical, GoTo, Done, Leave, Restore, ReleaseWorkspace, Look
<1>1. CASE RemoveBackupFile(p)
    BY <1>1 DEF RemoveBackupFile
<1>2. CASE RecreateBackup(p)
    BY <1>2 DEF RecreateBackup
<1>3. CASE CopyToBackup(p)
    BY <1>3 DEF CopyToBackup
<1>4. CASE BackupFails(p)
    BY <1>4 DEF BackupFails
<1>5. CASE BackupDone(p)
    BY <1>5 DEF BackupDone
<1> QED BY <1>1, <1>2, <1>3, <1>4, <1>5 DEF Backup

LEMMA MergeType ==
    ASSUME TypeOK, NEW p \in Procs, Merge(p)
    PROVE  TypeOK'
<1> USE Evidence, PathSets, ParentType
    DEF TypeOK, Snapshots, Critical, GoTo, Done, Leave, Restore, ReleaseWorkspace, Look
<1>1. CASE BeginMerge(p)
    BY <1>1 DEF BeginMerge
<1>2. CASE RefuseLateDrift(p)
    BY <1>2 DEF RefuseLateDrift
<1>3. CASE ApplyDelete(p)
    BY <1>3 DEF ApplyDelete
<1>4. CASE ApplyWrite(p)
    BY <1>4 DEF ApplyWrite
<1>5. CASE ApplyRefused(p)
    BY <1>5 DEF ApplyRefused
<1>6. CASE MergeVerified(p)
    BY <1>6 DEF MergeVerified
<1>7. CASE MergeMismatch(p)
    BY <1>7 DEF MergeMismatch
<1>8. CASE WriteReceipt(p)
    BY <1>8 DEF WriteReceipt
<1> QED BY <1>1, <1>2, <1>3, <1>4, <1>5, <1>6, <1>7, <1>8 DEF Merge

LEMMA RestoreSnapshotType ==
    ASSUME TypeOK, NEW p \in Procs, RestoreSnapshot(p)
    PROVE  TypeOK'
<1> USE Evidence, PathSets, ParentType
    DEF TypeOK, Snapshots, Critical, GoTo, Done, Leave, Restore, ReleaseWorkspace, Look
<1>1. CASE UnlinkAdded(p)
    BY <1>1 DEF UnlinkAdded
<1>2. CASE UnlinkedAll(p)
    BY <1>2 DEF UnlinkedAll
<1>3. CASE RewriteFile(p)
    BY <1>3 DEF RewriteFile
<1>4. CASE RewriteRefused(p)
    BY <1>4 DEF RewriteRefused
<1>5. CASE RolledBack(p)
    BY <1>5 DEF RolledBack
<1>6. CASE Recovered(p)
    BY <1>6 DEF Recovered
<1>7. CASE NotRestored(p)
    BY <1>7 DEF NotRestored
<1> QED BY <1>1, <1>2, <1>3, <1>4, <1>5, <1>6, <1>7 DEF RestoreSnapshot

LEMMA ErrorBound ==
    ASSUME TypeOK, CanError
    PROVE  errors' \in 0..MaxErrors /\ UNCHANGED <<crashes, edits>>
    BY BoundAssumption DEF BoundAssumption, TypeOK, CanError

LEMMA KilledBound ==
    ASSUME TypeOK, crashes < MaxCrashes, crashes' = crashes + 1
    PROVE  crashes' \in 0..MaxCrashes
    BY BoundAssumption DEF BoundAssumption, TypeOK

LEMMA EditBound ==
    ASSUME TypeOK, edits < MaxEdits, edits' = edits + 1
    PROVE  edits' \in 0..MaxEdits
    BY BoundAssumption DEF BoundAssumption, TypeOK

LEMMA FaultType ==
    ASSUME TypeOK, NEW p \in Procs, Fault(p)
    PROVE  TypeOK'
<1> USE Evidence, PathSets, ParentType, ErrorBound, KilledBound
    DEF TypeOK, Snapshots, Critical, Killed, Leave, Restore, ReleaseWorkspace, Look
<1>1. CASE ErrorBeforeMerge(p)
    BY <1>1 DEF ErrorBeforeMerge
<1>2. CASE ErrorInMerge(p)
  <2>1. dirs' \subseteq Paths /\ ws' \in Snapshots
    <3>1. CASE UNCHANGED <<ws, dirs>>
        BY <3>1
    <3>2. CASE \E f \in First(todo[p]) : Installed(f, After(p)[f])
      <4> PICK f \in Paths : MakeParent(f) /\ (ws' = ws \/ ws' = [ws EXCEPT ![f] = After(p)[f]])
          BY <3>2 DEF Installed
      <4>1. After(p)[f] \in Contents \union {Absent}
          BY Evidence
      <4>2. dirs' \subseteq Paths
          BY ParentType
      <4> QED BY <4>1, <4>2
    <3> QED BY <1>2, <3>1, <3>2 DEF ErrorInMerge
  <2> QED BY <1>2, <2>1 DEF ErrorInMerge
<1>3. CASE ErrorInReceipt(p)
  <2>1. receipt' \in [Runs -> BOOLEAN]
      BY <1>3, BoundAssumption DEF ErrorInReceipt, LinkedOnError, BoundAssumption
  <2>2. CASE Restore(p, "rollback") /\ UNCHANGED raced
      BY <1>3, <2>1, <2>2 DEF ErrorInReceipt
  <2>3. CASE Leave(p, "rejected")
      BY <1>3, <2>1, <2>3 DEF ErrorInReceipt
  <2> QED BY <1>3, <2>2, <2>3 DEF ErrorInReceipt
<1>4. CASE ErrorInRestore(p)
    BY <1>4 DEF ErrorInRestore, Installed
<1>5. CASE Crash(p)
    BY <1>5 DEF Crash
<1>6. CASE CrashInBackupCopy(p)
    BY <1>6 DEF CrashInBackupCopy
<1>7. CASE CrashInWrite(p)
  <2> PICK f \in Paths, c \in Contents :
          /\ Killed(p) /\ MakeParent(f) /\ litter' = TRUE
          /\ UNCHANGED ws \/ ws' = [ws EXCEPT ![f] = c]
          /\ UNCHANGED backupJunk
      BY <1>7 DEF CrashInWrite
  <2>1. dirs' \subseteq Paths
      BY ParentType
  <2>2. ws' \in Snapshots
      OBVIOUS
  <2> QED BY <2>1, <2>2
<1> QED BY <1>1, <1>2, <1>3, <1>4, <1>5, <1>6, <1>7 DEF Fault

LEMMA EditType ==
    ASSUME TypeOK, NEW f \in Paths, NEW c \in Contents \union {Absent},
           Edit(f, c) \/ RemoveLitter
    PROVE  TypeOK'
<1>1. CASE Edit(f, c)
  <2>1. {Dir[f]} \ {Root} \subseteq Paths
      BY PathAssumption DEF PathAssumption, Paths
  <2>2. dirs' \subseteq Paths
      BY <1>1, <2>1 DEF Edit, TypeOK
  <2> QED BY <1>1, <2>2, EditBound DEF Edit, TypeOK, Snapshots
<1>2. CASE RemoveLitter
    BY <1>2, EditBound DEF RemoveLitter, TypeOK
<1> QED BY <1>1, <1>2

\* Every reachable state is well typed: in particular no command ever records
\* a path outside the workspace or leaves the bounds of the environment.
THEOREM TypeCorrect == Spec => []TypeOK
<1>1. Init => TypeOK
  <2> SUFFICES ASSUME Init PROVE TypeOK
      OBVIOUS
  <2>1. PICK s \in Stages : ws = s.before /\ dirs = DirsOf(s.before)
      BY DEF Init
  <2>2. ws \in Snapshots
      BY <2>1, DataAssumption DEF DataAssumption
  <2>3. dirs \subseteq Paths
    <3>1. \A f \in Paths : {Dir[f]} \ {Root} \subseteq Paths
        BY PathAssumption DEF PathAssumption, Paths
    <3> QED BY <2>1, <3>1 DEF DirsOf, Files
  <2>4. crashes \in 0..MaxCrashes /\ errors \in 0..MaxErrors /\ edits \in 0..MaxEdits
      BY BoundAssumption DEF Init, BoundAssumption
  <2> QED BY <2>2, <2>3, <2>4 DEF Init, TypeOK, Snapshots, Critical
<1>2. TypeOK /\ [Next]_vars => TypeOK'
  <2> SUFFICES ASSUME TypeOK, [Next]_vars PROVE TypeOK'
      OBVIOUS
  <2>1. ASSUME NEW p \in Procs, NEW r \in Runs, TakeRunLock(p, r)
        PROVE  TypeOK'
      BY <2>1 DEF TakeRunLock, TypeOK
  <2>2. ASSUME NEW p \in Procs, TakeWorkspaceLock(p)
        PROVE  TypeOK'
      BY <2>2 DEF TakeWorkspaceLock, TypeOK, Critical
  <2>3. ASSUME NEW p \in Procs, Step(p)
        PROVE  TypeOK'
      BY <2>3, CheckType, BackupType, MergeType, RestoreSnapshotType DEF Step
  <2>4. ASSUME NEW p \in Procs, Fault(p)
        PROVE  TypeOK'
      BY <2>4, FaultType
  <2>5. ASSUME NEW f \in Paths, NEW c \in Contents \union {Absent}, Edit(f, c)
        PROVE  TypeOK'
      BY <2>5, EditType
  <2>6. CASE RemoveLitter
      BY <2>6, EditBound DEF RemoveLitter, TypeOK
  <2>7. CASE UNCHANGED vars
      BY <2>7 DEF vars, TypeOK
  <2> QED BY <2>1, <2>2, <2>3, <2>4, <2>5, <2>6, <2>7 DEF Next
<1> QED BY <1>1, <1>2, PTL DEF Spec

-----------------------------------------------------------------------------
(***************************************************************************)
(* Who acts: the effect of any step of a process on locks and positions.   *)
(***************************************************************************)
LockInv ==
    /\ \A p \in Procs : pc[p] \in Critical => wsLock = p
    /\ \A p \in Procs : pc[p] # "idle" => runLock[run[p]] = p

\* p goes on under its locks, or ends and gives them up.
Advances(p) ==
    /\ \A q \in Procs : q # p => pc'[q] = pc[q] /\ todo'[q] = todo[q] /\ outcome'[q] = outcome[q]
    /\ run' = run /\ evidence' = evidence
    /\ \/ pc[p] \in Critical /\ pc'[p] \in Critical /\ UNCHANGED locks
       \/ /\ pc'[p] = "idle"
          /\ runLock' = [runLock EXCEPT ![run[p]] = Nobody]
          /\ ReleaseWorkspace(p)

LEMMA CheckAdvances ==
    ASSUME TypeOK, NEW p \in Procs, Check(p)
    PROVE  pc[p] \in Critical /\ Advances(p)
<1> USE DEF TypeOK, Advances, Critical, Permitted, GoTo, Done, Leave, Restore
<1>1. CASE AlreadyApplied(p)
    BY <1>1 DEF AlreadyApplied
<1>2. CASE RefuseReceipt(p)
    BY <1>2 DEF RefuseReceipt
<1>3. CASE RefuseDeletion(p)
    BY <1>3 DEF RefuseDeletion
<1>4. CASE RefuseDrift(p)
    BY <1>4 DEF RefuseDrift
<1>5. CASE StartBackup(p)
    BY <1>5 DEF StartBackup
<1>6. CASE ReplaceBackup(p)
    BY <1>6 DEF ReplaceBackup
<1>7. CASE ReuseBackup(p)
    BY <1>7 DEF ReuseBackup
<1>8. CASE Reseal(p)
    BY <1>8 DEF Reseal
<1>9. CASE Recover(p)
    BY <1>9 DEF Recover
<1> QED BY <1>1, <1>2, <1>3, <1>4, <1>5, <1>6, <1>7, <1>8, <1>9 DEF Check

LEMMA BackupAdvances ==
    ASSUME TypeOK, NEW p \in Procs, Backup(p)
    PROVE  pc[p] \in Critical /\ Advances(p)
<1> USE DEF TypeOK, Advances, Critical, GoTo, Done, Leave, Restore
<1>1. CASE RemoveBackupFile(p)
    BY <1>1 DEF RemoveBackupFile
<1>2. CASE RecreateBackup(p)
    BY <1>2 DEF RecreateBackup
<1>3. CASE CopyToBackup(p)
    BY <1>3 DEF CopyToBackup
<1>4. CASE BackupFails(p)
    BY <1>4 DEF BackupFails
<1>5. CASE BackupDone(p)
    BY <1>5 DEF BackupDone
<1> QED BY <1>1, <1>2, <1>3, <1>4, <1>5 DEF Backup

LEMMA MergeAdvances ==
    ASSUME TypeOK, NEW p \in Procs, Merge(p)
    PROVE  pc[p] \in Critical /\ Advances(p)
<1> USE DEF TypeOK, Advances, Critical, GoTo, Done, Leave, Restore
<1>1. CASE BeginMerge(p)
    BY <1>1 DEF BeginMerge
<1>2. CASE RefuseLateDrift(p)
    BY <1>2 DEF RefuseLateDrift
<1>3. CASE ApplyDelete(p)
    BY <1>3 DEF ApplyDelete
<1>4. CASE ApplyWrite(p)
    BY <1>4 DEF ApplyWrite
<1>5. CASE ApplyRefused(p)
    BY <1>5 DEF ApplyRefused
<1>6. CASE MergeVerified(p)
    BY <1>6 DEF MergeVerified
<1>7. CASE MergeMismatch(p)
    BY <1>7 DEF MergeMismatch
<1>8. CASE WriteReceipt(p)
    BY <1>8 DEF WriteReceipt
<1> QED BY <1>1, <1>2, <1>3, <1>4, <1>5, <1>6, <1>7, <1>8 DEF Merge

LEMMA RestoreSnapshotAdvances ==
    ASSUME TypeOK, NEW p \in Procs, RestoreSnapshot(p)
    PROVE  pc[p] \in Critical /\ Advances(p)
<1> USE DEF TypeOK, Advances, Critical, GoTo, Done, Leave, Restore
<1>1. CASE UnlinkAdded(p)
    BY <1>1 DEF UnlinkAdded
<1>2. CASE UnlinkedAll(p)
    BY <1>2 DEF UnlinkedAll
<1>3. CASE RewriteFile(p)
    BY <1>3 DEF RewriteFile
<1>4. CASE RewriteRefused(p)
    BY <1>4 DEF RewriteRefused
<1>5. CASE RolledBack(p)
    BY <1>5 DEF RolledBack
<1>6. CASE Recovered(p)
    BY <1>6 DEF Recovered
<1>7. CASE NotRestored(p)
    BY <1>7 DEF NotRestored
<1> QED BY <1>1, <1>2, <1>3, <1>4, <1>5, <1>6, <1>7 DEF RestoreSnapshot

LEMMA FaultAdvances ==
    ASSUME TypeOK, NEW p \in Procs, Fault(p)
    PROVE  pc[p] # "idle" /\ Advances(p)
<1> USE DEF TypeOK, Advances, Critical, CanError, Killed, GoTo, Done, Leave, Restore
<1>1. CASE ErrorBeforeMerge(p)
    BY <1>1 DEF ErrorBeforeMerge
<1>2. CASE ErrorInMerge(p)
    BY <1>2 DEF ErrorInMerge
<1>3. CASE ErrorInReceipt(p)
    BY <1>3 DEF ErrorInReceipt
<1>4. CASE ErrorInRestore(p)
    BY <1>4 DEF ErrorInRestore
<1>5. CASE Crash(p)
    BY <1>5 DEF Crash
<1>6. CASE CrashInBackupCopy(p)
    BY <1>6 DEF CrashInBackupCopy
<1>7. CASE CrashInWrite(p)
    BY <1>7 DEF CrashInWrite
<1> QED BY <1>1, <1>2, <1>3, <1>4, <1>5, <1>6, <1>7 DEF Fault

LEMMA StepAdvances ==
    ASSUME TypeOK, NEW p \in Procs, Step(p)
    PROVE  pc[p] \in Critical /\ Advances(p)
    BY CheckAdvances, BackupAdvances, MergeAdvances, RestoreSnapshotAdvances DEF Step

LEMMA LockStep ==
    ASSUME TypeOK, LockInv, NEW p \in Procs, pc[p] # "idle", Advances(p)
    PROVE  LockInv'
<1>1. ASSUME NEW q \in Procs, pc'[q] \in Critical
      PROVE  wsLock' = q
    BY <1>1 DEF LockInv, Advances, ReleaseWorkspace, Critical
<1>2. ASSUME NEW q \in Procs, pc'[q] # "idle"
      PROVE  runLock'[run'[q]] = q
    BY <1>2 DEF LockInv, Advances, TypeOK, Critical
<1> QED BY <1>1, <1>2 DEF LockInv

LEMMA LockNext == TypeOK /\ LockInv /\ [Next]_vars => LockInv'
<1> SUFFICES ASSUME TypeOK, LockInv, [Next]_vars PROVE LockInv'
    OBVIOUS
<1>1. ASSUME NEW p \in Procs, NEW r \in Runs, TakeRunLock(p, r)
      PROVE  LockInv'
  <2>1. ASSUME NEW q \in Procs, pc'[q] \in Critical
        PROVE  wsLock' = q
      BY <1>1, <2>1 DEF TakeRunLock, LockInv, TypeOK, Critical
  <2>2. ASSUME NEW q \in Procs, pc'[q] # "idle"
        PROVE  runLock'[run'[q]] = q
      BY <1>1, <2>2, DataAssumption DEF TakeRunLock, LockInv, TypeOK, DataAssumption
  <2> QED BY <2>1, <2>2 DEF LockInv
<1>2. ASSUME NEW p \in Procs, TakeWorkspaceLock(p)
      PROVE  LockInv'
  <2>1. ASSUME NEW q \in Procs, pc'[q] \in Critical
        PROVE  wsLock' = q
      BY <1>2, <2>1, DataAssumption
         DEF TakeWorkspaceLock, WorkspaceIsFree, LockInv, TypeOK, DataAssumption
  <2>2. ASSUME NEW q \in Procs, pc'[q] # "idle"
        PROVE  runLock'[run'[q]] = q
      BY <1>2, <2>2 DEF TakeWorkspaceLock, LockInv, TypeOK
  <2> QED BY <2>1, <2>2 DEF LockInv
<1>3. ASSUME NEW p \in Procs, Step(p)
      PROVE  LockInv'
    BY <1>3, StepAdvances, LockStep DEF Critical
<1>4. ASSUME NEW p \in Procs, Fault(p)
      PROVE  LockInv'
    BY <1>4, FaultAdvances, LockStep
<1>5. ASSUME NEW f \in Paths, NEW c \in Contents \union {Absent}, Edit(f, c)
      PROVE  LockInv'
    BY <1>5 DEF Edit, LockInv
<1>6. CASE RemoveLitter
    BY <1>6 DEF RemoveLitter, LockInv
<1>7. CASE UNCHANGED vars
    BY <1>7 DEF vars, LockInv
<1> QED BY <1>1, <1>2, <1>3, <1>4, <1>5, <1>6, <1>7 DEF Next

LEMMA LockInit == Init => LockInv
    BY DEF Init, LockInv, Critical

\* However many commands run and die, at most one of them is past the
\* workspace flock, and it alone works on its run.
THEOREM OneWriterHolds == Spec => []OneWriter
<1>1. TypeOK /\ LockInv => OneWriter
  <2> SUFFICES ASSUME LockInv, NEW p \in Procs, NEW q \in Procs, pc[p] \in Critical
               PROVE  /\ wsLock = p /\ runLock[run[p]] = p
                      /\ pc[q] \in Critical => q = p
      BY DEF OneWriter
  <2> QED BY DEF LockInv, Critical
<1> QED BY <1>1, LockInit, LockNext, TypeCorrect, PTL DEF Spec

-----------------------------------------------------------------------------
(***************************************************************************)
(* The backup: a process that may write to the workspace has an exact one, *)
(* and a backup is cleared or copied only while its run is not in flight.  *)
(***************************************************************************)
Merging == {"applying", "receipting", "unlinking", "rewriting"}

BackupHeld(p) ==
    /\ pc[p] \in Merging \union {"ready", "resealing"} => HasBackup(p)
    /\ pc[p] \in Merging => inflight = run[p]
    /\ pc[p] \in {"clearing", "copying"} => backupDir[run[p]] /\ inflight # run[p]

BackupInv == TornWorkspaceHasBackup /\ \A p \in Procs : BackupHeld(p)

\* Only the process that holds the workspace's flock is past it.
LEMMA OthersAreOutside ==
    ASSUME LockInv, NEW p \in Procs, pc[p] \in Critical, Advances(p),
           NEW q \in Procs, q # p
    PROVE  pc'[q] = pc[q] /\ pc[q] \notin Critical
    BY DEF LockInv, Advances

\* So a step of p is judged by what it does to p and to the torn workspace.
LEMMA BackupOfOne ==
    ASSUME LockInv, NEW p \in Procs, pc[p] \in Critical, Advances(p),
           BackupHeld(p)', TornWorkspaceHasBackup'
    PROVE  BackupInv'
<1>1. ASSUME NEW q \in Procs, q # p
      PROVE  BackupHeld(q)'
    BY <1>1, OthersAreOutside DEF BackupHeld, Merging, Critical
<1> QED BY <1>1 DEF BackupInv

LEMMA CheckKeepsBackup ==
    ASSUME TypeOK, BackupInv, NEW p \in Procs, Check(p)
    PROVE  BackupHeld(p)' /\ TornWorkspaceHasBackup'
<1> USE DataAssumption
    DEF DataAssumption, TypeOK, BackupInv, BackupHeld, Merging, Critical, HasBackup,
        TornWorkspaceHasBackup, BackupIsExact, Permitted, GoTo, Done, Leave, Restore
<1>1. CASE AlreadyApplied(p)
    BY <1>1 DEF AlreadyApplied
<1>2. CASE RefuseReceipt(p)
    BY <1>2 DEF RefuseReceipt
<1>3. CASE RefuseDeletion(p)
    BY <1>3 DEF RefuseDeletion
<1>4. CASE RefuseDrift(p)
    BY <1>4 DEF RefuseDrift
<1>5. CASE StartBackup(p)
    BY <1>5 DEF StartBackup
<1>6. CASE ReplaceBackup(p)
    BY <1>6 DEF ReplaceBackup
<1>7. CASE ReuseBackup(p)
    BY <1>7 DEF ReuseBackup
<1>8. CASE Reseal(p)
    BY <1>8 DEF Reseal
<1>9. CASE Recover(p)
    BY <1>9 DEF Recover
<1> QED BY <1>1, <1>2, <1>3, <1>4, <1>5, <1>6, <1>7, <1>8, <1>9 DEF Check

LEMMA BackupKeepsBackup ==
    ASSUME TypeOK, BackupInv, NEW p \in Procs, Backup(p)
    PROVE  BackupHeld(p)' /\ TornWorkspaceHasBackup'
<1> USE DataAssumption
    DEF DataAssumption, TypeOK, BackupInv, BackupHeld, Merging, Critical, HasBackup,
        TornWorkspaceHasBackup, BackupIsExact, GoTo, Done, Leave, Restore
<1>1. CASE RemoveBackupFile(p)
    BY <1>1 DEF RemoveBackupFile
<1>2. CASE RecreateBackup(p)
    BY <1>2 DEF RecreateBackup
<1>3. CASE CopyToBackup(p)
    BY <1>3 DEF CopyToBackup
<1>4. CASE BackupFails(p)
    BY <1>4 DEF BackupFails
<1>5. CASE BackupDone(p)
    BY <1>5 DEF BackupDone
<1> QED BY <1>1, <1>2, <1>3, <1>4, <1>5 DEF Backup

LEMMA MergeKeepsBackup ==
    ASSUME TypeOK, BackupInv, NEW p \in Procs, Merge(p)
    PROVE  BackupHeld(p)' /\ TornWorkspaceHasBackup'
<1> USE DataAssumption
    DEF DataAssumption, TypeOK, BackupInv, BackupHeld, Merging, Critical, HasBackup,
        TornWorkspaceHasBackup, BackupIsExact, GoTo, Done, Leave, Restore
<1>1. CASE BeginMerge(p)
    BY <1>1 DEF BeginMerge
<1>2. CASE RefuseLateDrift(p)
    BY <1>2 DEF RefuseLateDrift
<1>3. CASE ApplyDelete(p)
    BY <1>3 DEF ApplyDelete
<1>4. CASE ApplyWrite(p)
    BY <1>4 DEF ApplyWrite
<1>5. CASE ApplyRefused(p)
    BY <1>5 DEF ApplyRefused
<1>6. CASE MergeVerified(p)
    BY <1>6 DEF MergeVerified
<1>7. CASE MergeMismatch(p)
    BY <1>7 DEF MergeMismatch
<1>8. CASE WriteReceipt(p)
    BY <1>8 DEF WriteReceipt
<1> QED BY <1>1, <1>2, <1>3, <1>4, <1>5, <1>6, <1>7, <1>8 DEF Merge

LEMMA RestoreSnapshotKeepsBackup ==
    ASSUME TypeOK, BackupInv, NEW p \in Procs, RestoreSnapshot(p)
    PROVE  BackupHeld(p)' /\ TornWorkspaceHasBackup'
<1> USE DataAssumption
    DEF DataAssumption, TypeOK, BackupInv, BackupHeld, Merging, Critical, HasBackup,
        TornWorkspaceHasBackup, BackupIsExact, GoTo, Done, Leave, Restore
<1>1. CASE UnlinkAdded(p)
    BY <1>1 DEF UnlinkAdded
<1>2. CASE UnlinkedAll(p)
    BY <1>2 DEF UnlinkedAll
<1>3. CASE RewriteFile(p)
    BY <1>3 DEF RewriteFile
<1>4. CASE RewriteRefused(p)
    BY <1>4 DEF RewriteRefused
<1>5. CASE RolledBack(p)
    BY <1>5 DEF RolledBack
<1>6. CASE Recovered(p)
    BY <1>6 DEF Recovered
<1>7. CASE NotRestored(p)
    BY <1>7 DEF NotRestored
<1> QED BY <1>1, <1>2, <1>3, <1>4, <1>5, <1>6, <1>7 DEF RestoreSnapshot

LEMMA FaultKeepsBackup ==
    ASSUME TypeOK, BackupInv, NEW p \in Procs, Fault(p)
    PROVE  BackupHeld(p)' /\ TornWorkspaceHasBackup'
<1> USE DataAssumption
    DEF DataAssumption, TypeOK, BackupInv, BackupHeld, Merging, Critical, HasBackup,
        TornWorkspaceHasBackup, BackupIsExact, CanError, Killed, GoTo, Done, Leave, Restore
<1>1. CASE ErrorBeforeMerge(p)
    BY <1>1 DEF ErrorBeforeMerge
<1>2. CASE ErrorInMerge(p)
    BY <1>2 DEF ErrorInMerge
<1>3. CASE ErrorInReceipt(p)
    BY <1>3 DEF ErrorInReceipt
<1>4. CASE ErrorInRestore(p)
    BY <1>4 DEF ErrorInRestore
<1>5. CASE Crash(p)
    BY <1>5 DEF Crash
<1>6. CASE CrashInBackupCopy(p)
    BY <1>6 DEF CrashInBackupCopy
<1>7. CASE CrashInWrite(p)
    BY <1>7 DEF CrashInWrite
<1> QED BY <1>1, <1>2, <1>3, <1>4, <1>5, <1>6, <1>7 DEF Fault

LEMMA BackupStep ==
    ASSUME TypeOK, LockInv, BackupInv, NEW p \in Procs, Step(p)
    PROVE  BackupInv'
<1>1. pc[p] \in Critical /\ Advances(p)
    BY StepAdvances
<1>2. BackupHeld(p)' /\ TornWorkspaceHasBackup'
    BY CheckKeepsBackup, BackupKeepsBackup, MergeKeepsBackup, RestoreSnapshotKeepsBackup DEF Step
<1> QED BY <1>1, <1>2, BackupOfOne

\* The moves outside the critical section touch no backup.
LEMMA BackupElsewhere ==
    ASSUME BackupInv, UNCHANGED <<evidence, store, run, inflight>>,
           \A p \in Procs : pc'[p] = pc[p] \/ pc'[p] \in {"idle", "waiting", "checking"}
    PROVE  BackupInv'
<1>1. TornWorkspaceHasBackup'
    BY DEF BackupInv, TornWorkspaceHasBackup, BackupIsExact
<1>2. ASSUME NEW p \in Procs
      PROVE  BackupHeld(p)'
    BY <1>2 DEF BackupInv, BackupHeld, HasBackup, BackupIsExact, Merging
<1> QED BY <1>1, <1>2 DEF BackupInv

LEMMA BackupNext == TypeOK /\ LockInv /\ BackupInv /\ [Next]_vars => BackupInv'
<1> SUFFICES ASSUME TypeOK, LockInv, BackupInv, [Next]_vars PROVE BackupInv'
    OBVIOUS
<1>1. ASSUME NEW p \in Procs, NEW r \in Runs, TakeRunLock(p, r)
      PROVE  BackupInv'
  <2>1. TornWorkspaceHasBackup'
      BY <1>1 DEF TakeRunLock, BackupInv, TornWorkspaceHasBackup, BackupIsExact
  <2>2. ASSUME NEW q \in Procs
        PROVE  BackupHeld(q)'
      BY <1>1, <2>2 DEF TakeRunLock, TypeOK, BackupInv, BackupHeld, HasBackup, BackupIsExact, Merging
  <2> QED BY <2>1, <2>2 DEF BackupInv
<1>2. ASSUME NEW p \in Procs, TakeWorkspaceLock(p)
      PROVE  BackupInv'
    BY <1>2, BackupElsewhere DEF TakeWorkspaceLock, TypeOK
<1>3. ASSUME NEW p \in Procs, Step(p)
      PROVE  BackupInv'
    BY <1>3, BackupStep
<1>4. ASSUME NEW p \in Procs, Fault(p)
      PROVE  BackupInv'
  <2>1. CASE pc[p] \in Critical
      BY <1>4, <2>1, FaultAdvances, FaultKeepsBackup, BackupOfOne
  <2>2. CASE pc[p] \notin Critical
    <3>1. Crash(p)
        BY <1>4, <2>2 DEF Fault, ErrorBeforeMerge, ErrorInMerge, ErrorInReceipt, ErrorInRestore,
                          CrashInBackupCopy, CrashInWrite, Writing, Critical
    <3> QED BY <3>1, BackupElsewhere DEF Crash, Killed, TypeOK
  <2> QED BY <2>1, <2>2
<1>5. ASSUME NEW f \in Paths, NEW c \in Contents \union {Absent}, Edit(f, c)
      PROVE  BackupInv'
    BY <1>5, BackupElsewhere DEF Edit
<1>6. CASE RemoveLitter
    BY <1>6, BackupElsewhere DEF RemoveLitter
<1>7. CASE UNCHANGED vars
    BY <1>7, BackupElsewhere DEF vars
<1> QED BY <1>1, <1>2, <1>3, <1>4, <1>5, <1>6, <1>7 DEF Next

LEMMA BackupInit == Init => BackupInv
    BY DataAssumption DEF DataAssumption, Init, BackupInv, BackupHeld, TornWorkspaceHasBackup, Merging

\* For any number of commands, crashes, errors and rebuilt backups, a run
\* whose merge may be half done has an exact backup of what was there.
THEOREM TornWorkspaceIsBackedUp == Spec => []TornWorkspaceHasBackup
<1>1. BackupInv => TornWorkspaceHasBackup
    BY DEF BackupInv
<1> QED BY <1>1, LockInit, LockNext, BackupInit, BackupNext, TypeCorrect, PTL DEF Spec

-----------------------------------------------------------------------------
(***************************************************************************)
(* The contents: while a run is in flight the workspace holds nothing but  *)
(* what the two snapshots of that run record, races apart.                 *)
(***************************************************************************)
Known(p, f) == ws[f] \in {Before(p)[f], After(p)[f]} \/ f \in raced[p]

ContentHeld(p) ==
    /\ pc[p] \in Merging => \A f \in Paths : Known(p, f)
    /\ pc[p] \in {"receipting", "resealing"} =>
          \A f \in Paths : ws[f] = After(p)[f] \/ f \in raced[p]
    /\ pc[p] = "unlinking" => todo[p] \subseteq AddedOnly(p)

InflightKnown ==
    edits = 0 => \A r \in Runs : inflight = r =>
        \A f \in Paths : ws[f] \in {evidence[r].before[f], evidence[r].after[f]}

ContentInv == InflightKnown /\ \A p \in Procs : ContentHeld(p)

\* A step of p changes a file only while p merges or restores, and only to
\* the content one of its two snapshots records.
WritesOwn(p) ==
    \A f \in Paths : ws'[f] # ws[f] =>
        pc[p] \in Merging /\ ws'[f] \in {Before(p)[f], After(p)[f]}

LEMMA CheckWritesOwn ==
    ASSUME TypeOK, BackupInv, ContentInv, NEW p \in Procs, Check(p)
    PROVE  WritesOwn(p)
<1> USE PathSets
    DEF TypeOK, WritesOwn, Snapshots, BackupInv, BackupHeld, ContentInv, ContentHeld, Merging,
        HasBackup, BackupIsExact, Before, After
<1>1. CASE AlreadyApplied(p)
    BY <1>1 DEF AlreadyApplied
<1>2. CASE RefuseReceipt(p)
    BY <1>2 DEF RefuseReceipt
<1>3. CASE RefuseDeletion(p)
    BY <1>3 DEF RefuseDeletion
<1>4. CASE RefuseDrift(p)
    BY <1>4 DEF RefuseDrift
<1>5. CASE StartBackup(p)
    BY <1>5 DEF StartBackup
<1>6. CASE ReplaceBackup(p)
    BY <1>6 DEF ReplaceBackup
<1>7. CASE ReuseBackup(p)
    BY <1>7 DEF ReuseBackup
<1>8. CASE Reseal(p)
    BY <1>8 DEF Reseal
<1>9. CASE Recover(p)
    BY <1>9 DEF Recover
<1> QED BY <1>1, <1>2, <1>3, <1>4, <1>5, <1>6, <1>7, <1>8, <1>9 DEF Check

LEMMA BackupWritesOwn ==
    ASSUME TypeOK, BackupInv, ContentInv, NEW p \in Procs, Backup(p)
    PROVE  WritesOwn(p)
<1> USE PathSets
    DEF TypeOK, WritesOwn, Snapshots, BackupInv, BackupHeld, ContentInv, ContentHeld, Merging,
        HasBackup, BackupIsExact, Before, After
<1>1. CASE RemoveBackupFile(p)
    BY <1>1 DEF RemoveBackupFile
<1>2. CASE RecreateBackup(p)
    BY <1>2 DEF RecreateBackup
<1>3. CASE CopyToBackup(p)
    BY <1>3 DEF CopyToBackup
<1>4. CASE BackupFails(p)
    BY <1>4 DEF BackupFails
<1>5. CASE BackupDone(p)
    BY <1>5 DEF BackupDone
<1> QED BY <1>1, <1>2, <1>3, <1>4, <1>5 DEF Backup

LEMMA MergeWritesOwn ==
    ASSUME TypeOK, BackupInv, ContentInv, NEW p \in Procs, Merge(p)
    PROVE  WritesOwn(p)
<1> USE PathSets
    DEF TypeOK, WritesOwn, Snapshots, BackupInv, BackupHeld, ContentInv, ContentHeld, Merging,
        HasBackup, BackupIsExact, Before, After
<1>1. CASE BeginMerge(p)
    BY <1>1 DEF BeginMerge
<1>2. CASE RefuseLateDrift(p)
    BY <1>2 DEF RefuseLateDrift
<1>3. CASE ApplyDelete(p)
    BY <1>3 DEF ApplyDelete
<1>4. CASE ApplyWrite(p)
    BY <1>4 DEF ApplyWrite
<1>5. CASE ApplyRefused(p)
    BY <1>5 DEF ApplyRefused
<1>6. CASE MergeVerified(p)
    BY <1>6 DEF MergeVerified
<1>7. CASE MergeMismatch(p)
    BY <1>7 DEF MergeMismatch
<1>8. CASE WriteReceipt(p)
    BY <1>8 DEF WriteReceipt
<1> QED BY <1>1, <1>2, <1>3, <1>4, <1>5, <1>6, <1>7, <1>8 DEF Merge

LEMMA RestoreSnapshotWritesOwn ==
    ASSUME TypeOK, BackupInv, ContentInv, NEW p \in Procs, RestoreSnapshot(p)
    PROVE  WritesOwn(p)
<1> USE PathSets
    DEF TypeOK, WritesOwn, Snapshots, BackupInv, BackupHeld, ContentInv, ContentHeld, Merging,
        HasBackup, BackupIsExact, Before, After
<1>1. CASE UnlinkAdded(p)
    BY <1>1 DEF UnlinkAdded, AddedOnly, Last
<1>2. CASE UnlinkedAll(p)
    BY <1>2 DEF UnlinkedAll
<1>3. CASE RewriteFile(p)
    BY <1>3 DEF RewriteFile
<1>4. CASE RewriteRefused(p)
    BY <1>4 DEF RewriteRefused
<1>5. CASE RolledBack(p)
    BY <1>5 DEF RolledBack
<1>6. CASE Recovered(p)
    BY <1>6 DEF Recovered
<1>7. CASE NotRestored(p)
    BY <1>7 DEF NotRestored
<1> QED BY <1>1, <1>2, <1>3, <1>4, <1>5, <1>6, <1>7 DEF RestoreSnapshot

LEMMA FaultWritesOwn ==
    ASSUME TypeOK, BackupInv, ContentInv, NEW p \in Procs, Fault(p)
    PROVE  WritesOwn(p)
<1> USE PathSets
    DEF TypeOK, WritesOwn, Snapshots, BackupInv, BackupHeld, ContentInv, ContentHeld, Merging,
        HasBackup, BackupIsExact, Before, After
<1>1. CASE ErrorBeforeMerge(p)
    BY <1>1 DEF ErrorBeforeMerge
<1>2. CASE ErrorInMerge(p)
    BY <1>2 DEF ErrorInMerge, Installed, First
<1>3. CASE ErrorInReceipt(p)
    BY <1>3 DEF ErrorInReceipt
<1>4. CASE ErrorInRestore(p)
    BY <1>4 DEF ErrorInRestore, Installed, First
<1>5. CASE Crash(p)
    BY <1>5 DEF Crash
<1>6. CASE CrashInBackupCopy(p)
    BY <1>6 DEF CrashInBackupCopy
<1>7. CASE CrashInWrite(p)
    BY <1>7 DEF CrashInWrite, Writing, First
<1> QED BY <1>1, <1>2, <1>3, <1>4, <1>5, <1>6, <1>7 DEF Fault

LEMMA CheckKeepsContent ==
    ASSUME TypeOK, BackupInv, ContentInv, NEW p \in Procs, Check(p)
    PROVE  ContentHeld(p)' /\ InflightKnown'
<1>0. WritesOwn(p)
    BY CheckWritesOwn
<1> USE <1>0, PathSets, DataAssumption
    DEF DataAssumption, TypeOK, WritesOwn, BackupInv, BackupHeld, ContentInv, ContentHeld,
        InflightKnown, Known, Merging, Critical, Permitted, GoTo, Done, Leave, Restore,
        Before, After, AddedOnly
<1>1. CASE AlreadyApplied(p)
    BY <1>1 DEF AlreadyApplied
<1>2. CASE RefuseReceipt(p)
    BY <1>2 DEF RefuseReceipt
<1>3. CASE RefuseDeletion(p)
    BY <1>3 DEF RefuseDeletion
<1>4. CASE RefuseDrift(p)
    BY <1>4 DEF RefuseDrift
<1>5. CASE StartBackup(p)
    BY <1>5 DEF StartBackup
<1>6. CASE ReplaceBackup(p)
    BY <1>6 DEF ReplaceBackup
<1>7. CASE ReuseBackup(p)
    BY <1>7 DEF ReuseBackup
<1>8. CASE Reseal(p)
    BY <1>8 DEF Reseal, IsMerged, Matches
<1>9. CASE Recover(p)
    BY <1>9 DEF Recover, MayRecover, IsInterrupted, Look
<1> QED BY <1>1, <1>2, <1>3, <1>4, <1>5, <1>6, <1>7, <1>8, <1>9 DEF Check

LEMMA BackupKeepsContent ==
    ASSUME TypeOK, BackupInv, ContentInv, NEW p \in Procs, Backup(p)
    PROVE  ContentHeld(p)' /\ InflightKnown'
<1>0. WritesOwn(p)
    BY BackupWritesOwn
<1> USE <1>0, PathSets, DataAssumption
    DEF DataAssumption, TypeOK, WritesOwn, BackupInv, BackupHeld, ContentInv, ContentHeld,
        InflightKnown, Known, Merging, Critical, GoTo, Done, Leave, Restore,
        Before, After, AddedOnly
<1>1. CASE RemoveBackupFile(p)
    BY <1>1 DEF RemoveBackupFile
<1>2. CASE RecreateBackup(p)
    BY <1>2 DEF RecreateBackup
<1>3. CASE CopyToBackup(p)
    BY <1>3 DEF CopyToBackup
<1>4. CASE BackupFails(p)
    BY <1>4 DEF BackupFails
<1>5. CASE BackupDone(p)
    BY <1>5 DEF BackupDone
<1> QED BY <1>1, <1>2, <1>3, <1>4, <1>5 DEF Backup

LEMMA MergeKeepsContent ==
    ASSUME TypeOK, BackupInv, ContentInv, NEW p \in Procs, Merge(p)
    PROVE  ContentHeld(p)' /\ InflightKnown'
<1>0. WritesOwn(p)
    BY MergeWritesOwn
<1> USE <1>0, PathSets, DataAssumption
    DEF DataAssumption, TypeOK, WritesOwn, BackupInv, BackupHeld, ContentInv, ContentHeld,
        InflightKnown, Known, Merging, Critical, GoTo, Done, Leave, Restore,
        Before, After, AddedOnly
<1>1. CASE BeginMerge(p)
    BY <1>1 DEF BeginMerge, Matches
<1>2. CASE RefuseLateDrift(p)
    BY <1>2 DEF RefuseLateDrift
<1>3. CASE ApplyDelete(p)
    BY <1>3 DEF ApplyDelete
<1>4. CASE ApplyWrite(p)
    BY <1>4 DEF ApplyWrite
<1>5. CASE ApplyRefused(p)
    BY <1>5 DEF ApplyRefused
<1>6. CASE MergeVerified(p)
    BY <1>6 DEF MergeVerified, Matches
<1>7. CASE MergeMismatch(p)
    BY <1>7 DEF MergeMismatch
<1>8. CASE WriteReceipt(p)
    BY <1>8 DEF WriteReceipt
<1> QED BY <1>1, <1>2, <1>3, <1>4, <1>5, <1>6, <1>7, <1>8 DEF Merge

LEMMA RestoreSnapshotKeepsContent ==
    ASSUME TypeOK, BackupInv, ContentInv, NEW p \in Procs, RestoreSnapshot(p)
    PROVE  ContentHeld(p)' /\ InflightKnown'
<1>0. WritesOwn(p)
    BY RestoreSnapshotWritesOwn
<1> USE <1>0, PathSets, DataAssumption
    DEF DataAssumption, TypeOK, WritesOwn, BackupInv, BackupHeld, ContentInv, ContentHeld,
        InflightKnown, Known, Merging, Critical, GoTo, Done, Leave, Restore,
        Before, After, AddedOnly
<1>1. CASE UnlinkAdded(p)
    BY <1>1 DEF UnlinkAdded, Last
<1>2. CASE UnlinkedAll(p)
    BY <1>2 DEF UnlinkedAll
<1>3. CASE RewriteFile(p)
    BY <1>3 DEF RewriteFile
<1>4. CASE RewriteRefused(p)
    BY <1>4 DEF RewriteRefused
<1>5. CASE RolledBack(p)
    BY <1>5 DEF RolledBack
<1>6. CASE Recovered(p)
    BY <1>6 DEF Recovered
<1>7. CASE NotRestored(p)
    BY <1>7 DEF NotRestored
<1> QED BY <1>1, <1>2, <1>3, <1>4, <1>5, <1>6, <1>7 DEF RestoreSnapshot

LEMMA FaultKeepsContent ==
    ASSUME TypeOK, BackupInv, ContentInv, NEW p \in Procs, Fault(p)
    PROVE  ContentHeld(p)' /\ InflightKnown'
<1>0. WritesOwn(p)
    BY FaultWritesOwn
<1> USE <1>0, PathSets, DataAssumption
    DEF DataAssumption, TypeOK, WritesOwn, BackupInv, BackupHeld, ContentInv, ContentHeld,
        InflightKnown, Known, Merging, Critical, CanError, Killed, GoTo, Done, Leave, Restore,
        Before, After, AddedOnly
<1>1. CASE ErrorBeforeMerge(p)
    BY <1>1 DEF ErrorBeforeMerge
<1>2. CASE ErrorInMerge(p)
    BY <1>2 DEF ErrorInMerge
<1>3. CASE ErrorInReceipt(p)
    BY <1>3 DEF ErrorInReceipt
<1>4. CASE ErrorInRestore(p)
    BY <1>4 DEF ErrorInRestore
<1>5. CASE Crash(p)
    BY <1>5 DEF Crash
<1>6. CASE CrashInBackupCopy(p)
    BY <1>6 DEF CrashInBackupCopy
<1>7. CASE CrashInWrite(p)
    BY <1>7 DEF CrashInWrite
<1> QED BY <1>1, <1>2, <1>3, <1>4, <1>5, <1>6, <1>7 DEF Fault

LEMMA StepWritesOwn ==
    ASSUME TypeOK, BackupInv, ContentInv, NEW p \in Procs, Step(p) \/ Fault(p)
    PROVE  WritesOwn(p)
    BY CheckWritesOwn, BackupWritesOwn, MergeWritesOwn, RestoreSnapshotWritesOwn, FaultWritesOwn
       DEF Step

LEMMA StepKeepsContent ==
    ASSUME TypeOK, BackupInv, ContentInv, NEW p \in Procs, Step(p) \/ Fault(p)
    PROVE  ContentHeld(p)' /\ InflightKnown'
    BY CheckKeepsContent, BackupKeepsContent, MergeKeepsContent, RestoreSnapshotKeepsContent,
       FaultKeepsContent DEF Step

LEMMA ContentNext ==
    TypeOK /\ LockInv /\ BackupInv /\ ContentInv /\ [Next]_vars => ContentInv'
<1> SUFFICES ASSUME TypeOK, LockInv, BackupInv, ContentInv, [Next]_vars PROVE ContentInv'
    OBVIOUS
<1> USE DEF ContentInv
<1>1. ASSUME NEW p \in Procs, NEW r \in Runs, TakeRunLock(p, r)
      PROVE  ContentInv'
  <2>1. InflightKnown'
      BY <1>1 DEF TakeRunLock, InflightKnown
  <2>2. ASSUME NEW q \in Procs
        PROVE  ContentHeld(q)'
      BY <1>1, <2>2 DEF TakeRunLock, TypeOK, ContentHeld, Known, Before, After, AddedOnly, Merging
  <2> QED BY <2>1, <2>2
<1>2. ASSUME NEW p \in Procs, TakeWorkspaceLock(p)
      PROVE  ContentInv'
  <2>1. InflightKnown'
      BY <1>2 DEF TakeWorkspaceLock, InflightKnown
  <2>2. ASSUME NEW q \in Procs
        PROVE  ContentHeld(q)'
      BY <1>2, <2>2 DEF TakeWorkspaceLock, TypeOK, ContentHeld, Known, Before, After, AddedOnly, Merging
  <2> QED BY <2>1, <2>2
<1>3. ASSUME NEW p \in Procs, Step(p) \/ Fault(p)
      PROVE  ContentInv'
  <2>1. ContentHeld(p)' /\ InflightKnown'
      BY <1>3, StepKeepsContent
  <2>2. ASSUME NEW q \in Procs, q # p
        PROVE  ContentHeld(q)'
    <3>1. pc[p] # "idle" /\ Advances(p)
        BY <1>3, StepAdvances, FaultAdvances DEF Critical
    <3>2. CASE pc[p] \in Critical
      <4>1. pc'[q] = pc[q] /\ pc[q] \notin Critical
          BY <3>1, <3>2, <2>2, OthersAreOutside
      <4> QED BY <4>1 DEF ContentHeld, Merging, Critical
    <3>3. CASE pc[p] \notin Critical
      <4>1. Crash(p)
          BY <1>3, <3>3, StepAdvances
             DEF Fault, ErrorBeforeMerge, ErrorInMerge, ErrorInReceipt, ErrorInRestore,
                 CrashInBackupCopy, CrashInWrite, Writing, Critical
      <4> QED BY <4>1, <2>2 DEF Crash, Killed, Look, TypeOK, ContentHeld, Known, Before, After, AddedOnly
    <3> QED BY <3>2, <3>3
  <2> QED BY <2>1, <2>2
<1>4. ASSUME NEW f \in Paths, NEW c \in Contents \union {Absent}, Edit(f, c)
      PROVE  ContentInv'
  <2>1. edits' # 0
      BY <1>4 DEF Edit, TypeOK
  <2>2. ASSUME NEW q \in Procs
        PROVE  ContentHeld(q)'
      BY <1>4, <2>2 DEF Edit, TypeOK, Snapshots, ContentHeld, Known, Before, After, AddedOnly, Merging
  <2> QED BY <2>1, <2>2 DEF InflightKnown
<1>5. CASE RemoveLitter
  <2>1. edits' # 0
      BY <1>5 DEF RemoveLitter, TypeOK
  <2>2. ASSUME NEW q \in Procs
        PROVE  ContentHeld(q)'
      BY <1>5, <2>2 DEF RemoveLitter, ContentHeld, Known, Before, After, AddedOnly
  <2> QED BY <2>1, <2>2 DEF InflightKnown
<1>6. CASE UNCHANGED vars
    BY <1>6 DEF vars, InflightKnown, ContentHeld, Known, Before, After, AddedOnly
<1> QED BY <1>1, <1>2, <1>3, <1>4, <1>5, <1>6 DEF Next

LEMMA ContentInit == Init => ContentInv
    BY DataAssumption DEF DataAssumption, Init, ContentInv, ContentHeld, InflightKnown, Merging

LEMMA Invariants == Spec => [](TypeOK /\ LockInv /\ BackupInv /\ ContentInv)
    BY LockInit, LockNext, BackupInit, BackupNext, ContentInit, ContentNext, TypeCorrect, PTL
    DEF Spec

-----------------------------------------------------------------------------
\* Nothing but an edit or a leftover temporary file can hide an interrupted
\* merge from the next apply.
THEOREM CrashesAreRecognised == Spec => []CrashStatesAreRecognised
<1>1. ContentInv => CrashStatesAreRecognised
    BY DEF ContentInv, InflightKnown, CrashStatesAreRecognised, IsInterrupted
<1> QED BY <1>1, Invariants, PTL

\* No command overwrites or removes a file it cannot account for.
THEOREM DriftIsSafe == Spec => DriftIsNotOverwritten
<1> DEFINE Safe == \A p \in Procs, f \in Paths :
              todo'[p] # todo[p] /\ ws'[f] # ws[f] =>
                  ws[f] \in {Before(p)[f], After(p)[f]} \/ f \in raced[p]
<1>1. TypeOK /\ LockInv /\ BackupInv /\ ContentInv /\ [Next]_vars => [Safe]_vars
  <2> SUFFICES ASSUME TypeOK, LockInv, BackupInv, ContentInv, Next,
                      NEW p \in Procs, NEW f \in Paths, todo'[p] # todo[p], ws'[f] # ws[f]
               PROVE  ws[f] \in {Before(p)[f], After(p)[f]} \/ f \in raced[p]
      OBVIOUS
  <2>1. Step(p) \/ Fault(p)
    <3>1. ASSUME NEW q \in Procs, Step(q) \/ Fault(q)
          PROVE  q = p
        BY <3>1, StepAdvances, FaultAdvances DEF Advances
    <3> QED BY <3>1 DEF Next, TakeRunLock, TakeWorkspaceLock, Edit, RemoveLitter
  <2>2. pc[p] \in Merging
      BY <2>1, StepWritesOwn DEF WritesOwn
  <2> QED BY <2>2 DEF ContentInv, ContentHeld, Known
<1> QED BY <1>1, Invariants, PTL DEF Spec, DriftIsNotOverwritten

-----------------------------------------------------------------------------
\* Only two branches report "merged".
Reports(p) == outcome[p] # "merged" /\ outcome'[p] = "merged"

LEMMA CheckReports ==
    ASSUME TypeOK, NEW p \in Procs, Check(p), Reports(p)
    PROVE  AlreadyApplied(p)
<1> USE DEF TypeOK, Reports, Permitted, GoTo, Done, Leave, Restore
<1>1. CASE AlreadyApplied(p)
    BY <1>1 DEF AlreadyApplied
<1>2. CASE RefuseReceipt(p)
    BY <1>2 DEF RefuseReceipt
<1>3. CASE RefuseDeletion(p)
    BY <1>3 DEF RefuseDeletion
<1>4. CASE RefuseDrift(p)
    BY <1>4 DEF RefuseDrift
<1>5. CASE StartBackup(p)
    BY <1>5 DEF StartBackup
<1>6. CASE ReplaceBackup(p)
    BY <1>6 DEF ReplaceBackup
<1>7. CASE ReuseBackup(p)
    BY <1>7 DEF ReuseBackup
<1>8. CASE Reseal(p)
    BY <1>8 DEF Reseal
<1>9. CASE Recover(p)
    BY <1>9 DEF Recover
<1> QED BY <1>1, <1>2, <1>3, <1>4, <1>5, <1>6, <1>7, <1>8, <1>9 DEF Check

LEMMA BackupReports ==
    ASSUME TypeOK, NEW p \in Procs, Backup(p), Reports(p)
    PROVE  FALSE
<1> USE DEF TypeOK, Reports, GoTo, Done, Leave, Restore
<1>1. CASE RemoveBackupFile(p)
    BY <1>1 DEF RemoveBackupFile
<1>2. CASE RecreateBackup(p)
    BY <1>2 DEF RecreateBackup
<1>3. CASE CopyToBackup(p)
    BY <1>3 DEF CopyToBackup
<1>4. CASE BackupFails(p)
    BY <1>4 DEF BackupFails
<1>5. CASE BackupDone(p)
    BY <1>5 DEF BackupDone
<1> QED BY <1>1, <1>2, <1>3, <1>4, <1>5 DEF Backup

LEMMA MergeReports ==
    ASSUME TypeOK, NEW p \in Procs, Merge(p), Reports(p)
    PROVE  WriteReceipt(p)
<1> USE DEF TypeOK, Reports, GoTo, Done, Leave, Restore
<1>1. CASE BeginMerge(p)
    BY <1>1 DEF BeginMerge
<1>2. CASE RefuseLateDrift(p)
    BY <1>2 DEF RefuseLateDrift
<1>3. CASE ApplyDelete(p)
    BY <1>3 DEF ApplyDelete
<1>4. CASE ApplyWrite(p)
    BY <1>4 DEF ApplyWrite
<1>5. CASE ApplyRefused(p)
    BY <1>5 DEF ApplyRefused
<1>6. CASE MergeVerified(p)
    BY <1>6 DEF MergeVerified
<1>7. CASE MergeMismatch(p)
    BY <1>7 DEF MergeMismatch
<1>8. CASE WriteReceipt(p)
    BY <1>8 DEF WriteReceipt
<1> QED BY <1>1, <1>2, <1>3, <1>4, <1>5, <1>6, <1>7, <1>8 DEF Merge

LEMMA RestoreSnapshotReports ==
    ASSUME TypeOK, NEW p \in Procs, RestoreSnapshot(p), Reports(p)
    PROVE  FALSE
<1> USE DEF TypeOK, Reports, GoTo, Done, Leave, Restore
<1>1. CASE UnlinkAdded(p)
    BY <1>1 DEF UnlinkAdded
<1>2. CASE UnlinkedAll(p)
    BY <1>2 DEF UnlinkedAll
<1>3. CASE RewriteFile(p)
    BY <1>3 DEF RewriteFile
<1>4. CASE RewriteRefused(p)
    BY <1>4 DEF RewriteRefused
<1>5. CASE RolledBack(p)
    BY <1>5 DEF RolledBack
<1>6. CASE Recovered(p)
    BY <1>6 DEF Recovered
<1>7. CASE NotRestored(p)
    BY <1>7 DEF NotRestored
<1> QED BY <1>1, <1>2, <1>3, <1>4, <1>5, <1>6, <1>7 DEF RestoreSnapshot

LEMMA FaultReports ==
    ASSUME TypeOK, NEW p \in Procs, Fault(p), Reports(p)
    PROVE  FALSE
<1> USE DEF TypeOK, Reports, CanError, Killed, GoTo, Done, Leave, Restore
<1>1. CASE ErrorBeforeMerge(p)
    BY <1>1 DEF ErrorBeforeMerge
<1>2. CASE ErrorInMerge(p)
    BY <1>2 DEF ErrorInMerge
<1>3. CASE ErrorInReceipt(p)
    BY <1>3 DEF ErrorInReceipt
<1>4. CASE ErrorInRestore(p)
    BY <1>4 DEF ErrorInRestore
<1>5. CASE Crash(p)
    BY <1>5 DEF Crash
<1>6. CASE CrashInBackupCopy(p)
    BY <1>6 DEF CrashInBackupCopy
<1>7. CASE CrashInWrite(p)
    BY <1>7 DEF CrashInWrite
<1> QED BY <1>1, <1>2, <1>3, <1>4, <1>5, <1>6, <1>7 DEF Fault

\* "merged" is never reported of an unverified workspace.
THEOREM MergedIsVerified == Spec => MergedMeansVerified
<1> DEFINE Verified(p) ==
              /\ receipt'[run[p]]
              /\ \A f \in Paths : ws'[f] = After(p)[f] \/ f \in raced[p]
<1>1. TypeOK /\ LockInv /\ BackupInv /\ ContentInv /\ [Next]_vars
          => [\A p \in Procs : Reports(p) => Verified(p)]_vars
  <2> SUFFICES ASSUME TypeOK, LockInv, ContentInv, Next, NEW p \in Procs, Reports(p)
               PROVE  Verified(p)
      OBVIOUS
  <2>1. Step(p) \/ Fault(p)
    <3>1. ASSUME NEW q \in Procs, Step(q) \/ Fault(q)
          PROVE  q = p
        BY <3>1, StepAdvances, FaultAdvances DEF Advances, Reports
    <3>2. ASSUME NEW q \in Procs, NEW r \in Runs, TakeRunLock(q, r)
          PROVE  FALSE
        BY <3>2 DEF TakeRunLock, TypeOK, Reports
    <3> QED BY <3>1, <3>2 DEF Next, TakeWorkspaceLock, Edit, RemoveLitter, Reports
  <2>2. AlreadyApplied(p) \/ WriteReceipt(p)
      BY <2>1, CheckReports, BackupReports, MergeReports, RestoreSnapshotReports, FaultReports DEF Step
  <2>3. CASE AlreadyApplied(p)
      BY <2>3 DEF AlreadyApplied, ReceiptHolds, Matches, Snapshots
  <2>4. CASE WriteReceipt(p)
    <3>1. \A f \in Paths : ws'[f] = After(p)[f] \/ f \in raced[p]
        BY <2>4 DEF WriteReceipt, ContentInv, ContentHeld
    <3>2. receipt'[run[p]]
        BY <2>4 DEF WriteReceipt, TypeOK
    <3> QED BY <3>1, <3>2
  <2> QED BY <2>2, <2>3, <2>4
<1> QED BY <1>1, Invariants, PTL DEF Spec, MergedMeansVerified, Reports
=============================================================================
