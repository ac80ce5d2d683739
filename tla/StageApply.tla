----------------------------- MODULE StageApply -----------------------------
(***************************************************************************)
(* The staged apply transaction of conductor_runtime/core/staged.py:       *)
(* "conductor apply" copies the verified result of a completed run from    *)
(* its private stage into the user's workspace.  Several processes apply   *)
(* several runs to one workspace; each may raise, be killed, or race an    *)
(* editor.  One action is one file operation, so a crash can fall between  *)
(* any two of them.                                                        *)
(*                                                                         *)
(* A path is a number, ordered as the code's sorted() orders path strings; *)
(* Dir[f] is the path of the directory that holds f, or Root.  A content   *)
(* stands for the (sha256, size, mode) record of a file.                   *)
(***************************************************************************)
EXTENDS Naturals

CONSTANTS Procs,       \* apply commands that may be running
          Runs,        \* completed runs, all staged from this workspace
          NumPaths,    \* the paths that may exist are 1..NumPaths
          Dir,         \* [1..NumPaths -> 0..NumPaths], parent directory
          Contents,    \* file contents (with mode)
          Stages,      \* the [before, after] snapshot pairs of a run's evidence
          MayDelete,   \* processes started with --allow-destructive and approval
          SyncFails,   \* may the directory fsync after an install raise?
          MaxCrashes, MaxErrors, MaxEdits,   \* bounds on the environment
          Absent, Nobody

Root  == 0
Paths == 1..NumPaths

(***************************************************************************)
(* A snapshot records regular files only: an empty directory is invisible. *)
(* Tree requires that nothing is both a file and the directory of a file.  *)
(***************************************************************************)
Snapshots == [Paths -> Contents \union {Absent}]
Tree(t)   == \A f \in Paths : t[f] # Absent /\ Dir[f] # Root => t[Dir[f]] = Absent
Files(t)  == {f \in Paths : t[f] # Absent}
DirsOf(t) == {Dir[f] : f \in Files(t)} \ {Root}

ASSUME PathAssumption ==
    /\ NumPaths \in Nat
    /\ Dir \in [Paths -> 0..NumPaths]
    /\ \A f \in Paths : Dir[f] < f
    /\ \A f \in Paths : Dir[f] # Root => Dir[Dir[f]] = Root

ASSUME DataAssumption ==
    /\ Absent \notin Contents
    /\ Nobody \notin Procs \union Runs
    /\ Stages \subseteq [before : Snapshots, after : Snapshots]
    /\ \A s \in Stages : Tree(s.before) /\ Tree(s.after)

ASSUME BoundAssumption ==
    /\ SyncFails \in BOOLEAN
    /\ MaxCrashes \in Nat /\ MaxErrors \in Nat /\ MaxEdits \in Nat

VARIABLES
    evidence,    \* [Runs -> Stages]: the recorded, verified stage evidence
    ws,          \* the workspace's files
    dirs,        \* the paths that are directories, possibly empty ones
    litter,      \* a temporary ".name.xxxx" left in the workspace by a crash
    backupDir,   \* does apply-backups/<step> exist?
    backup,      \* its files
    backupJunk,  \* a temporary file left in it by a crash
    receipt,     \* does the "merged" apply receipt exist?
    runLock, wsLock,    \* the two flocks: their holder or Nobody
    pc, run, todo, cause,   \* each process: where, which run, paths left, why it restores
    outcome,     \* how its last invocation ended
    inflight,    \* history: the run whose merge or restore is under way in ws
    raced,       \* history: paths edited since a process last compared ws
    crashes, errors, edits

disk  == <<ws, dirs, litter>>
store == <<backupDir, backup, backupJunk, receipt>>
locks == <<runLock, wsLock>>
procs == <<pc, run, todo, cause, outcome>>
env   == <<crashes, errors, edits>>
vars  == <<evidence, disk, store, locks, procs, inflight, raced, env>>

Before(p)  == evidence[run[p]].before
After(p)   == evidence[run[p]].after
Changed(p) == {f \in Paths : Before(p)[f] # After(p)[f]}
NothingAdded(p) == {}    \* mutant: a rollback that forgets the added files
AddedOnly(p) == {f \in Paths : Before(p)[f] = Absent /\ After(p)[f] # Absent}
Destructive(p) == \E f \in Paths : Before(p)[f] # Absent /\ After(p)[f] = Absent

\* The first or last path of a sorted list that is still to be handled.
First(S) == {f \in S : \A g \in S : f <= g}
Last(S)  == {f \in S : \A g \in S : f >= g}

\* Equal fingerprints: every file equal and no file beside them.
Matches(t) == ws = t /\ ~litter

BackupIsExact(r) == backup[r] = evidence[r].before /\ ~backupJunk[r]

\* mutant: a missing file is never part of an interruption
IsInterruptedInPlace(r) ==
    /\ ~litter
    /\ \A f \in Paths : \/ ws[f] = evidence[r].before[f]
                        \/ ws[f] = evidence[r].after[f] /\ ws[f] # Absent

\* _is_interrupted_snapshot: each path holds its before or its after record;
\* it may be missing only if one of the two lacks it.
IsInterrupted(r) ==
    /\ ~litter
    /\ \A f \in Paths : ws[f] \in {evidence[r].before[f], evidence[r].after[f]}

\* What _write_bytes demands of a destination: replace refuses a directory,
\* ensure_directory a parent that is a file.
CanWrite(f) == f \notin dirs /\ (Dir[f] # Root => ws[Dir[f]] = Absent)

\* mutant: the workspace root itself is recorded
MakeEveryParent(f) == dirs' = dirs \union {Dir[f]}
MakeParent(f) == dirs' = dirs \union ({Dir[f]} \ {Root})

Critical == {"checking", "clearing", "copying", "ready", "applying",
             "receipting", "resealing", "unlinking", "rewriting"}

TypeOK ==
    /\ evidence \in [Runs -> Stages]
    /\ ws \in Snapshots /\ dirs \subseteq Paths /\ litter \in BOOLEAN
    /\ backupDir \in [Runs -> BOOLEAN]
    /\ backup \in [Runs -> Snapshots]
    /\ backupJunk \in [Runs -> BOOLEAN]
    /\ receipt \in [Runs -> BOOLEAN]
    /\ runLock \in [Runs -> Procs \union {Nobody}]
    /\ wsLock \in Procs \union {Nobody}
    /\ pc \in [Procs -> Critical \union {"idle", "waiting"}]
    /\ run \in [Procs -> Runs]
    /\ todo \in [Procs -> SUBSET Paths]
    /\ cause \in [Procs -> {"recovery", "rollback"}]
    /\ outcome \in [Procs -> {"none", "merged", "rejected", "rolled_back",
                              "unrestored", "crashed"}]
    /\ inflight \in Runs \union {Nobody}
    /\ raced \in [Procs -> SUBSET Paths]
    /\ crashes \in 0..MaxCrashes /\ errors \in 0..MaxErrors /\ edits \in 0..MaxEdits

Init ==
    /\ evidence \in [Runs -> Stages]
    /\ \E s \in Stages : ws = s.before /\ dirs = DirsOf(s.before)
    /\ litter = FALSE
    /\ backupDir = [r \in Runs |-> FALSE]
    /\ backup = [r \in Runs |-> [f \in Paths |-> Absent]]
    /\ backupJunk = [r \in Runs |-> FALSE]
    /\ receipt = [r \in Runs |-> FALSE]
    /\ runLock = [r \in Runs |-> Nobody] /\ wsLock = Nobody
    /\ pc = [p \in Procs |-> "idle"]
    /\ run \in {[p \in Procs |-> r] : r \in Runs}
    /\ todo = [p \in Procs |-> {}]
    /\ cause = [p \in Procs |-> "rollback"]
    /\ outcome = [p \in Procs |-> "none"]
    /\ inflight = Nobody
    /\ raced = [p \in Procs |-> {}]
    /\ crashes = 0 /\ errors = 0 /\ edits = 0

-----------------------------------------------------------------------------
(***************************************************************************)
(* Control-flow building blocks.                                           *)
(***************************************************************************)
\* A snapshot of the workspace: earlier edits are now seen, not raced.
Look(p) == raced' = [raced EXCEPT ![p] = {}]

GoTo(p, label, left) ==
    /\ pc' = [pc EXCEPT ![p] = label]
    /\ todo' = [todo EXCEPT ![p] = left]
    /\ UNCHANGED <<run, cause, outcome, locks>>

Done(p, f) ==
    /\ todo' = [todo EXCEPT ![p] = @ \ {f}]
    /\ UNCHANGED <<pc, run, cause, outcome, locks>>

\* Leaving the with block, or dying, drops the workspace's flock.
ReleaseWorkspace(p) == wsLock' = IF wsLock = p THEN Nobody ELSE wsLock

\* The command returns or raises: both context managers release their flock.
Leave(p, how) ==
    /\ pc' = [pc EXCEPT ![p] = "idle"]
    /\ todo' = [todo EXCEPT ![p] = {}]
    /\ outcome' = [outcome EXCEPT ![p] = how]
    /\ runLock' = [runLock EXCEPT ![run[p]] = Nobody]
    /\ ReleaseWorkspace(p)
    /\ Look(p)
    /\ UNCHANGED <<run, cause>>

Restore(p, why) ==
    /\ pc' = [pc EXCEPT ![p] = "unlinking"]
    /\ todo' = [todo EXCEPT ![p] = AddedOnly(p)]
    /\ cause' = [cause EXCEPT ![p] = why]
    /\ UNCHANGED <<run, outcome, locks>>

At(p, label) == pc[p] = label

-----------------------------------------------------------------------------
(***************************************************************************)
(* Locking: the run's flock without waiting ("run is already active"),     *)
(* then the workspace's flock, waiting for it.                             *)
(***************************************************************************)
TakeRunLock(p, r) ==
    /\ At(p, "idle") /\ runLock[r] = Nobody
    /\ runLock' = [runLock EXCEPT ![r] = p]
    /\ run' = [run EXCEPT ![p] = r]
    /\ pc' = [pc EXCEPT ![p] = "waiting"]
    /\ outcome' = [outcome EXCEPT ![p] = "none"]
    /\ UNCHANGED <<evidence, disk, store, wsLock, todo, cause, inflight, raced, env>>

WorkspaceIsFree(p) == wsLock = Nobody

TakeWorkspaceLock(p) ==
    /\ At(p, "waiting") /\ WorkspaceIsFree(p)
    /\ wsLock' = p
    /\ pc' = [pc EXCEPT ![p] = "checking"]
    /\ UNCHANGED <<evidence, disk, store, runLock, run, todo, cause, outcome,
                   inflight, raced, env>>

(***************************************************************************)
(* The decision under both locks: receipt, deletion approval, backup,      *)
(* workspace -- in the order of the code.                                  *)
(***************************************************************************)
ReceiptExists(p) == receipt[run[p]]    \* mutant: the receipt alone is believed
ReceiptHolds(p)  == receipt[run[p]] /\ Matches(After(p))

AlreadyApplied(p) ==
    /\ At(p, "checking") /\ ReceiptHolds(p)
    /\ Leave(p, "merged")
    /\ UNCHANGED <<evidence, disk, store, inflight, env>>

RefuseReceipt(p) ==
    /\ At(p, "checking") /\ receipt[run[p]] /\ ~ReceiptHolds(p)
    /\ Leave(p, "rejected")
    /\ UNCHANGED <<evidence, disk, store, inflight, env>>

RefuseDeletion(p) ==
    /\ At(p, "checking") /\ ~receipt[run[p]] /\ Destructive(p) /\ p \notin MayDelete
    /\ Leave(p, "rejected")
    /\ UNCHANGED <<evidence, disk, store, inflight, env>>

Permitted(p) ==
    At(p, "checking") /\ ~receipt[run[p]] /\ (Destructive(p) => p \in MayDelete)

HasBackupDir(p) == backupDir[run[p]]    \* mutant: a partial backup is trusted
HasBackup(p)    == backupDir[run[p]] /\ BackupIsExact(run[p])

IsChanged(p) == ~Matches(Before(p))     \* mutant: any change counts as the merge
IsMerged(p)  == Matches(After(p))

MayRecoverAny(p) == ~Matches(Before(p)) /\ ~IsMerged(p)    \* mutant: drift is "recovered"
MayRecover(p)    == ~Matches(Before(p)) /\ ~IsMerged(p) /\ IsInterrupted(run[p])

\* What the workspace, compared with the evidence, allows.
RefuseDrift(p) ==
    /\ Permitted(p) /\ ~Matches(Before(p))
    /\ HasBackup(p) => ~IsMerged(p) /\ ~MayRecover(p)
    /\ Leave(p, "rejected")
    /\ UNCHANGED <<evidence, disk, store, inflight, env>>

StartBackup(p) ==
    /\ Permitted(p) /\ Matches(Before(p)) /\ ~backupDir[run[p]]
    /\ backupDir' = [backupDir EXCEPT ![run[p]] = TRUE]
    /\ GoTo(p, "copying", Files(Before(p))) /\ Look(p)
    /\ UNCHANGED <<evidence, disk, backup, backupJunk, receipt, inflight, env>>

ReplaceBackup(p) ==
    /\ Permitted(p) /\ Matches(Before(p))
    /\ backupDir[run[p]] /\ ~HasBackup(p)
    /\ GoTo(p, "clearing", Files(backup[run[p]])) /\ Look(p)
    /\ UNCHANGED <<evidence, disk, store, inflight, env>>

ReuseBackup(p) ==
    /\ Permitted(p) /\ HasBackup(p)
    /\ Matches(Before(p)) /\ ~IsMerged(p)
    /\ GoTo(p, "ready", {}) /\ Look(p)
    /\ UNCHANGED <<evidence, disk, store, inflight, env>>

Reseal(p) ==
    /\ Permitted(p) /\ HasBackup(p) /\ IsMerged(p)
    /\ GoTo(p, "resealing", {}) /\ Look(p)
    /\ UNCHANGED <<evidence, disk, store, inflight, env>>

Recover(p) ==
    /\ Permitted(p) /\ HasBackup(p) /\ MayRecover(p)
    /\ Restore(p, "recovery") /\ Look(p)
    /\ inflight' = run[p]
    /\ UNCHANGED <<evidence, disk, store, env>>

-----------------------------------------------------------------------------
(***************************************************************************)
(* The backup: rmtree of an invalid one, then a file-by-file copy.         *)
(***************************************************************************)
RemoveBackupFile(p) ==
    /\ At(p, "clearing")
    /\ \E f \in todo[p] :
          /\ backup' = [backup EXCEPT ![run[p]][f] = Absent]
          /\ Done(p, f)
    /\ UNCHANGED <<evidence, disk, backupDir, backupJunk, receipt, inflight, raced, env>>

RecreateBackup(p) ==
    /\ At(p, "clearing") /\ todo[p] = {}
    /\ backupJunk' = [backupJunk EXCEPT ![run[p]] = FALSE]
    /\ GoTo(p, "copying", Files(Before(p)))
    /\ UNCHANGED <<evidence, disk, backupDir, backup, receipt, inflight, raced, env>>

CopyToBackup(p) ==
    /\ At(p, "copying")
    /\ \E f \in First(todo[p]) :
          /\ ws[f] = Before(p)[f]
          /\ backup' = [backup EXCEPT ![run[p]][f] = ws[f]]
          /\ Done(p, f)
    /\ UNCHANGED <<evidence, disk, backupDir, backupJunk, receipt, inflight, raced, env>>

\* "source file changed while staging", or the finished copy differs.
BackupFails(p) ==
    /\ At(p, "copying")
    /\ IF todo[p] = {} THEN ~BackupIsExact(run[p])
                       ELSE \E f \in First(todo[p]) : ws[f] # Before(p)[f]
    /\ Leave(p, "rejected")
    /\ UNCHANGED <<evidence, disk, store, inflight, env>>

BackupDone(p) ==
    /\ At(p, "copying") /\ todo[p] = {} /\ BackupIsExact(run[p])
    /\ GoTo(p, "ready", {})
    /\ UNCHANGED <<evidence, disk, store, inflight, raced, env>>

-----------------------------------------------------------------------------
(***************************************************************************)
(* The merge: one last comparison, the changes in path order, a            *)
(* comparison with the verified stage, the receipt.                        *)
(***************************************************************************)
BeginMerge(p) ==
    /\ At(p, "ready") /\ Matches(Before(p))
    /\ GoTo(p, "applying", Changed(p)) /\ Look(p)
    /\ inflight' = run[p]
    /\ UNCHANGED <<evidence, disk, store, env>>

RefuseLateDrift(p) ==
    /\ At(p, "ready") /\ ~Matches(Before(p))
    /\ Leave(p, "rejected")
    /\ UNCHANGED <<evidence, disk, store, inflight, env>>

ApplyDelete(p) ==
    /\ At(p, "applying")
    /\ \E f \in First(todo[p]) :
          /\ After(p)[f] = Absent /\ ws[f] # Absent
          /\ ws' = [ws EXCEPT ![f] = Absent]
          /\ Done(p, f)
    /\ UNCHANGED <<evidence, dirs, litter, store, inflight, raced, env>>

ApplyWrite(p) ==
    /\ At(p, "applying")
    /\ \E f \in First(todo[p]) :
          /\ After(p)[f] # Absent /\ CanWrite(f)
          /\ ws' = [ws EXCEPT ![f] = After(p)[f]]
          /\ MakeParent(f)
          /\ Done(p, f)
    /\ UNCHANGED <<evidence, litter, store, inflight, raced, env>>

\* unlink of a missing file, replace of a directory, a file as a parent.
ApplyRefused(p) ==
    /\ At(p, "applying")
    /\ \E f \in First(todo[p]) :
          IF After(p)[f] = Absent THEN ws[f] = Absent ELSE ~CanWrite(f)
    /\ Restore(p, "rollback")
    /\ UNCHANGED <<evidence, disk, store, inflight, raced, env>>

MergeVerified(p) ==
    /\ At(p, "applying") /\ todo[p] = {} /\ Matches(After(p))
    /\ GoTo(p, "receipting", {})
    /\ UNCHANGED <<evidence, disk, store, inflight, raced, env>>

MergeMismatch(p) ==
    /\ At(p, "applying") /\ todo[p] = {} /\ ~Matches(After(p))
    /\ Restore(p, "rollback")
    /\ UNCHANGED <<evidence, disk, store, inflight, raced, env>>

WriteReceipt(p) ==
    /\ pc[p] \in {"receipting", "resealing"}
    /\ receipt' = [receipt EXCEPT ![run[p]] = TRUE]
    /\ inflight' = Nobody
    /\ Leave(p, "merged")
    /\ UNCHANGED <<evidence, disk, backupDir, backup, backupJunk, env>>

-----------------------------------------------------------------------------
(***************************************************************************)
(* _restore_snapshot, for a rollback and for the recovery of an interrupted*)
(* apply: unlink the added files in reverse order, rewrite every file of   *)
(* the before snapshot from the backup, compare.                           *)
(***************************************************************************)
UnlinkAdded(p) ==
    /\ At(p, "unlinking")
    /\ \E f \in Last(todo[p]) :
          /\ ws' = [ws EXCEPT ![f] = Absent]
          /\ Done(p, f)
    /\ UNCHANGED <<evidence, dirs, litter, store, inflight, raced, env>>

UnlinkedAll(p) ==
    /\ At(p, "unlinking") /\ todo[p] = {}
    /\ GoTo(p, "rewriting", Files(Before(p)))
    /\ UNCHANGED <<evidence, disk, store, inflight, raced, env>>

RewriteFile(p) ==
    /\ At(p, "rewriting")
    /\ \E f \in First(todo[p]) :
          /\ backup[run[p]][f] # Absent /\ CanWrite(f)
          /\ ws' = [ws EXCEPT ![f] = backup[run[p]][f]]
          /\ MakeParent(f)
          /\ Done(p, f)
    /\ UNCHANGED <<evidence, litter, store, inflight, raced, env>>

RewriteRefused(p) ==
    /\ At(p, "rewriting") 
    /\ \E f \in First(todo[p]) : backup[run[p]][f] = Absent \/ ~CanWrite(f)
    /\ Leave(p, "unrestored")
    /\ UNCHANGED <<evidence, disk, store, inflight, env>>

RolledBack(p) ==
    /\ At(p, "rewriting") /\ todo[p] = {} /\ cause[p] = "rollback"
    /\ Matches(Before(p))
    /\ inflight' = Nobody
    /\ Leave(p, "rolled_back")
    /\ UNCHANGED <<evidence, disk, store, env>>

Recovered(p) ==
    /\ At(p, "rewriting") /\ todo[p] = {} /\ cause[p] = "recovery"
    /\ Matches(Before(p))
    /\ inflight' = Nobody
    /\ GoTo(p, "ready", {}) /\ Look(p)
    /\ UNCHANGED <<evidence, disk, store, env>>

NotRestored(p) ==
    /\ At(p, "rewriting") /\ todo[p] = {} /\ ~Matches(Before(p))
    /\ Leave(p, "unrestored")
    /\ UNCHANGED <<evidence, disk, store, inflight, env>>

-----------------------------------------------------------------------------
(***************************************************************************)
(* Exceptions: an OSError or an interrupt in any file operation.  The file *)
(* may or may not be installed when a write raises (the directory fsync    *)
(* comes after the rename or link); _write_bytes removes its temporary.    *)
(***************************************************************************)
CanError == errors < MaxErrors /\ errors' = errors + 1 /\ UNCHANGED <<crashes, edits>>

Installed(f, c) ==
    CanWrite(f) /\ MakeParent(f) /\ ws' = IF SyncFails THEN [ws EXCEPT ![f] = c] ELSE ws

ErrorBeforeMerge(p) ==
    /\ pc[p] \in {"checking", "clearing", "copying", "ready"} /\ CanError
    /\ Leave(p, "rejected")
    /\ UNCHANGED <<evidence, disk, store, inflight>>

ErrorInMerge(p) ==
    /\ At(p, "applying") /\ CanError
    /\ \/ UNCHANGED <<ws, dirs>>
       \/ \E f \in First(todo[p]) : After(p)[f] # Absent /\ Installed(f, After(p)[f])
    /\ Restore(p, "rollback")
    /\ UNCHANGED <<evidence, litter, store, inflight, raced>>

LinkedOnError == {FALSE, SyncFails}

\* Writing the receipt raises; the receipt may be linked already.  Outside
\* the try block of the merge (resealing) nothing is rolled back.
ErrorInReceipt(p) ==
    /\ pc[p] \in {"receipting", "resealing"} /\ CanError
    /\ \E linked \in LinkedOnError :
          receipt' = [receipt EXCEPT ![run[p]] = linked]
    /\ \/ At(p, "receipting") /\ Restore(p, "rollback") /\ UNCHANGED raced
       \/ At(p, "resealing") /\ Leave(p, "rejected")
    /\ UNCHANGED <<evidence, disk, backupDir, backup, backupJunk, inflight>>

ErrorInRestore(p) ==
    /\ pc[p] \in {"unlinking", "rewriting"} /\ CanError
    /\ \/ UNCHANGED <<ws, dirs>>
       \/ /\ At(p, "rewriting")
          /\ \E f \in First(todo[p]) : Installed(f, backup[run[p]][f])
    /\ Leave(p, "unrestored")
    /\ UNCHANGED <<evidence, litter, store, inflight>>

(***************************************************************************)
(* The process is killed: the kernel drops its flocks.  Killed inside      *)
(* _write_bytes it leaves the temporary file in the directory it was       *)
(* writing to; a new file may be linked already.                           *)
(***************************************************************************)
Killed(p) ==
    /\ pc[p] # "idle" /\ crashes < MaxCrashes
    /\ crashes' = crashes + 1
    /\ pc' = [pc EXCEPT ![p] = "idle"]
    /\ todo' = [todo EXCEPT ![p] = {}]
    /\ outcome' = [outcome EXCEPT ![p] = "crashed"]
    /\ runLock' = [runLock EXCEPT ![run[p]] = Nobody]
    /\ ReleaseWorkspace(p)
    /\ Look(p)
    /\ UNCHANGED <<evidence, run, cause, receipt, backupDir, backup, inflight,
                   errors, edits>>

Crash(p) == Killed(p) /\ UNCHANGED <<disk, backupJunk>>

CrashInBackupCopy(p) ==
    /\ At(p, "copying") /\ todo[p] # {} /\ Killed(p)
    /\ backupJunk' = [backupJunk EXCEPT ![run[p]] = TRUE]
    /\ UNCHANGED disk

\* The content being written to the workspace, if a write is under way.
Writing(p, f, c) ==
    /\ f \in First(todo[p]) /\ CanWrite(f)
    /\ c = IF At(p, "applying") THEN After(p)[f] ELSE backup[run[p]][f]
    /\ pc[p] \in {"applying", "rewriting"} /\ c # Absent

CrashInWrite(p) ==
    \E f \in Paths, c \in Contents :
        /\ Writing(p, f, c) /\ Killed(p)
        /\ MakeParent(f) /\ litter' = TRUE
        /\ \/ UNCHANGED ws
           \/ ws[f] = Absent /\ ws' = [ws EXCEPT ![f] = c]
        /\ UNCHANGED backupJunk

-----------------------------------------------------------------------------
(***************************************************************************)
(* The user, whom no lock of this program stops.                           *)
(***************************************************************************)
Edit(f, c) ==
    /\ edits < MaxEdits /\ edits' = edits + 1
    /\ c # ws[f]
    /\ c # Absent => /\ Dir[f] # Root => ws[Dir[f]] = Absent
                     /\ \A g \in Paths : Dir[g] = f => ws[g] = Absent
    /\ ws' = [ws EXCEPT ![f] = c]
    /\ dirs' = IF c = Absent THEN dirs ELSE (dirs \ {f}) \union ({Dir[f]} \ {Root})
    /\ raced' = [p \in Procs |-> IF pc[p] = "idle" THEN raced[p] ELSE raced[p] \union {f}]
    /\ UNCHANGED <<evidence, litter, store, locks, procs, inflight, crashes, errors>>

RemoveLitter ==
    /\ litter /\ edits < MaxEdits /\ edits' = edits + 1
    /\ litter' = FALSE
    /\ UNCHANGED <<evidence, ws, dirs, store, locks, procs, inflight, raced, crashes, errors>>

-----------------------------------------------------------------------------
Check(p) ==
    \/ AlreadyApplied(p) \/ RefuseReceipt(p) \/ RefuseDeletion(p) \/ RefuseDrift(p)
    \/ StartBackup(p) \/ ReplaceBackup(p) \/ ReuseBackup(p) \/ Reseal(p) \/ Recover(p)

Backup(p) ==
    RemoveBackupFile(p) \/ RecreateBackup(p) \/ CopyToBackup(p) \/ BackupFails(p) \/ BackupDone(p)

Merge(p) ==
    \/ BeginMerge(p) \/ RefuseLateDrift(p) \/ ApplyDelete(p) \/ ApplyWrite(p)
    \/ ApplyRefused(p) \/ MergeVerified(p) \/ MergeMismatch(p) \/ WriteReceipt(p)

RestoreSnapshot(p) ==
    \/ UnlinkAdded(p) \/ UnlinkedAll(p) \/ RewriteFile(p) \/ RewriteRefused(p)
    \/ RolledBack(p) \/ Recovered(p) \/ NotRestored(p)

Step(p) == Check(p) \/ Backup(p) \/ Merge(p) \/ RestoreSnapshot(p)

Fault(p) ==
    \/ ErrorBeforeMerge(p) \/ ErrorInMerge(p) \/ ErrorInReceipt(p) \/ ErrorInRestore(p)
    \/ Crash(p) \/ CrashInBackupCopy(p) \/ CrashInWrite(p)

Next ==
    \/ \E p \in Procs : \/ \E r \in Runs : TakeRunLock(p, r)
                        \/ TakeWorkspaceLock(p) \/ Step(p) \/ Fault(p)
    \/ \E f \in Paths, c \in Contents \union {Absent} : Edit(f, c)
    \/ RemoveLitter

Spec == Init /\ [][Next]_vars

\* A running process keeps running, and flock wakes its waiters in order.
FairSpec == Spec /\ \A p \in Procs : WF_vars(Step(p)) /\ SF_vars(TakeWorkspaceLock(p))

\* Moreover the user repeats an apply that did not end with a receipt.
RetrySpec ==
    /\ FairSpec
    /\ \A r \in Runs : SF_vars(\E p \in Procs : p \in MayDelete /\ TakeRunLock(p, r))
-----------------------------------------------------------------------------
(***************************************************************************)
(* What the transaction promises.                                          *)
(***************************************************************************)

\* Whenever the workspace may be half merged, the run being merged has an
\* exact backup of what was there: no order of crashes, errors and rebuilt
\* backups loses the data a recovery needs (rmtree and rebuild of a backup
\* happen only while the source is pristine).
TornWorkspaceHasBackup ==
    \A r \in Runs : inflight = r => backupDir[r] /\ BackupIsExact(r)

\* Everything a crash or error can make of a merge, short of a leftover
\* temporary file or an edit, passes the test by which the next apply
\* recognises an interrupted merge.
CrashStatesAreRecognised ==
    edits = 0 /\ ~litter => \A r \in Runs : inflight = r => IsInterrupted(r)

\* One writer: while a process is between its first check of the workspace
\* and its return, no other process is, and it holds its run's lock too.
OneWriter ==
    \A p, q \in Procs : pc[p] \in Critical =>
        /\ wsLock = p /\ runLock[run[p]] = p
        /\ pc[q] \in Critical => q = p

\* A step of a process never replaces or removes a file that holds neither
\* the before nor the after content of its run, unless the user changed that
\* file after the process last compared the workspace.
DriftIsNotOverwritten ==
    [][\A p \in Procs, f \in Paths :
          todo'[p] # todo[p] /\ ws'[f] # ws[f] =>
              ws[f] \in {Before(p)[f], After(p)[f]} \/ f \in raced[p]]_vars

\* "merged" is reported, by whichever branch, only when every file of the
\* workspace is the verified one, up to edits that race the command.
MergedMeansVerified ==
    [][\A p \in Procs :
          outcome[p] # "merged" /\ outcome'[p] = "merged" =>
              /\ receipt'[run[p]]
              /\ \A f \in Paths : ws'[f] = After(p)[f] \/ f \in raced[p]]_vars

\* A failed merge is undone: unless a second error hits the rollback itself
\* or the user edits meanwhile, the command does not end with the workspace
\* between the two snapshots.  ("rolls back on failure", README.md.)
RollsBackOnFailure ==
    [][\A p \in Procs :
          /\ outcome[p] # "unrestored" /\ outcome'[p] = "unrestored"
          /\ cause[p] = "rollback"
          => errors' # errors \/ edits > 0]_vars

\* If the user repeats the command, an interrupted merge is completed or
\* undone, unless a crash inside an atomic write left its temporary behind.
RetrySettles == \A r \in Runs : inflight = r ~> inflight # r \/ litter
=============================================================================
