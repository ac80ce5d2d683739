---------------------------- MODULE RunLifecycle ----------------------------
(***************************************************************************)
(* One workflow run: conductor_runtime/core/runner.py executes its steps   *)
(* in order and records every transition in state.json (core/state.py), so *)
(* that any later process can resume it.  A step may write to a private    *)
(* stage of the workspace (core/staged.py); later steps verify that stage, *)
(* and the evidence sealed at the end is what StageApply applies.          *)
(*                                                                         *)
(* One action is one save of the state, one file or one outcome of a       *)
(* child process: a crash can fall between any two.  Several processes may *)
(* resume the same run; the run's flock excludes their execute(), but each *)
(* has looked at the state once before, when it was constructed.           *)
(* (The run status saved right after a step's is saved with it here: no    *)
(* guard reads a run status but "completed".)                              *)
(*                                                                         *)
(* A version stands for the contents of a whole tree.                      *)
(***************************************************************************)
EXTENDS Naturals

CONSTANTS Procs,
          NumSteps,        \* the steps are 1..NumSteps, executed in this order
          Writer,          \* the codex_exec step with sandbox workspace-write
          Downstream,      \* the steps that depend on it
          ShellVerifiers, CodexVerifiers,   \* those staged_verifier_ids names
          Policies,        \* what a run's policy may permit: steps, and 0, the declared risk
          DryRuns,         \* values that --dry-run may have
          Versions,
          MaxCrashes, MaxEdits,
          None

Steps     == 1..NumSteps
Verifiers == ShellVerifiers \union CodexVerifiers
Codex     == CodexVerifiers \union {Writer}

ASSUME StepAssumption ==
    /\ NumSteps \in Nat /\ Writer \in Steps
    /\ Downstream \subseteq Steps /\ \A s \in Downstream : s > Writer
    /\ Verifiers \subseteq Downstream /\ Verifiers # {}
    /\ ShellVerifiers \intersect CodexVerifiers = {}
    /\ Policies \subseteq SUBSET (0..NumSteps)

ASSUME ValueAssumption ==
    /\ None \notin Procs \union Versions
    /\ {"none", "torn", "dirty", "foul", "crowded"} \intersect Versions = {}
    /\ DryRuns \subseteq BOOLEAN
    /\ MaxCrashes \in Nat /\ MaxEdits \in Nat

\* A stage: not there, partly copied, or a tree.  A tree may be damaged in three
\* ways: validate_stage_workspace rejects it (an excluded directory: dirty), or
\* snapshot_workspace does (more files than it reads, fewer than a stage may have
\* entries: crowded), or both do (a symlink, too many bytes: foul).
Damaged == {"dirty", "foul", "crowded"}
Trees == Versions \union {"torn"}
StageValues == Trees \union Damaged \union {"none"}

Evidence == [before : Versions, after : Trees, passed : BOOLEAN, by : SUBSET Steps]
Handles  == [before : Versions, evid : BOOLEAN]

ASSUME NoneAssumption == None \notin Evidence \union Handles

VARIABLES
    policy,      \* what is permitted, bound to the run by its fingerprint
    src,         \* the source workspace
    status,      \* state.json: the run's status,
    step,        \*   each step's status,
    pending,     \*   the writer's pending_stage (its before tree) or None,
    session,     \*   does it hold a resume_session_id?
    noted,       \*   does it name the stage evidence?
    recorded,    \*   the evidence whose hash the artifact index records
    evidence,    \* the evidence file
    output,      \* each step's output file against the artifact index
    stage,       \* the directory stages/<writer>
    lock,        \* the run's flock
    pc, dry, at,     \* each process: where, is it a dry run, at which step
    handle,      \* its WorkflowRunner._stage, or None
    seen,        \* the tree its verifier is looking at
    saw,         \* history: the tree a step last passed on
    crashes, edits

record == <<status, step, pending, session, noted, recorded>>
files  == <<evidence, output, stage>>
local  == <<pc, dry, at, handle, seen, lock>>
env    == <<crashes, edits>>
vars   == <<policy, src, record, files, local, saw, env>>

Locked == {"begun", "steps", "started", "removing", "creating", "copying", "copied", "staged",
           "coding", "checking", "output", "finalizing", "evfile", "evsaved", "finished",
           "keeping", "forgetting", "dropping", "ending", "sealfile", "sealed"}

TypeOK ==
    /\ policy \in Policies /\ src \in Versions
    /\ status \in {"pending", "running", "completed", "failed", "blocked", "planned"}
    /\ step \in [Steps -> {"pending", "running", "completed", "failed", "blocked", "planned"}]
    /\ pending \in Versions \union {None} /\ session \in BOOLEAN /\ noted \in BOOLEAN
    /\ recorded \in Evidence \union {None} /\ evidence \in Evidence \union {None}
    /\ output \in [Steps -> {"absent", "unrecorded", "recorded", "mismatch"}]
    /\ stage \in StageValues
    /\ lock \in Procs \union {None}
    /\ pc \in [Procs -> Locked \union {"out", "opened"}]
    /\ dry \in [Procs -> BOOLEAN] /\ at \in [Procs -> 1..(NumSteps + 1)]
    /\ handle \in [Procs -> Handles \union {None}]
    /\ seen \in [Procs -> StageValues]
    /\ saw \in [Steps -> StageValues]
    /\ crashes \in 0..MaxCrashes /\ edits \in 0..MaxEdits

Init ==
    /\ policy \in Policies /\ src \in Versions
    /\ status = "pending" /\ step = [s \in Steps |-> "pending"]
    /\ pending = None /\ session = FALSE /\ noted = FALSE
    /\ recorded = None /\ evidence = None
    /\ output = [s \in Steps |-> "absent"]
    /\ stage = "none" /\ lock = None
    /\ pc = [p \in Procs |-> "out"] /\ dry = [p \in Procs |-> FALSE]
    /\ at = [p \in Procs |-> 1]
    /\ handle = [p \in Procs |-> None]
    /\ seen = [p \in Procs |-> "none"] /\ saw = [s \in Steps |-> "none"]
    /\ crashes = 0 /\ edits = 0

-----------------------------------------------------------------------------
\* Every recorded artifact still has its recorded hash.
Intact ==
    /\ \A s \in Steps : output[s] # "mismatch"
    /\ recorded # None => evidence = recorded

\* What validate_stage_workspace and what snapshot_workspace accepts; to both a
\* partial copy is a tree like any other.
StageExists == stage # "none"    \* mutant: the scan for excluded directories is dropped
StageValid == stage \in Trees \union {"crowded"}
Readable   == stage \in Trees \union {"dirty"}

At(p, label) == pc[p] = label
Runs(p, label, s) == pc[p] = label /\ at[p] = s /\ s \in Steps

Go(p, label) == pc' = [pc EXCEPT ![p] = label] /\ UNCHANGED <<dry, at, handle, seen, lock>>

\* The first step from n on that is not completed.
NextStep(st, n) ==
    CHOOSE m \in 1..(NumSteps + 1) :
        /\ m >= n /\ \A s \in Steps : n <= s /\ s < m => st[s] = "completed"
        /\ m \in Steps => st[m] # "completed"

Leave(p) ==
    /\ pc' = [pc EXCEPT ![p] = "out"]
    /\ handle' = [handle EXCEPT ![p] = None]
    /\ at' = [at EXCEPT ![p] = 1]
    /\ dry' = [dry EXCEPT ![p] = FALSE]
    /\ seen' = [seen EXCEPT ![p] = "none"]
    /\ lock' = IF lock = p THEN None ELSE lock

-----------------------------------------------------------------------------
(***************************************************************************)
(* Construction: RunState.resume and _load_stage_state read the disk, with *)
(* no lock held.  (A new run is a resume of the initial state.)            *)
(***************************************************************************)
\* mutant: only an unfinished writer's stage is found again
LoadedPending == IF pending # None THEN [before |-> pending, evid |-> FALSE] ELSE None

LoadedStage ==
    IF noted THEN [before |-> recorded.before, evid |-> TRUE]
    ELSE IF pending # None THEN [before |-> pending, evid |-> FALSE]
    ELSE None

Open(p, d) ==
    /\ At(p, "out") /\ Intact
    /\ ~noted /\ pending # None => src = pending /\ Readable
    /\ pc' = [pc EXCEPT ![p] = "opened"]
    /\ dry' = [dry EXCEPT ![p] = d]
    /\ handle' = [handle EXCEPT ![p] = LoadedStage]
    /\ UNCHANGED <<policy, src, record, files, at, seen, lock, saw, env>>

\* execute() on a run that is active, damaged or already completed.
NotCompleted == FALSE    \* mutant: the reloaded status is not looked at
IsCompleted == status = "completed"

TurnedAway(p) ==
    /\ At(p, "opened")
    /\ lock # None \/ ~Intact \/ IsCompleted
    /\ Leave(p)
    /\ UNCHANGED <<policy, src, record, files, saw, env>>

Begin(p) ==
    /\ At(p, "opened") /\ lock = None /\ Intact /\ ~IsCompleted
    /\ lock' = p /\ status' = "running"
    /\ pc' = [pc EXCEPT ![p] = "begun"]
    /\ UNCHANGED <<policy, src, step, pending, session, noted, recorded, files,
                   dry, at, handle, seen, saw, env>>

RiskRefused(p) ==
    /\ At(p, "begun") /\ 0 \notin policy
    /\ status' = "blocked"
    /\ Leave(p)
    /\ UNCHANGED <<policy, src, step, pending, session, noted, recorded, files, saw, env>>

RiskPermitted(p) ==
    /\ At(p, "begun") /\ 0 \in policy
    /\ pc' = [pc EXCEPT ![p] = "steps"]
    /\ at' = [at EXCEPT ![p] = NextStep(step, 1)]
    /\ UNCHANGED <<policy, src, record, files, dry, handle, seen, lock, saw, env>>

-----------------------------------------------------------------------------
(***************************************************************************)
(* A step fails.  The writer keeps its stage only for a resumable provider *)
(* session on a valid stage; a later step drops an invalid one.            *)
(***************************************************************************)
\* mutant: a failing verifier drops whatever stage there is
AfterFailureDropping(p, s, resumable) ==
    IF s = Writer /\ handle[p] # None THEN "forgetting"
    ELSE IF s \in Downstream /\ handle[p] # None THEN "dropping" ELSE "ending"

AfterFailure(p, s, resumable) ==
    IF s = Writer /\ handle[p] # None
    THEN IF resumable /\ StageValid /\ src = handle[p].before THEN "keeping" ELSE "forgetting"
    ELSE IF s \in Downstream /\ handle[p] # None /\ ~StageValid THEN "dropping" ELSE "ending"

Fails(p, s, resumable) ==
    /\ Go(p, AfterFailure(p, s, resumable))
    /\ UNCHANGED <<policy, src, record, files, saw, env>>

KeepSession(p) ==
    /\ At(p, "keeping") /\ Go(p, "ending")
    /\ session' = TRUE
    /\ UNCHANGED <<policy, src, status, step, pending, noted, recorded, files, saw, env>>

\* mutant: the session of the discarded stage is kept
ForgetPending(p) ==
    /\ At(p, "forgetting") /\ Go(p, "dropping")
    /\ pending' = None
    /\ UNCHANGED <<policy, src, status, step, session, noted, recorded, files, saw, env>>

Forget(p) ==
    /\ At(p, "forgetting") /\ Go(p, "dropping")
    /\ pending' = None /\ session' = FALSE
    /\ UNCHANGED <<policy, src, status, step, noted, recorded, files, saw, env>>

\* rmtree of a missing stage raises; the handle then stays.
Drop(p) ==
    /\ At(p, "dropping")
    /\ stage' = "none"
    /\ handle' = [handle EXCEPT ![p] = IF stage = "none" THEN @ ELSE None]
    /\ pc' = [pc EXCEPT ![p] = "ending"]
    /\ UNCHANGED <<policy, src, record, evidence, output, dry, at, seen, lock, saw, env>>

EndFailed(p) ==
    /\ At(p, "ending")
    /\ step' = [step EXCEPT ![at[p]] = "failed"] /\ status' = "failed"
    /\ Leave(p)
    /\ UNCHANGED <<policy, src, pending, session, noted, recorded, files, saw, env>>

-----------------------------------------------------------------------------
(***************************************************************************)
(* Starting a step; a dry run only validates it.                           *)
(***************************************************************************)
\* mutant: a failed step is not retried
CanStartOnce(s) ==
    \/ step[s] \in {"pending", "blocked", "planned"}
    \/ step[s] = "running" /\ s = Writer /\ pending # None

CanStart(s) ==
    \/ step[s] \in {"pending", "failed", "blocked", "planned"}
    \/ step[s] = "running" /\ s = Writer /\ pending # None

Start(p, s) ==
    /\ Runs(p, "steps", s) /\ ~dry[p] /\ CanStart(s)
    /\ step' = [step EXCEPT ![s] = "running"]
    /\ Go(p, "started")
    /\ UNCHANGED <<policy, src, status, pending, session, noted, recorded, files, saw, env>>

CannotStart(p, s) ==
    Runs(p, "steps", s) /\ ~dry[p] /\ ~CanStart(s) /\ Fails(p, s, FALSE)

Blocked(p, s) ==
    /\ Runs(p, "started", s) \/ (Runs(p, "steps", s) /\ dry[p])
    /\ s \notin policy
    /\ step' = [step EXCEPT ![s] = "blocked"] /\ status' = "blocked"
    /\ Leave(p)
    /\ UNCHANGED <<policy, src, pending, session, noted, recorded, files, saw, env>>

Ready(p, s) == Runs(p, "started", s) /\ s \in policy

Plan(p, s) ==
    /\ Runs(p, "steps", s) /\ dry[p] /\ s \in policy
    /\ step' = [step EXCEPT ![s] = "planned"]
    /\ at' = [at EXCEPT ![p] = NextStep(step, s + 1)]
    /\ UNCHANGED <<policy, src, status, pending, session, noted, recorded, files,
                   pc, dry, handle, seen, lock, saw, env>>

PlanFails(p, s) == Runs(p, "steps", s) /\ dry[p] /\ s \in policy /\ Fails(p, s, FALSE)

Planned(p) ==
    /\ At(p, "steps") /\ at[p] = NumSteps + 1 /\ dry[p]
    /\ status' = "planned"
    /\ Leave(p)
    /\ UNCHANGED <<policy, src, step, pending, session, noted, recorded, files, saw, env>>

-----------------------------------------------------------------------------
(***************************************************************************)
(* A step's output: a file first, its hash in the artifact index second.   *)
(***************************************************************************)
WriteOutput(p, s) ==
    /\ output' = [output EXCEPT ![s] = IF @ = "recorded" THEN "mismatch" ELSE "unrecorded"]
    /\ Go(p, "output")

\* Codex replaces its own recorded output, write_artifact replaces nothing.
OutputRefused(s) ==
    IF s \in Codex THEN output[s] = "unrecorded"
    ELSE s \notin ShellVerifiers /\ output[s] # "absent"

RefuseOutput(p, s) ==
    /\ OutputRefused(s) /\ Fails(p, s, FALSE)
    /\ (Ready(p, s) /\ s # Writer) \/ Runs(p, "staged", s)

SaveOutput(p, s) ==
    /\ Runs(p, "output", s)
    /\ output' = [output EXCEPT ![s] = "recorded"]
    /\ Go(p, IF s = Writer THEN "finalizing" ELSE "finished")
    /\ UNCHANGED <<policy, src, record, evidence, stage, saw, env>>

WriteArtifact(p, s) ==
    /\ Ready(p, s) /\ s \notin Verifiers \union {Writer} /\ ~OutputRefused(s)
    /\ WriteOutput(p, s)
    /\ UNCHANGED <<policy, src, record, evidence, stage, saw, env>>

Complete(p, s) ==
    /\ Runs(p, "finished", s)
    /\ step' = [step EXCEPT ![s] = "completed"]
    /\ pc' = [pc EXCEPT ![p] = "steps"]
    /\ at' = [at EXCEPT ![p] = NextStep(step', s)]
    /\ UNCHANGED <<policy, src, status, pending, session, noted, recorded, files,
                   dry, handle, seen, lock, saw, env>>

-----------------------------------------------------------------------------
(***************************************************************************)
(* The writer: a private copy of the workspace, an agent that changes it,  *)
(* and the evidence of what it changed.                                    *)
(***************************************************************************)
ForgetOld(p) ==
    /\ Ready(p, Writer) /\ handle[p] = None /\ stage # "none"
    /\ pending' = None /\ session' = FALSE
    /\ Go(p, "removing")
    /\ UNCHANGED <<policy, src, status, step, noted, recorded, files, saw, env>>

RemoveOld(p) ==
    /\ At(p, "removing") /\ Go(p, "creating")
    /\ stage' = "none"
    /\ UNCHANGED <<policy, src, record, evidence, output, saw, env>>

MakeStage(p) ==
    /\ At(p, "creating") \/ (Ready(p, Writer) /\ handle[p] = None /\ stage = "none")
    /\ stage' = "torn"
    /\ Go(p, "copying")
    /\ UNCHANGED <<policy, src, record, evidence, output, saw, env>>

FinishCopy(p) ==
    /\ At(p, "copying")
    /\ stage' = src
    /\ handle' = [handle EXCEPT ![p] = [before |-> src, evid |-> FALSE]]
    /\ pc' = [pc EXCEPT ![p] = "copied"]
    /\ UNCHANGED <<policy, src, record, evidence, output, dry, at, seen, lock, saw, env>>

CopyFails(p) == At(p, "copying") /\ Fails(p, Writer, FALSE)

NotePending(p) ==
    /\ At(p, "copied") /\ Go(p, "staged")
    /\ pending' = handle[p].before
    /\ UNCHANGED <<policy, src, status, step, session, noted, recorded, files, saw, env>>

ReuseStage(p) ==
    /\ Ready(p, Writer) /\ handle[p] # None
    /\ Go(p, "staged")
    /\ UNCHANGED <<policy, src, record, files, saw, env>>

\* _validate_active_stage
StageInUse(p) == StageValid /\ src = handle[p].before

StartAgent(p) ==
    /\ At(p, "staged") /\ StageInUse(p) /\ ~OutputRefused(Writer)
    /\ Go(p, "coding")
    /\ UNCHANGED <<policy, src, record, files, saw, env>>

RefuseStage(p) == At(p, "staged") /\ ~StageInUse(p) /\ Fails(p, Writer, FALSE)

\* What a partial copy lacks, the agent does not add.
AgentWrites(p) ==
    /\ At(p, "coding")
    /\ stage' \in Damaged \union (IF stage = "torn" THEN {"torn"} ELSE Versions)
    /\ UNCHANGED <<policy, src, record, evidence, output, local, saw, env>>

AgentEnds(p) ==
    /\ At(p, "coding") /\ WriteOutput(p, Writer)
    /\ UNCHANGED <<policy, src, record, evidence, stage, saw, env>>

\* A timeout or a torn stream with a session id is resumable, other errors not.
AgentFails(p, resumable) == At(p, "coding") /\ Fails(p, Writer, resumable)

Finalize(p) ==
    /\ At(p, "finalizing") /\ StageValid /\ Readable
    /\ evidence' = [before |-> handle[p].before, after |-> stage, passed |-> FALSE, by |-> {}]
    /\ Go(p, "evfile")
    /\ UNCHANGED <<policy, src, record, output, stage, saw, env>>

\* The stage is damaged, or has more changes than evidence may list.
FinalizeFails(p) == At(p, "finalizing") /\ Fails(p, Writer, FALSE)

SaveEvidence(p) ==
    /\ At(p, "evfile")
    /\ recorded' = evidence
    /\ handle' = [handle EXCEPT ![p].evid = TRUE]
    /\ pc' = [pc EXCEPT ![p] = "evsaved"]
    /\ UNCHANGED <<policy, src, status, step, pending, session, noted, files,
                   dry, at, seen, lock, saw, env>>

NoteEvidence(p) ==
    /\ At(p, "evsaved") /\ Go(p, "finished")
    /\ noted' = TRUE /\ pending' = None /\ session' = FALSE
    /\ UNCHANGED <<policy, src, status, step, recorded, files, saw, env>>

-----------------------------------------------------------------------------
(***************************************************************************)
(* A verifier looks at the stage if its process knows of one, else at the  *)
(* source: a shell step at a copy, a Codex step at the tree itself.        *)
(***************************************************************************)
ActiveWorkspace(p, s) == IF handle[p] # None /\ s \in Downstream THEN stage ELSE src

Verify(p, s) ==
    /\ Ready(p, s) /\ s \in Verifiers /\ ~OutputRefused(s)
    /\ seen' = [seen EXCEPT ![p] = ActiveWorkspace(p, s)]
    /\ pc' = [pc EXCEPT ![p] = "checking"]
    /\ UNCHANGED <<policy, src, record, files, dry, at, handle, lock, saw, env>>

\* The sandbox of a Codex verifier is Codex's own; the runner only detects a
\* change.  No verifier happens to restore what another one changed.
Touch(p, s) ==
    /\ Runs(p, "checking", s) /\ s \in CodexVerifiers /\ handle[p] # None /\ stage # "none"
    /\ stage' \in (Versions \union Damaged) \ {recorded.after}
    /\ UNCHANGED <<policy, src, record, evidence, output, local, saw, env>>

Pass(p, s) ==
    /\ Runs(p, "checking", s)
    /\ saw' = [saw EXCEPT ![s] = seen[p]]
    /\ \/ /\ s \in ShellVerifiers /\ seen[p] \notin {"foul", "crowded"}
          /\ Go(p, "finished") /\ UNCHANGED output
       \/ s \in CodexVerifiers /\ seen[p] # "none" /\ WriteOutput(p, s)
    /\ UNCHANGED <<policy, src, record, evidence, stage, env>>

Reject(p, s) == Runs(p, "checking", s) /\ Fails(p, s, FALSE)

-----------------------------------------------------------------------------
(***************************************************************************)
(* After the last step: the evidence is sealed, or the run fails.          *)
(***************************************************************************)
AllDone(p) == At(p, "steps") /\ at[p] = NumSteps + 1 /\ ~dry[p]

SealDamaged(p) ==
    /\ AllDone(p) /\ handle[p] # None /\ ~StageValid
    /\ stage' = "none" /\ status' = "failed"
    /\ Leave(p)
    /\ UNCHANGED <<policy, src, step, pending, session, noted, recorded,
                   evidence, output, saw, env>>

\* mutant: the stage is not compared with the writer's evidence again
MaySealUnseen(p) == src = handle[p].before /\ handle[p].evid /\ Readable

MaySeal(p) == src = handle[p].before /\ handle[p].evid /\ stage = recorded.after

SealRefused(p) ==
    /\ AllDone(p) /\ handle[p] # None /\ StageValid /\ ~MaySeal(p)
    /\ status' = "failed"
    /\ Leave(p)
    /\ UNCHANGED <<policy, src, step, pending, session, noted, recorded, files, saw, env>>

Seal(p) ==
    /\ AllDone(p) /\ handle[p] # None /\ StageValid /\ MaySeal(p)
    /\ evidence' = [before |-> handle[p].before, after |-> stage, passed |-> TRUE,
                    by |-> {s \in Verifiers : step[s] = "completed"}]
    /\ Go(p, "sealfile")
    /\ UNCHANGED <<policy, src, record, output, stage, saw, env>>

SaveSeal(p) ==
    /\ At(p, "sealfile") /\ Go(p, "sealed")
    /\ recorded' = evidence
    /\ UNCHANGED <<policy, src, status, step, pending, session, noted, files, saw, env>>

Finish(p) ==
    /\ At(p, "sealed") \/ (AllDone(p) /\ handle[p] = None)
    /\ status' = "completed"
    /\ Leave(p)
    /\ UNCHANGED <<policy, src, step, pending, session, noted, recorded, files, saw, env>>

-----------------------------------------------------------------------------
(***************************************************************************)
(* The environment.                                                        *)
(***************************************************************************)
Crash(p) ==
    /\ pc[p] \in Locked /\ crashes < MaxCrashes
    /\ crashes' = crashes + 1
    /\ Leave(p)
    /\ UNCHANGED <<policy, src, record, files, saw, edits>>

Edit ==
    /\ edits < MaxEdits
    /\ src' \in Versions \ {src}
    /\ edits' = edits + 1
    /\ UNCHANGED <<policy, record, files, local, saw, crashes>>

-----------------------------------------------------------------------------
StepOf(p, s) ==
    \/ Start(p, s) \/ CannotStart(p, s) \/ Blocked(p, s) \/ Plan(p, s) \/ PlanFails(p, s)
    \/ RefuseOutput(p, s) \/ SaveOutput(p, s) \/ WriteArtifact(p, s) \/ Complete(p, s)
    \/ Verify(p, s) \/ Pass(p, s) \/ Reject(p, s)

Write(p) ==
    \/ ForgetOld(p) \/ RemoveOld(p) \/ MakeStage(p) \/ FinishCopy(p) \/ CopyFails(p)
    \/ NotePending(p) \/ ReuseStage(p) \/ StartAgent(p) \/ RefuseStage(p) \/ AgentEnds(p)
    \/ (\E resumable \in BOOLEAN : AgentFails(p, resumable))
    \/ Finalize(p) \/ FinalizeFails(p) \/ SaveEvidence(p) \/ NoteEvidence(p)

Command(p) ==
    \/ TurnedAway(p) \/ Begin(p) \/ RiskRefused(p) \/ RiskPermitted(p)
    \/ KeepSession(p) \/ Forget(p) \/ Drop(p) \/ EndFailed(p) \/ Planned(p)
    \/ (\E s \in Steps : StepOf(p, s)) \/ Write(p)
    \/ SealDamaged(p) \/ SealRefused(p) \/ Seal(p) \/ SaveSeal(p) \/ Finish(p)

Next ==
    \/ \E p \in Procs :
          \/ \E d \in DryRuns : Open(p, d)
          \/ Command(p) \/ AgentWrites(p) \/ (\E s \in Steps : Touch(p, s)) \/ Crash(p)
    \/ Edit

Spec == Init /\ [][Next]_vars

\* A command that runs ends; the user resumes again and again, and a copy, an
\* agent (with changes that can be listed) or a verifier that is tried again and
\* again succeeds at last.
FairSpec ==
    /\ Spec
    /\ \A p \in Procs :
         /\ WF_vars(Command(p)) /\ SF_vars(Open(p, FALSE))
         /\ SF_vars(FinishCopy(p)) /\ SF_vars(AgentEnds(p) /\ StageValid /\ Readable)
         /\ SF_vars(Finalize(p))
         /\ SF_vars(\E s \in Steps : Pass(p, s))

-----------------------------------------------------------------------------
(***************************************************************************)
(* Properties.                                                             *)
(***************************************************************************)
\* The sealed evidence, which apply merges, describes a tree that every
\* verifier it names passed on: not the source, not an earlier or later stage.
SealedWasVerified ==
    recorded # None /\ recorded.passed => \A s \in recorded.by : saw[s] = recorded.after

\* A run is completed only with sealed evidence of its writer's work, by all
\* of its verifiers, and with the stage still holding that work.
CompletedIsSealed ==
    status = "completed" =>
        /\ Intact /\ recorded # None /\ recorded.passed /\ recorded.by = Verifiers
        /\ stage = recorded.after

\* Whoever resumes it, and however long ago it looked, a completed run is
\* never changed again.
CompletedIsFinal ==
    [][status = "completed" => UNCHANGED <<record, evidence, output, stage>>]_vars

\* The state names a resumable stage only while it is complete on disk, and a
\* provider session only while there is a stage: both are forgotten before
\* anything is removed.  (A process with a stale handle may keep its session on
\* the partial copy another one left.  It holds without dry runs only: a dry run
\* can fail at a verifier while the writer is unfinished, and drops the writer's
\* invalid stage there.)
PendingStageExists ==
    /\ pending # None => stage \notin {"none", "torn"}
    /\ session => stage # "none"

\* Once the writer has completed, no failure, crash or resume discards a valid
\* stage: its work may be the only copy.
CompletedWorkIsKept ==
    [][step[Writer] = "completed" /\ StageValid => stage' # "none"]_vars

\* All the ways a run can be beyond any resume: its policy refuses it; a crash
\* left a file ahead of the artifact index or the evidence ahead of the writer's
\* status; the source or the stage drifted from the evidence; or the source
\* drifted under a pending stage, or that stage is gone or cannot be read.
Stopped ==
    /\ lock = None
    /\ \/ policy # 0..NumSteps
       \/ ~Intact
       \/ \E s \in Steps : step[s] # "completed" /\ OutputRefused(s)
       \/ pending # None /\ (src # pending \/ ~Readable)
       \/ noted /\ (step[Writer] # "completed" \/ src # recorded.before
                                               \/ stage # recorded.after)

\* A run that is resumed again and again completes, unless it is Stopped.
ResumedRunCompletes == []<>(status = "completed" \/ Stopped)
=============================================================================
