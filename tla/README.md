# Codex Conductor in TLA+

Models, model checks and proofs of the dependency-free core of codex-ultracode
(`conductor_runtime/`), and of the supervisor of scheduled routines
(`conductor_extras/runtime/routine_supervisor.py`). Paths below are relative to
`conductor_runtime/core/` unless they start with another directory of the
repository; line numbers of routines are in `routine_supervisor.py`.

## The system

The core runs a *workflow*: an ordered list of steps (shell commands, Codex
calls, artifacts, gates, maps of agents) with dependencies. Everything a run
knows is in a run directory outside the workspace, so a run can be interrupted
anywhere and resumed by another process. One step may write code; it does so in
a private *stage* (a copy of the workspace), later steps verify the stage, and
the sealed evidence is merged into the workspace by a separate, explicit
`conductor apply`.

| component | state | operations | talks to |
|---|---|---|---|
| staged apply (`staged.py` 348-570) | workspace files, backup, receipt, two flocks | apply, roll back, recover | the stage evidence of a completed run |
| run lifecycle (`runner.py`, `state.py`) | `state.json`: run and step status, artifact index, stage and session references; artifact files; run flock; the runner's in-memory `_stage` | create, resume, execute, dry run, fail, seal | every other part |
| stage lifecycle (`staged.py` 54-345) | `stages/<step>/workspace`, pending descriptor, evidence file | create, reuse, discard, finalize, mark verified | called by the runner |
| Codex invocation (`codex.py`) | launch/result receipts, output file, provider session | invoke, resume, classify the stream | process capture, run state |
| agent map (`runner.py` 384-517) | packet table, token budget | waves of concurrent packets, cache across resumes | Codex invocation |
| goal loop (`goal.py`) | goal file, goal flock | attempt, retry with feedback, resume | direct mode, run state |
| process capture (`process.py`) | child process group, two readers, a writer, the shared capture budget | run, time out, terminate, capture | runner, Codex invocation |
| result store (`results.py`) | containers, one temporary, two flocks | store, recover, scan, read | process capture, run state |
| workflow validation (`workflow.py`) | none | validate, dependency closure, verifier ids | runner, planner |
| policy (`policy.py`) | none | permissions, approvals, executable binding | runner |
| planner, direct mode (`planner.py`, `auto.py`) | none beyond the runs they start | build a workflow, run it | runner |
| CLI, redaction, errors | none | parsing, printing | all |
| routine supervisor (`routine_supervisor.py`) | `state.json` (a record for each routine), `controls.json`, the manifests' schedules, one flock | cycles over due slots, run by hand, reserve, record, note as blocked or skipped, pause, reschedule | background launcher, dashboard, an in-process runner or a child process |

Not part of the core: `conductor_extras/` (specialist and historical commands,
of which the routine supervisor is modelled), `tools/`, `plugins/`, `dist/`,
agent profiles, benchmark suites, tests.

What is hard here, and what makes each part correct:

* **Apply.** Files are changed one by one, and every step can raise, be killed,
  or race an editor. Correct means: all or nothing in the end; drift is never
  overwritten; a backup exists whenever the workspace may be torn; "merged"
  means merged and verified.
* **Runs.** A save of `state.json`, a file and a child process are separate
  events; a crash falls between any two; several processes resume one run and
  look at it before they lock it. Correct means: what is sealed is what was
  verified; a completed run is final; nothing finished is thrown away; resuming
  gets somewhere.
* **Maps.** Threads share a token budget and a packet table, fail at any moment,
  and are run again. Correct means: the budget holds over all executions; one
  packet's failure loses nothing of another; what was paid for is kept.
* **Goals.** The goal file, the runs it started and the requested output are
  written at different moments by commands that may be killed. Correct means:
  iterations are bounded; "completed" is final and true of all three; a retry
  hears what the verifier of the recorded attempt said.
* **Captures.** A call ends while descendants hold its pipes, ignore SIGTERM or
  leave the group, and while its own threads are stuck. Correct means: an output
  called complete was read to its end; what a preview does not show is stored or
  accounted for; nothing in a terminated group lives on; the shared budget is
  given back on every path.
* **Results.** Threads, readers and kills meet inside a locked container write.
  Correct means: no reader and no resume takes the run's own unfinished work for
  tampering; storing is optional and decides no outcome; the lock comes back.
* **Routines.** A supervisor decides on a state it read without a lock, other
  supervisors and manual runs rewrite the same document, and a routine is
  reserved by the pid of a process that may be killed. Correct means: one run of
  a routine at a time; a slot is run once; a reservation does not outlive its
  run; a slot that comes is handled, or given up only as the catch-up window says.

The hazards, each at its line and with the properties that watch it, are listed
in `PROJECT.json`.

## Modules

| module | models |
|---|---|
| `StageApply` | `apply_verified_stage` with its locks, backup, merge, rollback, receipt and recovery, one action per file operation |
| `AtomicApply` | what `conductor apply` promises: a change lands at once, may be taken back until the receipt is written, never after |
| `StageApplyRefinement` | the refinement mapping from the first to the second |
| `StageApplyProofs` | theorems about `StageApply` |
| `StageApplyRefinementProofs` | theorems about rollback and the refinement of `AtomicApply` |
| `MCStageApply` | instances for TLC: flat stages, overlapping stages, stages that turn a file into a directory |
| `RunLifecycle` | the runner and its state: construct, lock, steps, stage, verification, sealing, failure, dry run, crash |
| `MCRunLifecycle` | instances for TLC |
| `RunLifecycleProofs` | theorems about `RunLifecycle` |
| `AgentMap` | `_agent_map`: packet table, waves of threads, token caps, kills |
| `AgentMapProofs` | theorems about `AgentMap` |
| `GoalLoop` | `run_goal` and the part of `run_direct` it depends on: goal file, attempts, feedback, output |
| `GoalLoopProofs` | theorems about `GoalLoop` |
| `ProcessCapture` | `run_process`: the child and a descendant, two readers, a writer, the timeout, the termination of the group, captures and their budget |
| `MCProcessCapture` | the programs of child and descendant for TLC |
| `ProcessCaptureProofs` | theorems about `ProcessCapture` |
| `ResultStore` | `preserve_process_overflow` and the container store under a map's threads, readers, kills and failed writes |
| `MCResultStore` | the streams that overflow for TLC |
| `ResultStoreProofs` | theorems about `ResultStore` |
| `RoutineSupervisor` | `supervise_routines`, `run_due_routines` and `execute_routine_manifest`: supervisors, manual runs, the state document and its lock |
| `RoutineSupervisorProofs` | theorems about `RoutineSupervisor` |

### StageApply

A path is a number, ordered as the code sorts path strings; `Dir` gives the
directory that holds it. A content stands for the recorded hash, size and mode.
`ws` and `dirs` are the workspace, `backup` and `backupDir` are
`apply-backups/<step>`, `receipt` is the merged receipt, `inflight` (a history
variable) the run whose merge or restore may be half done. Each process has a
`pc` along `_apply_verified_stage_locked`, and acts in the code's order: run
lock, workspace lock, receipt check, deletion check, backup (reuse, rebuild,
recover), second comparison, deletions, writes, verification, receipt;
`except`: restore, "rolled back". `_write_bytes` can fail after it linked its
file (`SyncFails`), and a kill inside it can leave its temporary (`litter`).

`CommittedTree` counts every file of a half-done merge as unchanged until the
last one is in place; with it `StageApply` implements `AtomicApply`.

### RunLifecycle

`status`, `step`, `pending`, `session`, `noted`, `recorded` and the recorded
half of `output` are what `state.json` holds; `evidence`, the rest of `output`,
and `stage` are files. `handle[p]` is the `_stage` of process p's
`WorkflowRunner`, read by `Open` without the lock as the constructor does.
`pc` follows `execute`, `_execute_step`, `_provider_workspace`, `_codex`,
`_handle_failed_stage`, `_verify_and_seal_stage`. A version stands for the
contents of a tree, `"torn"` for an unfinished copy, which every check takes for
a tree. A stage an agent left can be damaged in three ways, as two functions read
it: `validate_stage_workspace` (`StageValid`) rejects `"dirty"` (an excluded
directory) and `"foul"` (a symlink, too many bytes), `snapshot_workspace`
(`Readable`) rejects `"foul"` and `"crowded"` (more files than it reads, fewer
than a stage may have entries). `Open` takes a snapshot of a pending stage, so one
that is not `Readable` keeps any later process from being constructed. `saw` is a
history variable: the tree each verifier last passed on. An output goes from
absent to unrecorded to recorded; a Codex output that is replaced is mismatched
in between.

### AgentMap

`step`, `table` and the recorded half of `output` are in `state.json`; `output`
is each packet's file against the artifact index (absent, unrecorded, recorded,
mismatched). The locals of `_agent_map` keep their names (`used`, `cap`; `todo`
is `pending`, `done` the indices of `outputs` that are set, `wave` the futures
not collected). Each packet of a wave has a thread that walks `invoke_codex`:
launch (or refusal of an unrecorded output), answer or failure, output file,
index. The main thread collects ended threads in any order, as `as_completed`
does, and raises the first failure after the last one. `paid` is a history
variable: what was answered since the last kill.

### GoalLoop

`status` and `attempts` are the goal file, `lock` its flock, `runs` the run
directories in the order they were created, `context` the feedback each was
given, `output` the requested output file (the number of the run whose result
it holds). `feedback` and `result` are locals of `run_goal`. A run is executed
in one step that ends in any way `build_direct_workflow`'s steps can end
(`Executions`); `ResumeRun` is the user resuming a failed run behind the goal's
back. A text is named by its origin: which capture of which run.

### ProcessCapture

The child (`"leader"`) and what it forks (`"child"`) are programs of a few
operations: write to a pipe, read the input, fork, leave the group, ignore
SIGTERM, take on another user, close the pipes, hang. `life`, `group`, `deaf`,
`foreign` (the kernel refuses to signal it) and `holds` are their side of the
kernel; they are the environment and marked external in the map. `pipe` counts
the units in each pipe, `open` says whether the conductor still has its end.
`thread[t]` is where each I/O thread stands in its loop (`check` of `stop_io`,
`select` and one read or write, `store` into the `_CaptureBuffer`), `chunk` what
a reader holds between its read and its append. `capture` is the state of a
`_CaptureBuffer`: not needed yet, active, refused by the budget, lost to a
storage error that may be ignored, spoilt by one that may not, passed to the
result. `captured`, `stored` and `truncated` are its `total_bytes`,
`stored_bytes` and `truncated`: `_append_bytes` counts all it is given and
stores what the capture limit leaves room for. `pc` follows
`_collect_spawned_process`: start the threads, wait, `_terminate_group` (`term`,
`grace`; `back` is its return address, as it is called from three places, and
goes back at once if it can signal nobody in the group), reap, join, `stop_io`,
join again, `finish` of both buffers, and the `finally` clause (`cleanup` to
`drop`). An error goes straight to `cleanup`. `Consume` is
`discard_process_captures` by the caller of `run_process`. `forced` is a history
variable: the group was terminated.

### ResultStore

`store`, `records` and `temps` are the directory on disk; `status`, `attempt`,
`table` and `refs` what `state.json` says of the step and its result ids. Each
packet of a wave has a thread: it overflows (`Overflow`, a reservation), ends
(`EndRun`), then stores its streams one after the other (`Keep`, `MakeRoot`,
`MakeLock`, `Lock` with the recovery of a temporary, `OverQuota` or `Stage`,
`Link`, `Finish`); `Fail` is an error in any of these steps. `kept` is what
becomes of each stream, with the reason where nothing is stored. The conductor
resumes (`RunState.resume` with its `verify`, then `execute`, where a step that
was left running fails, as it cannot be started), starts waves with the share that
`capture_limit_for_parallelism` gives them, and saves each packet's outcome with
the ids of a failed one. A reader inspects the state first and the store later,
without the run's lock, in the looks `verify` takes: at the directory, at the
lock file, at the entries of a directory without one, or under the lock at all of
them. Its `verdict` is that of its last inspection; "missing" is `verify`'s error
"result store lock is missing". `ProcessCapture` shows what one call hands over and
gives back; `ResultStore` takes it as one step and shows what a wave of them
does with it.

### RoutineSupervisor

`record` is `state.json`: `owner` is `owner_pid` while `last_status` is
"running" and `Nobody` in every other status, `last` is
`last_scheduled_for_utc`, `executions` the count. `paused` is `controls.json`,
`schedule` the slots of each manifest, `locked` who holds `state.lock`. A
process is its pid. A supervisor reads state, controls and time (`BeginCycle`,
into `view`), looks at its routines in any order (`NotDue`, `Due`), and takes
the lock (`Enter`, which keeps the document read in `seen`) to reserve, to
record a run or to note a slot that was not run (`"skip"` for a paused routine,
in the `try` block; `"note"` for a blocked one, in its handler); after each it
reads the state again, still at the time of the cycle (`Reload`). A manual run
reserves and records the same way, with slot 0. `Finish` has the three ways a
run ends for its caller: a result, an error `run_due_routines` handles (the slot
is noted as blocked on top of the recorded failure), any other one. `WriteFails`
is a failed replacement of the document, before or after it took place: the slot
is then noted as blocked, or, if that is what failed, the supervisor ends.
`TooLate` is the catch-up window, in ticks of the clock. `Start` is the guard of
the background launcher (`Overlap` FALSE) or the absence of one for a foreground
supervisor (TRUE). `settled` (slots reserved or noted), `finished` (runs
recorded) and `overlapped` (two supervisors were up together) are history
variables.

## Runs

| run | question | bounds | result |
|---|---|---|---|
| `apply_safety` | do crashes, errors and edits leave data safe? | 2 processes, 2 runs, 3 paths (a, a/b, c), 2 contents, one crash, error and edit | holds |
| `apply_atomic` | is the file-by-file apply an atomic one, and does retrying settle it? | 2 processes, 2 runs with flat stages, the second staged from the result of the first (change and delete; delete and add), one crash and error | holds |
| `rollback_swap` | does rollback survive a file turned into a directory? | 1 process, 1 run, one error | violated |
| `lifecycle_solo` | is the sealed tree the verified one; does resuming complete a run? | 1 process, writer + shell + Codex verifier, 2 versions, one crash, one edit, dry runs | holds |
| `lifecycle_shared` | do stale processes spoil a run? | 2 processes, writer + Codex verifier + artifact, 2 versions, one crash, one edit, policies that refuse a step or the run | holds |
| `stale_stage` | may a stale process verify? | 2 processes, one crash | violated |
| `goal_loop` | is a goal final and true of its runs and output, and does it end? | 2 processes, 2 iterations, 4 runs, one kill, one resumed run, output absent or present, replaceable or not | holds |
| `goal_guided` | does a retry follow a rejection and carry it? | 1 process, Codex verifier only | violated |
| `agent_map` | does the budget hold, is paid work kept, does the map complete? | 3 packets, 2 threads, 3 tokens a call, 5 in all, 2 at least, two kills | holds |
| `process_capture` | is a call's report true, its group dead, its budget given back, whoever holds the pipes? | 6 programs of the child, 5 of the descendant, 1 unit of input, pipes and previews of 1 unit, captures of at most 2, a budget of two captures of which other calls use none or one | holds |
| `result_store` | do interrupted and concurrent container writes spoil a run? | 2 packets in 2 threads, one chatty stream each, 2 attempts, a quota of 2 records, 1 reader, a budget of 4 with captures of at most 3, one kill, one failed write | holds |
| `routines` | is a routine run by one process at a time, each slot once, and every slot handled? | 2 supervisors, 1 manual run, 1 routine, 2 slots, a tick longer than the catch-up window, two schedules, one kill, failed write or command of the user, supervisors side by side, pids given away | holds |

Two processes and two runs are enough for every conflict over one lock, one
receipt or one backup; three paths give an addition, a deletion, a change and a
clash of a file with a directory; one fault of each kind, at any step, puts a
second attempt on top of every partial state the first can leave. Two versions
tell a tree from a changed one. Three packets and two threads give a wave with
two threads and a shorter last one; five tokens make the share of a wave smaller
than the cap per call, and the budget run out. Two kills hit a map before and
after its first packet was saved. Two iterations and four runs allow a retry, an
exhausted goal, and attempts a kill forgot (`MaxRuns` is reached only with an
output in the way, where each resume pays again). A pipe of one unit makes
writers block and readers meet an empty pipe that is still held; a preview of
one unit is outgrown by the second, and a spool of two is filled by it and cut
by the third; with a budget of two captures both, one or none of the streams get
one. The programs are a child that talks on all pipes, one that writes more than
a spool holds, ones that hang deaf to SIGTERM or beyond any signal, and one that
leaves behind, or outlives its timeout with, a descendant that talks, is deaf,
may not be signalled, left the group or closed the pipes. Two attempts of two
packets under a quota of two records fill the store, and put a second attempt on
top of what a kill or a failed write left of the first; two captures per packet
of at most three make the share of a wave of two smaller than that of a wave of
one. Two supervisors and a manual run put a third process between any two on the
same record; two slots make one that was handled differ from one that came
later. A slot is caught up within its tick, by a supervisor that was started or
restarted there, and is superseded or too late in the next. Routines share only
the document, which every writer rewrites as a whole; for any number of them
there are the proofs. The number of errors a command may meet is bounded in
`StageApply`; in `RunLifecycle` failures of agents, copies and verifiers are
unbounded and only crashes and edits are bounded.

`CHECK_DEADLOCK FALSE` is set for `RunLifecycle` and `AgentMap`: a run with a
damaged artifact index really stops, as no process can be constructed on it. It
is set for `GoalLoop`, where a completed goal is the end, for `ProcessCapture`,
where a call is over when its result was used, for `ResultStore`, where the
last attempt is the end of the instance, and for `RoutineSupervisor`, where all
processes may have ended.

The violated runs are disagreements between the code and its own documents or
tests; `PROJECT.json` ("findings") quotes both. In short:

1. A file replaced by a directory cannot be rolled back: the directory stays.
2. A runner constructed before the writer ran verifies the source workspace,
   and a later resume seals the stage as verified by it.
3. Goal mode retries a verify step whose provider failed, though the documents
   say it never does; and an unsatisfied verdict is never saved, so the retry is
   not told what it said.

All three were also reproduced with the real modules.

`ResumedRunCompletes` says what remains true in spite of them: a run that is
resumed again and again completes, unless it is `Stopped`, and `Stopped` names
every state no resume gets out of. Three of them deserve a reader's attention,
though no document promises otherwise. A crash between the two saves after a
writer (`runner.py` 381 and 146) makes the next resume discard the finished
stage and leaves the run unusable. A dry run discards the stage of an
interrupted writer (`runner.py` 158) and leaves it recorded as pending; for that
reason `PendingStageExists` is checked without dry runs. And an agent that is
killed with its conductor while its stage holds what `snapshot_workspace` rejects
(a symlink, too much) leaves a pending stage that `load_pending_stage` refuses
(`staged.py` 170) in the constructor, before `_handle_failed_stage` could drop it.
The property cannot exclude what the code does: it says that nothing else keeps
a run from completing. The others are outputs
a crash left ahead of the artifact index, a source that changed under a pending
stage, and a policy that refuses a step.

Other observations:

* A kill inside an atomic write leaves a temporary in the workspace that makes
  every later apply reject the half-done merge (`staged.py` 564), until the user
  removes it; `RetrySettles` excepts it with `litter`.
* A descendant in the child's group that keeps a pipe open does not fail the
  step, as `docs/runtime.md` 114-115 has it: `_terminate_group` kills it, the
  readers see the end of the stream, and the step succeeds with a complete
  output (reproduced with the real module). One that left the group does.
* A descendant that closed its pipes survives a normal call: the group is told
  to end only on a timeout or when a thread does not (`NoSurvivors` says so with
  `forced`).
* `_terminate_group` returns without a word if the kernel refuses to signal the
  group (`process.py` 676-677), and SIGKILL reaches only what it is allowed to: a
  leader that took on another user outlives the timeout and the call, which raises
  "did not terminate" and tries the same once more in its `finally` clause.
  `NoSurvivors` excepts exactly such processes.
* An output longer than its capture limit is stored up to the limit and marked
  `truncated` (`process.py` 226-238): "spooled" never means more than that.
* A process constructed on a pending stage may find it replaced by the partial
  copy of another one's attempt (its handle says only that there was one) and run
  its agent there; with two processes such a tree can become the evidence, and be
  verified and sealed. The cause is that of finding 2, a handle that is not loaded
  again under the lock.
* `verify` reports a missing lock if the first writer of a run made its lock file
  between `verify`'s look for it and its listing of the directory (`results.py`
  138-141). `InspectAccepts` excepts that one rejection of the run's own work, and
  says that it happens only to such a look, and to a reader at most once.
* A map whose conductor was killed fails once when it is resumed: `execute` tries
  to start the step, `transition_step` refuses to start a running one (`state.py`
  297), and the handler records it as failed (`runner.py` 151-172), from where the
  next resume can start it; `Resume` has both steps.
* A descriptor is closed under a thread that is stuck (`process.py` 508); when it
  goes on it closes its stream again, and the number may by then be another
  file's. Descriptor numbers are not modelled.
* Only background supervisors exclude each other. A foreground one or the
  service beside it can run a slot twice (the second decided before the first
  reserved, and `_reserve_routine_execution` does not look at the slot again);
  reproduced with the real module. A run that ends late also moves
  `last_scheduled_for_utc` back, so that a slot noted as blocked meanwhile is run
  after all. `SlotRunsOnce` is stated for supervisors that have not overlapped.
* A write that fails when a run is recorded leaves the routine "running" under
  the supervisor's own live pid: it notes every later slot as blocked until it
  exits. A pid given to another program does the same. `BusyMeansRunning` says
  that nothing else does.
* A run that raises a `ValidationError` or `PolicyError` is recorded twice in
  the history, as "failed" and as "blocked".

## Fairness

`RetrySpec` and `FairSpec` assume that a command that runs goes on (weak
fairness: one thread, no waiting, the flocks are non-blocking for the run and
released by the kernel for the workspace) and that the user repeats the command
(strong fairness of starting it, since it is enabled only between two
attempts). `RunLifecycle!FairSpec` also assumes that a copy, an agent that leaves a
valid tree with changes evidence can list (`AgentEnds` and `Finalize`), and a
verifier succeed at last if tried again and again: no code enforces that, and
without it a run need not complete. Nothing is assumed of
crashes, edits, what agents write, or dry runs.

`GoalLoop!FairSpec` assumes the same two things of a goal's commands and nothing
of how runs end: a goal that never succeeds is exhausted. `AgentMap!FairSpec`
assumes them of the step, that each thread goes on (`run_process` has a timeout,
so every call ends), and that a packet called again and again is answered at
last; the last is an assumption about the provider.

`ProcessCapture!FairSpec` assumes that the calling thread, each I/O thread and
the processes (together) go on; each wait in the code has a timeout, which the
model lets expire at any time. That the timeout of the call itself expires is
assumed only for a child that hangs: so `CallEnds` shows that any other call
ends by itself, its pipes kept moving by the readers and the writer.
`ResultStore!FairSpec` assumes that the conductor's thread and each packet's
thread go on, weakly: a thread takes the lock at most once per stream, so none
is starved. Resumes, kills, failures and readers are not assumed.

`RoutineSupervisor!FairSpec` assumes, weakly, that each process goes on: a
supervisor wakes up after `poll_seconds`, a run ends at the latest by its
timeout, and a process that waits for the lock gets it, its holders being
finitely many and each leaving it in the same `with` block. The clock, the
starts, stops and kills of processes and the user's commands are not assumed;
`DueSlotIsHandled` says that a slot that has come is handled, or superseded by a
later one, by a supervisor that is and stays up, however long none was up
before, unless it is found more than seven days late
(`MAX_ROUTINE_CATCHUP_DAYS`): then no supervisor ever runs or notes it, as
`tests/test_routine_cron.py` 228-231 has it.

## Proofs

`StageApplyProofs` proves, for every finite or infinite set of processes, runs,
paths, contents and stages that meets the three assumptions of `StageApply`:

* `TypeCorrect`: the type invariant;
* `OneWriterHolds`: at most one command is past the workspace flock, and it
  holds its run's lock;
* `TornWorkspaceIsBackedUp`: a run that may be half merged has an exact backup;
* `CrashesAreRecognised`: a half-merged workspace without litter or edits passes
  `_is_interrupted_snapshot`;
* `DriftIsSafe`: no step of a command changes a file that holds neither of its
  recorded contents, edits since its last comparison excepted;
* `MergedIsVerified`: "merged" is reported only of the verified tree.

The invariants are not inductive alone. `LockInv` ties each `pc` to the locks it
implies; `BackupInv` says which parts of a backup are written at each `pc` and
that nobody but the lock holder is rebuilding it; `ContentInv` says that during
a merge or restore each file holds one of its two contents, and that a process
in the middle of it is the one `inflight` names. `Invariants` proves their
conjunction inductive, one step per action; the last three theorems follow.

`StageApplyRefinementProofs` proves the two promises that only hold on a
condition, with the condition:

* `FailedMergesAreUndone`: `RollsBackOnFailure`, if no stage turns a file into a
  directory or back (`NoSwap`). Finding 1 is what happens otherwise.
* `ApplyIsAtomic`: `ImplementsAtomicApply`, for behaviours without edits and
  without an fsync that raises once a file is in place (`Quiet`), and evidence
  such that a tree two runs could both have left half merged is a whole snapshot
  for each of them (`SeparateRuns`). Each is needed: see the limits below. The
  number of processes, runs, paths, crashes and errors is not bounded, and a
  recovery may be done by another process or, where two runs have the same
  evidence, for another run.
* `OneRunIsAtomic`: for one run, `SeparateRuns` holds of any evidence.

`apply_atomic` is an instance of all three conditions. `RollbackInv` adds to the
invariants above that no path is both a file and a directory, and how far a
restore has come: nothing stands in the way of the files it has yet to write,
and every other file is as it was. `AtomInv` says that nothing races without
edits, that a run at work past its receipt check has no receipt, and that while
no run is in flight the workspace is torn for none that has a backup. From it
each of the five steps that start a merge or recovery, end one or write a
receipt is matched with a step of `AtomicApply` or a stutter; at any other step
the committed tree can only change with the last file (`Land`) or with the first
file taken back (`TakeBack`).

`RunLifecycleProofs` proves, for any number of processes, steps, verifiers,
policies, versions, crashes and edits:

* `TypeCorrect`, `CompletedFinal` and `WorkKept` without further assumptions;
* `PendingExists`, unless a dry run drops the stage of an unfinished writer
  (`DryRunsKeep`); `PendingExistsWithoutDryRuns` has no dry runs and no condition;
* `SealedVerified` and `CompletedSealed`, if every process that begins to execute
  after the writer completed knows of its stage (`KnowsStage`): the stale process
  of finding 2 is thus the only way to seal what was not verified;
  `OneProcessSeals` shows that one process at a time meets the condition.

The strengthening they share: `LockInv` (exactly the process that executes
holds the flock, and nobody executes a completed run), `OrderInv` (steps are
completed in order, the writer only with its evidence) and, for the one process
at work, `WorkInv`: where it is and which steps that implies (`Placed`), what a
writer has in hand (`Holds`), that every artifact but the one being written is
the recorded one (`Indexed`), that a stage is dropped only by its writer or when
damaged (`Drops`), and what is about to be sealed (`Seals`). `WorkKept` follows:
who drops an undamaged stage is a writer that has not completed. `PendInv` adds
that the state names no stage while one is made or dropped, nor once the writer
is completed; a dry run at a later step of an unfinished writer breaks just
that. `KnownInv` adds that the process that executes knows of the stage once the
writer is completed, and that what a verifier passed on is what the stage holds
as long as it holds the writer's tree; a process constructed before the writer
ran breaks the first half. Nothing is asked of the processes that do not hold
the lock, so the argument is the same for one and for many.

`GoalLoopProofs` proves, for any number of processes, iterations, kills and
resumed runs: `TypeCorrect`, `RunsBounded`, `CompletedIsFinal`,
`CompletedIsDone` and `ContextRecorded`, each for the property of nearly the
same name. The strengthening: `LockInv` (the flock is held by exactly the
command that runs), `CountInv` (a command past the loop's test has an iteration
left and, from `CreateRun` on, owns the one run that is not recorded yet),
`ResultInv` (a success about to be reported is of the last run and published)
and `FeedbackInv` (the feedback in memory is the recorded one).

`AgentMapProofs` proves, for any number of packets, workers, tokens and kills:
`TypeCorrect`, `BudgetHolds`, `PacketsStay`, `CompletedReadable`, `AnswersKept`
and `TableStaysWithinBudget`. `WithinBudget` rests on `ShareFits` (n shares of
what is left fit into it, and a wave is not empty: the least pending packet is
in it) and `OneCollected` (collecting a packet moves at most one share from the
reserved to the charged); `WaveInv` says threads exist only for the uncollected
packets of a wave, `TokenInv` that a usage is within the cap, `KeptInv` where
each answer is between its thread and the table. `LedgerInv` equates `used` with
the sum over the packet table, while a resumed step loads it with the sum over
the packets loaded so far. What changing one packet does to a sum is shown from
the recursive function that defines it, by a smallest set of packets for which
the claim would fail.

`ProcessCaptureProofs` proves, for any programs of the child and its descendant,
any input, pipe, limits, budget and use of it by others: `TypeCorrect`,
`CompleteIsDrained`, `OverflowAccounted`, `NoneSurvive` and `BudgetReturned`.
Its inductive invariant adds `PipeInv` (what was written is read or in the pipe;
an end that was seen is for good), `SpoolInv` (all that was read but the chunk
in hand is counted, and stored up to the limit: `Filled`), `ThreadInv` (a spool
is handed over only when no thread runs, and a result has only harmless
captures), `BudgetInv` (a reservation is of a capture, and after the call of a
thread that will still give it back) and `GroupInv` (the leader never leaves its
group; a terminated group has nobody running whom the conductor may signal). The
argument for the budget: a capture is reserved once, by a reader that had none,
and released by the set of those still reserved, so that two releases of one
capture count once.

`ResultStoreProofs` proves, for any number of packets, workers, bytes, records,
readers, attempts, kills and faults: `TypeCorrect`, `InspectionAccepts`,
`BudgetSuffices` and `CaptureOptional`. The strengthening: `LockInv` (who is in
the middle of a write holds the lock), `DiskInv` and `WriteInv` (at most one
temporary, linked or not exactly as far as its writer came), `FreshInv` (what is
still to be stored is not there yet, as identities are used once), `KeptInv`
(what became of each stream up to its collection), `ReaderInv` (the ids a reader
holds still resolve, as containers are never removed) and `BudgetInv`, which
rests on `ShareFits`: the shares of a wave, two for each packet, fit into the
budget.

`RoutineSupervisorProofs` proves, for any number of supervisors, manual runs,
routines, slots, schedules and faults: `TypeCorrect`, `OneExecutionHolds`,
`BusyIsRunning`, `CountsAddUp` and `SlotsRunOnce`. `LockInv` says that the lock
has one holder and the document he read has not changed since; `WriteEffect`
turns that into what a write does to the record of one routine and to no other.
`JobInv` ties each `pc` to a job. `OwnerInv` (an executing process is the owner
in its routine's record) needs both and is all that `OneExecutionHolds` rests
on: two processes cannot both be the owner. `SoloInv` speaks of the time before
supervisors overlap: one of them is alive at most, no settled slot is after the
record's last one, and the supervisor knows at least that one; a manual run
keeps it because it leaves the last slot alone. A slot about to be launched is
then later than every settled one.

`OneWriterHolds`, `RunsBounded`, `BudgetHolds`, `PacketsStay`, `BudgetSuffices`
and `CountsAddUp` are about properties that no run checks: here the proofs, for
all values of the constants, stand alone.

Only model-checked: the seven liveness properties (`RetrySettles`,
`ResumedRunCompletes`, `GoalSettles`, `MapCompletes`, `CallEnds`, `WavesEnd`,
`DueSlotIsHandled`), which rest on fairness and so on `ENABLED`. Every safety
property that a passing run checks has a theorem.

## Abstractions and limits

* A snapshot is read atomically; the two comparisons of an apply are separate,
  so an edit between them is seen, one during the walk is not.
* `ImplementsAtomicApply` excludes edits (one may race the last comparison;
  `DriftIsNotOverwritten` covers that case), two runs that half cover one tree,
  and `SyncFails`. Each breaks the promise: an fsync error after the receipt is
  linked (safe.py 243-247) rolls the workspace back under a receipt that says
  "merged"; and with an old exact backup a workspace that another run's merge
  left in this run's contents is mistaken for an interrupted merge and rolled
  back (staged.py 445). A workspace that a failed restore left torn (finding 1)
  counts as one that is still to be restored.
* A run has one default receipt path. A stage that was tampered with after
  sealing shows as an error in the merge.
* Evidence hashes, JSON shapes, path syntax, redaction, quotas as numbers:
  a tree is valid or not.
* `rmtree` of a stage is atomic. State saves and artifact writes of the runner
  do not fail, a crash between them is modelled.
* The provider's sandbox is outside the code: a Codex verifier may change the
  stage, but none restores by accident what another changed. An agent ends with
  its conductor; that one may survive a kill is listed as a hazard.
* Dependencies precede their step (`workflow.py` validates it), so "dependency
  blocked" is unreachable and left out. A policy is a set of permitted steps,
  fixed by the run's fingerprint.
* In `RunLifecycle` `agent_map`, `collect_results` and `manual_gate` steps are
  not told apart from an artifact step.
* In `AgentMap` one execution runs at a time (the run's flock), and the session
  a failed packet may resume changes nothing the properties speak of. The tokens
  a failed call used are not charged, in the code as in the model:
  `max_total_tokens` bounds what completed packets used, not what was spent.
* In `GoalLoop` a command with other bindings (task, policy, options) is refused
  at once and left out, and no bookkeeping file is damaged. With an output that
  exists and may not be replaced `run_direct` raises after the paid run, the
  goal stays "running", and every resume pays again (`InTheWay`).

* In `ProcessCapture` the child forks once, and a descendant that left the group
  may live on after the call, as in the code. An error of `fork` or `exec`
  precedes the call modelled here.
* In `ResultStore` a call ends with its threads: the stuck reader that outlives
  its call, and gives its share back late, is in `ProcessCapture` only. The two
  flocks of a write (run directory, lock file), always taken in this order, are
  one, and so are the mutexes of store and run. The byte quota is the record
  quota in another unit. A container's identity is its packet, stream and
  attempt, so that "destination exists" cannot happen.
* An agent has a session of its own and survives a kill of its conductor
  (`process.py` 376); what it does after that is not followed.

* In `RoutineSupervisor` slots are numbered and the clock starts at the first:
  the grids of interval, daily and cron schedules, their time zones and the
  creation time are abstracted to a set of slots. An interval has no catch-up
  window (`routine_supervisor.py` 459-466), but it is seven days at most
  (`routines.py` 28), so that its latest slot is never later than that.
  Approvals and the check of the target are a choice between running and
  blocking. The history, the logs, rotation and the output of a run are left
  out; they are written by the same replacements. A process that a supervisor's
  kill leaves behind (a child in a session of its own) is not followed.

## Not modelled

* `conductor_extras/` (about 100 000 of the repository's 130 000 lines) but for
  the routine supervisor: the specialist and historical commands. They are
  optional, the default runtime does not import them, and the invariants here do
  not rest on them; for this reason the share of lines the models cover is
  small. The largest of them (`schemas.py`, `dashboard.py`, `live_server.py`,
  `benchmark.py`) validate and format; `runner.py` there is an older form of the
  core's. The candidates for a model are `agent_team.py`, `run_control.py` and
  the launch handshake of `background_supervisor.py`.
* `results.get`, `search`, `outline`: they only read, and what they see is what
  `verify` sees. The container format, redaction and hashing are pure functions.
* The command line, error classes, the classification of commands, the parsing
  of workflows and of a provider's stream: pure functions of their input, with no
  interleaving and no state, and better served by the unit tests they have.
* `tools/`, `plugins/`, `dist/`, agent profiles, benchmarks: no part of a run.

## Plan

1. `StageApply`, its abstraction, its proofs and that of the refinement: done.
2. `RunLifecycle` with its proofs: done. Next: result sidecars and
   `_collect_results` in it.
3. `AgentMap` with its proofs: done. Next: `_collect_results` on its table.
4. `GoalLoop` with its proofs: done. Next: show that `RunLifecycle` ends a run
   only in ways `Executions` allows.
5. `ProcessCapture` and `ResultStore` with their proofs: done. Next: show that
   the threads of `ResultStore` see of a call only what `ProcessCapture` allows.
6. `RoutineSupervisor` with its proofs: done. Next: the launch handshake, stop
   and restart of background supervisors, which decide `Overlap`.
7. `StageApply` composed with `RunLifecycle`: only verified trees reach the
   workspace of a run no stale process touched.
