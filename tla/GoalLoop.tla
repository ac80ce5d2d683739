------------------------------ MODULE GoalLoop ------------------------------
(***************************************************************************)
(* Goal mode, conductor_runtime/core/goal.py: run the task; when a         *)
(* verifier step fails, run it again with what the verifier said, at most  *)
(* MaxIterations times.  The goal file records the finished attempts, so   *)
(* that a later command can resume the goal; its flock is held throughout. *)
(*                                                                         *)
(* A run is one call of run_direct (core/auto.py): a new run directory, an *)
(* execution whose end is one of Ends (RunLifecycle has the details), and  *)
(* the requested output file.  Texts are named, not spelled: a feedback is *)
(* a source, the run it comes from, and which capture of that run it is.   *)
(***************************************************************************)
EXTENDS Naturals, Sequences

CONSTANTS Procs,
          MaxIterations,   \* --max-iterations, bound to the goal
          Verifiers,       \* the steps after "work": "check" (a shell command), "verify" (Codex)
          WithOutput,      \* is an output path requested,
          Replaces,        \*   and may it be replaced? (the values --replace-output may have)
          MaxRuns, MaxCrashes, MaxResumes,
          None

ASSUME GoalAssumption ==
    /\ MaxIterations \in Nat \ {0} /\ MaxRuns \in Nat \ {0}
    /\ MaxCrashes \in Nat /\ MaxResumes \in Nat
    /\ Verifiers \subseteq {"check", "verify"}
    /\ WithOutput \in BOOLEAN /\ Replaces \subseteq BOOLEAN
    /\ None \notin Procs

NoFeedback == <<"none", 0, 0>>
Uncaptured == <<"uncaptured", 0, 0>>    \* "... failed without a captured result."
Feedbacks  == {"none", "uncaptured", "check", "verify"} \X Nat \X Nat

\* verdict, check: which capture of that file the run's artifacts hold, 0 for none.
Ends == [status : {"completed", "failed", "blocked"},
         failed : {"none", "work", "check", "verify"},
         reason : {"none", "rejected", "error"},
         verdict : Nat, check : Nat]
Running == [status |-> "running", failed |-> "none", reason |-> "none", verdict |-> 0, check |-> 0]

Users == MaxRuns + 1     \* an output file that was there before

VARIABLES
    status, attempts,     \* the goal file,
    replace,              \*   and the options it is bound to
    runs, context,        \* the run directories; the feedback each run was given
    output,               \* the requested output: 0, the run it is of, or Users
    lock,                 \* the goal's flock
    pc, feedback, result, \* each process; the last two are locals of run_goal
    crashes, resumes

goal  == <<status, attempts>>
local == <<pc, feedback, result, lock>>
env   == <<replace, crashes, resumes>>
vars  == <<goal, runs, context, output, local, env>>

Attempts == [run : 1..MaxRuns, retryable : BOOLEAN, feedback : Feedbacks]

TypeOK ==
    /\ status \in {"absent", "pending", "running", "retrying", "completed", "failed", "exhausted"}
    /\ attempts \in Seq(Attempts) /\ replace \in BOOLEAN
    /\ runs \in Seq(Ends \union {Running}) /\ Len(runs) <= MaxRuns
    /\ context \in Seq(Feedbacks) /\ Len(context) = Len(runs)
    /\ output \in 0..Users
    /\ lock \in Procs \union {None}
    /\ pc \in [Procs -> {"out", "loop", "saved", "executing", "executed", "published"}]
    /\ feedback \in [Procs -> Feedbacks]
    /\ result \in [Procs -> {"completed", "failed", "blocked"}]
    /\ crashes \in 0..MaxCrashes /\ resumes \in 0..MaxResumes

Init ==
    /\ status = "absent" /\ attempts = <<>> /\ replace \in Replaces
    /\ runs = <<>> /\ context = <<>>
    /\ output \in IF WithOutput THEN {0, Users} ELSE {0}
    /\ lock = None
    /\ pc = [p \in Procs |-> "out"]
    /\ feedback = [p \in Procs |-> NoFeedback]
    /\ result = [p \in Procs |-> "failed"]
    /\ crashes = 0 /\ resumes = 0

-----------------------------------------------------------------------------
Last(s) == s[Len(s)]

End(st, f, why, v, c) ==
    [status |-> st, failed |-> f, reason |-> why, verdict |-> v, check |-> c]

\* How an execution can end.  was, now: the capture of the check's output
\* before it and after a check that got to run.  The verdict of a verifier
\* that is not satisfied is no artifact: invoke_codex raises first.
Executions(was, now) ==
    LET checked == IF "check" \in Verifiers THEN now ELSE was
        judged  == IF "verify" \in Verifiers THEN 1 ELSE 0
    IN  { End("completed", "none", "none", judged, checked),
          End("failed", "none", "none", judged, checked),        \* sealing the stage failed
          End("blocked", "none", "none", 0, was),                \* not permitted
          End("failed", "work", "error", 0, was) }
        \union { End("failed", "check", why, 0, IF why = "error" THEN was ELSE now) :
                    why \in {w \in {"error", "rejected"} : "check" \in Verifiers} }
        \union { End("failed", "verify", why, 0, checked) :
                    why \in {w \in {"error", "rejected"} : "verify" \in Verifiers} }

\* _verification_feedback looks at which step failed, not at why.
Retryable(r) == r.failed \in {"check", "verify"}

VerificationFeedback(i) ==
    LET r == runs[i]
        source == IF r.verdict > 0 THEN <<"verify", i, r.verdict>>
                  ELSE IF r.check > 0 THEN <<"check", i, r.check>>
                  ELSE Uncaptured
    IN  IF Retryable(r) THEN source ELSE NoFeedback

\* _feedback_from_latest, and the comparison it makes
ComparisonSkipped == TRUE        \* mutant: the recorded hash is not compared
Recorded == attempts # <<>> /\ Last(attempts).retryable
FeedbackFromLatest == IF Recorded THEN VerificationFeedback(Last(attempts).run) ELSE NoFeedback
FeedbackUnchanged  == Recorded => FeedbackFromLatest = Last(attempts).feedback

\* The command ends, with its locals.
Leave(p) ==
    /\ pc' = [pc EXCEPT ![p] = "out"] /\ lock' = None
    /\ feedback' = [feedback EXCEPT ![p] = NoFeedback]
    /\ result' = [result EXCEPT ![p] = "failed"]

-----------------------------------------------------------------------------
\* A goal id is used once: write_new_json refuses a file that exists.
NewGoal(p) ==
    /\ pc[p] = "out" /\ lock = None /\ status = "absent"
    /\ status' = "pending"
    /\ lock' = p /\ pc' = [pc EXCEPT ![p] = "loop"]
    /\ feedback' = [feedback EXCEPT ![p] = NoFeedback]
    /\ UNCHANGED <<attempts, runs, context, output, result, env>>

ExhaustedOnly   == status = "exhausted"                \* mutant: "completed" is not recognised
RunningIsActive == status \in {"completed", "running"} \* mutant: "running" is taken for active

\* A completed goal is reported again, from its file.
IsSettled == status = "completed"

ResumeGoal(p) ==
    /\ pc[p] = "out" /\ lock = None /\ status # "absent" /\ ~IsSettled
    /\ FeedbackUnchanged
    /\ lock' = p /\ pc' = [pc EXCEPT ![p] = "loop"]
    /\ feedback' = [feedback EXCEPT ![p] = FeedbackFromLatest]
    /\ UNCHANGED <<goal, runs, context, output, result, env>>

MayIterate == Len(attempts) < MaxIterations

BeginIteration(p) ==
    /\ pc[p] = "loop" /\ MayIterate
    /\ status' = "running"
    /\ pc' = [pc EXCEPT ![p] = "saved"]
    /\ UNCHANGED <<attempts, runs, context, output, feedback, result, lock, env>>

Exhaust(p) ==
    /\ pc[p] = "loop" /\ ~MayIterate
    /\ status' = "exhausted"
    /\ Leave(p)
    /\ UNCHANGED <<attempts, runs, context, output, env>>

\* run_direct: RunState.create
CreateRun(p) ==
    /\ pc[p] = "saved" /\ Len(runs) < MaxRuns
    /\ runs' = Append(runs, Running)
    /\ context' = Append(context, feedback[p])
    /\ pc' = [pc EXCEPT ![p] = "executing"]
    /\ UNCHANGED <<goal, output, feedback, result, lock, env>>

\* run_direct: execute
Execute(p) ==
    /\ pc[p] = "executing"
    /\ \E end \in Executions(0, 1) :
          /\ runs' = [runs EXCEPT ![Len(runs)] = end]
          /\ result' = [result EXCEPT ![p] = end.status]
    /\ pc' = [pc EXCEPT ![p] = "executed"]
    /\ UNCHANGED <<goal, context, output, feedback, lock, env>>

IfAbsent(p) == WithOutput /\ result[p] = "completed" /\ output = 0   \* mutant: an old output is left alone

\* run_direct: write_requested, which keeps an output it may not replace
MustPublish(p) == WithOutput /\ result[p] = "completed"
MayPublish     == replace \/ output = 0

Publish(p) ==
    /\ pc[p] = "executed"
    /\ MustPublish(p) => MayPublish
    /\ output' = IF MustPublish(p) THEN Len(runs) ELSE output
    /\ pc' = [pc EXCEPT ![p] = "published"]
    /\ UNCHANGED <<goal, runs, context, feedback, result, lock, env>>

OutputInTheWay(p) ==
    /\ pc[p] = "executed" /\ MustPublish(p) /\ ~MayPublish
    /\ Leave(p)
    /\ UNCHANGED <<goal, runs, context, output, env>>

\* mutant: the attempt is numbered before it is appended
NumberedEarly == [run |-> Len(attempts), retryable |-> Retryable(Last(runs)),
                  feedback |-> VerificationFeedback(Len(runs))]

\* The status is what run_direct returned, the feedback what the run
\* directory says by now.
Attempt == [run |-> Len(runs), retryable |-> Retryable(Last(runs)),
            feedback |-> VerificationFeedback(Len(runs))]

Succeeded(p) == pc[p] = "published" /\ result[p] = "completed"
GivesUp(p)   == pc[p] = "published" /\ result[p] # "completed" /\ ~Retryable(Last(runs))
Retries(p)   == pc[p] = "published" /\ result[p] # "completed" /\ Retryable(Last(runs))

RecordSuccess(p) ==
    /\ Succeeded(p)
    /\ attempts' = Append(attempts, Attempt) /\ status' = "completed"
    /\ Leave(p)
    /\ UNCHANGED <<runs, context, output, env>>

RecordFailure(p) ==
    /\ GivesUp(p)
    /\ attempts' = Append(attempts, Attempt) /\ status' = "failed"
    /\ Leave(p)
    /\ UNCHANGED <<runs, context, output, env>>

RecordRetry(p) ==
    /\ Retries(p)
    /\ attempts' = Append(attempts, Attempt) /\ status' = "retrying"
    /\ feedback' = [feedback EXCEPT ![p] = VerificationFeedback(Len(runs))]
    /\ pc' = [pc EXCEPT ![p] = "loop"]
    /\ UNCHANGED <<runs, context, output, result, lock, env>>

Crash(p) ==
    /\ pc[p] # "out" /\ crashes < MaxCrashes /\ crashes' = crashes + 1
    /\ Leave(p)
    /\ UNCHANGED <<goal, runs, context, output, replace, resumes>>

\* The user resumes a failed run of the goal by its directory; one with a
\* context cannot be resumed so.  Steps that completed are not run again.
Before(f) == CASE f = "work" -> {} [] f = "check" -> {"work"}
               [] f = "verify" -> {"work", "check"} [] f = "none" -> {"work", "check", "verify"}

ResumeRun(i) ==
    /\ resumes < MaxResumes /\ resumes' = resumes + 1
    /\ i \in 1..Len(runs) /\ runs[i].status = "failed" /\ context[i] = NoFeedback
    /\ LET r    == runs[i]
           next == r.check + IF r.failed \in {"work", "check"} THEN 1 ELSE 0
       IN  \E end \in Executions(r.check, next) :
               /\ end.failed \notin Before(r.failed)
               /\ end.status = "blocked" => r.failed = "work"
               /\ runs' = [runs EXCEPT ![i] = end]
    /\ UNCHANGED <<goal, context, output, local, replace, crashes>>

-----------------------------------------------------------------------------
RunGoal(p) == NewGoal(p) \/ ResumeGoal(p)

Step(p) ==
    \/ BeginIteration(p) \/ Exhaust(p) \/ CreateRun(p) \/ Execute(p) \/ Publish(p)
    \/ OutputInTheWay(p) \/ RecordSuccess(p) \/ RecordFailure(p) \/ RecordRetry(p)

Next ==
    \/ \E p \in Procs : RunGoal(p) \/ Step(p) \/ Crash(p)
    \/ \E i \in 1..MaxRuns : ResumeRun(i)

Spec == Init /\ [][Next]_vars

\* A command that runs goes on, and the user repeats it.
FairSpec == Spec /\ \A p \in Procs : WF_vars(Step(p)) /\ SF_vars(RunGoal(p))
-----------------------------------------------------------------------------
(***************************************************************************)
(* What the goal promises.                                                 *)
(***************************************************************************)
Active      == lock # None
InTheWay    == WithOutput /\ ~replace /\ output # 0

\* A goal pays for at most MaxIterations runs, and one more for each kill: no
\* run is forgotten by a command that was not killed (goal.py:86-122), unless
\* an output it may not replace makes run_direct raise after the run.
RunsAreBounded == Len(runs) <= MaxIterations + crashes \/ InTheWay

\* A goal that says "completed" does so on account of its latest run: that run
\* completed, it is recorded, and the requested output is its result.
CompletedGoalIsDone ==
    status = "completed" =>
        /\ attempts # <<>> /\ Last(attempts).run = Len(runs)
        /\ Last(runs).status = "completed"
        /\ WithOutput => output = Len(runs)

\* No later command reopens a completed goal, however it ended.
CompletedGoalIsFinal == [][status = "completed" => UNCHANGED goal]_vars

\* What a run is told of the one before is what the goal file holds of it,
\* whether this command made that attempt or an earlier one did, and even if
\* somebody resumed that run meanwhile.
ContextIsRecorded ==
    \A p \in Procs : pc[p] = "executing" =>
        Last(context) = IF Recorded THEN Last(attempts).feedback ELSE NoFeedback

\* A goal that is resumed again and again completes or is exhausted, unless
\* its output is in the way or a recorded run was changed.
GoalSettles ==
    <>[](status \in {"completed", "exhausted"} \/ InTheWay \/ ~FeedbackUnchanged)

\* A retry follows a worker "rejected by its verifier" (docs/runtime.md:141)
\* and is guided by it: its feedback is what a rejecting verifier said.
RetriesCarryTheRejection ==
    \A i \in 1..Len(runs) : context[i] # NoFeedback =>
        \E r \in 1..(i - 1) : /\ runs[r].reason = "rejected"
                             /\ context[i][1] = runs[r].failed /\ context[i][2] = r
=============================================================================
