--------------------------- MODULE GoalLoopProofs ---------------------------
(***************************************************************************)
(* Theorems about GoalLoop, for any number of commands, iterations, kills  *)
(* and resumed runs.                                                       *)
(***************************************************************************)
EXTENDS GoalLoop, TLAPS

Busy == {"executing", "executed", "published"}

\* The goal's flock is held by exactly the command that runs.
LockInv ==
    /\ \A p \in Procs : pc[p] # "out" <=> lock = p
    /\ status \in {"absent", "completed"} => lock = None
    /\ status = "absent" => attempts = <<>>

\* A command past BeginIteration has an iteration to spend, and owns a run
\* from CreateRun on.
CountInv ==
    /\ Len(attempts) <= MaxIterations
    /\ \A p \in Procs : pc[p] \in Busy \union {"saved"} => Len(attempts) < MaxIterations
    /\ \A p \in Procs : pc[p] \in Busy => runs # <<>>
    /\ \/ InTheWay
       \/ Len(runs) <= Len(attempts) + crashes
       \/ \E p \in Procs : pc[p] \in Busy /\ Len(runs) <= Len(attempts) + crashes + 1

\* A command that is about to report success has a completed run, and has
\* published it.
ResultInv ==
    \A p \in Procs :
        /\ pc[p] \in {"executed", "published"} /\ result[p] = "completed"
              => runs # <<>> /\ Last(runs).status = "completed"
        /\ pc[p] = "published" /\ result[p] = "completed" /\ WithOutput => output = Len(runs)

GoalFeedback == IF Recorded THEN Last(attempts).feedback ELSE NoFeedback

\* The feedback in memory is the one in the goal file.
FeedbackInv ==
    /\ \A p \in Procs : pc[p] \in {"loop", "saved"} => feedback[p] = GoalFeedback
    /\ \A p \in Procs : pc[p] = "executing" => context # <<>> /\ Last(context) = GoalFeedback

-----------------------------------------------------------------------------
LEMMA FeedbackType ==
    ASSUME TypeOK, NEW i \in 1..Len(runs)
    PROVE  VerificationFeedback(i) \in Feedbacks
<1>1. runs[i] \in Ends \union {Running}
  BY DEF TypeOK
<1>2. runs[i].verdict \in Nat /\ runs[i].check \in Nat
  BY <1>1 DEF Ends, Running
<1> QED
  BY <1>2 DEF VerificationFeedback, Feedbacks, Uncaptured, NoFeedback

LEMMA ExecutionsType ==
    ASSUME NEW was \in Nat, NEW now \in Nat
    PROVE  Executions(was, now) \subseteq Ends
  BY DEF Executions, End, Ends

LEMMA AttemptType ==
    ASSUME TypeOK, runs # <<>>
    PROVE  Attempt \in Attempts
<1>1. Len(runs) \in 1..MaxRuns /\ Len(runs) \in 1..Len(runs)
  BY GoalAssumption DEF TypeOK
<1> QED
  BY <1>1, FeedbackType DEF Attempt, Attempts, Retryable

IInv == TypeOK /\ LockInv /\ CountInv /\ ResultInv /\ FeedbackInv

LEMMA InitIInv == Init => IInv
<1> SUFFICES ASSUME Init PROVE IInv
  OBVIOUS
<1> USE GoalAssumption DEF Init
<1>1. TypeOK
  BY DEF TypeOK, Feedbacks, NoFeedback, Users
<1>2. LockInv
  BY DEF LockInv
<1>3. CountInv
  BY DEF CountInv, Busy
<1>4. ResultInv
  BY DEF ResultInv
<1>5. FeedbackInv
  BY DEF FeedbackInv
<1> QED
  BY <1>1, <1>2, <1>3, <1>4, <1>5 DEF IInv

LEMMA TypeStep == IInv /\ [Next]_vars => TypeOK'
<1> SUFFICES ASSUME IInv, [Next]_vars PROVE TypeOK'
  OBVIOUS
<1> USE GoalAssumption DEF goal, local, env
<1>a. TypeOK
  BY DEF IInv
<1>b. NoFeedback \in Feedbacks
  BY DEF NoFeedback, Feedbacks
<1>1. ASSUME NEW p \in Procs, NewGoal(p) PROVE TypeOK'
  BY <1>a, <1>b, <1>1 DEF TypeOK, NewGoal
<1>2. ASSUME NEW p \in Procs, ResumeGoal(p) PROVE TypeOK'
  <2>1. FeedbackFromLatest \in Feedbacks
    <3>1. CASE ~Recorded
      BY <1>b, <3>1 DEF FeedbackFromLatest
    <3>2. CASE Recorded
      <4>1. Last(attempts) \in Attempts
        BY <1>a, <3>2 DEF TypeOK, Recorded, Last
      <4> QED
        BY <1>2, <3>2, <4>1 DEF ResumeGoal, FeedbackUnchanged, Attempts
    <3> QED
      BY <3>1, <3>2
  <2> QED
    BY <1>a, <2>1, <1>2 DEF TypeOK, ResumeGoal
<1>3. ASSUME NEW p \in Procs, BeginIteration(p) PROVE TypeOK'
  BY <1>a, <1>3 DEF TypeOK, BeginIteration
<1>4. ASSUME NEW p \in Procs, Exhaust(p) PROVE TypeOK'
  BY <1>a, <1>b, <1>4 DEF TypeOK, Exhaust, Leave
<1>5. ASSUME NEW p \in Procs, CreateRun(p) PROVE TypeOK'
  BY <1>a, <1>5 DEF TypeOK, CreateRun
<1>6. ASSUME NEW p \in Procs, Execute(p) PROVE TypeOK'
  <2>1. PICK end \in Executions(0, 1) :
            /\ runs' = [runs EXCEPT ![Len(runs)] = end]
            /\ result' = [result EXCEPT ![p] = end.status]
    BY <1>6 DEF Execute
  <2>2. end \in Ends
    BY <2>1, ExecutionsType
  <2>3. Len(runs) \in 1..Len(runs)
    BY <1>a, <1>6 DEF TypeOK, Execute, IInv, CountInv, Busy
  <2>4. runs' \in Seq(Ends \union {Running}) /\ Len(runs') = Len(runs)
    BY <1>a, <2>1, <2>2, <2>3 DEF TypeOK
  <2> QED
    BY <1>a, <1>6, <2>1, <2>2, <2>4 DEF TypeOK, Execute, Ends
<1>7. ASSUME NEW p \in Procs, Publish(p) PROVE TypeOK'
  BY <1>a, <1>7 DEF TypeOK, Publish, Users
<1>8. ASSUME NEW p \in Procs, OutputInTheWay(p) PROVE TypeOK'
  BY <1>a, <1>b, <1>8 DEF TypeOK, OutputInTheWay, Leave
<1>9. ASSUME NEW p \in Procs, pc[p] = "published" PROVE Attempt \in Attempts
  BY <1>a, <1>9, AttemptType DEF IInv, CountInv, Busy
<1>10. ASSUME NEW p \in Procs, RecordSuccess(p) PROVE TypeOK'
  BY <1>a, <1>b, <1>9, <1>10 DEF TypeOK, RecordSuccess, Succeeded, Leave
<1>11. ASSUME NEW p \in Procs, RecordFailure(p) PROVE TypeOK'
  BY <1>a, <1>b, <1>9, <1>11 DEF TypeOK, RecordFailure, GivesUp, Leave
<1>12. ASSUME NEW p \in Procs, RecordRetry(p) PROVE TypeOK'
  <2>1. VerificationFeedback(Len(runs)) \in Feedbacks /\ Attempt \in Attempts
    BY <1>9, <1>12 DEF RecordRetry, Retries, Attempt, Attempts
  <2> QED
    BY <1>a, <2>1, <1>12 DEF TypeOK, RecordRetry, Retries
<1>13. ASSUME NEW p \in Procs, Crash(p) PROVE TypeOK'
  BY <1>a, <1>b, <1>13 DEF TypeOK, Crash, Leave
<1>14. ASSUME NEW i \in 1..MaxRuns, ResumeRun(i) PROVE TypeOK'
  <2> DEFINE next == runs[i].check + IF runs[i].failed \in {"work", "check"} THEN 1 ELSE 0
  <2>1. PICK end \in Executions(runs[i].check, next) : runs' = [runs EXCEPT ![i] = end]
    BY <1>14 DEF ResumeRun
  <2>2. i \in 1..Len(runs) /\ runs[i] \in Ends \union {Running}
    BY <1>a, <1>14 DEF TypeOK, ResumeRun
  <2>3. runs[i].check \in Nat
    BY <2>2 DEF Ends, Running
  <2>4. end \in Ends
    <3> HIDE DEF next
    <3>1. next \in Nat
      BY <2>3 DEF next
    <3> QED
      BY <2>1, <2>3, <3>1, ExecutionsType
  <2>5. runs' \in Seq(Ends \union {Running}) /\ Len(runs') = Len(runs)
    BY <1>a, <2>1, <2>2, <2>4 DEF TypeOK
  <2> QED
    BY <1>a, <1>14, <2>5 DEF TypeOK, ResumeRun
<1>15. CASE UNCHANGED vars
  BY <1>a, <1>15 DEF TypeOK, vars
<1> QED
  BY <1>1, <1>2, <1>3, <1>4, <1>5, <1>6, <1>7, <1>8, <1>10, <1>11, <1>12, <1>13, <1>14, <1>15
  DEF Next, RunGoal, Step

LEMMA LockStep == IInv /\ [Next]_vars => LockInv'
<1> SUFFICES ASSUME IInv, [Next]_vars PROVE LockInv'
  OBVIOUS
<1> USE GoalAssumption DEF goal, local, env
<1>a. TypeOK /\ LockInv
  BY DEF IInv
<1>1. ASSUME NEW p \in Procs, NewGoal(p) \/ ResumeGoal(p) PROVE LockInv'
  BY <1>a, <1>1 DEF TypeOK, LockInv, NewGoal, ResumeGoal, IsSettled
<1>2. ASSUME NEW p \in Procs, BeginIteration(p) \/ Exhaust(p) PROVE LockInv'
  BY <1>a, <1>2 DEF TypeOK, LockInv, BeginIteration, Exhaust, Leave
<1>3. ASSUME NEW p \in Procs, CreateRun(p) \/ Execute(p) \/ Publish(p) PROVE LockInv'
  BY <1>a, <1>3 DEF TypeOK, LockInv, CreateRun, Execute, Publish
<1>4. ASSUME NEW p \in Procs, OutputInTheWay(p) \/ Crash(p) PROVE LockInv'
  BY <1>a, <1>4 DEF TypeOK, LockInv, OutputInTheWay, Crash, Leave
<1>5. ASSUME NEW p \in Procs, RecordSuccess(p) \/ RecordFailure(p) PROVE LockInv'
  BY <1>a, <1>5 DEF TypeOK, LockInv, RecordSuccess, RecordFailure, Succeeded, GivesUp, Leave
<1>6. ASSUME NEW p \in Procs, RecordRetry(p) PROVE LockInv'
  BY <1>a, <1>6 DEF TypeOK, LockInv, RecordRetry, Retries
<1>7. ASSUME NEW i \in 1..MaxRuns, ResumeRun(i) PROVE LockInv'
  BY <1>a, <1>7 DEF LockInv, ResumeRun
<1>8. CASE UNCHANGED vars
  BY <1>a, <1>8 DEF LockInv, vars
<1> QED
  BY <1>1, <1>2, <1>3, <1>4, <1>5, <1>6, <1>7, <1>8 DEF Next, RunGoal, Step

LEMMA CountStep == IInv /\ [Next]_vars => CountInv'
<1> SUFFICES ASSUME IInv, [Next]_vars PROVE CountInv'
  OBVIOUS
<1> USE GoalAssumption DEF goal, local, env
<1>a. TypeOK /\ LockInv /\ CountInv /\ TypeOK'
  BY TypeStep DEF IInv
<1>b. Len(attempts) \in Nat /\ Len(runs) \in Nat
  BY <1>a DEF TypeOK
<1>c. ASSUME NEW p \in Procs, pc[p] # "out"
      PROVE  \A q \in Procs : q # p => pc[q] = "out"
  BY <1>a, <1>c DEF LockInv
<1>1. ASSUME NEW p \in Procs, NewGoal(p) \/ ResumeGoal(p) PROVE CountInv'
  BY <1>a, <1>1 DEF TypeOK, CountInv, Busy, InTheWay, NewGoal, ResumeGoal
<1>2. ASSUME NEW p \in Procs, BeginIteration(p) PROVE CountInv'
  BY <1>a, <1>2 DEF TypeOK, CountInv, Busy, InTheWay, BeginIteration, MayIterate
<1>3. ASSUME NEW p \in Procs, Exhaust(p) PROVE CountInv'
  BY <1>a, <1>3 DEF TypeOK, CountInv, Busy, InTheWay, Exhaust, Leave
<1>4. ASSUME NEW p \in Procs, CreateRun(p) PROVE CountInv'
  <2>1. runs' # <<>> /\ Len(runs') = Len(runs) + 1
    <3>1. runs \in Seq(Ends \union {Running}) /\ runs' = Append(runs, Running)
      BY <1>a, <1>4 DEF TypeOK, CreateRun
    <3>2. Running \in Ends \union {Running}
      OBVIOUS
    <3> QED
      BY <3>1, <3>2
  <2>2. \A q \in Procs : pc[q] \notin Busy
    BY <1>c, <1>4 DEF CreateRun, Busy
  <2>3. pc'[p] = "executing" /\ \A q \in Procs : q # p => pc'[q] = pc[q]
    BY <1>a, <1>4 DEF TypeOK, CreateRun
  <2>4. InTheWay' = InTheWay /\ UNCHANGED <<attempts, crashes>>
    BY <1>4 DEF CreateRun, InTheWay
  <2>5. Len(attempts) < MaxIterations
    BY <1>a, <1>4 DEF CountInv, CreateRun
  <2>6. InTheWay \/ Len(runs) <= Len(attempts) + crashes
    BY <1>a, <2>2 DEF CountInv
  <2> QED
    <3>1. InTheWay' \/ Len(runs') <= Len(attempts') + crashes' + 1
      BY <1>a, <1>b, <2>1, <2>4, <2>6 DEF TypeOK
    <3>2. \A q \in Procs : pc'[q] \in Busy => q = p
      BY <2>2, <2>3
    <3> QED
      BY <1>a, <1>b, <2>1, <2>3, <2>4, <2>5, <3>1, <3>2 DEF CountInv, Busy
<1>5. ASSUME NEW p \in Procs, Execute(p) \/ Publish(p) PROVE CountInv'
  <2>1. pc[p] \in Busy /\ pc'[p] \in Busy /\ \A q \in Procs : q # p => pc'[q] = pc[q]
    BY <1>a, <1>5 DEF TypeOK, Execute, Publish, Busy
  <2>2. runs # <<>>
    BY <1>a, <2>1 DEF CountInv
  <2>3. runs' # <<>> /\ Len(runs') = Len(runs)
    BY <1>a, <1>5, <2>2 DEF TypeOK, Execute, Publish
  <2>4. InTheWay => InTheWay'
    BY <1>a, <1>5, <2>2 DEF TypeOK, Execute, Publish, InTheWay
  <2>5. UNCHANGED <<attempts, crashes>>
    BY <1>5 DEF Execute, Publish
  <2>6. Len(attempts) < MaxIterations
    BY <1>a, <2>1 DEF CountInv
  <2>7. \/ InTheWay
        \/ Len(runs) <= Len(attempts) + crashes + 1
    BY <1>a, <1>b DEF CountInv, TypeOK
  <2> QED
    BY <2>1, <2>3, <2>4, <2>5, <2>6, <2>7, <1>a, <1>b DEF CountInv
<1>6. ASSUME NEW p \in Procs, OutputInTheWay(p) PROVE CountInv'
  BY <1>a, <1>c, <1>6
  DEF TypeOK, CountInv, Busy, InTheWay, OutputInTheWay, MustPublish, MayPublish, Leave
<1>7. ASSUME NEW p \in Procs, RecordSuccess(p) \/ RecordFailure(p) \/ RecordRetry(p) PROVE CountInv'
  <2>1. pc[p] \in Busy /\ Len(attempts) < MaxIterations
    BY <1>a, <1>7 DEF CountInv, Busy, RecordSuccess, Succeeded, RecordFailure, GivesUp,
                      RecordRetry, Retries
  <2>2. \A q \in Procs : pc'[q] \in {"out", "loop"}
    BY <1>a, <1>c, <1>7 DEF TypeOK, RecordSuccess, Succeeded, RecordFailure, GivesUp,
                           RecordRetry, Retries, Leave
  <2>3. attempts' = Append(attempts, Attempt)
    BY <1>7 DEF RecordSuccess, RecordFailure, RecordRetry
  <2>4. Len(attempts') = Len(attempts) + 1
    BY <1>a, <2>3 DEF TypeOK
  <2>5. UNCHANGED <<runs, crashes, output, replace>>
    BY <1>7 DEF RecordSuccess, RecordFailure, RecordRetry
  <2> QED
    BY <1>a, <1>b, <2>1, <2>2, <2>4, <2>5 DEF TypeOK, CountInv, Busy, InTheWay
<1>8. ASSUME NEW p \in Procs, Crash(p) PROVE CountInv'
  <2>1. \A q \in Procs : pc'[q] = "out"
    BY <1>a, <1>c, <1>8 DEF TypeOK, Crash, Leave
  <2>2. crashes' = crashes + 1 /\ UNCHANGED <<runs, attempts, output, replace>>
    BY <1>8 DEF Crash
  <2> QED
    BY <1>a, <1>b, <2>1, <2>2 DEF TypeOK, CountInv, Busy, InTheWay
<1>9. ASSUME NEW i \in 1..MaxRuns, ResumeRun(i) PROVE CountInv'
  <2>1. runs # <<>>
    BY <1>a, <1>9 DEF TypeOK, ResumeRun
  <2>2. runs' # <<>> /\ Len(runs') = Len(runs)
    BY <1>a, <1>9, <2>1 DEF TypeOK, ResumeRun
  <2>3. UNCHANGED <<pc, attempts, crashes, output, replace>>
    BY <1>9 DEF ResumeRun
  <2> QED
    BY <1>a, <2>2, <2>3 DEF CountInv, InTheWay
<1>10. CASE UNCHANGED vars
  BY <1>a, <1>10 DEF CountInv, InTheWay, vars
<1> QED
  BY <1>1, <1>2, <1>3, <1>4, <1>5, <1>6, <1>7, <1>8, <1>9, <1>10 DEF Next, RunGoal, Step

LEMMA RunResumed ==
    ASSUME runs \in Seq(Ends \union {Running}), NEW i \in 1..MaxRuns, ResumeRun(i)
    PROVE  /\ Len(runs') = Len(runs) /\ runs' # <<>>
           /\ Last(runs).status = "completed" => Last(runs') = Last(runs)
<1>1. i \in 1..Len(runs) /\ runs[i].status = "failed"
  BY DEF ResumeRun
<1>2. \E end : runs' = [runs EXCEPT ![i] = end]
  BY DEF ResumeRun
<1>3. Len(runs') = Len(runs) /\ runs' # <<>>
  BY <1>1, <1>2
<1>4. ASSUME Last(runs).status = "completed" PROVE Last(runs') = Last(runs)
  <2>1. Len(runs) \in 1..Len(runs) /\ Len(runs) # i
    BY <1>1, <1>4 DEF Last
  <2>2. runs'[Len(runs)] = runs[Len(runs)]
    BY <1>1, <1>2, <2>1
  <2> QED
    BY <1>3, <2>2 DEF Last
<1> QED
  BY <1>3, <1>4

LEMMA ResultStep == IInv /\ [Next]_vars => ResultInv'
<1> SUFFICES ASSUME IInv, [Next]_vars PROVE ResultInv'
  OBVIOUS
<1> USE GoalAssumption DEF goal, local, env
<1>a. TypeOK /\ LockInv /\ CountInv /\ ResultInv
  BY DEF IInv
<1>c. ASSUME NEW p \in Procs, pc[p] # "out"
      PROVE  \A q \in Procs : q # p => pc[q] = "out"
  BY <1>a, <1>c DEF LockInv
<1>1. ASSUME NEW p \in Procs, NewGoal(p) \/ ResumeGoal(p) \/ BeginIteration(p) PROVE ResultInv'
  BY <1>a, <1>1 DEF TypeOK, ResultInv, NewGoal, ResumeGoal, BeginIteration
<1>2. ASSUME NEW p \in Procs, Exhaust(p) \/ OutputInTheWay(p) \/ Crash(p) PROVE ResultInv'
  BY <1>a, <1>2 DEF TypeOK, ResultInv, Exhaust, OutputInTheWay, Crash, Leave
<1>3. ASSUME NEW p \in Procs, RecordSuccess(p) \/ RecordFailure(p) PROVE ResultInv'
  BY <1>a, <1>3 DEF TypeOK, ResultInv, RecordSuccess, RecordFailure, Leave
<1>4. ASSUME NEW p \in Procs, RecordRetry(p) PROVE ResultInv'
  BY <1>a, <1>4 DEF TypeOK, ResultInv, RecordRetry
<1>5. ASSUME NEW p \in Procs, CreateRun(p) PROVE ResultInv'
  <2>1. \A q \in Procs : pc'[q] \in {"out", "executing"}
    BY <1>a, <1>c, <1>5 DEF TypeOK, CreateRun
  <2> QED
    BY <2>1 DEF ResultInv
<1>6. ASSUME NEW p \in Procs, Execute(p) PROVE ResultInv'
  <2>1. \A q \in Procs : q # p => pc'[q] = "out"
    BY <1>a, <1>c, <1>6 DEF TypeOK, Execute
  <2>2. pc'[p] = "executed"
    BY <1>a, <1>6 DEF TypeOK, Execute
  <2>3. PICK end \in Executions(0, 1) :
            /\ runs' = [runs EXCEPT ![Len(runs)] = end]
            /\ result' = [result EXCEPT ![p] = end.status]
    BY <1>6 DEF Execute
  <2>4. runs \in Seq(Ends \union {Running}) /\ Len(runs) \in 1..Len(runs)
    BY <1>a, <1>6 DEF TypeOK, Execute, CountInv, Busy
  <2>5. runs' # <<>> /\ Last(runs') = end
    BY <2>3, <2>4 DEF Last
  <2>6. result'[p] = end.status
    BY <1>a, <2>3 DEF TypeOK
  <2> QED
    BY <2>1, <2>2, <2>5, <2>6 DEF ResultInv
<1>7. ASSUME NEW p \in Procs, Publish(p) PROVE ResultInv'
  <2>1. \A q \in Procs : q # p => pc'[q] = "out"
    BY <1>a, <1>c, <1>7 DEF TypeOK, Publish
  <2>2. pc[p] = "executed" /\ pc'[p] = "published" /\ UNCHANGED <<runs, result>>
    BY <1>a, <1>7 DEF TypeOK, Publish
  <2>3. result[p] = "completed" /\ WithOutput => output' = Len(runs)
    BY <1>7 DEF Publish, MustPublish
  <2> QED
    BY <1>a, <2>1, <2>2, <2>3 DEF ResultInv
<1>8. ASSUME NEW i \in 1..MaxRuns, ResumeRun(i) PROVE ResultInv'
  <2>1. UNCHANGED <<pc, result, output>>
    BY <1>8 DEF ResumeRun
  <2>2. runs \in Seq(Ends \union {Running})
    BY <1>a DEF TypeOK
  <2> QED
    BY <1>a, <1>8, <2>1, <2>2, RunResumed DEF ResultInv
<1>9. CASE UNCHANGED vars
  BY <1>a, <1>9 DEF ResultInv, vars
<1> QED
  BY <1>1, <1>2, <1>3, <1>4, <1>5, <1>6, <1>7, <1>8, <1>9 DEF Next, RunGoal, Step

LEMMA FeedbackStep == IInv /\ [Next]_vars => FeedbackInv'
<1> SUFFICES ASSUME IInv, [Next]_vars PROVE FeedbackInv'
  OBVIOUS
<1> USE GoalAssumption DEF goal, local, env
<1>a. TypeOK /\ LockInv /\ CountInv /\ FeedbackInv
  BY DEF IInv
<1>c. ASSUME NEW p \in Procs, pc[p] # "out"
      PROVE  \A q \in Procs : q # p => pc[q] = "out"
  BY <1>a, <1>c DEF LockInv
<1>d. attempts' = attempts => GoalFeedback' = GoalFeedback
  BY DEF GoalFeedback, Recorded
<1>1. ASSUME NEW p \in Procs, NewGoal(p) PROVE FeedbackInv'
  <2>1. GoalFeedback' = NoFeedback
    BY <1>a, <1>1 DEF LockInv, NewGoal, GoalFeedback, Recorded
  <2> QED
    BY <1>a, <1>d, <1>1, <2>1 DEF TypeOK, FeedbackInv, NewGoal
<1>2. ASSUME NEW p \in Procs, ResumeGoal(p) PROVE FeedbackInv'
  <2>1. FeedbackFromLatest = GoalFeedback
    BY <1>2 DEF ResumeGoal, FeedbackUnchanged, FeedbackFromLatest, GoalFeedback
  <2>2. UNCHANGED <<attempts, context>>
    BY <1>2 DEF ResumeGoal
  <2> QED
    BY <1>a, <1>d, <1>2, <2>1, <2>2 DEF TypeOK, FeedbackInv, ResumeGoal
<1>3. ASSUME NEW p \in Procs, BeginIteration(p) PROVE FeedbackInv'
  BY <1>a, <1>d, <1>3 DEF TypeOK, FeedbackInv, BeginIteration
<1>4. ASSUME NEW p \in Procs,
             Exhaust(p) \/ OutputInTheWay(p) \/ Crash(p) \/ RecordSuccess(p) \/ RecordFailure(p)
      PROVE  FeedbackInv'
  <2>1. \A q \in Procs : pc'[q] = "out"
    BY <1>a, <1>c, <1>4 DEF TypeOK, Exhaust, OutputInTheWay, Crash, RecordSuccess, Succeeded,
                           RecordFailure, GivesUp, Leave
  <2> QED
    BY <2>1 DEF FeedbackInv
<1>5. ASSUME NEW p \in Procs, CreateRun(p) PROVE FeedbackInv'
  <2>1. context \in Seq(Feedbacks) /\ feedback[p] \in Feedbacks
    BY <1>a DEF TypeOK
  <2>2. context' = Append(context, feedback[p])
    BY <1>5 DEF CreateRun
  <2>3. context' # <<>> /\ Last(context') = feedback[p]
    BY <2>1, <2>2 DEF Last
  <2>4. feedback[p] = GoalFeedback /\ GoalFeedback' = GoalFeedback
    BY <1>a, <1>d, <1>5 DEF CreateRun, FeedbackInv
  <2>5. \A q \in Procs : pc'[q] \in {"out", "executing"}
    BY <1>a, <1>c, <1>5 DEF TypeOK, CreateRun
  <2> QED
    BY <2>3, <2>4, <2>5 DEF FeedbackInv
<1>6. ASSUME NEW p \in Procs, Execute(p) \/ Publish(p) PROVE FeedbackInv'
  BY <1>a, <1>d, <1>6 DEF TypeOK, FeedbackInv, Execute, Publish
<1>7. ASSUME NEW p \in Procs, RecordRetry(p) PROVE FeedbackInv'
  <2>1. attempts \in Seq(Attempts) /\ Attempt \in Attempts
    BY <1>a, <1>7, AttemptType DEF TypeOK, RecordRetry, Retries, CountInv, Busy
  <2>2. attempts' = Append(attempts, Attempt)
    BY <1>7 DEF RecordRetry
  <2>3. attempts' # <<>> /\ Last(attempts') = Attempt
    BY <2>1, <2>2 DEF Last
  <2>4. GoalFeedback' = VerificationFeedback(Len(runs))
    BY <1>7, <2>3 DEF GoalFeedback, Recorded, RecordRetry, Retries, Attempt
  <2>5. \A q \in Procs : q # p => pc'[q] = "out"
    BY <1>a, <1>c, <1>7 DEF TypeOK, RecordRetry, Retries
  <2>6. pc'[p] = "loop" /\ feedback'[p] = VerificationFeedback(Len(runs))
    BY <1>a, <1>7 DEF TypeOK, RecordRetry
  <2> QED
    BY <2>4, <2>5, <2>6 DEF FeedbackInv
<1>8. ASSUME NEW i \in 1..MaxRuns, ResumeRun(i) PROVE FeedbackInv'
  BY <1>a, <1>d, <1>8 DEF FeedbackInv, ResumeRun
<1>9. CASE UNCHANGED vars
  BY <1>a, <1>d, <1>9 DEF FeedbackInv, vars
<1> QED
  BY <1>1, <1>2, <1>3, <1>4, <1>5, <1>6, <1>7, <1>8, <1>9 DEF Next, RunGoal, Step

LEMMA Invariants == Spec => []IInv
<1>1. IInv /\ [Next]_vars => IInv'
  BY TypeStep, LockStep, CountStep, ResultStep, FeedbackStep DEF IInv
<1> QED
  BY InitIInv, <1>1, PTL DEF Spec

-----------------------------------------------------------------------------
\* The goal file always has its shape; a recorded attempt names a run that exists.
THEOREM TypeCorrect == Spec => []TypeOK
<1>1. IInv => TypeOK
  BY DEF IInv
<1> QED
  BY Invariants, <1>1, PTL

\* However often a goal is killed and resumed, it starts at most one run per
\* iteration and one per kill, unless its output is in the way.
THEOREM RunsBounded == Spec => []RunsAreBounded
<1>1. IInv => RunsAreBounded
  <2> SUFFICES ASSUME IInv, ~InTheWay PROVE Len(runs) <= MaxIterations + crashes
    BY DEF RunsAreBounded
  <2>1. Len(runs) \in Nat /\ Len(attempts) \in Nat /\ crashes \in Nat /\ MaxIterations \in Nat
    BY GoalAssumption DEF IInv, TypeOK
  <2>2. CASE Len(runs) <= Len(attempts) + crashes
    BY <2>1, <2>2 DEF IInv, CountInv
  <2>3. CASE \E p \in Procs : pc[p] \in Busy /\ Len(runs) <= Len(attempts) + crashes + 1
    BY <2>1, <2>3 DEF IInv, CountInv
  <2> QED
    BY <2>2, <2>3 DEF IInv, CountInv
<1> QED
  BY Invariants, <1>1, PTL

\* No later command reopens a completed goal.
THEOREM CompletedIsFinal == Spec => CompletedGoalIsFinal
<1>1. IInv /\ [Next]_vars => (status = "completed" => UNCHANGED goal)
  <2> SUFFICES ASSUME IInv, [Next]_vars, status = "completed" PROVE UNCHANGED goal
    OBVIOUS
  <2>1. \A p \in Procs : pc[p] = "out"
    BY GoalAssumption DEF IInv, LockInv
  <2> QED
    BY <2>1 DEF goal, vars, Next, RunGoal, NewGoal, ResumeGoal, IsSettled, Step, BeginIteration,
        Exhaust, CreateRun, Execute, Publish, OutputInTheWay, RecordSuccess, Succeeded,
        RecordFailure, GivesUp, RecordRetry, Retries, Crash, ResumeRun
<1> QED
  BY Invariants, <1>1, PTL DEF Spec, CompletedGoalIsFinal

\* "completed" in the goal file means: its latest run completed, is recorded,
\* and is the one the requested output holds, also after kills and retries.
THEOREM CompletedIsDone == Spec => []CompletedGoalIsDone
<1> USE GoalAssumption
<1>1. Init => CompletedGoalIsDone
  BY DEF Init, CompletedGoalIsDone
<1>2. IInv /\ CompletedGoalIsDone /\ [Next]_vars => CompletedGoalIsDone'
  <2> SUFFICES ASSUME IInv, CompletedGoalIsDone, [Next]_vars, status' = "completed"
               PROVE  CompletedGoalIsDone'
    BY DEF CompletedGoalIsDone
  <2>1. CASE status # "completed"
    <3>1. PICK p \in Procs : RecordSuccess(p)
      BY <2>1 DEF goal, env, vars, Next, RunGoal, NewGoal, ResumeGoal, Step, BeginIteration,
          Exhaust, CreateRun, Execute, Publish, OutputInTheWay, RecordFailure, RecordRetry,
          Crash, ResumeRun
    <3>2. pc[p] = "published" /\ result[p] = "completed" /\ UNCHANGED <<runs, output>>
      BY <3>1 DEF RecordSuccess, Succeeded
    <3>3. runs # <<>> /\ Last(runs).status = "completed" /\ (WithOutput => output = Len(runs))
      BY <3>2 DEF IInv, ResultInv
    <3>4. attempts \in Seq(Attempts) /\ Attempt \in Attempts
      BY <3>3, AttemptType DEF IInv, TypeOK
    <3>5. attempts' # <<>> /\ Last(attempts') = Attempt
      BY <3>1, <3>4 DEF RecordSuccess, Last
    <3> QED
      BY <3>2, <3>3, <3>5 DEF CompletedGoalIsDone, Attempt
  <2>2. CASE status = "completed"
    <3>1. \A p \in Procs : pc[p] = "out"
      BY <2>2 DEF IInv, LockInv
    <3>2. UNCHANGED <<attempts, output>>
      BY <3>1, <2>2 DEF goal, env, vars, Next, RunGoal, NewGoal, ResumeGoal, IsSettled, Step,
          BeginIteration, Exhaust, CreateRun, Execute, Publish, OutputInTheWay, RecordSuccess,
          Succeeded, RecordFailure, GivesUp, RecordRetry, Retries, Crash, ResumeRun
    <3>3. runs' = runs \/ \E i \in 1..MaxRuns : ResumeRun(i)
      BY <3>1, <2>2 DEF goal, env, vars, Next, RunGoal, NewGoal, ResumeGoal, IsSettled, Step,
          BeginIteration, Exhaust, CreateRun, Execute, Publish, OutputInTheWay, RecordSuccess,
          Succeeded, RecordFailure, GivesUp, RecordRetry, Retries, Crash
    <3>4. runs \in Seq(Ends \union {Running})
      BY DEF IInv, TypeOK
    <3>5. Len(runs') = Len(runs) /\ Last(runs').status = "completed"
      BY <3>3, <3>4, <2>2, RunResumed DEF CompletedGoalIsDone
    <3> QED
      BY <2>2, <3>2, <3>5 DEF CompletedGoalIsDone
  <2> QED
    BY <2>1, <2>2
<1> QED
  BY Invariants, <1>1, <1>2, PTL DEF Spec

\* Each run is told what the goal file holds of the attempt before it, over
\* kills, resumes and runs changed by others.
THEOREM ContextRecorded == Spec => []ContextIsRecorded
<1>1. IInv => ContextIsRecorded
  BY DEF IInv, FeedbackInv, GoalFeedback, ContextIsRecorded
<1> QED
  BY Invariants, <1>1, PTL
=============================================================================
