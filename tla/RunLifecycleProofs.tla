------------------------- MODULE RunLifecycleProofs -------------------------
(***************************************************************************)
(* Theorems about RunLifecycle, for any number of processes, steps,        *)
(* verifiers, policies, versions, crashes and edits.                       *)
(***************************************************************************)
EXTENDS RunLifecycle, WellFoundedInduction, NaturalsInduction, TLAPS

\* The run's flock is held by exactly the process that executes; a completed
\* run is executed by none.
LockInv ==
    /\ \A p \in Procs : pc[p] \in Locked <=> lock = p
    /\ status = "completed" => lock = None

Writing == {"removing", "creating", "copying", "copied", "staged", "coding", "finalizing",
            "evfile", "evsaved", "keeping", "forgetting"}
Sealing == {"sealfile", "sealed"}

\* Where a process is, and what that says of the steps.
Placed(p) ==
    /\ at[p] \in Steps => step[at[p]] # "completed"
    /\ ~dry[p] => \A s \in Steps : s < at[p] => step[s] = "completed"
    /\ pc[p] \notin Sealing \union {"steps"} => at[p] \in Steps
    /\ pc[p] \in Sealing => at[p] = NumSteps + 1
    /\ pc[p] \in Writing => at[p] = Writer
    /\ pc[p] = "checking" => at[p] \in Verifiers
    /\ dry[p] => pc[p] \in {"steps", "forgetting", "dropping", "ending"}

\* Steps are completed in order, the writer only with its evidence.
OrderInv ==
    /\ \A s, t \in Steps : s < t /\ step[t] = "completed" => step[s] = "completed"
    /\ step[Writer] = "completed" => noted
    /\ noted => recorded # None

\* What a writer has in hand.
Holding == {"copied", "staged", "coding", "finalizing", "evfile", "evsaved"}

Holds(p) ==
    /\ pc[p] \in Holding => handle[p] # None
    /\ pc[p] \in {"output", "finished"} /\ at[p] = Writer => handle[p] # None
    /\ pc[p] = "finished" /\ at[p] = Writer => noted
    /\ pc[p] = "evfile" => evidence # None
    /\ pc[p] = "evsaved" => recorded # None

\* While the run is executed its files are those the artifact index records,
\* but for the one that is being written.
Indexed(p) ==
    /\ \A s \in Steps : output[s] = "mismatch" => pc[p] = "output" /\ at[p] = s
    /\ pc[p] \notin {"evfile", "sealfile"} /\ recorded # None => evidence = recorded

\* A stage is only dropped by its writer, or when it is damaged.
Drops(p) ==
    /\ pc[p] = "dropping" => at[p] = Writer \/ ~StageValid
    /\ pc[p] = "keeping" => StageValid

\* The evidence to be sealed is of the stage as its writer left it.
Sealed(e) == e # None /\ e.passed /\ e.by = Verifiers /\ stage = e.after

Seals(p) ==
    /\ pc[p] = "sealfile" => Sealed(evidence) /\ recorded # None /\ stage = recorded.after
    /\ pc[p] = "sealed" => Sealed(recorded)

AtWork(p) ==
    /\ pc[p] # "begun" => Placed(p)
    /\ Holds(p) /\ Indexed(p) /\ Drops(p) /\ Seals(p)

WorkInv == \A p \in Procs : pc[p] \in Locked => AtWork(p)

IInv == TypeOK /\ LockInv /\ OrderInv /\ WorkInv

\* A dry run that drops a stage has forgotten it, or its writer is completed.
\* (A dry run that fails at a later step of an unfinished writer drops a damaged
\* stage that the state still names.)
DryRunsKeep ==
    \A p \in Procs : dry[p] /\ pc[p] = "dropping" => at[p] = Writer \/ step[Writer] = "completed"

\* Then the state names neither a stage nor a session while the stage is made or
\* dropped, nor once the writer is completed.
Nothing == pending = None /\ ~session
Unready == {"removing", "creating", "copying", "copied", "dropping"}

PendAt(p) ==
    /\ pc[p] \in Unready => Nothing
    /\ pc[p] = "copied" => stage \notin {"none", "torn"}
    /\ pc[p] = "finished" /\ at[p] = Writer => Nothing

PendInv ==
    /\ \A p \in Procs : PendAt(p)
    /\ step[Writer] = "completed" => Nothing
    /\ PendingStageExists

\* A process that begins to execute once the writer is completed found its
\* stage when it was constructed.
KnowsStage == \A p \in Procs : At(p, "begun") /\ step[Writer] = "completed" => handle[p] # None

\* Then who executes knows of the stage once the writer is completed; what a
\* verifier passed on is the writer's tree, if the stage still holds that.
KnownAt(p) ==
    /\ step[Writer] = "completed" /\ pc[p] \in Locked \ {"ending"} => handle[p] # None
    /\ pc[p] = "checking" /\ stage = recorded.after => seen[p] = stage
    /\ pc[p] \in {"output", "finished"} /\ at[p] \in Verifiers /\ stage = recorded.after =>
         saw[at[p]] = stage
    /\ pc[p] = "evfile" => ~evidence.passed

PassedInv ==
    step[Writer] = "completed" /\ stage = recorded.after =>
      \A s \in Verifiers : step[s] = "completed" => saw[s] = stage

SealInv ==
    recorded # None /\ recorded.passed =>
      /\ step[Writer] = "completed"
      /\ \A s \in recorded.by : s \in Steps /\ step[s] = "completed" /\ saw[s] = recorded.after

KnownInv == (\A p \in Procs : KnownAt(p)) /\ PassedInv /\ SealInv /\ CompletedIsSealed

-----------------------------------------------------------------------------
LEMMA Least ==
    ASSUME NEW S \in SUBSET Nat, S # {}
    PROVE  \E x \in S : \A y \in S : ~(y < x)
<1>1. IsWellFoundedOn(OpToRel(<, Nat), Nat)
  BY NatLessThanWellFounded
<1>2. PICK x \in S : \A y \in S : ~(<<y, x>> \in OpToRel(<, Nat))
  BY <1>1, WFMin
<1> QED
  BY <1>2 DEF OpToRel

LEMMA NextStepFacts ==
    ASSUME NEW st, NEW n \in 1..(NumSteps + 1)
    PROVE  /\ NextStep(st, n) \in 1..(NumSteps + 1) /\ NextStep(st, n) >= n
           /\ \A s \in Steps : n <= s /\ s < NextStep(st, n) => st[s] = "completed"
           /\ NextStep(st, n) \in Steps => st[NextStep(st, n)] # "completed"
<1> DEFINE S == {m \in n..(NumSteps + 1) : m \in Steps => st[m] # "completed"}
<1>1. NumSteps \in Nat
  BY StepAssumption
<1>2. S \in SUBSET Nat /\ NumSteps + 1 \in S
  BY <1>1 DEF Steps
<1>3. PICK m \in S : \A y \in S : ~(y < m)
  BY <1>2, Least
<1>4. m \in 1..(NumSteps + 1) /\ m >= n /\ (m \in Steps => st[m] # "completed")
  BY <1>1, <1>3
<1>5. \A s \in Steps : n <= s /\ s < m => st[s] = "completed"
  BY <1>1, <1>3 DEF Steps
<1>6. \E k \in 1..(NumSteps + 1) :
        /\ k >= n /\ \A s \in Steps : n <= s /\ s < k => st[s] = "completed"
        /\ k \in Steps => st[k] # "completed"
  BY <1>4, <1>5
<1> QED
  BY <1>6 DEF NextStep

\* The one process that executes the run.
LEMMA Working ==
    ASSUME IInv, NEW p \in Procs, pc[p] \in Locked
    PROVE  /\ lock = p /\ status # "completed" /\ AtWork(p)
           /\ \A q \in Procs : q # p => pc[q] \notin Locked
  BY ValueAssumption DEF IInv, LockInv, WorkInv

\* It goes on.
LEMMA Continue ==
    ASSUME IInv, NEW p \in Procs, pc[p] \in Locked, NEW label \in Locked,
           pc' = [pc EXCEPT ![p] = label], lock' = lock, status' = status,
           TypeOK', OrderInv', AtWork(p)'
    PROVE  IInv'
<1>1. /\ lock = p /\ status # "completed"
      /\ \A q \in Procs : q # p => pc[q] \notin Locked
  BY Working
<1>2. /\ pc'[p] = label
      /\ \A q \in Procs : q # p => pc'[q] = pc[q]
  BY DEF IInv, TypeOK
<1>3. LockInv'
  BY <1>1, <1>2 DEF LockInv
<1>4. WorkInv'
  BY <1>1, <1>2 DEF WorkInv
<1> QED
  BY <1>3, <1>4 DEF IInv

LEMMA LeaveType ==
    ASSUME TypeOK, NEW p \in Procs, Leave(p)
    PROVE  /\ pc' \in [Procs -> Locked \union {"out", "opened"}] /\ dry' \in [Procs -> BOOLEAN]
           /\ at' \in [Procs -> 1..(NumSteps + 1)] /\ handle' \in [Procs -> Handles \union {None}]
           /\ seen' \in [Procs -> StageValues] /\ lock' \in Procs \union {None}
<1>1. NumSteps \in Nat /\ "none" \in StageValues
  BY StepAssumption DEF StageValues, Trees, Damaged
<1> QED
  BY <1>1 DEF TypeOK, Leave

\* It ends, or is killed.
LEMMA Leaving ==
    ASSUME IInv, NEW p \in Procs, pc[p] \in Locked, Leave(p), TypeOK', OrderInv'
    PROVE  IInv'
<1>1. /\ lock = p /\ lock' = None
      /\ \A q \in Procs : q # p => pc[q] \notin Locked
  BY Working DEF Leave
<1>2. \A q \in Procs : pc'[q] \notin Locked
  BY <1>1 DEF IInv, TypeOK, Leave, Locked
<1>3. LockInv'
  BY <1>1, <1>2, ValueAssumption DEF LockInv
<1>4. WorkInv'
  BY <1>2 DEF WorkInv
<1> QED
  BY <1>3, <1>4 DEF IInv

\* A process that does not execute the run changes nothing of it.
LEMMA Elsewhere ==
    ASSUME IInv, NEW p \in Procs, pc[p] \notin Locked, NEW label \in {"out", "opened"},
           pc' = [pc EXCEPT ![p] = label],
           \A q \in Procs : q # p => dry'[q] = dry[q] /\ at'[q] = at[q] /\ handle'[q] = handle[q],
           UNCHANGED <<lock, record, files>>, TypeOK'
    PROVE  IInv'
<1>1. label \notin Locked
  BY DEF Locked
<1>2. pc'[p] = label /\ \A q \in Procs : q # p => pc'[q] = pc[q]
  BY DEF IInv, TypeOK
<1>3. LockInv'
  BY <1>1, <1>2 DEF IInv, LockInv, record
<1>4. OrderInv'
  BY DEF IInv, OrderInv, record
<1>5. WorkInv'
  <2> SUFFICES ASSUME NEW q \in Procs, pc'[q] \in Locked
               PROVE  AtWork(q)'
    BY DEF WorkInv
  <2>1. /\ q # p /\ AtWork(q) /\ pc'[q] = pc[q]
        /\ dry'[q] = dry[q] /\ at'[q] = at[q] /\ handle'[q] = handle[q]
    BY <1>1, <1>2 DEF IInv, WorkInv
  <2>2. Placed(q) => Placed(q)'
    BY <2>1 DEF Placed, record
  <2>3. Holds(q)' /\ Indexed(q)' /\ Drops(q)' /\ Seals(q)'
    BY <2>1 DEF AtWork, Holds, Indexed, Drops, Seals, Sealed, StageValid, record, files
  <2> QED
    BY <2>1, <2>2, <2>3 DEF AtWork
<1> QED
  BY <1>3, <1>4, <1>5 DEF IInv

-----------------------------------------------------------------------------
LEMMA Initially == Init => IInv
<1> SUFFICES ASSUME Init PROVE IInv
  OBVIOUS
<1> USE StepAssumption, ValueAssumption DEF Init
<1>1. TypeOK
  <2>1. 1 \in 1..(NumSteps + 1)
    OBVIOUS
  <2>2. at \in [Procs -> 1..(NumSteps + 1)] /\ crashes \in 0..MaxCrashes /\ edits \in 0..MaxEdits
    BY <2>1
  <2>3. /\ stage \in StageValues /\ seen \in [Procs -> StageValues]
        /\ saw \in [Steps -> StageValues]
    BY DEF StageValues, Trees, Damaged
  <2> QED
    BY <2>2, <2>3 DEF TypeOK
<1>2. \A p \in Procs : pc[p] \notin Locked
  BY DEF Locked
<1>3. LockInv /\ WorkInv
  BY <1>2 DEF LockInv, WorkInv
<1>4. OrderInv
  BY DEF OrderInv
<1> QED
  BY <1>1, <1>3, <1>4 DEF IInv

LEMMA OpenKeeps ==
    ASSUME IInv, NEW p \in Procs, NEW d \in BOOLEAN, Open(p, d)
    PROVE  IInv'
<1>1. /\ pc[p] = "out" /\ pc' = [pc EXCEPT ![p] = "opened"] /\ dry' = [dry EXCEPT ![p] = d]
      /\ handle' = [handle EXCEPT ![p] = LoadedStage]
      /\ UNCHANGED <<policy, src, record, files, at, seen, lock, saw, env>>
  BY DEF Open, At
<1>2. LoadedStage \in Handles \union {None}
  BY DEF IInv, TypeOK, OrderInv, LoadedStage, Handles, Evidence
<1>3. TypeOK'
  BY <1>1, <1>2 DEF IInv, TypeOK, record, files, env
<1>4. pc[p] \notin Locked
  BY <1>1 DEF Locked
<1>5. \A q \in Procs : q # p => dry'[q] = dry[q] /\ at'[q] = at[q] /\ handle'[q] = handle[q]
  BY <1>1 DEF IInv, TypeOK
<1> QED
  BY <1>1, <1>3, <1>4, <1>5, Elsewhere

LEMMA TurnedAwayKeeps ==
    ASSUME IInv, NEW p \in Procs, TurnedAway(p)
    PROVE  IInv'
<1>1. /\ pc[p] = "opened" /\ Leave(p) /\ UNCHANGED <<policy, src, record, files, saw, env>>
  BY DEF TurnedAway, At
<1>2. TypeOK'
  BY <1>1, LeaveType DEF IInv, TypeOK, record, files, env
<1>3. pc[p] \notin Locked
  BY <1>1 DEF Locked
<1>4. lock # p
  BY <1>3 DEF IInv, LockInv
<1>5. /\ pc' = [pc EXCEPT ![p] = "out"] /\ lock' = lock
      /\ \A q \in Procs : q # p => dry'[q] = dry[q] /\ at'[q] = at[q] /\ handle'[q] = handle[q]
  BY <1>1, <1>4 DEF Leave, IInv, TypeOK
<1> QED
  BY <1>1, <1>2, <1>3, <1>5, Elsewhere

LEMMA BeginKeeps ==
    ASSUME IInv, NEW p \in Procs, Begin(p)
    PROVE  IInv'
<1>1. /\ lock = None /\ Intact /\ lock' = p /\ status' = "running"
      /\ pc' = [pc EXCEPT ![p] = "begun"]
      /\ UNCHANGED <<policy, src, step, pending, session, noted, recorded, files,
                     dry, at, handle, seen, saw, env>>
  BY DEF Begin
<1>2. /\ pc'[p] = "begun" /\ "begun" \in Locked
      /\ \A q \in Procs : q # p => pc'[q] = pc[q]
  BY <1>1 DEF IInv, TypeOK, Locked
<1>3. TypeOK'
  BY <1>1, <1>2 DEF IInv, TypeOK, files, env
<1>4. \A q \in Procs : pc[q] \notin Locked
  BY <1>1, ValueAssumption DEF IInv, LockInv
<1>5. LockInv'
  BY <1>1, <1>2, <1>4 DEF LockInv
<1>6. OrderInv'
  BY <1>1 DEF IInv, OrderInv
<1>7. AtWork(p)'
  BY <1>1, <1>2 DEF AtWork, Holds, Holding, Indexed, Drops, Seals, Intact, files
<1>8. WorkInv'
  BY <1>2, <1>4, <1>7 DEF WorkInv
<1> QED
  BY <1>3, <1>5, <1>6, <1>8 DEF IInv

LEMMA RiskKeeps ==
    ASSUME IInv, NEW p \in Procs, RiskRefused(p) \/ RiskPermitted(p)
    PROVE  IInv'
<1>1. pc[p] = "begun" /\ pc[p] \in Locked
  BY DEF RiskRefused, RiskPermitted, At, Locked
<1>2. CASE RiskRefused(p)
  <2>1. TypeOK'
    BY <1>2, LeaveType DEF RiskRefused, IInv, TypeOK, files, env
  <2>2. OrderInv'
    BY <1>2 DEF RiskRefused, IInv, OrderInv
  <2> QED
    BY <1>1, <1>2, <2>1, <2>2, Leaving DEF RiskRefused
<1>3. CASE RiskPermitted(p)
  <2>1. /\ pc' = [pc EXCEPT ![p] = "steps"] /\ at' = [at EXCEPT ![p] = NextStep(step, 1)]
        /\ UNCHANGED <<policy, src, record, files, dry, handle, seen, lock, saw, env>>
    BY <1>3 DEF RiskPermitted
  <2>2. 1 \in 1..(NumSteps + 1) /\ NumSteps \in Nat /\ \A t \in Steps : 1 <= t
    BY StepAssumption DEF Steps
  <2>3. /\ NextStep(step, 1) \in 1..(NumSteps + 1)
        /\ \A t \in Steps : t < NextStep(step, 1) => step[t] = "completed"
        /\ NextStep(step, 1) \in Steps => step[NextStep(step, 1)] # "completed"
    BY <2>2, NextStepFacts
  <2>4. "steps" \in Locked
    BY DEF Locked
  <2>5. pc'[p] = "steps" /\ at'[p] = NextStep(step, 1)
    BY <2>1 DEF IInv, TypeOK
  <2>6. TypeOK'
    BY <2>1, <2>3, <2>4 DEF IInv, TypeOK, record, files, env
  <2>7. OrderInv'
    BY <2>1 DEF IInv, OrderInv, record
  <2>8. AtWork(p)
    BY <1>1, Working
  <2>9. AtWork(p)'
    <3>1. Placed(p)'
      BY <2>1, <2>3, <2>5 DEF Placed, Sealing, Writing, record
    <3>2. Holds(p)' /\ Indexed(p)' /\ Drops(p)' /\ Seals(p)'
      BY <1>1, <2>1, <2>5, <2>8 DEF AtWork, Holds, Holding, Indexed, Drops, Seals, record, files
    <3> QED
      BY <3>1, <3>2 DEF AtWork
  <2> QED
    BY <1>1, <2>1, <2>4, <2>6, <2>7, <2>9, Continue DEF record
<1> QED
  BY <1>2, <1>3

-----------------------------------------------------------------------------
(* A step fails. *)

LEMMA GoType ==
    ASSUME TypeOK, NEW p \in Procs, NEW label \in Locked, Go(p, label)
    PROVE  /\ pc' \in [Procs -> Locked \union {"out", "opened"}] /\ pc'[p] = label
           /\ dry' = dry /\ at' = at /\ handle' = handle /\ seen' = seen /\ lock' = lock
           /\ pc' = [pc EXCEPT ![p] = label]
  BY DEF TypeOK, Go

\* Only the process's place changes.
LEMMA Moving ==
    ASSUME IInv, NEW p \in Procs, pc[p] \in Locked, NEW label \in Locked, Go(p, label),
           UNCHANGED <<policy, src, record, files, saw, env>>, AtWork(p)'
    PROVE  IInv'
<1>1. TypeOK'
  BY GoType DEF IInv, TypeOK, record, files, env
<1>2. OrderInv'
  BY DEF IInv, OrderInv, record
<1> QED
  BY <1>1, <1>2, GoType, Continue DEF IInv, record

Failing == {"keeping", "forgetting", "dropping", "ending"}

LEMMA FailsKeeps ==
    ASSUME IInv, NEW p \in Procs, pc[p] \in Locked \ {"begun", "evfile", "sealfile", "sealed", "output"},
           NEW s \in Steps, at[p] = s, NEW r \in BOOLEAN, dry[p] => ~r, Fails(p, s, r)
    PROVE  IInv'
<1> DEFINE label == AfterFailure(p, s, r)
<1>1. /\ label \in Failing /\ (label \in {"keeping", "forgetting"} => s = Writer)
      /\ label = "keeping" => StageValid /\ ~dry[p]
      /\ label = "dropping" => ~StageValid
  BY DEF AfterFailure, Failing
<1> HIDE DEF label
<1>2. label \in Locked /\ Go(p, label) /\ UNCHANGED <<policy, src, record, files, saw, env>>
  BY <1>1 DEF Fails, label, Failing, Locked
<1>3. /\ pc'[p] = label /\ dry' = dry /\ at' = at /\ handle' = handle
  BY <1>2, GoType DEF IInv
<1>4. Placed(p) /\ Indexed(p)
  BY Working DEF AtWork
<1>5. Placed(p)'
  BY <1>1, <1>2, <1>3, <1>4 DEF Placed, Failing, Writing, Sealing, record
<1>6. Holds(p)' /\ Drops(p)' /\ Seals(p)'
  BY <1>1, <1>2, <1>3 DEF Holds, Holding, Drops, Seals, Failing, StageValid, files
<1>7. Indexed(p)'
  BY <1>1, <1>2, <1>3, <1>4 DEF Indexed, Failing, record, files
<1>8. AtWork(p)'
  BY <1>5, <1>6, <1>7 DEF AtWork
<1> QED
  BY <1>2, <1>8, Moving

LEMMA FailuresKeep ==
    ASSUME IInv, NEW p \in Procs, NEW s \in Steps,
           CannotStart(p, s) \/ PlanFails(p, s) \/ RefuseOutput(p, s) \/ Reject(p, s)
    PROVE  IInv'
<1>1. /\ pc[p] \in {"steps", "started", "staged", "checking"} /\ at[p] = s
      /\ Fails(p, s, FALSE)
  BY DEF CannotStart, PlanFails, RefuseOutput, Reject, Runs, Ready
<1>2. pc[p] \in Locked \ {"begun", "evfile", "sealfile", "sealed", "output"}
  BY <1>1 DEF Locked
<1> QED
  BY <1>1, <1>2, FailsKeeps

LEMMA WriterFails ==
    ASSUME IInv, NEW p \in Procs, NEW r \in BOOLEAN,
           CopyFails(p) \/ RefuseStage(p) \/ AgentFails(p, r) \/ FinalizeFails(p)
    PROVE  IInv'
<1>1. /\ pc[p] \in {"copying", "staged", "coding", "finalizing"}
      /\ Fails(p, Writer, r) \/ Fails(p, Writer, FALSE)
  BY DEF CopyFails, RefuseStage, AgentFails, FinalizeFails, At
<1>2. pc[p] \in Locked \ {"begun", "evfile", "sealfile", "sealed", "output"}
  BY <1>1 DEF Locked
<1>3. at[p] = Writer /\ Writer \in Steps /\ ~dry[p]
  BY <1>1, <1>2, Working, StepAssumption DEF AtWork, Placed, Writing
<1>4. CASE Fails(p, Writer, r)
  BY <1>2, <1>3, <1>4, FailsKeeps
<1>5. CASE Fails(p, Writer, FALSE)
  BY <1>2, <1>3, <1>5, FailsKeeps
<1> QED
  BY <1>1, <1>4, <1>5

LEMMA KeepSessionKeeps ==
    ASSUME IInv, NEW p \in Procs, KeepSession(p) \/ Forget(p)
    PROVE  IInv'
<1> DEFINE label == IF pc[p] = "keeping" THEN "ending" ELSE "dropping"
<1>1. /\ pc[p] \in {"keeping", "forgetting"} /\ Go(p, label) /\ session' \in BOOLEAN
      /\ pending' \in {pending, None}
      /\ UNCHANGED <<policy, src, status, step, noted, recorded, files, saw, env>>
  BY DEF KeepSession, Forget, At
<1>2. pc[p] \in Locked /\ label \in Locked /\ label \in {"ending", "dropping"}
  BY <1>1 DEF Locked
<1> HIDE DEF label
<1>3. /\ pc'[p] = label /\ dry' = dry /\ at' = at /\ handle' = handle /\ seen' = seen /\ lock' = lock
      /\ pc' \in [Procs -> Locked \union {"out", "opened"}] /\ pc' = [pc EXCEPT ![p] = label]
  BY <1>1, <1>2, GoType DEF IInv
<1>4. TypeOK'
  BY <1>1, <1>3 DEF IInv, TypeOK, files, env
<1>5. OrderInv'
  BY <1>1 DEF IInv, OrderInv
<1>6. AtWork(p)'
  <2>1. Placed(p) /\ Indexed(p) /\ at[p] = Writer
    BY <1>1, <1>2, Working DEF AtWork, Placed, Writing
  <2>2. Placed(p)'
    BY <1>1, <1>2, <1>3, <2>1 DEF Placed, Sealing, Writing
  <2>3. Holds(p)' /\ Indexed(p)' /\ Drops(p)' /\ Seals(p)'
    BY <1>1, <1>2, <1>3, <2>1 DEF Holds, Holding, Indexed, Drops, Seals, files
  <2> QED
    BY <2>2, <2>3 DEF AtWork
<1> QED
  BY <1>1, <1>2, <1>3, <1>4, <1>5, <1>6, Continue

LEMMA DropKeeps ==
    ASSUME IInv, NEW p \in Procs, Drop(p)
    PROVE  IInv'
<1>1. /\ pc[p] = "dropping" /\ stage' = "none" /\ pc' = [pc EXCEPT ![p] = "ending"]
      /\ handle' = [handle EXCEPT ![p] = IF stage = "none" THEN @ ELSE None]
      /\ UNCHANGED <<policy, src, record, evidence, output, dry, at, seen, lock, saw, env>>
  BY DEF Drop, At
<1>2. pc[p] \in Locked /\ "ending" \in Locked
  BY <1>1 DEF Locked
<1>3. pc'[p] = "ending"
  BY <1>1 DEF IInv, TypeOK
<1>4. TypeOK'
  BY <1>1, <1>2 DEF IInv, TypeOK, StageValues, Trees, Damaged, record, env
<1>5. OrderInv'
  BY <1>1 DEF IInv, OrderInv, record
<1>6. AtWork(p)'
  <2>1. Placed(p) /\ Indexed(p)
    BY <1>1, <1>2, Working DEF AtWork
  <2>2. Placed(p)'
    BY <1>1, <1>3, <2>1 DEF Placed, Sealing, Writing, record
  <2>3. Holds(p)' /\ Indexed(p)' /\ Drops(p)' /\ Seals(p)'
    BY <1>1, <1>3, <2>1 DEF Holds, Holding, Indexed, Drops, Seals, record
  <2> QED
    BY <2>2, <2>3 DEF AtWork
<1> QED
  BY <1>1, <1>2, <1>4, <1>5, <1>6, Continue DEF record

-----------------------------------------------------------------------------
(* The command ends. *)

\* Steps that were not completed are not completed now.
LEMMA OrderStays ==
    ASSUME IInv, UNCHANGED <<noted, recorded>>,
           \A s \in Steps : step'[s] = "completed" <=> step[s] = "completed"
    PROVE  OrderInv'
  BY StepAssumption DEF IInv, OrderInv

LEMMA EndsKeep ==
    ASSUME IInv, NEW p \in Procs, NEW s \in Steps,
           EndFailed(p) \/ Blocked(p, s)
    PROVE  IInv'
<1>1. /\ pc[p] \in {"ending", "started", "steps"} /\ Leave(p)
      /\ (pc[p] = "ending" \/ at[p] = s)
      /\ \E v \in {"failed", "blocked"} : step' = [step EXCEPT ![at[p]] = v] /\ status' = v
      /\ UNCHANGED <<policy, src, pending, session, noted, recorded, files, saw, env>>
  BY DEF EndFailed, Blocked, At, Runs
<1>2. pc[p] \in Locked \ {"begun"}
  BY <1>1 DEF Locked
<1>3. Placed(p)
  BY <1>2, Working DEF AtWork
<1>4. at[p] \in Steps /\ step[at[p]] # "completed"
  BY <1>1, <1>3 DEF Placed, Sealing
<1>5. /\ step' \in [Steps -> {"pending", "running", "completed", "failed", "blocked", "planned"}]
      /\ \A t \in Steps : step'[t] = "completed" <=> step[t] = "completed"
  BY <1>1, <1>4 DEF IInv, TypeOK
<1>6. TypeOK'
  BY <1>1, <1>5, LeaveType DEF IInv, TypeOK, files, env
<1>7. OrderInv'
  BY <1>1, <1>5, OrderStays
<1> QED
  BY <1>1, <1>2, <1>6, <1>7, Leaving

LEMMA LeavesKeep ==
    ASSUME IInv, NEW p \in Procs,
           Planned(p) \/ SealDamaged(p) \/ SealRefused(p) \/ Finish(p) \/ Crash(p)
    PROVE  IInv'
<1>1. /\ pc[p] \in Locked /\ Leave(p)
      /\ status' \in {status, "planned", "failed", "completed"} /\ stage' \in {stage, "none"}
      /\ crashes' \in 0..MaxCrashes
      /\ UNCHANGED <<policy, src, step, pending, session, noted, recorded, evidence, output, saw,
                     edits>>
  <2>1. crashes \in 0..MaxCrashes /\ MaxCrashes \in Nat
    BY ValueAssumption DEF IInv, TypeOK
  <2>2. CASE Planned(p) \/ SealRefused(p) \/ Finish(p)
    BY <2>1, <2>2 DEF Planned, SealRefused, Finish, AllDone, At, Locked, files, env
  <2>3. CASE SealDamaged(p)
    BY <2>1, <2>3 DEF SealDamaged, AllDone, At, Locked, env
  <2>4. CASE Crash(p)
    BY <2>1, <2>4 DEF Crash, record, files
  <2> QED
    BY <2>2, <2>3, <2>4
<1>2. TypeOK'
  BY <1>1, LeaveType DEF IInv, TypeOK, StageValues, Trees, Damaged
<1>3. OrderInv'
  BY <1>1 DEF IInv, OrderInv
<1> QED
  BY <1>1, <1>2, <1>3, Leaving

-----------------------------------------------------------------------------
(* Steps and their outputs. *)

LEMMA StartKeeps ==
    ASSUME IInv, NEW p \in Procs, NEW s \in Steps, Start(p, s)
    PROVE  IInv'
<1>1. /\ pc[p] = "steps" /\ at[p] = s /\ ~dry[p] /\ Go(p, "started")
      /\ step' = [step EXCEPT ![s] = "running"]
      /\ UNCHANGED <<policy, src, status, pending, session, noted, recorded, files, saw, env>>
  BY DEF Start, Runs
<1>2. pc[p] \in Locked /\ "started" \in Locked
  BY <1>1 DEF Locked
<1>3. /\ pc'[p] = "started" /\ dry' = dry /\ at' = at /\ handle' = handle /\ seen' = seen
      /\ lock' = lock /\ pc' \in [Procs -> Locked \union {"out", "opened"}]
      /\ pc' = [pc EXCEPT ![p] = "started"]
  BY <1>1, <1>2, GoType DEF IInv
<1>4. AtWork(p) /\ Placed(p)
  BY <1>1, <1>2, Working DEF AtWork
<1>5. /\ step' \in [Steps -> {"pending", "running", "completed", "failed", "blocked", "planned"}]
      /\ \A t \in Steps : step'[t] = "completed" <=> step[t] = "completed"
  BY <1>1, <1>4 DEF IInv, TypeOK, Placed
<1>6. TypeOK'
  BY <1>1, <1>3, <1>5 DEF IInv, TypeOK, files, env
<1>7. OrderInv'
  BY <1>1, <1>5, OrderStays
<1>8. AtWork(p)'
  <2>1. Placed(p)'
    BY <1>1, <1>3, <1>4, <1>5 DEF Placed, Sealing, Writing
  <2>2. Holds(p)' /\ Indexed(p)' /\ Drops(p)' /\ Seals(p)'
    BY <1>1, <1>3, <1>4 DEF AtWork, Holds, Holding, Indexed, Drops, Seals, files
  <2> QED
    BY <2>1, <2>2 DEF AtWork
<1> QED
  BY <1>1, <1>2, <1>3, <1>6, <1>7, <1>8, Continue

LEMMA PlanKeeps ==
    ASSUME IInv, NEW p \in Procs, NEW s \in Steps, Plan(p, s)
    PROVE  IInv'
<1>1. /\ pc[p] = "steps" /\ at[p] = s /\ dry[p]
      /\ step' = [step EXCEPT ![s] = "planned"] /\ at' = [at EXCEPT ![p] = NextStep(step, s + 1)]
      /\ UNCHANGED <<policy, src, status, pending, session, noted, recorded, files,
                     pc, dry, handle, seen, lock, saw, env>>
  BY DEF Plan, Runs
<1>2. pc[p] \in Locked /\ pc' = [pc EXCEPT ![p] = "steps"] /\ "steps" \in Locked
  BY <1>1 DEF Locked, IInv, TypeOK
<1>3. AtWork(p) /\ Placed(p)
  BY <1>1, <1>2, Working DEF AtWork
<1>4. s + 1 \in 1..(NumSteps + 1) /\ s \in Nat
  BY StepAssumption DEF Steps
<1>5. /\ NextStep(step, s + 1) \in 1..(NumSteps + 1) /\ NextStep(step, s + 1) >= s + 1
      /\ NextStep(step, s + 1) \in Steps => step[NextStep(step, s + 1)] # "completed"
  BY <1>4, NextStepFacts
<1>6. /\ step' \in [Steps -> {"pending", "running", "completed", "failed", "blocked", "planned"}]
      /\ \A t \in Steps : step'[t] = "completed" <=> step[t] = "completed"
  BY <1>1, <1>3 DEF IInv, TypeOK, Placed
<1>7. at' \in [Procs -> 1..(NumSteps + 1)] /\ at'[p] = NextStep(step, s + 1)
  BY <1>1, <1>5 DEF IInv, TypeOK
<1>8. TypeOK'
  BY <1>1, <1>6, <1>7 DEF IInv, TypeOK, files, env
<1>9. OrderInv'
  BY <1>1, <1>6, OrderStays
<1>10. AtWork(p)'
  <2>1. Placed(p)'
    BY <1>1, <1>5, <1>6, <1>7 DEF Placed, Sealing, Writing
  <2>2. Holds(p)' /\ Indexed(p)' /\ Drops(p)' /\ Seals(p)'
    BY <1>1, <1>3 DEF AtWork, Holds, Holding, Indexed, Drops, Seals, files
  <2> QED
    BY <2>1, <2>2 DEF AtWork
<1> QED
  BY <1>1, <1>2, <1>8, <1>9, <1>10, Continue

LEMMA CompleteKeeps ==
    ASSUME IInv, NEW p \in Procs, NEW s \in Steps, Complete(p, s)
    PROVE  IInv'
<1>1. /\ pc[p] = "finished" /\ at[p] = s /\ step' = [step EXCEPT ![s] = "completed"]
      /\ pc' = [pc EXCEPT ![p] = "steps"] /\ at' = [at EXCEPT ![p] = NextStep(step', s)]
      /\ UNCHANGED <<policy, src, status, pending, session, noted, recorded, files,
                     dry, handle, seen, lock, saw, env>>
  BY DEF Complete, Runs
<1>2. pc[p] \in Locked /\ "steps" \in Locked
  BY <1>1 DEF Locked
<1>3. AtWork(p) /\ Placed(p) /\ Holds(p)
  BY <1>1, <1>2, Working DEF AtWork
<1>4. ~dry[p]
  BY <1>1, <1>3 DEF Placed
<1>5. s \in 1..(NumSteps + 1) /\ s \in Nat /\ NumSteps \in Nat
  BY StepAssumption DEF Steps
<1>6. /\ NextStep(step', s) \in 1..(NumSteps + 1) /\ NextStep(step', s) >= s
      /\ \A t \in Steps : s <= t /\ t < NextStep(step', s) => step'[t] = "completed"
      /\ NextStep(step', s) \in Steps => step'[NextStep(step', s)] # "completed"
  BY <1>5, NextStepFacts
<1>7. /\ step' \in [Steps -> {"pending", "running", "completed", "failed", "blocked", "planned"}]
      /\ step'[s] = "completed"
      /\ \A t \in Steps : t # s => step'[t] = step[t]
  BY <1>1 DEF IInv, TypeOK
<1>8. at' \in [Procs -> 1..(NumSteps + 1)] /\ at'[p] = NextStep(step', s) /\ pc'[p] = "steps"
  BY <1>1, <1>6 DEF IInv, TypeOK
<1>9. TypeOK'
  BY <1>1, <1>2, <1>7, <1>8 DEF IInv, TypeOK, files, env
<1>10. \A t \in Steps : t < s => step[t] = "completed"
  BY <1>1, <1>3, <1>4 DEF Placed
<1>11. OrderInv'
  <2>1. ASSUME NEW t \in Steps, NEW u \in Steps, t < u, step'[u] = "completed"
        PROVE  step'[t] = "completed"
    BY <1>7, <1>10, <2>1 DEF IInv, OrderInv
  <2>2. step'[Writer] = "completed" => noted'
    BY <1>1, <1>3, <1>7, StepAssumption DEF IInv, OrderInv, Holds
  <2> QED
    BY <1>1, <2>1, <2>2 DEF IInv, OrderInv
<1>12. AtWork(p)'
  <2>1. \A t \in Steps : t < at'[p] => step'[t] = "completed"
    <3>1. \A t \in Steps : t \in Nat
      BY DEF Steps
    <3>2. \A t \in Steps : t < s \/ s <= t
      BY <1>5, <3>1
    <3> QED
      BY <1>6, <1>7, <1>8, <1>10, <3>2
  <2>2. Placed(p)'
    BY <1>1, <1>4, <1>6, <1>8, <2>1 DEF Placed, Sealing, Writing
  <2>3. Holds(p)' /\ Drops(p)' /\ Seals(p)'
    BY <1>8 DEF Holds, Holding, Drops, Seals
  <2>4. Indexed(p)'
    BY <1>1, <1>3, <1>8 DEF AtWork, Indexed, files
  <2> QED
    BY <2>2, <2>3, <2>4 DEF AtWork
<1> QED
  BY <1>1, <1>2, <1>9, <1>11, <1>12, Continue

OutputType == [Steps -> {"absent", "unrecorded", "recorded", "mismatch"}]

LEMMA WriteOutputKeeps ==
    ASSUME IInv, NEW p \in Procs, NEW s \in Steps, at[p] = s, ~dry[p], WriteOutput(p, s),
           pc[p] \in {"started", "coding", "checking"}, s = Writer => pc[p] = "coding",
           saw' \in [Steps -> StageValues],
           UNCHANGED <<policy, src, record, evidence, stage, env>>
    PROVE  IInv'
<1>1. /\ Go(p, "output")
      /\ output' = [output EXCEPT ![s] = IF @ = "recorded" THEN "mismatch" ELSE "unrecorded"]
  BY DEF WriteOutput
<1>2. pc[p] \in Locked /\ "output" \in Locked
  BY DEF Locked
<1>3. /\ pc'[p] = "output" /\ dry' = dry /\ at' = at /\ handle' = handle /\ seen' = seen
      /\ lock' = lock /\ pc' \in [Procs -> Locked \union {"out", "opened"}]
      /\ pc' = [pc EXCEPT ![p] = "output"]
  BY <1>1, <1>2, GoType DEF IInv
<1>4. AtWork(p) /\ Placed(p) /\ Indexed(p) /\ Holds(p)
  BY <1>2, Working DEF AtWork
<1>5. output' \in OutputType /\ \A t \in Steps : t # s => output'[t] = output[t]
  BY <1>1 DEF IInv, TypeOK, OutputType
<1>6. TypeOK'
  BY <1>3, <1>5 DEF IInv, TypeOK, OutputType, record, env
<1>7. OrderInv'
  BY DEF IInv, OrderInv, record
<1>8. AtWork(p)'
  <2>1. Placed(p)'
    BY <1>3, <1>4 DEF Placed, Sealing, Writing, record
  <2>2. Holds(p)' /\ Drops(p)' /\ Seals(p)'
    BY <1>3, <1>4 DEF Holds, Holding, Drops, Seals
  <2>3. Indexed(p)'
    BY <1>3, <1>4, <1>5 DEF Indexed, record
  <2> QED
    BY <2>1, <2>2, <2>3 DEF AtWork
<1> QED
  BY <1>2, <1>3, <1>6, <1>7, <1>8, Continue DEF record

LEMMA ArtifactKeeps ==
    ASSUME IInv, NEW p \in Procs, NEW s \in Steps, WriteArtifact(p, s)
    PROVE  IInv'
<1>1. /\ pc[p] = "started" /\ at[p] = s /\ s # Writer /\ WriteOutput(p, s)
      /\ UNCHANGED <<policy, src, record, evidence, stage, saw, env>>
  BY DEF WriteArtifact, Ready, Runs
<1>2. pc[p] \in Locked
  BY <1>1 DEF Locked
<1>3. ~dry[p]
  BY <1>1, <1>2, Working DEF AtWork, Placed
<1> QED
  BY <1>1, <1>3, WriteOutputKeeps DEF IInv, TypeOK

LEMMA AgentEndsKeeps ==
    ASSUME IInv, NEW p \in Procs, AgentEnds(p)
    PROVE  IInv'
<1>1. /\ pc[p] = "coding" /\ WriteOutput(p, Writer) /\ Writer \in Steps
      /\ UNCHANGED <<policy, src, record, evidence, stage, saw, env>>
  BY StepAssumption DEF AgentEnds, At
<1>2. pc[p] \in Locked
  BY <1>1 DEF Locked
<1>3. ~dry[p] /\ at[p] = Writer
  BY <1>1, <1>2, Working DEF AtWork, Placed, Writing
<1> QED
  BY <1>1, <1>3, WriteOutputKeeps DEF IInv, TypeOK

LEMMA SaveOutputKeeps ==
    ASSUME IInv, NEW p \in Procs, NEW s \in Steps, SaveOutput(p, s)
    PROVE  IInv'
<1> DEFINE label == IF s = Writer THEN "finalizing" ELSE "finished"
<1>1. /\ pc[p] = "output" /\ at[p] = s /\ output' = [output EXCEPT ![s] = "recorded"]
      /\ Go(p, label)
      /\ UNCHANGED <<policy, src, record, evidence, stage, saw, env>>
  BY DEF SaveOutput, Runs
<1>2. /\ pc[p] \in Locked /\ label \in Locked /\ label \in {"finalizing", "finished"}
      /\ label = "finalizing" <=> s = Writer
  BY <1>1 DEF Locked
<1> HIDE DEF label
<1>3. /\ pc'[p] = label /\ dry' = dry /\ at' = at /\ handle' = handle /\ seen' = seen
      /\ lock' = lock /\ pc' \in [Procs -> Locked \union {"out", "opened"}]
      /\ pc' = [pc EXCEPT ![p] = label]
  BY <1>1, <1>2, GoType DEF IInv
<1>4. AtWork(p) /\ Placed(p) /\ Indexed(p) /\ Holds(p)
  BY <1>1, <1>2, Working DEF AtWork
<1>5. output' \in OutputType /\ output'[s] = "recorded" /\ \A t \in Steps : t # s => output'[t] = output[t]
  BY <1>1 DEF IInv, TypeOK, OutputType
<1>6. TypeOK'
  BY <1>1, <1>3, <1>5 DEF IInv, TypeOK, OutputType, record, env
<1>7. OrderInv'
  BY <1>1 DEF IInv, OrderInv, record
<1>8. AtWork(p)'
  <2>1. Placed(p)'
    BY <1>1, <1>2, <1>3, <1>4 DEF Placed, Sealing, Writing, record
  <2>2. Holds(p)' /\ Drops(p)' /\ Seals(p)'
    BY <1>1, <1>2, <1>3, <1>4 DEF Holds, Holding, Drops, Seals
  <2>3. Indexed(p)'
    BY <1>1, <1>2, <1>3, <1>4, <1>5 DEF Indexed, record
  <2> QED
    BY <2>1, <2>2, <2>3 DEF AtWork
<1> QED
  BY <1>1, <1>2, <1>3, <1>6, <1>7, <1>8, Continue DEF record

-----------------------------------------------------------------------------
(* The writer. *)

\* Steps that only move on.
LEMMA WriterMoves ==
    ASSUME IInv, NEW p \in Procs, ReuseStage(p) \/ StartAgent(p)
    PROVE  IInv'
<1> DEFINE label == IF pc[p] = "started" THEN "staged" ELSE "coding"
<1>1. /\ pc[p] \in {"started", "staged"} /\ Go(p, label)
      /\ (pc[p] = "started" => at[p] = Writer /\ handle[p] # None)
      /\ UNCHANGED <<policy, src, record, files, saw, env>>
  BY DEF ReuseStage, StartAgent, Ready, Runs, At
<1>2. /\ pc[p] \in Locked /\ label \in Locked /\ label \in {"staged", "coding"}
  BY <1>1 DEF Locked
<1> HIDE DEF label
<1>3. /\ pc'[p] = label /\ dry' = dry /\ at' = at /\ handle' = handle
  BY <1>1, <1>2, GoType DEF IInv
<1>4. Placed(p) /\ Indexed(p) /\ Holds(p)
  BY <1>1, <1>2, Working DEF AtWork
<1>5. at[p] = Writer /\ handle[p] # None /\ ~dry[p] /\ Writer \in Steps
  BY <1>1, <1>4, StepAssumption DEF Placed, Holds, Holding, Writing
<1>6. AtWork(p)'
  <2>1. Placed(p)'
    BY <1>1, <1>2, <1>3, <1>4, <1>5 DEF Placed, Sealing, Writing, record
  <2>2. Holds(p)' /\ Indexed(p)' /\ Drops(p)' /\ Seals(p)'
    BY <1>1, <1>2, <1>3, <1>4, <1>5 DEF Holds, Holding, Indexed, Drops, Seals, record, files
  <2> QED
    BY <2>1, <2>2 DEF AtWork
<1> QED
  BY <1>1, <1>2, <1>6, Moving

LEMMA StagingKeeps ==
    ASSUME IInv, NEW p \in Procs, ForgetOld(p) \/ RemoveOld(p) \/ MakeStage(p)
    PROVE  IInv'
<1>1. /\ pc[p] \in {"started", "removing", "creating"}
      /\ \E label \in {"removing", "creating", "copying"} : Go(p, label)
      /\ (pc[p] = "started" => at[p] = Writer)
      /\ pending' \in {pending, None} /\ session' \in {session, FALSE}
      /\ stage' \in {stage, "none", "torn"}
      /\ UNCHANGED <<policy, src, status, step, noted, recorded, evidence, output, saw, env>>
  BY DEF ForgetOld, RemoveOld, MakeStage, Ready, Runs, At, record, files
<1>2. PICK label \in {"removing", "creating", "copying"} : Go(p, label)
  BY <1>1
<1>3. pc[p] \in Locked /\ label \in Locked
  BY <1>1 DEF Locked
<1>4. /\ pc'[p] = label /\ dry' = dry /\ at' = at /\ handle' = handle /\ seen' = seen /\ lock' = lock
      /\ pc' \in [Procs -> Locked \union {"out", "opened"}] /\ pc' = [pc EXCEPT ![p] = label]
  BY <1>2, <1>3, GoType DEF IInv
<1>5. Placed(p) /\ Indexed(p)
  BY <1>1, <1>3, Working DEF AtWork
<1>6. at[p] = Writer /\ ~dry[p] /\ Writer \in Steps
  BY <1>1, <1>5, StepAssumption DEF Placed, Writing
<1>7. TypeOK'
  <2>1. stage' \in StageValues
    BY <1>1 DEF IInv, TypeOK, StageValues, Trees, Damaged
  <2> QED
    BY <1>1, <1>4, <2>1 DEF IInv, TypeOK, env
<1>8. OrderInv'
  BY <1>1 DEF IInv, OrderInv
<1>9. AtWork(p)'
  <2>1. Placed(p)'
    BY <1>1, <1>4, <1>5, <1>6 DEF Placed, Sealing, Writing
  <2>2. Holds(p)' /\ Indexed(p)' /\ Drops(p)' /\ Seals(p)'
    BY <1>1, <1>4, <1>5 DEF Holds, Holding, Indexed, Drops, Seals
  <2> QED
    BY <2>1, <2>2 DEF AtWork
<1> QED
  BY <1>1, <1>3, <1>4, <1>7, <1>8, <1>9, Continue

LEMMA FinishCopyKeeps ==
    ASSUME IInv, NEW p \in Procs, FinishCopy(p)
    PROVE  IInv'
<1>1. /\ pc[p] = "copying" /\ stage' = src /\ pc' = [pc EXCEPT ![p] = "copied"]
      /\ handle' = [handle EXCEPT ![p] = [before |-> src, evid |-> FALSE]]
      /\ UNCHANGED <<policy, src, record, evidence, output, dry, at, seen, lock, saw, env>>
  BY DEF FinishCopy, At
<1>2. pc[p] \in Locked /\ "copied" \in Locked
  BY <1>1 DEF Locked
<1>3. Placed(p) /\ Indexed(p)
  BY <1>1, <1>2, Working DEF AtWork
<1>4. [before |-> src, evid |-> FALSE] \in Handles /\ None \notin Handles
  BY NoneAssumption DEF IInv, TypeOK, Handles
<1>5. pc'[p] = "copied" /\ handle'[p] = [before |-> src, evid |-> FALSE]
  BY <1>1 DEF IInv, TypeOK
<1>6. TypeOK'
  BY <1>1, <1>2, <1>4 DEF IInv, TypeOK, StageValues, Trees, Damaged, record, env
<1>7. OrderInv'
  BY <1>1 DEF IInv, OrderInv, record
<1>8. AtWork(p)'
  <2>1. Placed(p)'
    BY <1>1, <1>3, <1>5 DEF Placed, Sealing, Writing, record
  <2>2. Holds(p)' /\ Indexed(p)' /\ Drops(p)' /\ Seals(p)'
    BY <1>1, <1>3, <1>4, <1>5 DEF Holds, Holding, Indexed, Drops, Seals, record
  <2> QED
    BY <2>1, <2>2 DEF AtWork
<1> QED
  BY <1>1, <1>2, <1>6, <1>7, <1>8, Continue DEF record

LEMMA NotePendingKeeps ==
    ASSUME IInv, NEW p \in Procs, NotePending(p)
    PROVE  IInv'
<1>1. /\ pc[p] = "copied" /\ Go(p, "staged") /\ pending' = handle[p].before
      /\ UNCHANGED <<policy, src, status, step, session, noted, recorded, files, saw, env>>
  BY DEF NotePending, At
<1>2. pc[p] \in Locked /\ "staged" \in Locked
  BY <1>1 DEF Locked
<1>3. /\ pc'[p] = "staged" /\ dry' = dry /\ at' = at /\ handle' = handle /\ seen' = seen
      /\ lock' = lock /\ pc' \in [Procs -> Locked \union {"out", "opened"}]
      /\ pc' = [pc EXCEPT ![p] = "staged"]
  BY <1>1, <1>2, GoType DEF IInv
<1>4. Placed(p) /\ Indexed(p) /\ Holds(p)
  BY <1>1, <1>2, Working DEF AtWork
<1>5. handle[p] # None
  BY <1>1, <1>4 DEF Holds, Holding
<1>6. pending' \in Versions
  BY <1>1, <1>5 DEF IInv, TypeOK, Handles
<1>7. TypeOK'
  BY <1>1, <1>3, <1>6 DEF IInv, TypeOK, files, env
<1>8. OrderInv'
  BY <1>1 DEF IInv, OrderInv
<1>9. AtWork(p)'
  <2>1. Placed(p)'
    BY <1>1, <1>3, <1>4 DEF Placed, Sealing, Writing
  <2>2. Holds(p)' /\ Indexed(p)' /\ Drops(p)' /\ Seals(p)'
    BY <1>1, <1>3, <1>4, <1>5 DEF Holds, Holding, Indexed, Drops, Seals, files
  <2> QED
    BY <2>1, <2>2 DEF AtWork
<1> QED
  BY <1>1, <1>2, <1>3, <1>7, <1>8, <1>9, Continue

LEMMA FinalizeKeeps ==
    ASSUME IInv, NEW p \in Procs, Finalize(p)
    PROVE  IInv'
<1>1. /\ pc[p] = "finalizing" /\ StageValid /\ Readable /\ Go(p, "evfile")
      /\ evidence' = [before |-> handle[p].before, after |-> stage, passed |-> FALSE, by |-> {}]
      /\ UNCHANGED <<policy, src, record, output, stage, saw, env>>
  BY DEF Finalize, At
<1>2. pc[p] \in Locked /\ "evfile" \in Locked
  BY <1>1 DEF Locked
<1>3. /\ pc'[p] = "evfile" /\ dry' = dry /\ at' = at /\ handle' = handle /\ seen' = seen
      /\ lock' = lock /\ pc' \in [Procs -> Locked \union {"out", "opened"}]
      /\ pc' = [pc EXCEPT ![p] = "evfile"]
  BY <1>1, <1>2, GoType DEF IInv
<1>4. Placed(p) /\ Indexed(p) /\ Holds(p)
  BY <1>1, <1>2, Working DEF AtWork
<1>5. handle[p] # None
  BY <1>1, <1>4 DEF Holds, Holding
<1>6. evidence' \in Evidence /\ evidence' # None
  <2>1. handle[p].before \in Versions /\ stage \in Trees
    BY <1>1, <1>5, ValueAssumption DEF IInv, TypeOK, Handles, StageValid, Readable, Trees
  <2>2. evidence' \in Evidence
    BY <1>1, <2>1 DEF Evidence
  <2> QED
    BY <2>2, NoneAssumption
<1>7. TypeOK'
  BY <1>1, <1>3, <1>6 DEF IInv, TypeOK, record, env
<1>8. OrderInv'
  BY <1>1 DEF IInv, OrderInv, record
<1>9. AtWork(p)'
  <2>1. Placed(p)'
    BY <1>1, <1>3, <1>4 DEF Placed, Sealing, Writing, record
  <2>2. Holds(p)' /\ Indexed(p)' /\ Drops(p)' /\ Seals(p)'
    BY <1>1, <1>3, <1>4, <1>5, <1>6 DEF Holds, Holding, Indexed, Drops, Seals, record
  <2> QED
    BY <2>1, <2>2 DEF AtWork
<1> QED
  BY <1>1, <1>2, <1>3, <1>7, <1>8, <1>9, Continue DEF record

LEMMA SaveEvidenceKeeps ==
    ASSUME IInv, NEW p \in Procs, SaveEvidence(p)
    PROVE  IInv'
<1>1. /\ pc[p] = "evfile" /\ recorded' = evidence /\ handle' = [handle EXCEPT ![p].evid = TRUE]
      /\ pc' = [pc EXCEPT ![p] = "evsaved"]
      /\ UNCHANGED <<policy, src, status, step, pending, session, noted, files,
                     dry, at, seen, lock, saw, env>>
  BY DEF SaveEvidence, At
<1>2. pc[p] \in Locked /\ "evsaved" \in Locked
  BY <1>1 DEF Locked
<1>3. Placed(p) /\ Indexed(p) /\ Holds(p)
  BY <1>1, <1>2, Working DEF AtWork
<1>4. handle[p] # None /\ evidence # None /\ evidence \in Evidence \union {None}
  BY <1>1, <1>3 DEF Holds, Holding, IInv, TypeOK
<1>5. handle' \in [Procs -> Handles \union {None}] /\ handle'[p] # None
  <2>1. handle[p] \in Handles
    BY <1>4 DEF IInv, TypeOK
  <2>2. [handle[p] EXCEPT !.evid = TRUE] \in Handles
    BY <2>1 DEF Handles
  <2>3. handle' = [handle EXCEPT ![p] = [handle[p] EXCEPT !.evid = TRUE]]
    BY <1>1 DEF IInv, TypeOK
  <2> QED
    BY <2>2, <2>3, NoneAssumption DEF IInv, TypeOK
<1>6. pc'[p] = "evsaved"
  BY <1>1 DEF IInv, TypeOK
<1>7. TypeOK'
  BY <1>1, <1>2, <1>4, <1>5 DEF IInv, TypeOK, files, env
<1>8. OrderInv'
  BY <1>1, <1>4 DEF IInv, OrderInv
<1>9. AtWork(p)'
  <2>1. Placed(p)'
    BY <1>1, <1>3, <1>6 DEF Placed, Sealing, Writing
  <2>2. Holds(p)' /\ Indexed(p)' /\ Drops(p)' /\ Seals(p)'
    BY <1>1, <1>3, <1>4, <1>5, <1>6 DEF Holds, Holding, Indexed, Drops, Seals, files
  <2> QED
    BY <2>1, <2>2 DEF AtWork
<1> QED
  BY <1>1, <1>2, <1>7, <1>8, <1>9, Continue

LEMMA NoteEvidenceKeeps ==
    ASSUME IInv, NEW p \in Procs, NoteEvidence(p)
    PROVE  IInv'
<1>1. /\ pc[p] = "evsaved" /\ Go(p, "finished")
      /\ noted' = TRUE /\ pending' = None /\ session' = FALSE
      /\ UNCHANGED <<policy, src, status, step, recorded, files, saw, env>>
  BY DEF NoteEvidence, At
<1>2. pc[p] \in Locked /\ "finished" \in Locked
  BY <1>1 DEF Locked
<1>3. /\ pc'[p] = "finished" /\ dry' = dry /\ at' = at /\ handle' = handle /\ seen' = seen
      /\ lock' = lock /\ pc' \in [Procs -> Locked \union {"out", "opened"}]
      /\ pc' = [pc EXCEPT ![p] = "finished"]
  BY <1>1, <1>2, GoType DEF IInv
<1>4. Placed(p) /\ Indexed(p) /\ Holds(p)
  BY <1>1, <1>2, Working DEF AtWork
<1>5. TypeOK'
  BY <1>1, <1>3 DEF IInv, TypeOK, files, env
<1>6. OrderInv'
  BY <1>1, <1>4 DEF IInv, OrderInv, Holds
<1>7. AtWork(p)'
  <2>1. Placed(p)'
    BY <1>1, <1>3, <1>4 DEF Placed, Sealing, Writing
  <2>2. Holds(p)' /\ Indexed(p)' /\ Drops(p)' /\ Seals(p)'
    BY <1>1, <1>3, <1>4 DEF Holds, Holding, Indexed, Drops, Seals, files
  <2> QED
    BY <2>1, <2>2 DEF AtWork
<1> QED
  BY <1>1, <1>2, <1>3, <1>5, <1>6, <1>7, Continue

\* The agent, or a verifier that is not held back, changes the stage.
LEMMA StageChanges ==
    ASSUME IInv, NEW p \in Procs, pc[p] \in {"coding", "checking"},
           stage' \in Trees \union Damaged,
           UNCHANGED <<policy, src, record, evidence, output, local, saw, env>>
    PROVE  IInv'
<1>1. pc[p] \in Locked /\ pc' = [pc EXCEPT ![p] = pc[p]]
  BY DEF Locked, IInv, TypeOK, local
<1>2. AtWork(p)
  BY <1>1, Working
<1>3. TypeOK'
  BY DEF IInv, TypeOK, StageValues, Trees, Damaged, record, local, env
<1>4. OrderInv'
  BY DEF IInv, OrderInv, record
<1>5. AtWork(p)'
  <2>1. Placed(p)'
    BY <1>2 DEF AtWork, Placed, record, local
  <2>2. Holds(p)' /\ Indexed(p)' /\ Drops(p)' /\ Seals(p)'
    BY <1>2 DEF AtWork, Holds, Indexed, Drops, Seals, record, local
  <2> QED
    BY <2>1, <2>2 DEF AtWork
<1> QED
  BY <1>1, <1>3, <1>4, <1>5, Continue DEF record, local

LEMMA OthersWrite ==
    ASSUME IInv, NEW p \in Procs, NEW s \in Steps, AgentWrites(p) \/ Touch(p, s)
    PROVE  IInv'
<1>1. CASE AgentWrites(p)
  BY <1>1, StageChanges DEF AgentWrites, At, Trees
<1>2. CASE Touch(p, s)
  BY <1>2, StageChanges DEF Touch, Runs, Trees
<1> QED
  BY <1>1, <1>2

-----------------------------------------------------------------------------
(* The verifiers and the seal. *)

LEMMA VerifyKeeps ==
    ASSUME IInv, NEW p \in Procs, NEW s \in Steps, Verify(p, s)
    PROVE  IInv'
<1>1. /\ pc[p] = "started" /\ at[p] = s /\ s \in Verifiers
      /\ seen' = [seen EXCEPT ![p] = ActiveWorkspace(p, s)]
      /\ pc' = [pc EXCEPT ![p] = "checking"]
      /\ UNCHANGED <<policy, src, record, files, dry, at, handle, lock, saw, env>>
  BY DEF Verify, Ready, Runs
<1>2. pc[p] \in Locked /\ "checking" \in Locked
  BY <1>1 DEF Locked
<1>3. Placed(p) /\ Indexed(p)
  BY <1>1, <1>2, Working DEF AtWork
<1>4. ActiveWorkspace(p, s) \in StageValues
  BY DEF IInv, TypeOK, ActiveWorkspace, StageValues, Trees, Damaged
<1>5. pc'[p] = "checking"
  BY <1>1 DEF IInv, TypeOK
<1>6. TypeOK'
  BY <1>1, <1>2, <1>4 DEF IInv, TypeOK, record, files, env
<1>7. OrderInv'
  BY <1>1 DEF IInv, OrderInv, record
<1>8. AtWork(p)'
  <2>1. Placed(p)'
    BY <1>1, <1>3, <1>5 DEF Placed, Sealing, Writing, record
  <2>2. Holds(p)' /\ Indexed(p)' /\ Drops(p)' /\ Seals(p)'
    BY <1>1, <1>3, <1>5 DEF Holds, Holding, Indexed, Drops, Seals, record, files
  <2> QED
    BY <2>1, <2>2 DEF AtWork
<1> QED
  BY <1>1, <1>2, <1>6, <1>7, <1>8, Continue DEF record

LEMMA PassKeeps ==
    ASSUME IInv, NEW p \in Procs, NEW s \in Steps, Pass(p, s)
    PROVE  IInv'
<1>1. /\ pc[p] = "checking" /\ at[p] = s /\ saw' = [saw EXCEPT ![s] = seen[p]]
      /\ UNCHANGED <<policy, src, record, evidence, stage, env>>
  BY DEF Pass, Runs
<1>2. pc[p] \in Locked /\ "finished" \in Locked
  BY <1>1 DEF Locked
<1>3. Placed(p) /\ Indexed(p)
  BY <1>1, <1>2, Working DEF AtWork
<1>4. ~dry[p] /\ s # Writer
  <2>1. s \in Verifiers
    BY <1>1, <1>3 DEF Placed
  <2>2. s # Writer
    BY <2>1, StepAssumption DEF Steps
  <2> QED
    BY <1>1, <1>3, <2>2 DEF Placed
<1>5. saw' \in [Steps -> StageValues]
  BY <1>1 DEF IInv, TypeOK
<1>6. CASE WriteOutput(p, s)
  BY <1>1, <1>4, <1>5, <1>6, WriteOutputKeeps
<1>7. CASE Go(p, "finished") /\ UNCHANGED output
  <2>1. /\ pc'[p] = "finished" /\ dry' = dry /\ at' = at /\ handle' = handle /\ seen' = seen
        /\ lock' = lock /\ pc' \in [Procs -> Locked \union {"out", "opened"}]
        /\ pc' = [pc EXCEPT ![p] = "finished"]
    BY <1>2, <1>7, GoType DEF IInv
  <2>2. TypeOK'
    BY <1>1, <1>5, <1>7, <2>1 DEF IInv, TypeOK, record, env
  <2>3. OrderInv'
    BY <1>1 DEF IInv, OrderInv, record
  <2>4. AtWork(p)'
    <3>1. Placed(p)'
      BY <1>1, <1>3, <2>1 DEF Placed, Sealing, Writing, record
    <3>2. Holds(p)' /\ Indexed(p)' /\ Drops(p)' /\ Seals(p)'
      BY <1>1, <1>3, <1>4, <1>7, <2>1 DEF Holds, Holding, Indexed, Drops, Seals, record
    <3> QED
      BY <3>1, <3>2 DEF AtWork
  <2> QED
    BY <1>1, <1>2, <2>1, <2>2, <2>3, <2>4, Continue DEF record
<1> QED
  BY <1>6, <1>7 DEF Pass

\* All steps are done: the writer's evidence is there, and every verifier passed.
LEMMA DoneFacts ==
    ASSUME IInv, NEW p \in Procs, AllDone(p)
    PROVE  /\ pc[p] \in Locked /\ AtWork(p) /\ at[p] = NumSteps + 1 /\ ~dry[p]
           /\ \A s \in Steps : step[s] = "completed"
           /\ noted /\ recorded # None /\ recorded \in Evidence
<1>1. pc[p] = "steps" /\ pc[p] \in Locked /\ at[p] = NumSteps + 1 /\ ~dry[p]
  BY DEF AllDone, At, Locked
<1>2. AtWork(p) /\ Placed(p)
  BY <1>1, Working DEF AtWork
<1>3. \A s \in Steps : s < NumSteps + 1
  BY StepAssumption DEF Steps
<1>4. \A s \in Steps : step[s] = "completed"
  BY <1>1, <1>2, <1>3 DEF Placed
<1> QED
  BY <1>1, <1>2, <1>4, StepAssumption DEF IInv, OrderInv, TypeOK

LEMMA SealKeeps ==
    ASSUME IInv, NEW p \in Procs, Seal(p)
    PROVE  IInv'
<1>1. /\ AllDone(p) /\ handle[p] # None /\ StageValid /\ stage = recorded.after
      /\ evidence' = [before |-> handle[p].before, after |-> stage, passed |-> TRUE,
                      by |-> {s \in Verifiers : step[s] = "completed"}]
      /\ Go(p, "sealfile")
      /\ UNCHANGED <<policy, src, record, output, stage, saw, env>>
  BY DEF Seal, MaySeal
<1>2. /\ pc[p] \in Locked /\ AtWork(p) /\ at[p] = NumSteps + 1 /\ ~dry[p]
      /\ \A s \in Steps : step[s] = "completed"
      /\ recorded # None
  BY <1>1, DoneFacts
<1>3. "sealfile" \in Locked /\ pc[p] = "steps"
  BY <1>1 DEF Locked, AllDone, At
<1>4. /\ pc'[p] = "sealfile" /\ dry' = dry /\ at' = at /\ handle' = handle /\ seen' = seen
      /\ lock' = lock /\ pc' \in [Procs -> Locked \union {"out", "opened"}]
      /\ pc' = [pc EXCEPT ![p] = "sealfile"]
  BY <1>1, <1>3, GoType DEF IInv
<1>5. Verifiers \subseteq Steps
  BY StepAssumption
<1>6. {s \in Verifiers : step[s] = "completed"} = Verifiers
  BY <1>2, <1>5
<1>7. evidence' \in Evidence /\ evidence' # None
  <2>1. handle[p].before \in Versions /\ stage \in Trees
    BY <1>1, <1>2 DEF IInv, TypeOK, Handles, Evidence
  <2>2. evidence' \in Evidence
    BY <1>1, <1>5, <1>6, <2>1 DEF Evidence
  <2> QED
    BY <2>2, NoneAssumption
<1>8. TypeOK'
  BY <1>1, <1>4, <1>7 DEF IInv, TypeOK, record, env
<1>9. OrderInv'
  BY <1>1 DEF IInv, OrderInv, record
<1>10. AtWork(p)'
  <2>1. Placed(p)'
    BY <1>1, <1>2, <1>3, <1>4 DEF AtWork, Placed, Sealing, Writing, record
  <2>2. Holds(p)' /\ Indexed(p)' /\ Drops(p)'
    BY <1>1, <1>2, <1>3, <1>4, <1>7 DEF AtWork, Holds, Holding, Indexed, Drops, record
  <2>3. Seals(p)'
    BY <1>1, <1>2, <1>4, <1>6, <1>7 DEF Seals, Sealed, record
  <2> QED
    BY <2>1, <2>2, <2>3 DEF AtWork
<1> QED
  BY <1>1, <1>2, <1>3, <1>4, <1>8, <1>9, <1>10, Continue DEF record

LEMMA SaveSealKeeps ==
    ASSUME IInv, NEW p \in Procs, SaveSeal(p)
    PROVE  IInv'
<1>1. /\ pc[p] = "sealfile" /\ Go(p, "sealed") /\ recorded' = evidence
      /\ UNCHANGED <<policy, src, status, step, pending, session, noted, files, saw, env>>
  BY DEF SaveSeal, At
<1>2. pc[p] \in Locked /\ "sealed" \in Locked
  BY <1>1 DEF Locked
<1>3. /\ pc'[p] = "sealed" /\ dry' = dry /\ at' = at /\ handle' = handle /\ seen' = seen
      /\ lock' = lock /\ pc' \in [Procs -> Locked \union {"out", "opened"}]
      /\ pc' = [pc EXCEPT ![p] = "sealed"]
  BY <1>1, <1>2, GoType DEF IInv
<1>4. Placed(p) /\ Indexed(p) /\ Sealed(evidence)
  BY <1>1, <1>2, Working DEF AtWork, Seals
<1>5. evidence \in Evidence \union {None}
  BY DEF IInv, TypeOK
<1>6. TypeOK'
  BY <1>1, <1>3, <1>5 DEF IInv, TypeOK, files, env
<1>7. OrderInv'
  BY <1>1, <1>4 DEF IInv, OrderInv, Sealed
<1>8. AtWork(p)'
  <2>1. Placed(p)'
    BY <1>1, <1>3, <1>4 DEF Placed, Sealing, Writing
  <2>2. Holds(p)' /\ Indexed(p)' /\ Drops(p)'
    BY <1>1, <1>3, <1>4 DEF Holds, Holding, Indexed, Drops, files
  <2>3. Seals(p)'
    BY <1>1, <1>3, <1>4 DEF Seals, Sealed, files
  <2> QED
    BY <2>1, <2>2, <2>3 DEF AtWork
<1> QED
  BY <1>1, <1>2, <1>3, <1>6, <1>7, <1>8, Continue

-----------------------------------------------------------------------------
LEMMA EditKeeps ==
    ASSUME IInv, Edit
    PROVE  IInv'
<1>1. /\ src' \in Versions /\ edits' = edits + 1 /\ edits < MaxEdits
      /\ UNCHANGED <<policy, record, files, local, saw, crashes>>
  BY DEF Edit
<1>2. edits' \in 0..MaxEdits
  BY <1>1, ValueAssumption DEF IInv, TypeOK
<1>3. TypeOK'
  BY <1>1, <1>2 DEF IInv, TypeOK, record, files, local
<1>4. LockInv' /\ OrderInv'
  BY <1>1 DEF IInv, LockInv, OrderInv, record, local
<1>5. WorkInv'
  BY <1>1 DEF IInv, WorkInv, AtWork, Placed, Holds, Indexed, Drops, Seals, Sealed, StageValid,
              record, files, local
<1> QED
  BY <1>3, <1>4, <1>5 DEF IInv

LEMMA StutterKeeps ==
    ASSUME IInv, UNCHANGED vars
    PROVE  IInv'
<1> USE DEF vars, record, files, local, env
<1>1. TypeOK'
  BY DEF IInv, TypeOK
<1>2. LockInv' /\ OrderInv'
  BY DEF IInv, LockInv, OrderInv
<1>3. WorkInv'
  BY DEF IInv, WorkInv, AtWork, Placed, Holds, Indexed, Drops, Seals, Sealed, StageValid
<1> QED
  BY <1>1, <1>2, <1>3 DEF IInv

LEMMA StepOfKeeps ==
    ASSUME IInv, NEW p \in Procs, NEW s \in Steps, StepOf(p, s)
    PROVE  IInv'
  BY StartKeeps, EndsKeep, PlanKeeps, FailuresKeep, SaveOutputKeeps, ArtifactKeeps, CompleteKeeps,
     VerifyKeeps, PassKeeps DEF StepOf

LEMMA WriteKeeps ==
    ASSUME IInv, NEW p \in Procs, Write(p)
    PROVE  IInv'
<1>1. ASSUME NEW r \in BOOLEAN, AgentFails(p, r) PROVE IInv'
  BY <1>1, WriterFails
<1>2. CASE CopyFails(p) \/ RefuseStage(p) \/ FinalizeFails(p)
  BY <1>2, WriterFails
<1> QED
  BY <1>1, <1>2, StagingKeeps, FinishCopyKeeps, NotePendingKeeps, WriterMoves, AgentEndsKeeps,
     FinalizeKeeps, SaveEvidenceKeeps, NoteEvidenceKeeps DEF Write

LEMMA CommandKeeps ==
    ASSUME IInv, NEW p \in Procs, Command(p)
    PROVE  IInv'
<1>1. Writer \in Steps
  BY StepAssumption
<1>2. CASE EndFailed(p)
  BY <1>1, <1>2, EndsKeep
<1> QED
  BY <1>2, TurnedAwayKeeps, BeginKeeps, RiskKeeps, KeepSessionKeeps, DropKeeps, LeavesKeep,
     StepOfKeeps, WriteKeeps, SealKeeps, SaveSealKeeps DEF Command

LEMMA Inductive == IInv /\ [Next]_vars => IInv'
<1> SUFFICES ASSUME IInv, [Next]_vars PROVE IInv'
  OBVIOUS
<1>1. ASSUME NEW p \in Procs, NEW d \in DryRuns, Open(p, d) PROVE IInv'
  BY <1>1, OpenKeeps, ValueAssumption
<1>2. ASSUME NEW p \in Procs, NEW s \in Steps, Touch(p, s) PROVE IInv'
  BY <1>2, OthersWrite
<1>3. ASSUME NEW p \in Procs, AgentWrites(p) PROVE IInv'
  BY <1>3, OthersWrite, StepAssumption
<1>4. ASSUME NEW p \in Procs, Crash(p) PROVE IInv'
  BY <1>4, LeavesKeep
<1>5. ASSUME NEW p \in Procs, Command(p) PROVE IInv'
  BY <1>5, CommandKeeps
<1>6. CASE Edit
  BY <1>6, EditKeeps
<1>7. CASE UNCHANGED vars
  BY <1>7, StutterKeeps
<1> QED
  BY <1>1, <1>2, <1>3, <1>4, <1>5, <1>6, <1>7 DEF Next

LEMMA Always == Spec => []IInv
  BY Initially, Inductive, PTL DEF Spec

\* The variables keep their types: a process never holds a stage, evidence or a
\* place that WorkflowRunner does not provide for.
THEOREM TypeCorrect == Spec => []TypeOK
<1>1. IInv => TypeOK
  BY DEF IInv
<1> QED
  BY <1>1, Always, PTL

-----------------------------------------------------------------------------
(* What a step may not do. *)

\* Only the process that holds the lock acts, but for the two ends of execute().
LEMMA StepsAreLocked ==
    ASSUME NEW p \in Procs, NEW s \in Steps, StepOf(p, s)
    PROVE  pc[p] \in Locked
<1>1. pc[p] \in {"steps", "started", "staged", "output", "finished", "checking"}
  BY DEF StepOf, Start, CannotStart, Blocked, Plan, PlanFails, RefuseOutput, SaveOutput,
         WriteArtifact, Complete, Verify, Pass, Reject, Ready, Runs
<1> QED
  BY <1>1 DEF Locked

LEMMA WritesAreLocked ==
    ASSUME NEW p \in Procs, Write(p)
    PROVE  pc[p] \in Locked
<1>1. pc[p] \in {"started", "removing", "creating", "copying", "copied", "staged", "coding",
                 "finalizing", "evfile", "evsaved"}
  BY DEF Write, ForgetOld, RemoveOld, MakeStage, FinishCopy, CopyFails, NotePending, ReuseStage,
         StartAgent, RefuseStage, AgentEnds, AgentFails, Finalize, FinalizeFails, SaveEvidence,
         NoteEvidence, Ready, Runs, At
<1> QED
  BY <1>1 DEF Locked

LEMMA CommandsAreLocked ==
    ASSUME NEW p \in Procs, Command(p)
    PROVE  pc[p] \in Locked \/ TurnedAway(p) \/ Begin(p)
<1>1. CASE \/ RiskRefused(p) \/ RiskPermitted(p) \/ KeepSession(p) \/ Forget(p) \/ Drop(p)
           \/ EndFailed(p) \/ Planned(p) \/ SealDamaged(p) \/ SealRefused(p) \/ Seal(p)
           \/ SaveSeal(p) \/ Finish(p)
  <2>1. pc[p] \in {"begun", "keeping", "forgetting", "dropping", "ending", "steps", "sealfile",
                   "sealed"}
    BY <1>1 DEF RiskRefused, RiskPermitted, KeepSession, Forget, Drop, EndFailed, Planned,
                SealDamaged, SealRefused, Seal, SaveSeal, Finish, AllDone, At
  <2> QED
    BY <2>1 DEF Locked
<1> QED
  BY <1>1, StepsAreLocked, WritesAreLocked DEF Command

\* A completed run is final: whoever resumes it, however long ago it looked at
\* the state, is turned away (execute() after reload()).
THEOREM CompletedFinal == Spec => CompletedIsFinal
<1>1. ASSUME IInv, [Next]_vars, status = "completed"
      PROVE  UNCHANGED <<record, evidence, output, stage>>
  <2>1. \A p \in Procs : pc[p] \notin Locked
    BY <1>1, ValueAssumption DEF IInv, LockInv
  <2>2. ASSUME NEW p \in Procs, NEW d \in DryRuns, Open(p, d)
        PROVE  UNCHANGED <<record, evidence, output, stage>>
    BY <2>2 DEF Open, files
  <2>3. ASSUME NEW p \in Procs, Command(p)
        PROVE  UNCHANGED <<record, evidence, output, stage>>
    BY <1>1, <2>1, <2>3, CommandsAreLocked DEF TurnedAway, Begin, IsCompleted, files
  <2>4. ASSUME NEW p \in Procs,
               AgentWrites(p) \/ (\E s \in Steps : Touch(p, s)) \/ Crash(p)
        PROVE  FALSE
    BY <2>1, <2>4 DEF AgentWrites, Touch, Crash, At, Runs, Locked
  <2>5. CASE Edit
    BY <2>5 DEF Edit, files
  <2>6. CASE UNCHANGED vars
    BY <2>6 DEF vars, files
  <2> QED
    BY <1>1, <2>2, <2>3, <2>4, <2>5, <2>6 DEF Next
<1>2. IInv /\ [Next]_vars => [status = "completed" => UNCHANGED <<record, evidence, output, stage>>]_vars
  BY <1>1
<1> QED
  BY <1>2, Always, PTL DEF Spec, CompletedIsFinal

\* An undamaged stage is lost only to a new writer, or dropped.
LEMMA StepsKeepStage ==
    ASSUME NEW p \in Procs, NEW s \in Steps, StepOf(p, s)
    PROVE  stage' = stage
  BY DEF StepOf, Start, CannotStart, Blocked, Plan, PlanFails, RefuseOutput, SaveOutput,
         WriteArtifact, Complete, Verify, Pass, Reject, Fails, files

LEMMA WritesKeepStage ==
    ASSUME TypeOK, StageValid, NEW p \in Procs, Write(p), ~RemoveOld(p)
    PROVE  stage' # "none"
<1>1. stage # "none" /\ src # "none"
  BY ValueAssumption DEF TypeOK, StageValid, Trees
<1>2. CASE MakeStage(p) \/ FinishCopy(p)
  BY <1>1, <1>2 DEF MakeStage, FinishCopy
<1>3. CASE \/ ForgetOld(p) \/ NotePending(p) \/ ReuseStage(p) \/ StartAgent(p)
           \/ AgentEnds(p) \/ Finalize(p) \/ SaveEvidence(p) \/ NoteEvidence(p)
  BY <1>1, <1>3 DEF ForgetOld, NotePending, ReuseStage, StartAgent, AgentEnds, Finalize,
                    SaveEvidence, NoteEvidence, files
<1>4. CASE \/ CopyFails(p) \/ RefuseStage(p) \/ FinalizeFails(p)
           \/ (\E r \in BOOLEAN : AgentFails(p, r))
  BY <1>1, <1>4 DEF CopyFails, RefuseStage, FinalizeFails, AgentFails, Fails, files
<1> QED
  BY <1>2, <1>3, <1>4 DEF Write

LEMMA CommandsKeepStage ==
    ASSUME TypeOK, StageValid, NEW p \in Procs, Command(p), ~RemoveOld(p), ~Drop(p)
    PROVE  stage' # "none"
<1>1. stage # "none"
  BY ValueAssumption DEF StageValid, Trees
<1>2. CASE \/ TurnedAway(p) \/ Begin(p) \/ RiskRefused(p) \/ RiskPermitted(p) \/ KeepSession(p)
           \/ Forget(p) \/ EndFailed(p) \/ Planned(p) \/ SealRefused(p) \/ Seal(p)
           \/ SaveSeal(p) \/ Finish(p)
  BY <1>1, <1>2 DEF TurnedAway, Begin, RiskRefused, RiskPermitted, KeepSession, Forget, EndFailed,
                    Planned, SealRefused, Seal, SaveSeal, Finish, files
<1>3. CASE SealDamaged(p)
  BY <1>3 DEF SealDamaged
<1>4. CASE Write(p)
  BY <1>4, WritesKeepStage
<1>5. CASE \E s \in Steps : StepOf(p, s)
  BY <1>1, <1>5, StepsKeepStage
<1> QED
  BY <1>2, <1>3, <1>4, <1>5 DEF Command

\* Once the writer has completed, no failure, crash or resume discards an
\* undamaged stage: discard_stage is reached by an unfinished writer, or when
\* the stage is invalid.
THEOREM WorkKept == Spec => CompletedWorkIsKept
<1>1. ASSUME IInv, [Next]_vars, step[Writer] = "completed", StageValid
      PROVE  stage' # "none"
  <2>1. TypeOK /\ stage # "none"
    BY <1>1, ValueAssumption DEF IInv, StageValid, Trees
  <2>2. ASSUME NEW p \in Procs, RemoveOld(p) \/ Drop(p)
        PROVE  FALSE
    <3>1. pc[p] \in {"removing", "dropping"} /\ pc[p] \in Locked
      BY <2>2 DEF RemoveOld, Drop, At, Locked
    <3>2. Placed(p) /\ Drops(p)
      BY <1>1, <3>1, Working DEF AtWork
    <3>3. at[p] = Writer
      BY <1>1, <3>1, <3>2 DEF Placed, Drops, Writing
    <3> QED
      BY <1>1, <3>2, <3>3, StepAssumption DEF Placed
  <2>3. ASSUME NEW p \in Procs, NEW d \in DryRuns, Open(p, d)
        PROVE  stage' = stage
    BY <2>3 DEF Open, files
  <2>4. ASSUME NEW p \in Procs, Command(p)
        PROVE  stage' # "none"
    BY <1>1, <2>1, <2>2, <2>4, CommandsKeepStage
  <2>5. ASSUME NEW p \in Procs, AgentWrites(p) \/ (\E s \in Steps : Touch(p, s))
        PROVE  stage' # "none"
    BY <2>5, ValueAssumption DEF AgentWrites, Touch, Damaged
  <2>6. ASSUME NEW p \in Procs, Crash(p)
        PROVE  stage' = stage
    BY <2>6 DEF Crash, files
  <2>7. CASE Edit \/ UNCHANGED vars
    BY <2>1, <2>7 DEF Edit, vars, files
  <2> QED
    BY <1>1, <2>1, <2>3, <2>4, <2>5, <2>6, <2>7 DEF Next
<1>2. IInv /\ [Next]_vars => [step[Writer] = "completed" /\ StageValid => stage' # "none"]_vars
  BY <1>1
<1> QED
  BY <1>2, Always, PTL DEF Spec, CompletedWorkIsKept

-----------------------------------------------------------------------------
(* What the state names can be resumed, unless a dry run has dropped it. *)

LEMMA PendStays ==
    ASSUME IInv, PendInv, NEW p \in Procs, UNCHANGED <<pending, session, stage>>,
           \A q \in Procs : q # p => pc'[q] = pc[q] /\ at'[q] = at[q], pc'[p] \notin Unready, pc'[p] = "finished" => at'[p] # Writer,
           step'[Writer] = "completed" => step[Writer] = "completed"
    PROVE  PendInv'
<1>1. PendAt(p)'
  BY DEF PendAt, Unready
<1>2. ASSUME NEW q \in Procs, q # p PROVE PendAt(q)'
  BY <1>2 DEF PendInv, PendAt, Nothing
<1> QED
  BY <1>1, <1>2 DEF PendInv, Nothing, PendingStageExists

LEMMA PendLeaves ==
    ASSUME IInv, PendInv, NEW p \in Procs, Leave(p), UNCHANGED <<pending, session, stage>>,
           step'[Writer] = "completed" => step[Writer] = "completed"
    PROVE  PendInv'
<1>1. /\ \A q \in Procs : q # p => pc'[q] = pc[q] /\ at'[q] = at[q]
      /\ pc'[p] = "out"
  BY DEF Leave, IInv, TypeOK
<1> QED
  BY <1>1, PendStays DEF Unready

LEMMA PendGoes ==
    ASSUME IInv, PendInv, NEW p \in Procs, NEW label \in Locked \ Unready, Go(p, label),
           label = "finished" => at[p] # Writer,
           UNCHANGED <<pending, session, stage>>,
           step'[Writer] = "completed" => step[Writer] = "completed"
    PROVE  PendInv'
<1>1. /\ \A q \in Procs : q # p => pc'[q] = pc[q] /\ at'[q] = at[q]
      /\ at'[p] = at[p] /\ pc'[p] = label
  BY DEF Go, IInv, TypeOK
<1> QED
  BY <1>1, PendStays

\* The process that executes the run is the only one to be looked at.
LEMMA PendWorks ==
    ASSUME IInv, PendInv, NEW p \in Procs, pc[p] \in Locked, NEW label \in Locked,
           pc' = [pc EXCEPT ![p] = label], at' = at,
           PendAt(p)', step'[Writer] = "completed" => Nothing', PendingStageExists'
    PROVE  PendInv'
<1>1. ASSUME NEW q \in Procs, q # p PROVE PendAt(q)'
  <2>1. pc[q] \notin Locked
    BY <1>1, Working
  <2>2. pc'[q] \notin Locked
    BY <1>1, <2>1 DEF IInv, TypeOK
  <2> QED
    BY <2>2 DEF PendInv, PendAt, Unready, Locked
<1> QED
  BY <1>1 DEF PendInv

\* A writer that has not completed; a process past the writer.
LEMMA WriterUndone ==
    ASSUME IInv, NEW p \in Procs, pc[p] \in Writing
    PROVE  pc[p] \in Locked /\ at[p] = Writer /\ step[Writer] # "completed"
<1>1. pc[p] \in Locked \ {"begun"}
  BY DEF Writing, Locked
<1> QED
  BY <1>1, Working, StepAssumption DEF AtWork, Placed

LEMMA PastWriter ==
    ASSUME IInv, PendInv, NEW p \in Procs, pc[p] \in Locked \ {"begun"}, at[p] > Writer, ~dry[p]
    PROVE  Nothing
<1>1. Placed(p)
  BY Working DEF AtWork
<1> QED
  BY <1>1, StepAssumption DEF Placed, PendInv

LEMMA PendFails ==
    ASSUME IInv, PendInv, DryRunsKeep', NEW p \in Procs, pc[p] \in Locked \ {"begun"},
           NEW s \in Steps, at[p] = s, NEW r \in BOOLEAN, Fails(p, s, r)
    PROVE  PendInv'
<1> DEFINE label == AfterFailure(p, s, r)
<1>1. label \in Failing /\ (label = "dropping" => s \in Downstream)
  BY DEF AfterFailure, Failing
<1> HIDE DEF label
<1>2. label \in Locked /\ Go(p, label) /\ UNCHANGED <<policy, src, record, files, saw, env>>
  BY <1>1 DEF Fails, label, Failing, Locked
<1>3. CASE label # "dropping"
  BY <1>1, <1>2, <1>3, PendGoes DEF Failing, Unready, record, files
<1>4. CASE label = "dropping"
  <2>1. s > Writer
    BY <1>1, <1>4, StepAssumption
  <2>3. /\ pc'[p] = "dropping" /\ pc' = [pc EXCEPT ![p] = label] /\ UNCHANGED <<dry, at>>
    BY <1>2, <1>4, GoType DEF IInv
  <2>2. Nothing
    <3>1. CASE dry[p]
      <4>1. step[Writer] = "completed"
        BY <1>2, <2>1, <2>3, <3>1, StepAssumption DEF DryRunsKeep, Steps, record
      <4> QED
        BY <4>1 DEF PendInv
    <3> QED
      BY <2>1, <3>1, PastWriter
  <2>4. PendAt(p)' /\ Nothing'
    BY <1>2, <2>2, <2>3 DEF PendInv, PendAt, Nothing, record
  <2> QED
    BY <1>2, <2>3, <2>4, PendWorks DEF PendingStageExists, Nothing
<1> QED
  BY <1>3, <1>4

\* The command comes and goes.
LEMMA PendOutside ==
    ASSUME IInv, PendInv, NEW p \in Procs,
           (\E d \in DryRuns : Open(p, d)) \/ Begin(p) \/ RiskPermitted(p)
    PROVE  PendInv'
<1>1. /\ UNCHANGED <<pending, session, stage, step>>
      /\ pc'[p] \in {"opened", "begun", "steps"}
      /\ \A q \in Procs : q # p => pc'[q] = pc[q] /\ at'[q] = at[q]
  <2>2. CASE \E d \in DryRuns : Open(p, d)
    BY <2>2 DEF Open, IInv, TypeOK, record, files
  <2>3. CASE Begin(p)
    BY <2>3 DEF Begin, IInv, TypeOK, files
  <2>4. CASE RiskPermitted(p)
    BY <2>4 DEF RiskPermitted, IInv, TypeOK, record, files
  <2> QED
    BY <2>2, <2>3, <2>4
<1> QED
  BY <1>1, PendStays DEF Unready

LEMMA PendEnds ==
    ASSUME IInv, PendInv, NEW p \in Procs, NEW s \in Steps,
           \/ TurnedAway(p) \/ RiskRefused(p) \/ EndFailed(p) \/ Planned(p) \/ SealRefused(p)
           \/ Finish(p) \/ Crash(p) \/ Blocked(p, s)
    PROVE  PendInv'
<1>1. Leave(p) /\ UNCHANGED <<pending, session, stage>>
  BY DEF TurnedAway, RiskRefused, EndFailed, Planned, SealRefused, Finish, Crash, Blocked,
         record, files
<1>2. \/ step' = step
      \/ step' = [step EXCEPT ![at[p]] = "failed"]
      \/ step' = [step EXCEPT ![s] = "blocked"]
  BY DEF TurnedAway, RiskRefused, EndFailed, Planned, SealRefused, Finish, Crash, Blocked, record
<1>3. step'[Writer] = "completed" => step[Writer] = "completed"
  BY <1>2, StepAssumption DEF IInv, TypeOK
<1> QED
  BY <1>1, <1>3, PendLeaves

LEMMA PendSealDamaged ==
    ASSUME IInv, PendInv, NEW p \in Procs, SealDamaged(p)
    PROVE  PendInv'
<1>1. /\ AllDone(p) /\ Leave(p) /\ UNCHANGED <<pending, session, step>>
  BY DEF SealDamaged
<1>2. pc[p] \in Locked /\ step[Writer] = "completed"
  BY <1>1, DoneFacts, StepAssumption
<1>3. Nothing /\ Nothing'
  BY <1>1, <1>2 DEF PendInv, Nothing
<1>4. ASSUME NEW q \in Procs PROVE PendAt(q)'
  <2>1. pc'[q] \notin Locked
    <3>1. CASE q = p
      BY <1>1, <3>1 DEF Leave, Locked, IInv, TypeOK
    <3>2. CASE q # p
      BY <1>1, <1>2, <3>2, Working DEF Leave, IInv, TypeOK, PendInv, PendAt
    <3> QED
      BY <3>1, <3>2
  <2> QED
    BY <2>1 DEF PendAt, Unready, Locked
<1> QED
  BY <1>3, <1>4 DEF PendInv, PendingStageExists, Nothing

-----------------------------------------------------------------------------
LEMMA PendStepOf ==
    ASSUME IInv, PendInv, DryRunsKeep', NEW p \in Procs, NEW s \in Steps, StepOf(p, s)
    PROVE  PendInv'
<1>1. \A t \in Steps : t \in Verifiers => t # Writer
  BY StepAssumption DEF Steps
<1>2. CASE CannotStart(p, s) \/ PlanFails(p, s) \/ RefuseOutput(p, s) \/ Reject(p, s)
  <2>1. /\ pc[p] \in {"steps", "started", "staged", "checking"} /\ at[p] = s
        /\ Fails(p, s, FALSE)
    BY <1>2 DEF CannotStart, PlanFails, RefuseOutput, Reject, Runs, Ready
  <2>2. pc[p] \in Locked \ {"begun"}
    BY <2>1 DEF Locked
  <2> QED
    BY <2>1, <2>2, PendFails
<1>3. CASE Blocked(p, s)
  BY <1>3, PendEnds
<1>4. CASE Start(p, s)
  <2>1. /\ Go(p, "started") /\ step' = [step EXCEPT ![s] = "running"]
        /\ UNCHANGED <<pending, session, stage>>
    BY <1>4 DEF Start, files
  <2>2. "started" \in Locked \ Unready
    BY DEF Locked, Unready
  <2>3. step'[Writer] = "completed" => step[Writer] = "completed"
    BY <2>1, StepAssumption DEF IInv, TypeOK
  <2> QED
    BY <2>1, <2>2, <2>3, PendGoes
<1>5. CASE SaveOutput(p, s) \/ WriteArtifact(p, s) \/ Pass(p, s)
  <2>1. PICK label \in {"finalizing", "finished", "output"} : Go(p, label)
    BY <1>5 DEF SaveOutput, WriteArtifact, Pass, WriteOutput
  <2>2. UNCHANGED <<pending, session, stage, step>>
    BY <1>5 DEF SaveOutput, WriteArtifact, Pass, record
  <2>3. label = "finished" => at[p] # Writer
    <3>1. /\ at[p] = s /\ (SaveOutput(p, s) \/ WriteArtifact(p, s) \/ pc[p] = "checking")
      BY <1>5 DEF SaveOutput, WriteArtifact, Pass, Ready, Runs
    <3>2. CASE SaveOutput(p, s)
      BY <2>1, <3>1, <3>2 DEF SaveOutput, Go, IInv, TypeOK
    <3>3. CASE WriteArtifact(p, s)
      BY <3>1, <3>3 DEF WriteArtifact
    <3>4. CASE pc[p] = "checking"
      <4>1. pc[p] \in Locked \ {"begun"}
        BY <3>4 DEF Locked
      <4>2. at[p] \in Verifiers
        BY <3>4, <4>1, Working DEF AtWork, Placed
      <4> QED
        BY <1>1, <3>1, <4>2
    <3> QED
      BY <3>1, <3>2, <3>3, <3>4
  <2>4. label \in Locked \ Unready
    BY DEF Locked, Unready
  <2> QED
    BY <2>1, <2>2, <2>3, <2>4, PendGoes
<1>6. CASE Verify(p, s)
  <2>1. /\ UNCHANGED <<pending, session, stage, step, dry, at>> /\ pc'[p] = "checking"
        /\ \A q \in Procs : q # p => pc'[q] = pc[q]
    BY <1>6 DEF Verify, IInv, TypeOK, record, files
  <2> QED
    BY <1>1, <2>1, PendStays DEF Unready
<1>7. CASE Complete(p, s)
  <2>1. /\ UNCHANGED <<pending, session, stage, dry>> /\ pc'[p] = "steps"
        /\ \A q \in Procs : q # p => pc'[q] = pc[q] /\ at'[q] = at[q]
        /\ pc[p] = "finished" /\ at[p] = s /\ step' = [step EXCEPT ![s] = "completed"]
    BY <1>7 DEF Complete, Runs, IInv, TypeOK, files
  <2>2. CASE s = Writer
    <3>1. Nothing /\ Nothing'
      BY <2>1, <2>2 DEF PendInv, PendAt, Nothing
    <3>2. ASSUME NEW q \in Procs PROVE PendAt(q)'
      BY <2>1, <3>1, <3>2 DEF PendInv, PendAt, Unready
    <3> QED
      BY <3>1, <3>2 DEF PendInv, PendingStageExists, Nothing
  <2>3. CASE s # Writer
    <3>1. step'[Writer] = step[Writer]
      BY <2>1, <2>3, StepAssumption DEF IInv, TypeOK
    <3> QED
      BY <1>1, <2>1, <3>1, PendStays DEF Unready
  <2> QED
    BY <2>2, <2>3
<1>8. CASE Plan(p, s)
  <2>1. /\ UNCHANGED <<pending, session, stage>> /\ pc'[p] = "steps"
        /\ \A q \in Procs : q # p => pc'[q] = pc[q] /\ at'[q] = at[q]
        /\ step' = [step EXCEPT ![s] = "planned"]
    BY <1>8 DEF Plan, Runs, IInv, TypeOK, files
  <2>2. step'[Writer] = "completed" => step[Writer] = "completed"
    BY <2>1, StepAssumption DEF IInv, TypeOK
  <2> QED
    BY <2>1, <2>2, PendStays DEF Unready
<1> QED
  BY <1>2, <1>3, <1>4, <1>5, <1>6, <1>7, <1>8 DEF StepOf

LEMMA PendMakesStage ==
    ASSUME IInv, PendInv, NEW p \in Procs,
           ForgetOld(p) \/ RemoveOld(p) \/ MakeStage(p) \/ FinishCopy(p)
    PROVE  PendInv'
<1>1. /\ pc[p] \in {"started", "removing", "creating", "copying"} /\ pc[p] \in Locked
      /\ (pc[p] = "started" => at[p] = Writer)
  BY DEF ForgetOld, RemoveOld, MakeStage, FinishCopy, Ready, Runs, At, Locked
<1>2. step[Writer] # "completed"
  <2>1. Placed(p) /\ Writer \in Steps
    BY <1>1, Working, StepAssumption DEF AtWork
  <2> QED
    BY <1>1, <2>1 DEF Placed, Writing
<1>3. PICK label \in {"removing", "creating", "copying", "copied"} :
        pc' = [pc EXCEPT ![p] = label] /\ (label = "copied" => FinishCopy(p))
  BY DEF ForgetOld, RemoveOld, MakeStage, FinishCopy, Go
<1>4. UNCHANGED <<dry, at, step>>
  BY DEF ForgetOld, RemoveOld, MakeStage, FinishCopy, Go, record
<1>5. Nothing'
  <2>1. CASE ForgetOld(p)
    BY <2>1 DEF ForgetOld, Nothing
  <2>2. CASE RemoveOld(p) \/ FinishCopy(p)
    BY <2>2 DEF RemoveOld, FinishCopy, At, Nothing, PendInv, PendAt, Unready, record
  <2>3. CASE MakeStage(p)
    BY <2>3 DEF MakeStage, At, Nothing, PendInv, PendAt, PendingStageExists, Unready, record
  <2> QED
    BY <2>1, <2>2, <2>3
<1>6. FinishCopy(p) => stage' \notin {"none", "torn"}
  BY ValueAssumption DEF FinishCopy, IInv, TypeOK
<1>7. PendAt(p)'
  BY <1>3, <1>4, <1>5, <1>6 DEF PendInv, PendAt, IInv, TypeOK
<1>8. label \in Locked
  BY <1>3 DEF Locked
<1>9. PendingStageExists'
  BY <1>5 DEF PendingStageExists, Nothing
<1> QED
  BY <1>1, <1>3, <1>4, <1>5, <1>7, <1>8, <1>9, PendWorks

LEMMA PendNoted ==
    ASSUME IInv, PendInv, NEW p \in Procs,
           NotePending(p) \/ NoteEvidence(p) \/ KeepSession(p) \/ Forget(p) \/ Drop(p)
    PROVE  PendInv'
<1>1. /\ pc[p] \in {"copied", "evsaved", "keeping", "forgetting", "dropping"} /\ pc[p] \in Locked
      /\ UNCHANGED <<dry, at, step>>
  BY DEF NotePending, NoteEvidence, KeepSession, Forget, Drop, Go, At, Locked, record
<1>2. PICK label \in {"staged", "finished", "ending", "dropping"} : pc' = [pc EXCEPT ![p] = label]
  BY DEF NotePending, NoteEvidence, KeepSession, Forget, Drop, Go
<1>3. pc'[p] = label /\ label \in Locked
  BY <1>2 DEF IInv, TypeOK, Locked
<1>4. PendingStageExists'
  <2>1. CASE NotePending(p)
    BY <2>1 DEF NotePending, At, PendInv, PendAt, PendingStageExists, files
  <2>2. CASE NoteEvidence(p) \/ Forget(p)
    BY <2>2 DEF NoteEvidence, Forget, PendingStageExists
  <2>3. CASE KeepSession(p)
    <3>1. pc[p] = "keeping" /\ stage' = stage /\ pending' = pending
      BY <2>3 DEF KeepSession, At, files
    <3>2. StageValid
      BY <1>1, <3>1, Working DEF AtWork, Drops
    <3> QED
      BY <3>1, <3>2, ValueAssumption DEF StageValid, Trees, PendInv, PendingStageExists
  <2>4. CASE Drop(p)
    BY <2>4 DEF Drop, At, PendInv, PendAt, PendingStageExists, Unready, Nothing, record
  <2> QED
    BY <2>1, <2>2, <2>3, <2>4
<1>5. /\ label = "finished" => Nothing'
      /\ label = "dropping" => Nothing'
  <2>1. label = "finished" => NoteEvidence(p)
    BY <1>2, <1>3 DEF NotePending, NoteEvidence, KeepSession, Forget, Drop, Go, IInv, TypeOK
  <2>2. label = "dropping" => Forget(p)
    BY <1>2, <1>3 DEF NotePending, NoteEvidence, KeepSession, Forget, Drop, Go, IInv, TypeOK
  <2> QED
    BY <2>1, <2>2 DEF NoteEvidence, Forget, Nothing
<1>6. step'[Writer] = "completed" => Nothing'
  <2>1. CASE pc[p] = "dropping"
    BY <1>1, <2>1 DEF NotePending, NoteEvidence, KeepSession, Forget, Drop, At, PendInv, PendAt,
                      Unready, Nothing, record
  <2>2. CASE pc[p] # "dropping"
    BY <1>1, <2>2, WriterUndone DEF Writing
  <2> QED
    BY <2>1, <2>2
<1>7. PendAt(p)'
  BY <1>1, <1>3, <1>5 DEF PendInv, PendAt, Unready
<1> QED
  BY <1>1, <1>2, <1>3, <1>4, <1>6, <1>7, PendWorks

LEMMA PendWrites ==
    ASSUME IInv, PendInv, DryRunsKeep', NEW p \in Procs, Write(p)
    PROVE  PendInv'
<1>1. CASE ForgetOld(p) \/ RemoveOld(p) \/ MakeStage(p) \/ FinishCopy(p)
  BY <1>1, PendMakesStage
<1>2. CASE NotePending(p) \/ NoteEvidence(p)
  BY <1>2, PendNoted
<1>3. CASE CopyFails(p) \/ RefuseStage(p) \/ FinalizeFails(p) \/ (\E r \in BOOLEAN : AgentFails(p, r))
  <2>1. /\ pc[p] \in {"copying", "staged", "coding", "finalizing"}
        /\ \E r \in BOOLEAN : Fails(p, Writer, r)
    BY <1>3 DEF CopyFails, RefuseStage, FinalizeFails, AgentFails, At
  <2>2. pc[p] \in Locked \ {"begun"} /\ at[p] = Writer /\ Writer \in Steps
    BY <2>1, WriterUndone, StepAssumption DEF Writing
  <2> QED
    BY <2>1, <2>2, PendFails
<1>4. CASE ReuseStage(p) \/ StartAgent(p) \/ AgentEnds(p) \/ Finalize(p)
  <2>1. PICK label \in {"staged", "coding", "output", "evfile"} : Go(p, label)
    BY <1>4 DEF ReuseStage, StartAgent, AgentEnds, Finalize, WriteOutput
  <2>2. UNCHANGED <<pending, session, stage, step>>
    BY <1>4 DEF ReuseStage, StartAgent, AgentEnds, Finalize, record, files
  <2>3. label \in Locked \ Unready
    BY DEF Locked, Unready
  <2> QED
    BY <2>1, <2>2, <2>3, PendGoes
<1>5. CASE SaveEvidence(p)
  <2>1. /\ UNCHANGED <<pending, session, stage, step, dry, at>> /\ pc'[p] = "evsaved"
        /\ \A q \in Procs : q # p => pc'[q] = pc[q]
    BY <1>5 DEF SaveEvidence, IInv, TypeOK, files
  <2> QED
    BY <2>1, PendStays DEF Unready
<1> QED
  BY <1>1, <1>2, <1>3, <1>4, <1>5 DEF Write

LEMMA PendCommand ==
    ASSUME IInv, PendInv, DryRunsKeep', NEW p \in Procs, Command(p)
    PROVE  PendInv'
<1>1. Writer \in Steps
  BY StepAssumption
<1>2. CASE Seal(p) \/ SaveSeal(p)
  <2>1. PICK label \in {"sealfile", "sealed"} : Go(p, label)
    BY <1>2 DEF Seal, SaveSeal
  <2>2. UNCHANGED <<pending, session, stage, step>>
    BY <1>2 DEF Seal, SaveSeal, record, files
  <2>3. label \in Locked \ Unready
    BY DEF Locked, Unready
  <2> QED
    BY <2>1, <2>2, <2>3, PendGoes
<1>3. CASE \E s \in Steps : StepOf(p, s)
  BY <1>3, PendStepOf
<1>4. CASE Write(p)
  BY <1>4, PendWrites
<1>5. CASE KeepSession(p) \/ Forget(p) \/ Drop(p)
  BY <1>5, PendNoted
<1>6. CASE Begin(p) \/ RiskPermitted(p)
  BY <1>6, PendOutside
<1>7. CASE \/ TurnedAway(p) \/ RiskRefused(p) \/ EndFailed(p) \/ Planned(p) \/ SealRefused(p)
           \/ Finish(p)
  BY <1>1, <1>7, PendEnds
<1>8. CASE SealDamaged(p)
  BY <1>8, PendSealDamaged
<1> QED
  BY <1>2, <1>3, <1>4, <1>5, <1>6, <1>7, <1>8 DEF Command

\* However many processes resume a run, crash and edit, and with any dry runs
\* but one: a stage the state names is complete on disk, and one is there while
\* it names a session (_provider_workspace and _handle_failed_stage save the
\* state after create_stage and before discard_stage).
THEOREM PendingExists == Spec /\ []DryRunsKeep => []PendingStageExists
<1>1. Init => PendInv
  BY DEF Init, PendInv, PendAt, PendingStageExists, Nothing, Unready
<1>2. IInv /\ PendInv /\ DryRunsKeep' /\ [Next]_vars => PendInv'
  <2> SUFFICES ASSUME IInv, PendInv, DryRunsKeep', [Next]_vars PROVE PendInv'
    OBVIOUS
  <2>1. ASSUME NEW p \in Procs, NEW d \in DryRuns, Open(p, d) PROVE PendInv'
    BY <2>1, PendOutside
  <2>2. ASSUME NEW p \in Procs, Command(p) PROVE PendInv'
    BY <2>2, PendCommand
  <2>3. ASSUME NEW p \in Procs, AgentWrites(p) \/ (\E s \in Steps : Touch(p, s))
        PROVE  PendInv'
    <3>1. /\ UNCHANGED <<pending, session, step, pc, at>>
          /\ stage' # "none" /\ (stage' = "torn" => stage = "torn")
      BY <2>3, ValueAssumption DEF AgentWrites, Touch, Damaged, record, local
    <3> QED
      BY <3>1 DEF PendInv, PendAt, Nothing, PendingStageExists
  <2>4. ASSUME NEW p \in Procs, Crash(p) PROVE PendInv'
    BY <2>4, PendEnds, StepAssumption
  <2>5. CASE Edit \/ UNCHANGED vars
    <3>1. UNCHANGED <<pending, session, step, stage, pc, at>>
      BY <2>5 DEF Edit, vars, record, files, local
    <3> QED
      BY <3>1 DEF PendInv, PendAt, Nothing, PendingStageExists
  <2> QED
    BY <2>1, <2>2, <2>3, <2>4, <2>5 DEF Next
<1>3. PendInv => PendingStageExists
  BY DEF PendInv
<1> QED
  BY <1>1, <1>2, <1>3, Always, PTL DEF Spec

\* A command stays the kind of run it was started as.
LEMMA DryStays ==
    ASSUME IInv, NEW p \in Procs, Command(p)
    PROVE  \A q \in Procs : dry'[q] => dry[q]
<1> USE DEF Go, Fails, Leave, IInv, TypeOK, local
<1>1. ASSUME NEW s \in Steps, StepOf(p, s) PROVE \A q \in Procs : dry'[q] => dry[q]
  BY <1>1 DEF StepOf, Start, CannotStart, Blocked, Plan, PlanFails, RefuseOutput, SaveOutput,
              WriteArtifact, WriteOutput, Complete, Verify, Pass, Reject
<1>2. CASE Write(p)
  BY <1>2 DEF Write, ForgetOld, RemoveOld, MakeStage, FinishCopy, CopyFails, NotePending,
              ReuseStage, StartAgent, RefuseStage, AgentEnds, AgentFails, WriteOutput, Finalize,
              FinalizeFails, SaveEvidence, NoteEvidence
<1>3. CASE ~Write(p) /\ ~(\E s \in Steps : StepOf(p, s))
  BY <1>3 DEF Command, TurnedAway, Begin, RiskRefused, RiskPermitted, KeepSession, Forget, Drop,
              EndFailed, Planned, SealDamaged, SealRefused, Seal, SaveSeal, Finish
<1> QED
  BY <1>1, <1>2, <1>3

\* Without dry runs it holds unconditionally.
COROLLARY PendingExistsWithoutDryRuns ==
    ASSUME TRUE \notin DryRuns
    PROVE  Spec => []PendingStageExists
<1> DEFINE Wet == \A p \in Procs : ~dry[p]
<1>1. Init => Wet
  BY DEF Init
<1>2. IInv /\ Wet /\ [Next]_vars => Wet'
  <2> SUFFICES ASSUME IInv, Wet, [Next]_vars PROVE Wet'
    OBVIOUS
  <2>1. ASSUME NEW p \in Procs, NEW d \in DryRuns, Open(p, d) PROVE Wet'
    <3>1. ~d
      BY ValueAssumption
    <3> QED
      BY <2>1, <3>1 DEF Open, IInv, TypeOK
  <2>2. ASSUME NEW p \in Procs, Command(p) PROVE Wet'
    BY <2>2, DryStays
  <2>3. ASSUME NEW p \in Procs, AgentWrites(p) \/ (\E s \in Steps : Touch(p, s)) \/ Crash(p)
        PROVE  Wet'
    BY <2>3 DEF AgentWrites, Touch, Crash, Leave, local, IInv, TypeOK
  <2>4. CASE Edit \/ UNCHANGED vars
    BY <2>4 DEF Edit, vars, local
  <2> QED
    BY <2>1, <2>2, <2>3, <2>4 DEF Next
<1>3. Wet => DryRunsKeep
  BY DEF DryRunsKeep
<1>4. Spec => []DryRunsKeep
  BY <1>1, <1>2, <1>3, Always, PTL DEF Spec
<1> QED
  BY <1>4, PendingExists, PTL

-----------------------------------------------------------------------------
(* Who knows of the stage seals what was verified. *)

\* Nothing is asked of the processes that do not execute.
LEMMA OthersIdle ==
    ASSUME IInv, NEW p \in Procs, pc[p] \in Locked, \A q \in Procs \ {p} : pc'[q] = pc[q]
    PROVE  \A q \in Procs \ {p} : KnownAt(q)'
  BY Working DEF KnownAt, Locked

LEMMA KnownKeeps ==
    ASSUME IInv, KnownInv, NEW p \in Procs, pc[p] \in Locked, recorded' = recorded,
           \A q \in Procs \ {p} : pc'[q] = pc[q],
           \A t \in Steps : step'[t] = "completed" <=> step[t] = "completed",
           \A t \in Steps : step[t] = "completed" => saw'[t] = saw[t],
           stage' = stage \/ step[Writer] # "completed" \/ stage' # recorded.after,
           status' = "completed" => status = "completed" /\ UNCHANGED <<evidence, output, stage>>,
           KnownAt(p)'
    PROVE  KnownInv'
<1>1. Writer \in Steps /\ \A t \in Verifiers : t \in Steps
  BY StepAssumption
<1>2. PassedInv'
  BY <1>1 DEF KnownInv, PassedInv
<1>3. SealInv'
  BY <1>1 DEF KnownInv, SealInv
<1>4. CompletedIsSealed'
  BY DEF KnownInv, CompletedIsSealed, Intact
<1>5. \A q \in Procs \ {p} : KnownAt(q)'
  BY OthersIdle
<1> QED
  BY <1>2, <1>3, <1>4, <1>5 DEF KnownInv

Plain == Locked \ {"checking", "output", "finished", "evfile"}

LEMMA KnownGoes ==
    ASSUME IInv, KnownInv, NEW p \in Procs, pc[p] \in Locked \ {"ending"},
           NEW label \in Plain, pc' = [pc EXCEPT ![p] = label],
           handle'[p] = handle[p] \/ handle'[p] # None,
           UNCHANGED <<recorded, saw, status>>, stage' = stage \/ step[Writer] # "completed",
           \A t \in Steps : step'[t] = "completed" <=> step[t] = "completed"
    PROVE  KnownInv'
<1>1. /\ pc'[p] = label /\ label \notin {"checking", "output", "finished", "evfile"}
      /\ \A q \in Procs \ {p} : pc'[q] = pc[q]
  BY DEF IInv, TypeOK, Plain
<1>3. KnownAt(p)'
  BY <1>1, StepAssumption DEF KnownInv, KnownAt
<1>4. status' # "completed"
  BY Working
<1> QED
  BY <1>1, <1>3, <1>4, KnownKeeps

LEMMA KnownLeaves ==
    ASSUME IInv, KnownInv, NEW p \in Procs, pc[p] \in Locked, Leave(p), UNCHANGED <<recorded, saw>>,
           \A t \in Steps : step'[t] = "completed" <=> step[t] = "completed",
           stage' = stage \/ step[Writer] # "completed" \/ stage' # recorded.after,
           status' = "completed" => status = "completed" /\ UNCHANGED <<evidence, output, stage>>
    PROVE  KnownInv'
<1>1. pc'[p] = "out" /\ \A q \in Procs \ {p} : pc'[q] = pc[q]
  BY DEF Leave, IInv, TypeOK
<1>2. KnownAt(p)'
  BY <1>1 DEF KnownAt, Locked
<1> QED
  BY <1>1, <1>2, KnownKeeps

\* Only Complete completes a step, and no step is undone.
LEMMA CompletionKept ==
    ASSUME IInv, NEW p \in Procs, NEW s \in Steps,
           EndFailed(p) \/ (StepOf(p, s) /\ ~Complete(p, s))
    PROVE  \A t \in Steps : step'[t] = "completed" <=> step[t] = "completed"
<1>1. CASE EndFailed(p) \/ Blocked(p, s) \/ Start(p, s) \/ Plan(p, s)
  <2>1. /\ pc[p] \in {"ending", "started", "steps"}
        /\ \E v \in {"failed", "blocked", "running", "planned"} : step' = [step EXCEPT ![at[p]] = v]
        /\ (pc[p] = "steps" => at[p] \in Steps)
    BY <1>1 DEF EndFailed, Blocked, Start, Plan, Runs, At
  <2>2. pc[p] \in Locked \ {"begun"}
    BY <2>1 DEF Locked
  <2>3. at[p] \in Steps /\ step[at[p]] # "completed"
    BY <2>1, <2>2, Working DEF AtWork, Placed, Sealing
  <2> QED
    BY <2>1, <2>3 DEF IInv, TypeOK
<1>2. CASE \/ CannotStart(p, s) \/ PlanFails(p, s) \/ RefuseOutput(p, s) \/ SaveOutput(p, s)
           \/ WriteArtifact(p, s) \/ Verify(p, s) \/ Pass(p, s) \/ Reject(p, s)
  BY <1>2 DEF CannotStart, PlanFails, RefuseOutput, SaveOutput, WriteArtifact, Verify, Pass, Reject,
              Fails, record
<1> QED
  BY <1>1, <1>2 DEF StepOf

LEMMA KnownFails ==
    ASSUME IInv, KnownInv, NEW p \in Procs, pc[p] \in Locked \ {"ending"},
           NEW s \in Steps, NEW r \in BOOLEAN, Fails(p, s, r)
    PROVE  KnownInv'
<1> DEFINE label == AfterFailure(p, s, r)
<1>1. label \in Failing
  BY DEF AfterFailure, Failing
<1> HIDE DEF label
<1>2. label \in Locked /\ label \in Plain
  BY <1>1 DEF Failing, Locked, Plain
<1>3. Go(p, label) /\ UNCHANGED <<policy, src, record, files, saw, env>>
  BY DEF Fails, label
<1>4. pc' = [pc EXCEPT ![p] = label] /\ handle' = handle
  BY <1>3 DEF Go
<1> QED
  BY <1>2, <1>3, <1>4, KnownGoes DEF record, files

\* The command comes and goes.  Who begins knows of the stage.
LEMMA KnownOutside ==
    ASSUME IInv, KnownInv, KnowsStage', NEW p \in Procs,
           (\E d \in DryRuns : Open(p, d)) \/ Begin(p) \/ TurnedAway(p)
    PROVE  KnownInv'
<1>1. /\ UNCHANGED <<step, recorded, evidence, output, stage, saw>>
      /\ status' = "completed" => status = "completed"
      /\ \A q \in Procs \ {p} : /\ pc'[q] = pc[q] /\ handle'[q] = handle[q]
                               /\ at'[q] = at[q] /\ seen'[q] = seen[q]
  BY DEF Open, Begin, TurnedAway, Leave, record, files, IInv, TypeOK
<1>2. pc'[p] \in {"opened", "begun", "out"}
  BY DEF Open, Begin, TurnedAway, Leave, IInv, TypeOK
<1>3. KnownAt(p)'
  BY <1>2 DEF KnownAt, KnowsStage, At, Locked
<1>4. ASSUME NEW q \in Procs \ {p} PROVE KnownAt(q)'
  BY <1>1 DEF KnownInv, KnownAt
<1>5. PassedInv' /\ SealInv' /\ CompletedIsSealed'
  BY <1>1 DEF KnownInv, PassedInv, SealInv, CompletedIsSealed, Intact
<1> QED
  BY <1>3, <1>4, <1>5 DEF KnownInv

LEMMA KnownEnds ==
    ASSUME IInv, KnownInv, NEW p \in Procs, NEW s \in Steps,
           \/ RiskRefused(p) \/ EndFailed(p) \/ Planned(p) \/ SealRefused(p) \/ SealDamaged(p)
           \/ Crash(p) \/ Blocked(p, s)
    PROVE  KnownInv'
<1>1. pc[p] \in Locked /\ Leave(p) /\ UNCHANGED <<recorded, saw>>
  BY DEF RiskRefused, EndFailed, Planned, SealRefused, SealDamaged, Crash, Blocked, AllDone, At,
         Runs, Locked, record
<1>2. \A t \in Steps : step'[t] = "completed" <=> step[t] = "completed"
  <2>1. CASE EndFailed(p) \/ Blocked(p, s)
    BY <2>1, CompletionKept DEF StepOf, Complete, Blocked, Runs
  <2>2. CASE ~(EndFailed(p) \/ Blocked(p, s))
    BY <2>2 DEF RiskRefused, Planned, SealRefused, SealDamaged, Crash, record
  <2> QED
    BY <2>1, <2>2
<1>3. stage' = stage \/ stage' # recorded.after
  <2>1. CASE SealDamaged(p)
    <3>1. recorded \in Evidence
      BY <2>1, DoneFacts DEF SealDamaged
    <3> QED
      BY <2>1, <3>1, ValueAssumption DEF SealDamaged, Evidence, Trees
  <2>2. CASE ~SealDamaged(p)
    BY <2>2 DEF RiskRefused, EndFailed, Planned, SealRefused, Crash, Blocked, files
  <2> QED
    BY <2>1, <2>2
<1>4. status' = "completed" => status = "completed" /\ UNCHANGED <<evidence, output, stage>>
  BY DEF RiskRefused, EndFailed, Planned, SealRefused, SealDamaged, Crash, Blocked,
         record, files
<1> QED
  BY <1>1, <1>2, <1>3, <1>4, KnownLeaves

-----------------------------------------------------------------------------
\* A verifier works on the stage, since its process knows of it.
LEMMA KnownVerify ==
    ASSUME IInv, KnownInv, NEW p \in Procs, NEW s \in Steps, Verify(p, s)
    PROVE  KnownInv'
<1>1. /\ pc[p] = "started" /\ at[p] = s /\ s \in Verifiers /\ pc'[p] = "checking"
      /\ seen'[p] = ActiveWorkspace(p, s) /\ handle' = handle
      /\ UNCHANGED <<status, step, recorded, evidence, output, stage, saw>>
      /\ \A q \in Procs \ {p} : pc'[q] = pc[q]
  BY DEF Verify, Ready, Runs, IInv, TypeOK, record, files
<1>2. pc[p] \in Locked \ {"begun"}
  BY <1>1 DEF Locked
<1>3. step[Writer] = "completed"
  BY <1>1, <1>2, Working, StepAssumption DEF AtWork, Placed
<1>4. handle[p] # None
  BY <1>1, <1>2, <1>3 DEF KnownInv, KnownAt, Locked
<1>5. seen'[p] = stage
  BY <1>1, <1>4, StepAssumption DEF ActiveWorkspace
<1>6. KnownAt(p)'
  BY <1>1, <1>4, <1>5 DEF KnownAt
<1> QED
  BY <1>1, <1>2, <1>6, KnownKeeps

\* An output is written or recorded, a check is passed.
LEMMA KnownOutput ==
    ASSUME IInv, KnownInv, NEW p \in Procs, NEW s \in Steps,
           SaveOutput(p, s) \/ WriteArtifact(p, s) \/ Pass(p, s) \/ (AgentEnds(p) /\ s = Writer)
    PROVE  KnownInv'
<1>1. /\ pc[p] \in {"output", "started", "checking", "coding"}
      /\ UNCHANGED <<step, recorded, stage, status>>
  BY DEF SaveOutput, WriteArtifact, Pass, AgentEnds, Ready, Runs, At, record
<1>2. pc[p] \in Locked \ {"begun"}
  BY <1>1 DEF Locked
<1>3. Placed(p) /\ status # "completed"
  BY <1>2, Working DEF AtWork
<1>4. at[p] = s /\ step[s] # "completed"
  <2>1. CASE AgentEnds(p) /\ s = Writer
    BY <1>3, <2>1 DEF AgentEnds, At, Placed, Writing
  <2>2. CASE SaveOutput(p, s) \/ WriteArtifact(p, s) \/ Pass(p, s)
    BY <1>3, <2>2 DEF SaveOutput, WriteArtifact, Pass, Ready, Runs, Placed
  <2> QED
    BY <2>1, <2>2
<1>5. PICK label \in {"output", "finalizing", "finished"} : Go(p, label)
  BY DEF SaveOutput, WriteArtifact, Pass, AgentEnds, WriteOutput
<1>6. /\ pc'[p] = label /\ handle' = handle /\ at' = at /\ seen' = seen
      /\ \A q \in Procs \ {p} : pc'[q] = pc[q]
  BY <1>5 DEF Go, IInv, TypeOK
<1>7. \A t \in Steps : step[t] = "completed" => saw'[t] = saw[t]
  BY <1>4 DEF SaveOutput, WriteArtifact, Pass, AgentEnds, IInv, TypeOK
<1>8. at[p] \in Verifiers /\ stage = recorded.after => saw'[at[p]] = stage
  <2>1. CASE Pass(p, s)
    BY <1>4, <2>1 DEF Pass, Runs, KnownInv, KnownAt, IInv, TypeOK
  <2>2. CASE SaveOutput(p, s)
    BY <1>4, <2>2 DEF SaveOutput, Runs, KnownInv, KnownAt
  <2>3. CASE WriteArtifact(p, s)
    BY <1>4, <2>3 DEF WriteArtifact
  <2>4. CASE AgentEnds(p) /\ s = Writer
    BY <1>4, <2>4, StepAssumption DEF Steps
  <2> QED
    BY <2>1, <2>2, <2>3, <2>4
<1>9. KnownAt(p)'
  BY <1>1, <1>2, <1>6, <1>8 DEF KnownInv, KnownAt, Locked
<1> QED
  BY <1>1, <1>2, <1>3, <1>6, <1>7, <1>9, KnownKeeps

\* A verifier that completes passed on what the stage holds, if that is still
\* the writer's tree; a writer that completes precedes every verifier.
LEMMA KnownComplete ==
    ASSUME IInv, KnownInv, NEW p \in Procs, NEW s \in Steps, Complete(p, s)
    PROVE  KnownInv'
<1>1. /\ pc[p] = "finished" /\ at[p] = s /\ pc'[p] = "steps" /\ handle' = handle
      /\ step' = [step EXCEPT ![s] = "completed"]
      /\ UNCHANGED <<status, recorded, stage, saw>>
      /\ \A q \in Procs \ {p} : pc'[q] = pc[q]
  BY DEF Complete, Runs, IInv, TypeOK, files
<1>2. pc[p] \in Locked \ {"begun"}
  BY <1>1 DEF Locked
<1>3. Placed(p) /\ Holds(p) /\ status # "completed"
  BY <1>2, Working DEF AtWork
<1>4. /\ step'[s] = "completed" /\ step[s] # "completed"
      /\ \A t \in Steps : t # s => step'[t] = step[t]
  BY <1>1, <1>3 DEF IInv, TypeOK, Placed
<1>5. /\ Writer \in Steps
      /\ \A t \in Verifiers : t \in Steps /\ t > Writer
      /\ \A t \in Verifiers : step[t] = "completed" => step[Writer] = "completed"
  BY StepAssumption DEF IInv, OrderInv, Steps
<1>6. KnownAt(p)'
  BY <1>1, <1>2, <1>3, <1>4, <1>5 DEF KnownInv, KnownAt, Holds, Locked
<1>7. PassedInv'
  <2>1. CASE s = Writer
    <3>1. \A t \in Verifiers : t # s
      BY <1>5, <2>1 DEF Steps
    <3>2. \A t \in Verifiers : step'[t] # "completed"
      BY <1>4, <1>5, <2>1, <3>1
    <3> QED
      BY <3>2 DEF PassedInv
  <2>2. CASE s # Writer
    BY <1>1, <1>4, <1>5, <2>2 DEF KnownInv, KnownAt, PassedInv
  <2> QED
    BY <2>1, <2>2
<1>8. SealInv'
  BY <1>1, <1>4, <1>5 DEF KnownInv, SealInv
<1>9. CompletedIsSealed'
  BY <1>1, <1>3 DEF CompletedIsSealed
<1> QED
  BY <1>1, <1>2, <1>6, <1>7, <1>8, <1>9, OthersIdle DEF KnownInv

LEMMA KnownStepOf ==
    ASSUME IInv, KnownInv, NEW p \in Procs, NEW s \in Steps, StepOf(p, s)
    PROVE  KnownInv'
<1>1. CASE CannotStart(p, s) \/ PlanFails(p, s) \/ RefuseOutput(p, s) \/ Reject(p, s)
  <2>1. pc[p] \in {"steps", "started", "staged", "checking"} /\ Fails(p, s, FALSE)
    BY <1>1 DEF CannotStart, PlanFails, RefuseOutput, Reject, Runs, Ready
  <2>2. pc[p] \in Locked \ {"ending"}
    BY <2>1 DEF Locked
  <2> QED
    BY <2>1, <2>2, KnownFails
<1>2. CASE Start(p, s) \/ Plan(p, s)
  <2>1. PICK label \in {"started", "steps"} : pc' = [pc EXCEPT ![p] = label]
    BY <1>2 DEF Start, Plan, Go, Runs, IInv, TypeOK
  <2>2. /\ pc[p] \in Locked \ {"ending"} /\ label \in Plain
        /\ UNCHANGED <<handle, recorded, saw, status, stage>>
    BY <1>2, <2>1 DEF Start, Plan, Go, Runs, files, Locked, Plain
  <2>3. ~Complete(p, s)
    BY <1>2 DEF Start, Plan, Complete, Runs
  <2>4. \A t \in Steps : step'[t] = "completed" <=> step[t] = "completed"
    BY <2>3, CompletionKept
  <2> QED
    BY <2>1, <2>2, <2>4, KnownGoes
<1> QED
  BY <1>1, <1>2, KnownEnds, KnownVerify, KnownOutput, KnownComplete DEF StepOf

LEMMA KnownStage ==
    ASSUME IInv, KnownInv, NEW p \in Procs,
           \/ ForgetOld(p) \/ RemoveOld(p) \/ MakeStage(p) \/ FinishCopy(p) \/ NotePending(p)
           \/ ReuseStage(p) \/ StartAgent(p)
    PROVE  KnownInv'
<1>1. /\ pc[p] \in {"started", "removing", "creating", "copying", "copied", "staged"}
      /\ (pc[p] = "started" => at[p] = Writer)
      /\ UNCHANGED <<recorded, saw, status, step>>
  BY DEF ForgetOld, RemoveOld, MakeStage, FinishCopy, NotePending, ReuseStage, StartAgent, Ready,
         Runs, At, record
<1>2. pc[p] \in Locked \ {"begun", "ending"}
  BY <1>1 DEF Locked
<1>3. step[Writer] # "completed"
  <2>1. Placed(p) /\ Writer \in Steps
    BY <1>2, Working, StepAssumption DEF AtWork
  <2> QED
    BY <1>1, <2>1 DEF Placed, Writing
<1>4. PICK label \in {"removing", "creating", "copying", "copied", "staged", "coding"} :
        pc' = [pc EXCEPT ![p] = label]
  BY DEF ForgetOld, RemoveOld, MakeStage, FinishCopy, NotePending, ReuseStage, StartAgent, Go
<1>5. label \in Plain
  BY DEF Plain, Locked
<1>6. handle'[p] = handle[p] \/ handle'[p] # None
  <2>1. CASE FinishCopy(p)
    <3>1. [before |-> src, evid |-> FALSE] \in Handles
      BY DEF IInv, TypeOK, Handles
    <3>2. handle'[p] = [before |-> src, evid |-> FALSE]
      BY <2>1 DEF FinishCopy, IInv, TypeOK
    <3> QED
      BY <3>1, <3>2, NoneAssumption
  <2>2. CASE ~FinishCopy(p)
    BY <2>2 DEF ForgetOld, RemoveOld, MakeStage, NotePending, ReuseStage, StartAgent, Go
  <2> QED
    BY <2>1, <2>2
<1> QED
  BY <1>1, <1>2, <1>3, <1>4, <1>5, <1>6, KnownGoes

\* The writer's evidence claims no verifier.
LEMMA KnownEvidence ==
    ASSUME IInv, KnownInv, NEW p \in Procs,
           Finalize(p) \/ SaveEvidence(p) \/ NoteEvidence(p)
    PROVE  KnownInv'
<1>1. /\ pc[p] \in {"finalizing", "evfile", "evsaved"} /\ UNCHANGED <<saw, status, step, stage, at>>
  BY DEF Finalize, SaveEvidence, NoteEvidence, Go, At, record, files
<1>2. /\ pc[p] \in Locked /\ at[p] = Writer /\ step[Writer] # "completed"
      /\ status # "completed"
  BY <1>1, WriterUndone, Working DEF Writing
<1>3. PICK label \in {"evfile", "evsaved", "finished"} : pc' = [pc EXCEPT ![p] = label]
  BY DEF Finalize, SaveEvidence, NoteEvidence, Go
<1>4. pc'[p] = label /\ \A q \in Procs \ {p} : pc'[q] = pc[q]
  BY <1>3 DEF IInv, TypeOK
<1>5. label = "evfile" => ~evidence'.passed
  <2>1. label = "evfile" => Finalize(p)
    BY <1>3, <1>4 DEF Finalize, SaveEvidence, NoteEvidence, Go, IInv, TypeOK
  <2> QED
    BY <2>1 DEF Finalize
<1>6. KnownAt(p)'
  BY <1>1, <1>2, <1>4, <1>5, StepAssumption DEF KnownAt, Steps
<1>7. CASE Finalize(p) \/ NoteEvidence(p)
  <2>1. recorded' = recorded
    BY <1>7 DEF Finalize, NoteEvidence, record
  <2> QED
    BY <1>1, <1>2, <1>4, <1>6, <2>1, KnownKeeps
<1>8. CASE SaveEvidence(p)
  <2>1. recorded' = evidence /\ ~evidence.passed
    BY <1>8 DEF SaveEvidence, At, KnownInv, KnownAt
  <2> QED
    BY <1>1, <1>2, <1>4, <1>6, <2>1, OthersIdle DEF KnownInv, PassedInv, SealInv, CompletedIsSealed
<1> QED
  BY <1>7, <1>8

LEMMA KnownWrites ==
    ASSUME IInv, KnownInv, NEW p \in Procs, Write(p)
    PROVE  KnownInv'
<1>1. CASE AgentEnds(p)
  BY <1>1, KnownOutput, StepAssumption
<1>2. CASE CopyFails(p) \/ RefuseStage(p) \/ FinalizeFails(p) \/ (\E r \in BOOLEAN : AgentFails(p, r))
  <2>1. /\ pc[p] \in {"copying", "staged", "coding", "finalizing"}
        /\ \E r \in BOOLEAN : Fails(p, Writer, r)
    BY <1>2 DEF CopyFails, RefuseStage, FinalizeFails, AgentFails, At
  <2>2. pc[p] \in Locked \ {"ending"} /\ Writer \in Steps
    BY <2>1, StepAssumption DEF Locked
  <2> QED
    BY <2>1, <2>2, KnownFails
<1> QED
  BY <1>1, <1>2, KnownStage, KnownEvidence DEF Write

LEMMA KnownDrop ==
    ASSUME IInv, KnownInv, NEW p \in Procs, Drop(p)
    PROVE  KnownInv'
<1>1. /\ pc[p] = "dropping" /\ pc'[p] = "ending" /\ stage' = "none"
      /\ UNCHANGED <<recorded, saw, status, step>>
      /\ \A q \in Procs \ {p} : pc'[q] = pc[q]
  BY DEF Drop, At, IInv, TypeOK, record
<1>2. pc[p] \in Locked
  BY <1>1 DEF Locked
<1>3. status # "completed"
  BY <1>2, Working
<1>4. step[Writer] = "completed" => stage' # recorded.after
  BY <1>1, ValueAssumption DEF IInv, OrderInv, TypeOK, Evidence, Trees
<1> QED
  BY <1>1, <1>2, <1>3, <1>4, KnownKeeps DEF KnownAt

\* The seal names every verifier, and each passed on what the stage holds.
LEMMA KnownSeal ==
    ASSUME IInv, KnownInv, NEW p \in Procs, SaveSeal(p)
    PROVE  KnownInv'
<1>1. /\ pc[p] = "sealfile" /\ pc'[p] = "sealed" /\ recorded' = evidence
      /\ UNCHANGED <<status, step, stage, saw, handle>>
      /\ \A q \in Procs \ {p} : pc'[q] = pc[q]
  BY DEF SaveSeal, At, Go, IInv, TypeOK, files
<1>2. pc[p] \in Locked
  BY <1>1 DEF Locked
<1>3. /\ status # "completed" /\ Placed(p)
      /\ Sealed(evidence) /\ stage = recorded.after
  BY <1>1, <1>2, Working DEF AtWork, Seals
<1>4. \A t \in Steps : step[t] = "completed"
  BY <1>1, <1>3, StepAssumption DEF Placed, Sealing, Steps
<1>5. Writer \in Steps /\ \A t \in Verifiers : t \in Steps
  BY StepAssumption
<1>6. \A t \in Verifiers : saw[t] = stage
  BY <1>3, <1>4, <1>5 DEF KnownInv, PassedInv
<1>7. KnownAt(p)'
  BY <1>1, <1>2 DEF KnownInv, KnownAt, Locked
<1>8. PassedInv' /\ SealInv'
  BY <1>1, <1>3, <1>4, <1>5, <1>6 DEF PassedInv, SealInv, Sealed
<1>9. CompletedIsSealed'
  BY <1>1, <1>3 DEF CompletedIsSealed
<1> QED
  BY <1>1, <1>2, <1>7, <1>8, <1>9, OthersIdle DEF KnownInv

LEMMA KnownFinish ==
    ASSUME IInv, KnownInv, NEW p \in Procs, Finish(p)
    PROVE  KnownInv'
<1>1. ~(AllDone(p) /\ handle[p] = None)
  BY DoneFacts, StepAssumption DEF KnownInv, KnownAt, AllDone, At, Locked
<1>2. /\ pc[p] = "sealed" /\ Leave(p)
      /\ UNCHANGED <<step, recorded, saw, evidence, output, stage>>
  BY <1>1 DEF Finish, At, files
<1>3. pc[p] \in Locked
  BY <1>2 DEF Locked
<1>4. Sealed(recorded) /\ Indexed(p)
  BY <1>2, <1>3, Working DEF AtWork, Seals
<1>5. Intact
  BY <1>2, <1>4 DEF Indexed, Intact
<1>6. CompletedIsSealed'
  BY <1>2, <1>4, <1>5 DEF CompletedIsSealed, Sealed, Intact
<1>7. pc'[p] = "out" /\ \A q \in Procs \ {p} : pc'[q] = pc[q]
  BY <1>2 DEF Leave, IInv, TypeOK
<1>8. KnownAt(p)'
  BY <1>7 DEF KnownAt, Locked
<1>9. PassedInv' /\ SealInv'
  BY <1>2 DEF KnownInv, PassedInv, SealInv
<1> QED
  BY <1>3, <1>6, <1>7, <1>8, <1>9, OthersIdle DEF KnownInv

LEMMA KnownCommand ==
    ASSUME IInv, KnownInv, KnowsStage', NEW p \in Procs, Command(p)
    PROVE  KnownInv'
<1>1. Writer \in Steps
  BY StepAssumption
<1>2. CASE RiskPermitted(p) \/ KeepSession(p) \/ Forget(p) \/ Seal(p)
  <2>1. PICK label \in {"steps", "ending", "dropping", "sealfile"} : pc' = [pc EXCEPT ![p] = label]
    BY <1>2 DEF RiskPermitted, KeepSession, Forget, Seal, Go
  <2>2. /\ pc[p] \in Locked \ {"ending"} /\ label \in Plain
        /\ UNCHANGED <<handle, recorded, saw, status, stage, step>>
    BY <1>2 DEF RiskPermitted, KeepSession, Forget, Seal, AllDone, Go, At, record, files, Locked, Plain
  <2> QED
    BY <2>1, <2>2, KnownGoes
<1>3. CASE RiskRefused(p) \/ EndFailed(p) \/ Planned(p) \/ SealRefused(p) \/ SealDamaged(p)
  BY <1>1, <1>3, KnownEnds
<1> QED
  BY <1>2, <1>3, KnownOutside, KnownDrop, KnownStepOf, KnownWrites, KnownSeal, KnownFinish DEF Command

\* An edit of the source changes none of it; an agent or a verifier that changes
\* the stage leaves the writer's evidence behind.
LEMMA KnownChanges ==
    ASSUME IInv, KnownInv, NEW p \in Procs, NEW s \in Steps,
           AgentWrites(p) \/ Touch(p, s)
    PROVE  KnownInv'
<1>1. /\ pc[p] \in {"coding", "checking"} /\ UNCHANGED <<recorded, saw, status, step, pc, handle, at>>
  BY DEF AgentWrites, Touch, Runs, At, record, local
<1>2. pc[p] \in Locked
  BY <1>1 DEF Locked
<1>3. status # "completed"
  BY <1>2, Working
<1>4. step[Writer] # "completed" \/ stage' # recorded.after
  <2>1. CASE AgentWrites(p)
    BY <2>1, WriterUndone DEF AgentWrites, At, Writing
  <2>2. CASE Touch(p, s)
    BY <2>2 DEF Touch
  <2> QED
    BY <2>1, <2>2
<1>5. pc[p] = "checking" => stage' # recorded.after
  BY DEF AgentWrites, Touch, At
<1>6. KnownAt(p)'
  BY <1>1, <1>5 DEF KnownInv, KnownAt
<1> QED
  BY <1>1, <1>2, <1>3, <1>4, <1>6, KnownKeeps

LEMMA KnownAlways == Spec /\ []KnowsStage => []KnownInv
<1>1. Init => KnownInv
  BY StepAssumption DEF Init, KnownInv, KnownAt, PassedInv, SealInv, CompletedIsSealed, Locked
<1>2. IInv /\ KnownInv /\ KnowsStage' /\ [Next]_vars => KnownInv'
  <2> SUFFICES ASSUME IInv, KnownInv, KnowsStage', [Next]_vars PROVE KnownInv'
    OBVIOUS
  <2>1. ASSUME NEW p \in Procs,
               \/ \E d \in DryRuns : Open(p, d)
               \/ Command(p) \/ AgentWrites(p) \/ (\E s \in Steps : Touch(p, s)) \/ Crash(p)
        PROVE  KnownInv'
    BY <2>1, KnownOutside, KnownCommand, KnownChanges, KnownEnds, StepAssumption
  <2>2. CASE Edit \/ UNCHANGED vars
    <3>1. UNCHANGED <<status, step, recorded, evidence, output, stage, pc, at, handle, seen, saw>>
      BY <2>2 DEF Edit, vars, record, files, local
    <3> QED
      BY <3>1 DEF KnownInv, KnownAt, PassedInv, SealInv, CompletedIsSealed, Intact
  <2> QED
    BY <2>1, <2>2 DEF Next
<1> QED
  BY <1>1, <1>2, Always, PTL DEF Spec

\* However many processes execute, crash and resume a run: if each that begins
\* to execute after the writer knows of the stage, the sealed evidence describes
\* a tree that every verifier it names passed on (_verify_and_seal_stage
\* compares the stage with the writer's evidence again).  The run that expects
\* a violation shows a process that does not know of it (WorkflowRunner looks
\* for the stage when it is constructed, before it takes the lock).
THEOREM SealedVerified == Spec /\ []KnowsStage => []SealedWasVerified
<1>1. KnownInv => SealedWasVerified
  BY DEF KnownInv, SealInv, SealedWasVerified
<1> QED
  BY <1>1, KnownAlways, PTL

\* On the same condition a completed run has sealed evidence of all its
\* verifiers, and its stage still holds the work.
THEOREM CompletedSealed == Spec /\ []KnowsStage => []CompletedIsSealed
<1>1. KnownInv => CompletedIsSealed
  BY DEF KnownInv
<1> QED
  BY <1>1, KnownAlways, PTL

-----------------------------------------------------------------------------
(* One process at a time meets the condition. *)

Fresh == \A p \in Procs :
    pc[p] \in {"opened", "begun"} /\ step[Writer] = "completed" => handle[p] # None

\* Nothing begins but what was opened.
LEMMA NobodyOpens ==
    ASSUME IInv, NEW p \in Procs, Command(p), ~Begin(p)
    PROVE  pc'[p] \notin {"opened", "begun"}
<1> USE DEF Go, Fails, AfterFailure, Leave, IInv, TypeOK
<1>1. ASSUME NEW s \in Steps, StepOf(p, s) PROVE pc'[p] \notin {"opened", "begun"}
  BY <1>1 DEF StepOf, Start, CannotStart, Blocked, Plan, PlanFails, RefuseOutput, SaveOutput,
              WriteArtifact, WriteOutput, Complete, Verify, Pass, Reject, Runs
<1>2. CASE Write(p)
  BY <1>2 DEF Write, ForgetOld, RemoveOld, MakeStage, FinishCopy, CopyFails, NotePending,
              ReuseStage, StartAgent, RefuseStage, AgentEnds, AgentFails, WriteOutput, Finalize,
              FinalizeFails, SaveEvidence, NoteEvidence
<1>3. CASE ~Write(p) /\ ~(\E s \in Steps : StepOf(p, s))
  BY <1>3 DEF Command, TurnedAway, RiskRefused, RiskPermitted, KeepSession, Forget, Drop, EndFailed,
              Planned, SealDamaged, SealRefused, Seal, SaveSeal, Finish
<1> QED
  BY <1>1, <1>2, <1>3

\* Nobody else completes the writer.
LEMMA FreshCommand ==
    ASSUME IInv, Fresh, \A q, r \in Procs : q = r, NEW p \in Procs,
           Command(p) \/ AgentWrites(p) \/ (\E s \in Steps : Touch(p, s)) \/ Crash(p)
    PROVE  Fresh'
<1>1. CASE Begin(p)
  BY <1>1 DEF Begin, At, Fresh, IInv, TypeOK
<1>2. CASE ~Begin(p)
  <2>1. pc'[p] \notin {"opened", "begun"}
    <3>1. CASE AgentWrites(p) \/ (\E s \in Steps : Touch(p, s)) \/ Crash(p)
      BY <3>1 DEF AgentWrites, Touch, Runs, At, Crash, Leave, local, IInv, TypeOK
    <3> QED
      BY <1>2, <3>1, NobodyOpens
  <2> QED
    BY <2>1 DEF Fresh
<1> QED
  BY <1>1, <1>2

LEMMA OneProcessKnows ==
    ASSUME \A p, q \in Procs : p = q
    PROVE  Spec => []KnowsStage
<1>1. Init => Fresh
  BY DEF Init, Fresh
<1>2. IInv /\ Fresh /\ [Next]_vars => Fresh'
  <2> SUFFICES ASSUME IInv, Fresh, [Next]_vars PROVE Fresh'
    OBVIOUS
  <2>1. ASSUME NEW p \in Procs, NEW d \in DryRuns, Open(p, d) PROVE Fresh'
    <3>1. handle'[p] = LoadedStage /\ UNCHANGED <<step, noted, recorded>>
      BY <2>1 DEF Open, IInv, TypeOK, record
    <3>2. ASSUME step[Writer] = "completed" PROVE LoadedStage # None
      <4>1. LoadedStage \in Handles
        BY <3>2 DEF IInv, OrderInv, TypeOK, LoadedStage, Handles, Evidence
      <4> QED
        BY <4>1, NoneAssumption
    <3> QED
      BY <3>1, <3>2 DEF Fresh
  <2>2. CASE Edit \/ UNCHANGED vars
    BY <2>2 DEF Edit, vars, record, files, local, Fresh
  <2> QED
    BY <2>1, <2>2, FreshCommand DEF Next
<1>3. Fresh => KnowsStage
  BY DEF Fresh, KnowsStage, At
<1> QED
  BY <1>1, <1>2, <1>3, Always, PTL DEF Spec

\* With one process at a time, crashes, resumes, dry runs and edits included,
\* both hold without a condition: what is sealed was verified, and what is
\* completed is sealed and still there.
COROLLARY OneProcessSeals ==
    ASSUME \A p, q \in Procs : p = q
    PROVE  Spec => [](SealedWasVerified /\ CompletedIsSealed)
  BY OneProcessKnows, SealedVerified, CompletedSealed, PTL
=============================================================================
