------------------------ MODULE ProcessCaptureProofs ------------------------
(***************************************************************************)
(* Theorems about ProcessCapture, for any programs of the child and its    *)
(* descendant, any input, pipe capacity, limits, budget and use of it by   *)
(* other calls.                                                            *)
(***************************************************************************)
EXTENDS ProcessCapture, FiniteSetTheorems, SequenceTheorems, TLAPS

\* Where the units of an output are; an end that was seen is for good.
PipeInv ==
    /\ \A s \in Streams :
         /\ written[s] = taken[s] + pipe[s]
         /\ eof[s] => thread[s] = "done" /\ pipe[s] = 0 /\ Holders(s) = {}
    /\ thread["in"] = "select" => left > 0

\* A spool that n units have gone to.
Filled(s, n) ==
    /\ stored[s] = IF n <= CaptureLimit THEN n ELSE CaptureLimit
    /\ truncated[s] <=> n > CaptureLimit

\* What a spool has, no more than it may; after the call, only those of a result
\* matter.
SpoolInv ==
    \A s \in Streams :
        /\ chunk[s] <= taken[s] /\ (thread[s] # "store" => chunk[s] = 0)
        /\ returned \/ ~Ended =>
             /\ capture[s] = "idle" => taken[s] - chunk[s] <= Limit /\ captured[s] = 0
             /\ capture[s] \in {"active", "passed"} => captured[s] = taken[s] - chunk[s]
             /\ capture[s] \in {"idle", "active", "passed"} => Filled(s, captured[s])

Settling == pc \in {"finishOut", "finishErr"} \/ returned \/ \E s \in Streams : capture[s] = "passed"
Harmless == {"idle", "refused", "lost", "passed"}

\* Spools are handed over when all threads have ended.
ThreadInv ==
    /\ Settling => EveryThreadEnded /\ pc # "start"
    /\ pc = "finishErr" => capture["out"] \in Harmless
    /\ returned => \A s \in Streams : capture[s] \in Harmless

\* Every reservation is of a capture; after the call, of a thread that will
\* give it back.
BudgetInv ==
    /\ used = others + CaptureLimit * Cardinality(reserved)
    /\ \A s \in reserved : capture[s] \notin {"idle", "refused"}
    /\ pc = "consumed" \/ (pc = "end" /\ ~returned) =>
         \A s \in reserved : thread[s] \notin {"new", "done"}

\* The leader never leaves its group, and is running only before it is waited for,
\* unless the kernel keeps the conductor from signalling it.
GroupInv ==
    /\ group["leader"] /\ life["leader"] # "unborn"
    /\ pc \notin {"start", "wait", "term", "grace", "cleanup"} =>
         life["leader"] # "running" \/ foreign["leader"]
    /\ forced /\ pc # "grace" =>
         \A p \in Procs : group[p] => life[p] # "running" \/ foreign[p]

IInv == TypeOK /\ PipeInv /\ SpoolInv /\ ThreadInv /\ BudgetInv /\ GroupInv

-----------------------------------------------------------------------------
(* Arithmetic and cardinalities. *)

LEMMA OneMore ==
    ASSUME NEW a \in Nat, NEW n \in Nat
    PROVE  a * (n + 1) = a * n + a /\ a * n \in Nat
  OBVIOUS

LEMMA Less ==
    ASSUME NEW a \in Nat, NEW n \in Nat, NEW m \in Nat, m <= n
    PROVE  a * n - a * m = a * (n - m) /\ n - m \in Nat /\ a * (n - m) \in Nat
  OBVIOUS

LEMMA StreamSets ==
    ASSUME NEW S \in SUBSET Streams
    PROVE  IsFiniteSet(S) /\ Cardinality(S) \in Nat
<1>1. IsFiniteSet({"out"}) /\ {"out", "err"} = {"out"} \cup {"err"}
  BY FS_Singleton
<1>2. IsFiniteSet({"out", "err"})
  BY <1>1, FS_AddElement
<1>3. IsFiniteSet(S)
  BY <1>2, FS_Subset DEF Streams
<1> QED
  BY <1>3, FS_CardinalityType

LEMMA ReleaseKeeps ==
    ASSUME IInv, NEW S, Release(S), UNCHANGED others
    PROVE  /\ reserved' = reserved \ S /\ reserved' \subseteq Streams /\ used' \in 0..Budget
           /\ used' = others' + CaptureLimit * Cardinality(reserved')
<1>1. /\ reserved \in SUBSET Streams /\ reserved' = reserved \ S /\ used \in 0..Budget
      /\ others \in 0..Budget /\ CaptureLimit \in Nat /\ Budget \in Nat
  BY CaptureAssumption DEF IInv, TypeOK, Release
<1>2. /\ IsFiniteSet(reserved) /\ Cardinality(reserved) \in Nat
      /\ Cardinality(reserved') \in Nat /\ Cardinality(reserved \cap S) \in Nat
  BY <1>1, StreamSets
<1>3. /\ Cardinality(reserved') = Cardinality(reserved) - Cardinality(reserved \cap S)
      /\ Cardinality(reserved \cap S) <= Cardinality(reserved)
  BY <1>1, <1>2, FS_Difference, FS_Intersection
<1> DEFINE before == CaptureLimit * Cardinality(reserved)
           given  == CaptureLimit * Cardinality(reserved \cap S)
           after  == CaptureLimit * Cardinality(reserved')
<1>4. before - given = after /\ before \in Nat /\ given \in Nat /\ after \in Nat
  BY <1>1, <1>2, <1>3, Less, OneMore
<1>5. used = others + before /\ used' = used - given
  BY DEF IInv, BudgetInv, Release
<1> HIDE DEF before, given, after
<1>6. used' = others + after /\ used' \in 0..Budget
  BY <1>1, <1>4, <1>5
<1> QED
  BY <1>1, <1>6 DEF after

LEMMA ReserveKeeps ==
    ASSUME IInv, NEW s \in Streams, s \notin reserved, Fits,
           reserved' = reserved \cup {s}, used' = used + CaptureLimit, UNCHANGED others
    PROVE  /\ reserved' \subseteq Streams /\ used' \in 0..Budget
           /\ used' = others' + CaptureLimit * Cardinality(reserved')
<1>1. /\ reserved \in SUBSET Streams /\ used \in 0..Budget
      /\ others \in 0..Budget /\ CaptureLimit \in Nat /\ Budget \in Nat
  BY CaptureAssumption DEF IInv, TypeOK
<1>2. /\ IsFiniteSet(reserved) /\ Cardinality(reserved) \in Nat
      /\ Cardinality(reserved') = Cardinality(reserved) + 1
  BY <1>1, StreamSets, FS_AddElement
<1>3. CaptureLimit * Cardinality(reserved') = CaptureLimit * Cardinality(reserved) + CaptureLimit
      /\ CaptureLimit * Cardinality(reserved) \in Nat
  BY <1>1, <1>2, OneMore
<1>4. used = others + CaptureLimit * Cardinality(reserved)
  BY DEF IInv, BudgetInv
<1> QED
  BY <1>1, <1>3, <1>4 DEF Fits

-----------------------------------------------------------------------------
LEMMA Initially == Init => IInv
<1> SUFFICES ASSUME Init PROVE IInv
  OBVIOUS
<1> USE CaptureAssumption DEF Init
<1>1. TypeOK
  <2>1. \A program \in LeaderPrograms :
          [p \in Procs |-> IF p = "leader" THEN program ELSE <<>>] \in [Procs -> Seq(Ops)]
    <3>1. <<>> \in Seq(Ops)
      BY EmptySeq
    <3> QED
      BY <3>1
  <2>2. others \in 0..Budget /\ used \in 0..Budget /\ left \in 0..Payload
    OBVIOUS
  <2>3. pipe \in [Threads -> 0..PipeCap] /\ written \in [Streams -> Nat] /\ taken \in [Streams -> Nat]
    OBVIOUS
  <2>4. /\ captured \in [Streams -> Nat] /\ stored \in [Streams -> 0..CaptureLimit]
        /\ truncated \in [Streams -> BOOLEAN]
    OBVIOUS
  <2> QED
    BY <2>1, <2>2, <2>3, <2>4 DEF TypeOK, PCs
<1>2. PipeInv /\ SpoolInv /\ ThreadInv
  BY DEF PipeInv, SpoolInv, Filled, ThreadInv, Settling, Harmless, Streams, Threads, Ended
<1>3. BudgetInv
  <2>1. Cardinality({}) = 0
    BY FS_EmptySet
  <2> QED
    BY <2>1 DEF BudgetInv
<1>4. GroupInv
  BY DEF GroupInv, Procs
<1> QED
  BY <1>1, <1>2, <1>3, <1>4 DEF IInv

-----------------------------------------------------------------------------
(* The processes. *)

\* They change nothing of the call.
LEMMA ProcessFrame ==
    ASSUME IInv,
           UNCHANGED <<taken, chunk, capture, spools, thread, pc, returned, reserved, used, others>>
    PROVE  SpoolInv' /\ ThreadInv' /\ BudgetInv'
<1>1. SpoolInv'
  BY DEF IInv, SpoolInv, Filled, spools, Ended
<1>2. ThreadInv'
  BY DEF IInv, ThreadInv, Settling, EveryThreadEnded
<1>3. BudgetInv'
  BY DEF IInv, BudgetInv
<1> QED
  BY <1>1, <1>2, <1>3

\* A process that goes on, opens nothing and forks nothing.
LEMMA StillEmpty ==
    ASSUME NEW t, Holders(t) = {}, \A p \in Procs : holds'[p] \subseteq holds[p],
           \A p \in Procs : life'[p] \in {"running", "killed"} => life[p] \in {"running", "killed"}
    PROVE  Holders(t)' = {}
  BY DEF Holders, Alive

LEMMA AdvanceType ==
    ASSUME TypeOK, NEW p \in Procs, Advance(p), prog[p] # <<>>
    PROVE  prog' \in [Procs -> Seq(Ops)]
<1>1. Tail(prog[p]) \in Seq(Ops)
  BY HeadTailProperties DEF TypeOK
<1> QED
  BY <1>1 DEF TypeOK, Advance

LEMMA WriteOutKeeps ==
    ASSUME IInv, NEW p \in Procs, NEW s \in Streams, WriteOut(p, s)
    PROVE  IInv'
<1> USE DEF IInv, WriteOut, Doing, workers, spools, captures, caller
<1>1. SpoolInv' /\ ThreadInv' /\ BudgetInv'
  BY ProcessFrame
<1>2. prog' \in [Procs -> Seq(Ops)]
  BY AdvanceType DEF TypeOK
<1>3. pipe' \in [Threads -> 0..PipeCap] /\ written' \in [Streams -> Nat]
  <2>1. \/ pipe' = pipe /\ written' = written
        \/ /\ pipe[s] < PipeCap /\ pipe' = [pipe EXCEPT ![s] = @ + 1]
           /\ written' = [written EXCEPT ![s] = @ + 1]
    OBVIOUS
  <2>2. /\ pipe \in [Threads -> 0..PipeCap] /\ written \in [Streams -> Nat]
        /\ PipeCap \in Nat
    BY CaptureAssumption DEF TypeOK
  <2> HIDE DEF IInv, WriteOut
  <2>3. pipe' \in [Threads -> 0..PipeCap]
    BY <2>1, <2>2 DEF Threads
  <2>4. written' \in [Streams -> Nat]
    BY <2>1, <2>2
  <2> QED
    BY <2>3, <2>4
<1>4. life' \in [Procs -> {"unborn", "running", "killed", "exited"}]
      /\ \A q \in Procs : life'[q] \in {life[q], "exited"}
  BY DEF TypeOK
<1>5. TypeOK'
  BY <1>2, <1>3, <1>4 DEF TypeOK
<1>6. PipeInv'
  <2>1. \A z \in Streams : written'[z] = taken'[z] + pipe'[z]
    <3>1. \A z \in Streams : written[z] = taken[z] + pipe[z]
      BY DEF PipeInv
    <3>2. \/ pipe' = pipe /\ written' = written
          \/ pipe' = [pipe EXCEPT ![s] = @ + 1] /\ written' = [written EXCEPT ![s] = @ + 1]
      OBVIOUS
    <3>3. /\ taken' = taken /\ taken \in [Streams -> Nat] /\ written \in [Streams -> Nat]
          /\ pipe \in [Threads -> 0..PipeCap] /\ PipeCap \in Nat
      BY CaptureAssumption DEF TypeOK
    <3> HIDE DEF IInv, WriteOut
    <3> QED
      BY <3>1, <3>2, <3>3 DEF Threads
  <2>2. ASSUME NEW z \in Streams, eof'[z]
        PROVE  thread'[z] = "done" /\ pipe'[z] = 0 /\ Holders(z)' = {}
    <3>1. thread[z] = "done" /\ pipe[z] = 0 /\ Holders(z) = {}
      BY <2>2 DEF PipeInv
    <3>2. Holders(z)' = {}
      <4>1. holds' = holds
        OBVIOUS
      <4> HIDE DEF IInv, WriteOut
      <4> QED
        BY <1>4, <3>1, <4>1, StillEmpty
    <3>3. pipe'[z] = pipe[z]
      <4>1. s \in holds[p] => s # z
        BY <3>1 DEF Holders, Alive
      <4> QED
        BY <4>1 DEF TypeOK, Threads
    <3> QED
      BY <3>1, <3>2, <3>3
  <2> QED
    BY <2>1, <2>2 DEF PipeInv
<1>7. GroupInv'
  BY <1>4 DEF GroupInv, Procs
<1> QED
  BY <1>1, <1>5, <1>6, <1>7

LEMMA ReadInKeeps ==
    ASSUME IInv, NEW p \in Procs, ReadIn(p)
    PROVE  IInv'
<1> USE DEF IInv, ReadIn, Doing, workers, spools, captures, caller
<1>1. SpoolInv' /\ ThreadInv' /\ BudgetInv'
  BY ProcessFrame
<1>2. prog' \in [Procs -> Seq(Ops)]
  BY AdvanceType
<1>3. pipe' \in [Threads -> 0..PipeCap] /\ \A s \in Streams : pipe'[s] = pipe[s]
  <2>1. /\ pipe \in [Threads -> 0..PipeCap] /\ PipeCap \in Nat
        /\ pipe' = pipe \/ (pipe["in"] > 0 /\ pipe' = [pipe EXCEPT !["in"] = @ - 1])
    BY CaptureAssumption DEF TypeOK
  <2> HIDE DEF IInv, ReadIn
  <2> QED
    BY <2>1 DEF Threads, Streams
<1>4. TypeOK'
  BY <1>2, <1>3 DEF TypeOK
<1>5. PipeInv'
  BY <1>3 DEF PipeInv, Holders, Alive
<1>6. GroupInv'
  BY DEF GroupInv
<1> QED
  BY <1>1, <1>4, <1>5, <1>6

LEMMA ForkKeeps ==
    ASSUME IInv, Fork
    PROVE  IInv'
<1> USE DEF IInv, Fork, Doing, pipes, workers, spools, captures, caller
<1>1. SpoolInv' /\ ThreadInv' /\ BudgetInv'
  BY ProcessFrame
<1>2. prog' \in [Procs -> Seq(Ops)]
  <2>1. PICK program \in ChildPrograms :
          prog' = [p \in Procs |-> IF p = "child" THEN program ELSE Tail(prog[p])]
    OBVIOUS
  <2>2. program \in Seq(Ops)
    BY CaptureAssumption
  <2>3. Tail(prog["leader"]) \in Seq(Ops)
    BY HeadTailProperties DEF TypeOK, Procs
  <2>4. \A p \in Procs : p = "child" \/ p = "leader"
    BY DEF Procs
  <2> QED
    BY <2>1, <2>2, <2>3, <2>4
<1>3. TypeOK'
  <2>1. "child" \in Procs /\ "leader" \in Procs
    BY DEF Procs
  <2>2. /\ life' \in [Procs -> {"unborn", "running", "killed", "exited"}]
        /\ deaf' \in [Procs -> BOOLEAN] /\ foreign' \in [Procs -> BOOLEAN]
        /\ holds' \in [Procs -> SUBSET Threads]
    BY <2>1 DEF TypeOK
  <2> QED
    BY <1>2, <2>2 DEF TypeOK
<1>4. PipeInv'
  <2>1. \A s \in Streams : Holders(s) = {} => Holders(s)' = {}
    BY DEF Holders, Alive, Procs, TypeOK
  <2> QED
    BY <2>1 DEF PipeInv
<1>5. GroupInv'
  BY DEF GroupInv, Procs, TypeOK
<1> QED
  BY <1>1, <1>3, <1>4, <1>5

LEMMA PrepareKeeps ==
    ASSUME IInv, NEW p \in Procs, Prepare(p)
    PROVE  IInv'
<1> USE DEF IInv, Prepare, Doing, pipes, workers, spools, captures, caller
<1>1. SpoolInv' /\ ThreadInv' /\ BudgetInv'
  BY ProcessFrame
<1>2. prog' \in [Procs -> Seq(Ops)]
  BY AdvanceType
<1>3. /\ group' \in [Procs -> BOOLEAN] /\ deaf' \in [Procs -> BOOLEAN]
      /\ foreign' \in [Procs -> BOOLEAN] /\ holds' \in [Procs -> SUBSET Threads]
      /\ \A q \in Procs : /\ holds'[q] \subseteq holds[q] /\ (group'[q] => group[q])
                         /\ (foreign[q] => foreign'[q])
      /\ group'["leader"]
  <2>1. /\ group \in [Procs -> BOOLEAN] /\ deaf \in [Procs -> BOOLEAN] /\ "leader" \in Procs
        /\ foreign \in [Procs -> BOOLEAN]
        /\ holds \in [Procs -> SUBSET Threads] /\ group["leader"]
    BY DEF TypeOK, GroupInv, Procs
  <2>2. \/ group' = [group EXCEPT ![p] = (p = "leader")] /\ UNCHANGED <<deaf, foreign, holds>>
        \/ deaf' = [deaf EXCEPT ![p] = TRUE] /\ UNCHANGED <<group, foreign, holds>>
        \/ foreign' = [foreign EXCEPT ![p] = TRUE] /\ UNCHANGED <<group, deaf, holds>>
        \/ holds' = [holds EXCEPT ![p] = {}] /\ UNCHANGED <<group, deaf, foreign>>
    OBVIOUS
  <2> HIDE DEF IInv, Prepare
  <2>3. CASE group' = [group EXCEPT ![p] = (p = "leader")] /\ UNCHANGED <<deaf, foreign, holds>>
    <3>1. \A q \in Procs : group'[q] = IF q = p THEN p = "leader" ELSE group[q]
      BY <2>1, <2>3
    <3> QED
      BY <2>1, <2>3, <3>1
  <2>4. CASE deaf' = [deaf EXCEPT ![p] = TRUE] /\ UNCHANGED <<group, foreign, holds>>
    BY <2>1, <2>4
  <2>5. CASE foreign' = [foreign EXCEPT ![p] = TRUE] /\ UNCHANGED <<group, deaf, holds>>
    BY <2>1, <2>5
  <2>6. CASE holds' = [holds EXCEPT ![p] = {}] /\ UNCHANGED <<group, deaf, foreign>>
    BY <2>1, <2>6
  <2> QED
    BY <2>2, <2>3, <2>4, <2>5, <2>6
<1>4. TypeOK'
  BY <1>2, <1>3 DEF TypeOK
<1>5. PipeInv'
  BY <1>3, StillEmpty DEF PipeInv
<1>6. GroupInv'
  BY <1>3 DEF GroupInv, Procs
<1> QED
  BY <1>1, <1>4, <1>5, <1>6

LEMMA ExitKeeps ==
    ASSUME IInv, NEW p \in Procs, Exit(p)
    PROVE  IInv'
<1> USE DEF IInv, Exit, pipes, workers, spools, captures, caller
<1>1. SpoolInv' /\ ThreadInv' /\ BudgetInv'
  BY ProcessFrame
<1>2. /\ life' \in [Procs -> {"unborn", "running", "killed", "exited"}]
      /\ \A q \in Procs : life'[q] \in {life[q], "exited"}
  BY DEF TypeOK
<1>3. TypeOK'
  BY <1>2 DEF TypeOK
<1>4. PipeInv'
  BY <1>2, StillEmpty DEF PipeInv
<1>5. GroupInv'
  BY <1>2 DEF GroupInv, Procs
<1> QED
  BY <1>1, <1>3, <1>4, <1>5

-----------------------------------------------------------------------------
(* The I/O threads.  While one of them is at work nothing is handed over. *)

LEMMA Working ==
    ASSUME IInv, NEW t \in Threads, thread[t] \notin {"new", "done"}
    PROVE  ~Settling /\ ~returned /\ \A s \in Streams : capture[s] # "passed"
  BY DEF IInv, ThreadInv, Settling, EveryThreadEnded

LEMMA NotSettling ==
    ASSUME ~Settling
    PROVE  ThreadInv
  BY DEF ThreadInv, Settling

LEMMA GroupFrame ==
    ASSUME IInv, UNCHANGED <<life, group, foreign, pc, forced>>
    PROVE  GroupInv'
  BY DEF IInv, GroupInv

\* A thread goes on to another step of its loop.
LEMMA GoOn ==
    ASSUME IInv, NEW t \in Threads, thread[t] \notin {"new", "done", "store"},
           NEW step \in {"check", "select"},
           thread' = [thread EXCEPT ![t] = step],
           t = "in" /\ step = "select" => left > 0,
           UNCHANGED <<processes, pipes, chunk, eof, readError, stop, captures, others, caller>>
    PROVE  IInv'
<1> USE DEF processes, pipes, spools, captures, caller
<1>1. TypeOK'
  BY DEF IInv, TypeOK
<1>2. PipeInv'
  BY DEF IInv, PipeInv, TypeOK, Holders, Alive, Threads
<1>3. SpoolInv'
  BY DEF IInv, SpoolInv, Filled, TypeOK, Ended, Threads
<1>4. ThreadInv'
  <2>1. ~Settling'
    BY Working DEF Settling
  <2> QED
    BY <2>1 DEF ThreadInv, Settling
<1>5. BudgetInv'
  BY DEF IInv, BudgetInv, TypeOK, Threads
<1>6. GroupInv'
  BY GroupFrame
<1> QED
  BY <1>1, <1>2, <1>3, <1>4, <1>5, <1>6 DEF IInv

LEMMA EndThreadKeeps ==
    ASSUME IInv, NEW t \in Threads, thread[t] \in {"check", "select"}, EndThread(t),
           eof' \in [Streams -> BOOLEAN], readError' \in [Streams -> BOOLEAN],
           \A s \in Streams : eof'[s] => eof[s] \/ (s = t /\ pipe[s] = 0 /\ Holders(s) = {}),
           UNCHANGED <<processes, pipe, written, taken, left, chunk, stop, others, caller>>
    PROVE  IInv'
<1> USE DEF processes, caller
<1>1. /\ thread' = [thread EXCEPT ![t] = "done"] /\ open' = [open EXCEPT ![t] = FALSE]
      /\ capture' = capture /\ captured' = captured /\ stored' = stored /\ truncated' = truncated
  BY DEF EndThread, spools
<1>2. /\ reserved' \subseteq Streams /\ used' \in 0..Budget
      /\ used' = others' + CaptureLimit * Cardinality(reserved')
      /\ reserved' \subseteq reserved
      /\ (Ended => t \notin reserved')
  <2>1. CASE Ended
    BY <2>1, ReleaseKeeps DEF EndThread
  <2>2. CASE ~Ended
    <3>1. reserved' = reserved /\ used' = used
      BY <2>2 DEF EndThread
    <3> QED
      BY <2>2, <3>1 DEF IInv, TypeOK, BudgetInv
  <2> QED
    BY <2>1, <2>2
<1>3. TypeOK'
  <2>1. thread' \in [Threads -> {"new", "check", "select", "store", "done"}] /\ open' \in [Threads -> BOOLEAN]
    BY <1>1 DEF IInv, TypeOK
  <2> QED
    BY <1>1, <1>2, <2>1 DEF IInv, TypeOK
<1>4. PipeInv'
  BY <1>1 DEF IInv, PipeInv, TypeOK, Holders, Alive, Threads
<1>5. SpoolInv'
  BY <1>1 DEF IInv, SpoolInv, Filled, TypeOK, Ended, Threads
<1>6. ThreadInv'
  <2>1. ~Settling'
    BY <1>1, Working DEF Settling
  <2> QED
    BY <2>1 DEF ThreadInv, Settling
<1>7. BudgetInv'
  <2>1. \A s \in reserved' : capture'[s] \notin {"idle", "refused"}
    BY <1>1, <1>2 DEF IInv, BudgetInv
  <2>2. ASSUME pc' = "consumed" \/ (pc' = "end" /\ ~returned'), NEW s \in reserved'
        PROVE  thread'[s] \notin {"new", "done"}
    <3>1. s # t /\ s \in reserved /\ s \in Threads
      BY <1>2, <2>2 DEF Ended, Threads
    <3>2. thread'[s] = thread[s]
      BY <1>1, <3>1 DEF IInv, TypeOK
    <3> QED
      BY <2>2, <3>1, <3>2 DEF IInv, BudgetInv
  <2> QED
    BY <1>2, <2>1, <2>2 DEF BudgetInv
<1>8. GroupInv'
  BY GroupFrame
<1> QED
  BY <1>3, <1>4, <1>5, <1>6, <1>7, <1>8 DEF IInv

LEMMA EndReaderKeeps ==
    ASSUME IInv, NEW s \in Streams, thread[s] \in {"check", "select"}, NEW atEnd \in BOOLEAN,
           EndReader(s, atEnd), atEnd => pipe[s] = 0 /\ Holders(s) = {},
           UNCHANGED <<processes, stop, others, caller>>
    PROVE  IInv'
<1>1. /\ eof' = [eof EXCEPT ![s] = atEnd] /\ readError' = [readError EXCEPT ![s] = ~atEnd]
      /\ EndThread(s) /\ UNCHANGED <<pipe, written, taken, left, chunk>> /\ s \in Threads
      /\ eof \in [Streams -> BOOLEAN] /\ readError \in [Streams -> BOOLEAN]
  BY DEF EndReader, IInv, TypeOK, Threads
<1>2. eof' \in [Streams -> BOOLEAN] /\ readError' \in [Streams -> BOOLEAN]
  BY <1>1
<1>3. \A z \in Streams : eof'[z] => eof[z] \/ (z = s /\ pipe[z] = 0 /\ Holders(z) = {})
  BY <1>1
<1> QED
  BY <1>1, <1>2, <1>3, EndThreadKeeps

LEMMA CheckKeeps ==
    ASSUME IInv, NEW t \in Threads, Check(t)
    PROVE  IInv'
<1>1. CASE stop /\ t \in Streams /\ EndReader(t, FALSE)
  BY <1>1, EndReaderKeeps DEF Check
<1>2. CASE /\ t = "in" /\ EndThread(t)
           /\ UNCHANGED <<pipe, written, taken, left, chunk, eof, readError>>
  BY <1>2, EndThreadKeeps DEF Check, IInv, TypeOK
<1>3. CASE /\ ~stop /\ (t = "in" => left > 0)
           /\ thread' = [thread EXCEPT ![t] = "select"]
           /\ UNCHANGED <<pipes, chunk, eof, readError, captures>>
  BY <1>3, GoOn DEF Check
<1> QED
  BY <1>1, <1>2, <1>3 DEF Check

LEMMA ReadKeeps ==
    ASSUME IInv, NEW s \in Streams, Read(s)
    PROVE  IInv'
<1>1. CASE ~open[s] /\ EndReader(s, FALSE)
  BY <1>1, EndReaderKeeps DEF Read
<1>2. CASE open[s] /\ pipe[s] = 0 /\ Holders(s) = {} /\ EndReader(s, TRUE)
  BY <1>2, EndReaderKeeps DEF Read
<1>3. CASE /\ thread' = [thread EXCEPT ![s] = "check"]
           /\ UNCHANGED <<pipes, chunk, eof, readError, captures>>
  BY <1>3, GoOn DEF Read, Threads, Streams
<1>4. CASE /\ \E n \in 1..pipe[s] :
                /\ pipe' = [pipe EXCEPT ![s] = @ - n]
                /\ taken' = [taken EXCEPT ![s] = @ + n]
                /\ chunk' = [chunk EXCEPT ![s] = n]
           /\ thread' = [thread EXCEPT ![s] = "store"]
           /\ UNCHANGED <<open, written, left, eof, readError, captures>>
  <2>1. PICK n \in 1..pipe[s] :
          /\ pipe' = [pipe EXCEPT ![s] = @ - n]
          /\ taken' = [taken EXCEPT ![s] = @ + n]
          /\ chunk' = [chunk EXCEPT ![s] = n]
    BY <1>4
  <2>2. /\ thread[s] = "select" /\ s \in Threads /\ "in" \notin Streams
        /\ UNCHANGED <<processes, stop, others, caller>>
    BY DEF Read, Threads, Streams
  <2>3. /\ pipe \in [Threads -> 0..PipeCap] /\ taken \in [Streams -> Nat] /\ chunk \in [Streams -> Nat]
        /\ thread \in [Threads -> {"new", "check", "select", "store", "done"}] /\ PipeCap \in Nat
        /\ written \in [Streams -> Nat]
    BY CaptureAssumption DEF IInv, TypeOK
  <2>4. n \in Nat /\ n <= pipe[s] /\ pipe[s] \in 0..PipeCap
    BY <2>1, <2>2, <2>3
  <2>5. /\ pipe' \in [Threads -> 0..PipeCap] /\ taken' \in [Streams -> Nat] /\ chunk' \in [Streams -> Nat]
        /\ thread' \in [Threads -> {"new", "check", "select", "store", "done"}]
    BY <1>4, <2>1, <2>2, <2>3, <2>4
  <2>6. TypeOK'
    BY <1>4, <2>2, <2>5 DEF IInv, TypeOK, processes, spools, captures, caller
  <2>7. PipeInv'
    <3>1. \A z \in Streams : written'[z] = taken'[z] + pipe'[z]
      BY <1>4, <2>1, <2>2, <2>3, <2>4 DEF IInv, PipeInv, Threads
    <3>2. ASSUME NEW z \in Streams, eof'[z]
          PROVE  thread'[z] = "done" /\ pipe'[z] = 0 /\ Holders(z)' = {}
      <4>1. thread[z] = "done" /\ pipe[z] = 0 /\ Holders(z) = {} /\ z # s /\ z \in Threads
        BY <1>4, <2>2, <3>2 DEF IInv, PipeInv, Threads
      <4>2. thread'[z] = thread[z] /\ pipe'[z] = pipe[z]
        BY <1>4, <2>1, <2>3, <4>1
      <4> QED
        BY <2>2, <4>1, <4>2 DEF Holders, Alive, processes
    <3>3. thread'["in"] = "select" => left' > 0
      BY <1>4, <2>2, <2>3 DEF IInv, PipeInv, Threads
    <3> QED
      BY <3>1, <3>2, <3>3 DEF PipeInv
  <2>8. SpoolInv'
    <3>1. ASSUME NEW z \in Streams
          PROVE  /\ chunk'[z] <= taken'[z] /\ (thread'[z] # "store" => chunk'[z] = 0)
                 /\ taken'[z] - chunk'[z] = taken[z] - chunk[z]
      <4>1. /\ chunk[z] <= taken[z] /\ (thread[z] # "store" => chunk[z] = 0)
            /\ chunk[z] \in Nat /\ taken[z] \in Nat
        BY <2>3 DEF IInv, SpoolInv
      <4>2. CASE z = s
        BY <1>4, <2>1, <2>2, <2>3, <2>4, <4>1, <4>2
      <4>3. CASE z # s
        BY <1>4, <2>1, <2>2, <2>3, <4>1, <4>3 DEF Threads
      <4> QED
        BY <4>2, <4>3
    <3> QED
      BY <1>4, <2>2, <3>1 DEF IInv, SpoolInv, Filled, Ended, spools, captures, caller
  <2>9. ThreadInv'
    <3>1. ~Settling'
      BY <1>4, <2>2, Working DEF Settling, captures, caller
    <3> QED
      BY <3>1 DEF ThreadInv, Settling
  <2>10. BudgetInv'
    BY <1>4, <2>2, <2>3 DEF IInv, BudgetInv, TypeOK, Threads, captures, caller
  <2>11. GroupInv'
    BY <2>2, GroupFrame DEF processes, caller
  <2> QED
    BY <2>6, <2>7, <2>8, <2>9, <2>10, <2>11 DEF IInv
<1> QED
  BY <1>1, <1>2, <1>3, <1>4 DEF Read

Kinds == {"idle", "active", "refused", "lost", "spoilt", "passed"}

\* What _append_bytes leaves of a spool.
LEMMA AppendKeeps ==
    ASSUME IInv, NEW s \in Streams, NEW n \in Nat, AppendBytes(s, n)
    PROVE  /\ capture' \in [Streams -> Kinds] /\ captured' \in [Streams -> Nat]
           /\ stored' \in [Streams -> 0..CaptureLimit] /\ truncated' \in [Streams -> BOOLEAN]
           /\ capture'[s] \in Kept /\ captured'[s] = captured[s] + n
           /\ capture'[s] = "active" /\ Filled(s, captured[s]) => Filled(s, captured[s])'
           /\ \A z \in Streams \ {s} :
                /\ capture'[z] = capture[z] /\ captured'[z] = captured[z]
                /\ stored'[z] = stored[z] /\ truncated'[z] = truncated[z]
<1>1. PICK c \in Kept :
        /\ capture' = [capture EXCEPT ![s] = c]
        /\ captured' = [captured EXCEPT ![s] = @ + n]
        /\ stored' = IF c = "active" THEN [stored EXCEPT ![s] = @ + Selected(s, n)] ELSE stored
        /\ truncated' = [truncated EXCEPT ![s] = @ \/ n > Room(s)]
  BY DEF AppendBytes
<1>2. /\ capture \in [Streams -> Kinds] /\ captured \in [Streams -> Nat]
      /\ stored \in [Streams -> 0..CaptureLimit] /\ truncated \in [Streams -> BOOLEAN]
      /\ CaptureLimit \in Nat
  BY CaptureAssumption DEF IInv, TypeOK, Kinds
<1>3. stored[s] \in 0..CaptureLimit /\ stored[s] + Selected(s, n) \in 0..CaptureLimit
  BY <1>2 DEF Selected, Room
<1>4. /\ capture' \in [Streams -> Kinds] /\ captured' \in [Streams -> Nat]
      /\ stored' \in [Streams -> 0..CaptureLimit] /\ truncated' \in [Streams -> BOOLEAN]
  BY <1>1, <1>2, <1>3 DEF Kinds, Kept
<1>5. /\ capture'[s] = c /\ captured'[s] = captured[s] + n
      /\ c = "active" => stored'[s] = stored[s] + Selected(s, n)
      /\ truncated'[s] = (truncated[s] \/ n > Room(s))
  BY <1>1, <1>2
<1>6. \A z \in Streams \ {s} :
        /\ capture'[z] = capture[z] /\ captured'[z] = captured[z]
        /\ stored'[z] = stored[z] /\ truncated'[z] = truncated[z]
  BY <1>1, <1>2
<1>7. ASSUME c = "active", Filled(s, captured[s])
      PROVE  Filled(s, captured[s])'
  <2>1. captured[s] \in Nat /\ captured'[s] \in Nat
    BY <1>2, <1>4
  <2>2. /\ stored[s] = IF captured[s] <= CaptureLimit THEN captured[s] ELSE CaptureLimit
        /\ truncated[s] <=> captured[s] > CaptureLimit
    BY <1>7 DEF Filled
  <2>3. stored'[s] = IF captured'[s] <= CaptureLimit THEN captured'[s] ELSE CaptureLimit
    BY <1>2, <1>3, <1>5, <1>7, <2>1, <2>2 DEF Selected, Room
  <2>4. truncated'[s] <=> captured'[s] > CaptureLimit
    <3>1. n > Room(s) \/ captured[s] > CaptureLimit <=> captured'[s] > CaptureLimit
      BY <1>2, <1>3, <1>5, <2>1, <2>2 DEF Room
    <3> QED
      BY <1>5, <2>2, <3>1
  <2> QED
    BY <2>3, <2>4 DEF Filled
<1> QED
  BY <1>4, <1>5, <1>6, <1>7

\* What a spool has after one more chunk.
LEMMA SpoolKeeps ==
    ASSUME IInv, NEW s \in Streams, thread[s] = "store", Spool(s), UNCHANGED <<others, taken>>
    PROVE  /\ capture' \in [Streams -> Kinds] /\ captured' \in [Streams -> Nat]
           /\ stored' \in [Streams -> 0..CaptureLimit] /\ truncated' \in [Streams -> BOOLEAN]
           /\ reserved' \subseteq Streams /\ used' \in 0..Budget
           /\ used' = others' + CaptureLimit * Cardinality(reserved')
           /\ reserved' \subseteq reserved \cup {s}
           /\ \A z \in reserved' : capture'[z] \notin {"idle", "refused"}
           /\ \A z \in Streams \ {s} :
                /\ capture'[z] = capture[z] /\ captured'[z] = captured[z]
                /\ stored'[z] = stored[z] /\ truncated'[z] = truncated[z]
           /\ capture'[s] # "passed"
           /\ returned \/ ~Ended =>
                /\ capture'[s] = "idle" => capture[s] = "idle" /\ ~Overflows(s) /\ captured'[s] = 0
                /\ capture'[s] = "active" => captured'[s] = taken[s]
                /\ capture'[s] \in {"idle", "active"} => Filled(s, captured[s])'
<1>1. /\ capture \in [Streams -> Kinds]
      /\ captured \in [Streams -> Nat] /\ taken \in [Streams -> Nat] /\ chunk \in [Streams -> Nat]
      /\ stored \in [Streams -> 0..CaptureLimit] /\ truncated \in [Streams -> BOOLEAN]
      /\ chunk[s] <= taken[s] /\ reserved \subseteq Streams /\ used \in 0..Budget
      /\ used = others + CaptureLimit * Cardinality(reserved)
      /\ \A z \in reserved : capture[z] \notin {"idle", "refused"}
  BY DEF IInv, TypeOK, SpoolInv, BudgetInv, Kinds
<1>2. /\ Prefix(s) + chunk[s] = taken[s] /\ taken[s] \in Nat /\ chunk[s] \in Nat
      /\ captured[s] \in Nat
  BY <1>1 DEF Prefix
<1>3. capture[s] # "passed"
  BY Working DEF Threads
<1>4. returned \/ ~Ended =>
        /\ capture[s] = "idle" => captured[s] = 0
        /\ capture[s] = "active" => captured[s] + chunk[s] = taken[s]
        /\ capture[s] \in {"idle", "active"} => Filled(s, captured[s])
  BY <1>1, <1>2 DEF IInv, SpoolInv
<1>5. CASE /\ capture[s] = "idle"
           /\ \E c \in Kinds \ {"idle", "active", "passed"} : capture' = [capture EXCEPT ![s] = c]
           /\ UNCHANGED <<spools, reserved, used>>
  BY <1>1, <1>5 DEF Kinds, spools
<1>6. CASE /\ capture[s] = "idle" /\ Fits /\ AppendBytes(s, Prefix(s) + chunk[s])
           /\ reserved' = reserved \union {s} /\ used' = used + CaptureLimit
  <2>1. s \notin reserved
    BY <1>1, <1>6
  <2>2. /\ reserved' \subseteq Streams /\ used' \in 0..Budget
        /\ used' = others' + CaptureLimit * Cardinality(reserved')
    BY <1>6, <2>1, ReserveKeeps
  <2>3. AppendBytes(s, taken[s])
    BY <1>2, <1>6
  <2>4. /\ capture' \in [Streams -> Kinds] /\ captured' \in [Streams -> Nat]
        /\ stored' \in [Streams -> 0..CaptureLimit] /\ truncated' \in [Streams -> BOOLEAN]
        /\ capture'[s] \in Kept /\ captured'[s] = captured[s] + taken[s]
        /\ capture'[s] = "active" /\ Filled(s, captured[s]) => Filled(s, captured[s])'
        /\ \A z \in Streams \ {s} :
             /\ capture'[z] = capture[z] /\ captured'[z] = captured[z]
             /\ stored'[z] = stored[z] /\ truncated'[z] = truncated[z]
    BY <1>2, <2>3, AppendKeeps
  <2>5. returned \/ ~Ended => captured'[s] = taken[s]
    BY <1>2, <1>4, <1>6, <2>4
  <2> QED
    BY <1>1, <1>4, <1>6, <2>2, <2>4, <2>5 DEF Kept
<1>7. CASE capture[s] = "active" /\ AppendBytes(s, chunk[s]) /\ UNCHANGED <<reserved, used>>
  <2>1. /\ capture' \in [Streams -> Kinds] /\ captured' \in [Streams -> Nat]
        /\ stored' \in [Streams -> 0..CaptureLimit] /\ truncated' \in [Streams -> BOOLEAN]
        /\ capture'[s] \in Kept /\ captured'[s] = captured[s] + chunk[s]
        /\ capture'[s] = "active" /\ Filled(s, captured[s]) => Filled(s, captured[s])'
        /\ \A z \in Streams \ {s} :
             /\ capture'[z] = capture[z] /\ captured'[z] = captured[z]
             /\ stored'[z] = stored[z] /\ truncated'[z] = truncated[z]
    BY <1>2, <1>7, AppendKeeps
  <2> QED
    BY <1>1, <1>4, <1>7, <2>1 DEF Kept
<1>8. CASE /\ capture[s] \in {"refused", "lost", "spoilt"} \/ (capture[s] = "idle" /\ ~Overflows(s))
           /\ UNCHANGED captures
  <2>1. UNCHANGED <<capture, captured, stored, truncated, reserved, used>>
    BY <1>8 DEF captures, spools
  <2>2. Filled(s, captured[s]) => Filled(s, captured[s])'
    BY <2>1 DEF Filled
  <2> QED
    BY <1>1, <1>4, <1>8, <2>1, <2>2
<1> QED
  <2>1. CASE capture[s] = "idle" /\ Overflows(s) /\ Activate(s)
    <3>1. "refused" \in Kinds \ {"idle", "active", "passed"}
          /\ Kept \ {"active"} \subseteq Kinds \ {"idle", "active", "passed"}
      BY DEF Kinds, Kept
    <3> QED
      BY <1>5, <1>6, <2>1, <3>1 DEF Activate
  <2> QED
    BY <1>7, <1>8, <2>1 DEF Spool

LEMMA StoreKeeps ==
    ASSUME IInv, NEW s \in Streams, Store(s)
    PROVE  IInv'
<1>1. /\ thread[s] = "store" /\ Spool(s) /\ s \in Threads /\ "in" \notin Streams
      /\ thread' = [thread EXCEPT ![s] = "check"] /\ chunk' = [chunk EXCEPT ![s] = 0]
      /\ UNCHANGED <<processes, pipes, eof, readError, stop, others, caller, taken>>
  BY DEF Store, Threads, Streams, pipes
<1>2. /\ capture' \in [Streams -> Kinds] /\ captured' \in [Streams -> Nat]
      /\ stored' \in [Streams -> 0..CaptureLimit] /\ truncated' \in [Streams -> BOOLEAN]
      /\ reserved' \subseteq Streams /\ used' \in 0..Budget
      /\ used' = others' + CaptureLimit * Cardinality(reserved')
      /\ reserved' \subseteq reserved \cup {s}
      /\ \A z \in reserved' : capture'[z] \notin {"idle", "refused"}
      /\ \A z \in Streams \ {s} :
           /\ capture'[z] = capture[z] /\ captured'[z] = captured[z]
           /\ stored'[z] = stored[z] /\ truncated'[z] = truncated[z]
      /\ capture'[s] # "passed"
      /\ returned \/ ~Ended =>
           /\ capture'[s] = "idle" => capture[s] = "idle" /\ ~Overflows(s) /\ captured'[s] = 0
           /\ capture'[s] = "active" => captured'[s] = taken[s]
           /\ capture'[s] \in {"idle", "active"} => Filled(s, captured[s])'
  BY <1>1, SpoolKeeps
<1>3. /\ thread' \in [Threads -> {"new", "check", "select", "store", "done"}]
      /\ chunk' \in [Streams -> Nat] /\ chunk'[s] = 0 /\ thread'[s] = "check"
      /\ \A z \in Streams \ {s} : chunk'[z] = chunk[z]
      /\ \A z \in Threads \ {s} : thread'[z] = thread[z]
  BY <1>1 DEF IInv, TypeOK
<1>4. TypeOK'
  BY <1>1, <1>2, <1>3 DEF IInv, TypeOK, Kinds, processes, pipes, caller
<1>5. PipeInv'
  BY <1>1, <1>3 DEF IInv, PipeInv, Holders, Alive, Threads, processes, pipes
<1>6. SpoolInv'
  <2>1. /\ taken' = taken /\ taken \in [Streams -> Nat] /\ chunk \in [Streams -> Nat] /\ Limit \in Nat
        /\ (returned' \/ ~Ended') <=> (returned \/ ~Ended)
    BY <1>1, CaptureAssumption DEF IInv, TypeOK, pipes, caller, Ended
  <2>2. ASSUME NEW z \in Streams
        PROVE  chunk'[z] <= taken'[z] /\ (thread'[z] # "store" => chunk'[z] = 0)
    <3>1. chunk[z] <= taken[z] /\ (thread[z] # "store" => chunk[z] = 0)
      BY DEF IInv, SpoolInv
    <3> QED
      BY <1>1, <1>3, <2>1, <3>1 DEF Threads
  <2>3. ASSUME NEW z \in Streams, returned' \/ ~Ended'
        PROVE  /\ capture'[z] = "idle" => taken'[z] - chunk'[z] <= Limit /\ captured'[z] = 0
               /\ capture'[z] \in {"active", "passed"} => captured'[z] = taken'[z] - chunk'[z]
               /\ capture'[z] \in {"idle", "active", "passed"} => Filled(z, captured[z])'
    <3>1. /\ capture[z] = "idle" => taken[z] - chunk[z] <= Limit /\ captured[z] = 0
          /\ capture[z] \in {"active", "passed"} => captured[z] = taken[z] - chunk[z]
          /\ capture[z] \in {"idle", "active", "passed"} => Filled(z, captured[z])
      BY <2>1, <2>3 DEF IInv, SpoolInv
    <3>2. CASE z = s
      <4>1. capture'[s] = "idle" => taken[s] <= Limit
        BY <1>2, <2>1, <2>3, <3>1, <3>2 DEF Overflows
      <4> QED
        BY <1>2, <1>3, <2>1, <2>3, <3>2, <4>1
    <3>3. CASE z # s
      <4>1. Filled(z, captured[z]) => Filled(z, captured[z])'
        BY <1>2, <3>3 DEF Filled
      <4> QED
        BY <1>2, <1>3, <2>1, <3>1, <3>3, <4>1
    <3> QED
      BY <3>2, <3>3
  <2> QED
    BY <2>2, <2>3 DEF SpoolInv
<1>7. ThreadInv'
  <2>1. ~Settling /\ \A z \in Streams : capture[z] # "passed"
    BY <1>1, Working
  <2>2. ~Settling'
    BY <1>1, <1>2, <2>1 DEF Settling, caller
  <2> QED
    BY <2>2 DEF ThreadInv, Settling
<1>8. BudgetInv'
  <2>1. ASSUME pc' = "consumed" \/ (pc' = "end" /\ ~returned'), NEW z \in reserved'
        PROVE  thread'[z] \notin {"new", "done"}
    <3>1. CASE z = s
      BY <1>3, <3>1
    <3>2. CASE z # s
      <4>1. z \in reserved /\ z \in Threads
        BY <1>2, <3>2 DEF Threads
      <4>2. thread[z] \notin {"new", "done"}
        BY <1>1, <2>1, <4>1 DEF IInv, BudgetInv, caller
      <4> QED
        BY <1>3, <3>2, <4>1, <4>2
    <3> QED
      BY <3>1, <3>2
  <2> QED
    BY <1>2, <2>1 DEF BudgetInv
<1>9. GroupInv'
  BY <1>1, GroupFrame DEF processes, caller
<1> QED
  BY <1>4, <1>5, <1>6, <1>7, <1>8, <1>9 DEF IInv

LEMMA WriteKeeps ==
    ASSUME IInv, Write
    PROVE  IInv'
<1>1. /\ thread["in"] = "select" /\ "in" \in Threads /\ "in" \notin Streams
      /\ UNCHANGED <<processes, written, taken, chunk, eof, readError, stop, others, caller>>
  BY DEF Write, Threads, Streams
<1>2. CASE EndThread("in") /\ UNCHANGED <<pipe, left>>
  BY <1>1, <1>2, EndThreadKeeps DEF IInv, TypeOK
<1>3. CASE /\ thread' = [thread EXCEPT !["in"] = "check"]
           /\ UNCHANGED <<pipe, left, open, captures>>
  BY <1>1, <1>3, GoOn DEF pipes
<1>4. CASE /\ thread' = [thread EXCEPT !["in"] = "check"]
           /\ pipe["in"] < PipeCap /\ pipe' = [pipe EXCEPT !["in"] = @ + 1] /\ left' = left - 1
           /\ UNCHANGED <<open, captures>>
  <2>1. left > 0 /\ left \in 0..Payload /\ Payload \in Nat /\ PipeCap \in Nat
        /\ pipe \in [Threads -> 0..PipeCap]
        /\ thread \in [Threads -> {"new", "check", "select", "store", "done"}]
    BY <1>1, CaptureAssumption DEF IInv, PipeInv, TypeOK
  <2>2. /\ left' \in 0..Payload /\ pipe' \in [Threads -> 0..PipeCap]
        /\ thread' \in [Threads -> {"new", "check", "select", "store", "done"}]
        /\ thread'["in"] = "check"
        /\ \A s \in Streams : pipe'[s] = pipe[s] /\ thread'[s] = thread[s]
    BY <1>1, <1>4, <2>1 DEF Threads
  <2>3. TypeOK'
    BY <1>1, <1>4, <2>2 DEF IInv, TypeOK, processes, spools, captures, caller
  <2>4. PipeInv'
    BY <1>1, <2>2 DEF IInv, PipeInv, Holders, Alive, processes
  <2>5. SpoolInv'
    BY <1>1, <1>4, <2>2 DEF IInv, SpoolInv, Filled, Ended, spools, captures, caller
  <2>6. ThreadInv'
    <3>1. ~Settling'
      BY <1>1, <1>4, Working DEF Settling, captures, caller
    <3> QED
      BY <3>1 DEF ThreadInv, Settling
  <2>7. BudgetInv'
    <3>1. \A s \in reserved' : s \in Streams
      BY <2>3 DEF TypeOK
    <3> QED
      BY <1>1, <1>4, <2>2, <3>1 DEF IInv, BudgetInv, captures, caller
  <2>8. GroupInv'
    BY <1>1, GroupFrame DEF processes, caller
  <2> QED
    BY <2>3, <2>4, <2>5, <2>6, <2>7, <2>8 DEF IInv
<1> QED
  BY <1>1, <1>2, <1>3, <1>4 DEF Write

-----------------------------------------------------------------------------
(* The calling thread. *)

LEMMA StartThreadKeeps ==
    ASSUME IInv, StartThread
    PROVE  IInv'
<1>1. /\ pc = "start" /\ pc' \in {"start", "wait", "cleanup"}
      /\ UNCHANGED <<processes, pipes, chunk, eof, readError, stop, captures, others,
                     back, timedOut, returned, forced>>
      /\ \/ thread' = thread
         \/ \E t \in Threads : thread[t] = "new" /\ thread' = [thread EXCEPT ![t] = "check"]
  BY DEF StartThread
<1>2. /\ thread' \in [Threads -> {"new", "check", "select", "store", "done"}]
      /\ \A t \in Threads : thread'[t] = thread[t] \/ (thread[t] = "new" /\ thread'[t] = "check")
  BY <1>1 DEF IInv, TypeOK
<1>3. TypeOK'
  BY <1>1, <1>2 DEF IInv, TypeOK, processes, pipes, spools, captures, PCs
<1>4. PipeInv'
  <2>1. \A s \in Streams : thread[s] = "done" => thread'[s] = "done"
    BY <1>2 DEF Threads
  <2>2. thread'["in"] = "select" => thread["in"] = "select"
    BY <1>2 DEF Threads
  <2> QED
    BY <1>1, <2>1, <2>2 DEF IInv, PipeInv, Holders, Alive, processes, pipes
<1>5. SpoolInv'
  <2>1. \A s \in Streams : thread'[s] # "store" => thread[s] # "store"
    BY <1>2 DEF Threads
  <2> QED
    BY <1>1, <2>1 DEF IInv, SpoolInv, Filled, Ended, pipes, spools, captures
<1>6. ThreadInv'
  <2>1. ~Settling
    BY <1>1 DEF IInv, ThreadInv
  <2>2. ~Settling'
    BY <1>1, <2>1 DEF Settling, captures
  <2> QED
    BY <2>2 DEF ThreadInv, Settling
<1>7. BudgetInv'
  BY <1>1 DEF IInv, BudgetInv, captures
<1>8. GroupInv'
  BY <1>1 DEF IInv, GroupInv, processes
<1> QED
  BY <1>3, <1>4, <1>5, <1>6, <1>7, <1>8 DEF IInv

\* A step that hands nothing over, and is not the end of the call.
LEMMA CallerFrame ==
    ASSUME IInv, pc \notin {"end", "consumed"},
           pc' \in PCs \ {"start", "finishErr", "end", "consumed"},
           pc' = "finishOut" => EveryThreadEnded,
           life' \in [Procs -> {"unborn", "running", "killed", "exited"}],
           \A p \in Procs : life'[p] = life[p] \/ (life[p] = "running" /\ life'[p] = "killed"),
           open' \in [Threads -> BOOLEAN], back' \in {"reap", "stop", "lastJoin"},
           stop' \in BOOLEAN, timedOut' \in BOOLEAN, forced' \in BOOLEAN,
           UNCHANGED <<prog, group, deaf, foreign, holds, pipe, written, taken, left, workers, captures,
                       others, returned>>
    PROVE  TypeOK' /\ PipeInv' /\ SpoolInv' /\ ThreadInv' /\ BudgetInv'
<1> USE DEF workers, spools, captures
<1>1. TypeOK'
  BY DEF IInv, TypeOK
<1>2. PipeInv'
  BY StillEmpty DEF IInv, PipeInv
<1>3. SpoolInv'
  BY DEF IInv, SpoolInv, Filled, Ended
<1>4. ThreadInv'
  <2>1. Settling' => EveryThreadEnded
    BY DEF IInv, ThreadInv, Settling
  <2> QED
    BY <2>1 DEF IInv, ThreadInv, EveryThreadEnded
<1>5. BudgetInv'
  BY DEF IInv, BudgetInv
<1> QED
  BY <1>1, <1>2, <1>3, <1>4, <1>5

\* The same, without signals, descriptors or the history.
LEMMA PlainStep ==
    ASSUME IInv, pc \notin {"end", "consumed"},
           pc' \in PCs \ {"start", "finishErr", "end", "consumed"},
           pc' = "finishOut" => EveryThreadEnded,
           pc' \notin {"wait", "term", "grace", "cleanup"} =>
             life["leader"] # "running" \/ foreign["leader"],
           pc # "grace",
           back' \in {"reap", "stop", "lastJoin"}, stop' \in BOOLEAN, timedOut' \in BOOLEAN,
           open' \in [Threads -> BOOLEAN],
           UNCHANGED <<processes, pipe, written, taken, left, workers, captures, others, returned,
                       forced>>
    PROVE  IInv'
<1>1. life \in [Procs -> {"unborn", "running", "killed", "exited"}] /\ forced \in BOOLEAN
  BY DEF IInv, TypeOK
<1>2. TypeOK' /\ PipeInv' /\ SpoolInv' /\ ThreadInv' /\ BudgetInv'
  BY <1>1, CallerFrame DEF processes
<1>3. GroupInv'
  BY DEF IInv, GroupInv, processes
<1> QED
  BY <1>2, <1>3 DEF IInv

LEMMA WaitingKeeps ==
    ASSUME IInv, LeaderExits \/ Timeout \/ NotReaped \/ Cleanup
    PROVE  IInv'
<1> USE DEF Leave, PCs, pipes
<1>1. /\ back \in {"reap", "stop", "lastJoin"} /\ stop \in BOOLEAN /\ timedOut \in BOOLEAN
      /\ open \in [Threads -> BOOLEAN]
  BY DEF IInv, TypeOK
<1>2. CASE LeaderExits
  BY <1>1, <1>2, PlainStep DEF LeaderExits, Alive
<1>3. CASE Timeout
  BY <1>1, <1>3, PlainStep DEF Timeout
<1>4. CASE NotReaped
  BY <1>1, <1>4, PlainStep DEF NotReaped
<1>5. CASE Cleanup
  BY <1>1, <1>5, PlainStep DEF Cleanup, Alive
<1> QED
  BY <1>2, <1>3, <1>4, <1>5

LEMMA JoiningKeeps ==
    ASSUME IInv, Join \/ StopIO \/ Rejoin \/ LastJoin \/ Shut
    PROVE  IInv'
<1> USE DEF Leave, PCs, pipes
<1>1. /\ back \in {"reap", "stop", "lastJoin"} /\ stop \in BOOLEAN /\ timedOut \in BOOLEAN
      /\ open \in [Threads -> BOOLEAN] /\ [t \in Threads |-> FALSE] \in [Threads -> BOOLEAN]
  BY DEF IInv, TypeOK
<1>2. pc \in {"join", "stop", "rejoin", "lastJoin", "shut"} =>
        life["leader"] # "running" \/ foreign["leader"]
  BY DEF IInv, GroupInv
<1>3. CASE Join
  BY <1>1, <1>2, <1>3, PlainStep DEF Join
<1>4. CASE StopIO
  BY <1>1, <1>2, <1>4, PlainStep DEF StopIO
<1>5. CASE Rejoin
  BY <1>1, <1>2, <1>5, PlainStep DEF Rejoin
<1>6. CASE LastJoin
  BY <1>1, <1>2, <1>6, PlainStep DEF LastJoin
<1>7. CASE Shut
  BY <1>1, <1>2, <1>7, PlainStep DEF Shut
<1> QED
  BY <1>3, <1>4, <1>5, <1>6, <1>7

LEMMA Killing ==
    ASSUME IInv, NEW S, Kill(S)
    PROVE  /\ life' \in [Procs -> {"unborn", "running", "killed", "exited"}]
           /\ \A p \in Procs : life'[p] = life[p] \/ (life[p] = "running" /\ life'[p] = "killed")
           /\ \A p \in S \cap Procs : life'[p] # "running"
  BY DEF IInv, TypeOK, Kill

LEMMA SigTermKeeps ==
    ASSUME IInv, SigTerm
    PROVE  IInv'
<1>1. /\ life' \in [Procs -> {"unborn", "running", "killed", "exited"}]
      /\ \A p \in Procs : life'[p] = life[p] \/ (life[p] = "running" /\ life'[p] = "killed")
  BY Killing DEF SigTerm
<1>2. /\ pc = "term" /\ forced' = TRUE /\ pc' = (IF Reached = {} THEN back ELSE "grace")
      /\ UNCHANGED <<prog, group, deaf, foreign, holds, pipes, workers, stop, captures, others,
                     back, timedOut, returned>>
  BY DEF SigTerm
<1>3. /\ back \in {"reap", "stop", "lastJoin"} /\ stop \in BOOLEAN /\ timedOut \in BOOLEAN
      /\ open \in [Threads -> BOOLEAN]
  BY DEF IInv, TypeOK
<1>4. TypeOK' /\ PipeInv' /\ SpoolInv' /\ ThreadInv' /\ BudgetInv'
  <2>1. pc' \in {"grace", "reap", "stop", "lastJoin"}
    BY <1>2, <1>3
  <2>2. pc \notin {"end", "consumed"} /\ pc' \in PCs \ {"start", "finishErr", "end", "consumed"}
        /\ pc' # "finishOut"
    BY <1>2, <2>1 DEF PCs
  <2> QED
    BY <1>1, <1>2, <1>3, <2>2, CallerFrame DEF pipes
<1>5. GroupInv'
  <2>1. group["leader"] /\ life["leader"] # "unborn" /\ "leader" \in Procs
    BY DEF IInv, GroupInv, Procs
  <2>2. CASE Reached = {}
    <3>1. \A p \in Procs : group[p] => life[p] \notin {"running", "killed"} \/ foreign[p]
      BY <2>2 DEF Reached, Members, Alive
    <3> QED
      BY <1>1, <1>2, <2>1, <3>1 DEF GroupInv
  <2>3. CASE Reached # {}
    BY <1>1, <1>2, <2>1, <2>3 DEF GroupInv
  <2> QED
    BY <2>2, <2>3
<1> QED
  BY <1>4, <1>5 DEF IInv

LEMMA SigKillKeeps ==
    ASSUME IInv, SigKill
    PROVE  IInv'
<1>1. /\ life' \in [Procs -> {"unborn", "running", "killed", "exited"}]
      /\ \A p \in Procs : life'[p] = life[p] \/ (life[p] = "running" /\ life'[p] = "killed")
      /\ \A p \in Reached \cap Procs : life'[p] # "running"
  BY Killing DEF SigKill
<1>2. /\ pc = "grace" /\ pc' = back
      /\ UNCHANGED <<prog, group, deaf, foreign, holds, pipes, workers, stop, captures, others,
                     back, timedOut, returned, forced>>
  BY DEF SigKill, Leave
<1>3. /\ back \in {"reap", "stop", "lastJoin"} /\ stop \in BOOLEAN /\ timedOut \in BOOLEAN
      /\ open \in [Threads -> BOOLEAN] /\ forced \in BOOLEAN
  BY DEF IInv, TypeOK
<1>4. TypeOK' /\ PipeInv' /\ SpoolInv' /\ ThreadInv' /\ BudgetInv'
  <2>1. pc \notin {"end", "consumed"} /\ pc' \in PCs \ {"start", "finishErr", "end", "consumed"}
        /\ pc' # "finishOut"
    BY <1>2, <1>3 DEF PCs
  <2> QED
    BY <1>1, <1>2, <1>3, <2>1, CallerFrame DEF pipes
<1>5. GroupInv'
  <2>1. \A p \in Procs : group[p] => life'[p] # "running" \/ foreign[p]
    BY <1>1 DEF Reached, Members, Alive
  <2>2. group["leader"] /\ life["leader"] # "unborn" /\ "leader" \in Procs
    BY DEF IInv, GroupInv, Procs
  <2> QED
    BY <1>1, <1>2, <2>1, <2>2 DEF GroupInv
<1> QED
  BY <1>4, <1>5 DEF IInv

\* What finish() leaves of a capture.
LEMMA HandKeeps ==
    ASSUME IInv, NEW s \in Streams, NEW next, Hand(s, next), UNCHANGED others
    PROVE  /\ capture' \in [Streams -> {"idle", "active", "refused", "lost", "spoilt", "passed"}]
           /\ UNCHANGED <<captured, stored, truncated>>
           /\ reserved' \subseteq reserved /\ used' \in 0..Budget
           /\ used' = others' + CaptureLimit * Cardinality(reserved')
           /\ \A z \in Streams \ {s} : capture'[z] = capture[z]
           /\ capture'[s] \in Harmless \/ (capture'[s] = "spoilt" /\ capture[s] \notin Harmless)
           /\ capture'[s] = "idle" => capture[s] = "idle"
           /\ capture'[s] = "refused" => capture[s] = "refused"
           /\ capture'[s] = "passed" => capture[s] = "active"
           /\ pc' \in {next, "cleanup"} /\ (capture'[s] = "spoilt" => pc' = "cleanup")
<1>1. /\ capture \in [Streams -> {"idle", "active", "refused", "lost", "spoilt", "passed"}]
      /\ used \in 0..Budget /\ used = others + CaptureLimit * Cardinality(reserved)
  BY DEF IInv, TypeOK, BudgetInv
<1>2. CASE capture[s] \in {"idle", "refused"} /\ pc' = next /\ UNCHANGED captures
  BY <1>1, <1>2 DEF captures, spools, Harmless
<1>3. CASE /\ capture[s] = "active" /\ pc' = next
           /\ capture' = [capture EXCEPT ![s] = "passed"]
           /\ UNCHANGED <<spools, reserved, used>>
  BY <1>1, <1>3 DEF spools, Harmless
<1>4. CASE \E failure \in {"lost", "spoilt"} :
             /\ capture[s] \in {"active", failure}
             /\ capture' = [capture EXCEPT ![s] = failure] /\ Release({s})
             /\ pc' = IF failure = "spoilt" THEN "cleanup" ELSE next
             /\ UNCHANGED spools
  <2>1. /\ reserved' \subseteq reserved /\ used' \in 0..Budget
        /\ used' = others' + CaptureLimit * Cardinality(reserved')
    BY <1>4, ReleaseKeeps
  <2> QED
    BY <1>1, <1>4, <2>1 DEF spools, Harmless
<1> QED
  BY <1>2, <1>3, <1>4 DEF Hand

LEMMA FinishKeeps ==
    ASSUME IInv, NEW s \in Streams, NEW next \in {"finishErr", "cleanup"}, Hand(s, next),
           pc \in {"finishOut", "finishErr"}, returned' \in BOOLEAN,
           returned' => returned \/ \A z \in Streams : capture'[z] \in Harmless,
           next = "finishErr" => s = "out",
           UNCHANGED <<processes, pipes, workers, stop, others, back, timedOut, forced>>
    PROVE  IInv'
<1> USE DEF processes, pipes, workers
<1>1. /\ capture' \in [Streams -> {"idle", "active", "refused", "lost", "spoilt", "passed"}]
      /\ UNCHANGED <<captured, stored, truncated>>
      /\ reserved' \subseteq reserved /\ used' \in 0..Budget
      /\ used' = others' + CaptureLimit * Cardinality(reserved')
      /\ \A z \in Streams \ {s} : capture'[z] = capture[z]
      /\ capture'[s] \in Harmless \/ (capture'[s] = "spoilt" /\ capture[s] \notin Harmless)
      /\ capture'[s] = "idle" => capture[s] = "idle"
      /\ capture'[s] = "refused" => capture[s] = "refused"
      /\ capture'[s] = "passed" => capture[s] = "active"
      /\ pc' \in {next, "cleanup"} /\ (capture'[s] = "spoilt" => pc' = "cleanup")
  BY HandKeeps
<1>2. EveryThreadEnded /\ EveryThreadEnded'
  BY DEF IInv, ThreadInv, Settling, EveryThreadEnded
<1>3. pc' \in PCs /\ pc' \notin {"start", "end", "consumed"} /\ pc \notin {"end", "consumed"}
  BY <1>1 DEF PCs
<1>4. TypeOK'
  BY <1>1, <1>3 DEF IInv, TypeOK
<1>5. PipeInv'
  BY DEF IInv, PipeInv, Holders, Alive
<1>6. SpoolInv'
  <2>1. ASSUME NEW z \in Streams
        PROVE  /\ capture'[z] = "idle" => taken[z] - chunk[z] <= Limit /\ captured'[z] = 0
               /\ capture'[z] \in {"active", "passed"} => captured'[z] = taken[z] - chunk[z]
               /\ capture'[z] \in {"idle", "active", "passed"} => Filled(z, captured[z])'
    <3>1. /\ capture[z] = "idle" => taken[z] - chunk[z] <= Limit /\ captured[z] = 0
          /\ capture[z] \in {"active", "passed"} => captured[z] = taken[z] - chunk[z]
          /\ capture[z] \in {"idle", "active", "passed"} => Filled(z, captured[z])
      BY <1>3 DEF IInv, SpoolInv, Ended
    <3>4. Filled(z, captured[z]) => Filled(z, captured[z])'
      BY <1>1 DEF Filled
    <3>2. CASE z = s
      BY <1>1, <3>1, <3>2, <3>4 DEF Harmless
    <3>3. CASE z # s
      BY <1>1, <3>1, <3>3, <3>4
    <3> QED
      BY <3>2, <3>3
  <2> QED
    BY <2>1 DEF IInv, SpoolInv
<1>7. ThreadInv'
  <2>1. pc' = "finishErr" => capture'["out"] \in Harmless
    BY <1>1
  <2>2. returned' => \A z \in Streams : capture'[z] \in Harmless
    <3>1. returned => \A z \in Streams : capture[z] \in Harmless
      BY DEF IInv, ThreadInv
    <3> QED
      BY <1>1, <3>1
  <2> QED
    BY <1>2, <1>3, <2>1, <2>2 DEF ThreadInv
<1>8. BudgetInv'
  <2>1. reserved \subseteq Streams /\ \A z \in reserved : capture[z] \notin {"idle", "refused"}
    BY DEF IInv, BudgetInv, TypeOK
  <2>2. \A z \in reserved' : capture'[z] \notin {"idle", "refused"}
    BY <1>1, <2>1
  <2> QED
    BY <1>1, <1>3, <2>2 DEF BudgetInv
<1>9. GroupInv'
  BY <1>1 DEF IInv, GroupInv
<1> QED
  BY <1>4, <1>5, <1>6, <1>7, <1>8, <1>9 DEF IInv

LEMMA FinishOutKeeps ==
    ASSUME IInv, FinishOut
    PROVE  IInv'
<1>1. returned \in BOOLEAN
  BY DEF IInv, TypeOK
<1> QED
  BY <1>1, FinishKeeps DEF FinishOut, Streams

LEMMA FinishErrKeeps ==
    ASSUME IInv, FinishErr
    PROVE  IInv'
<1>1. /\ Hand("err", "cleanup") /\ pc = "finishErr" /\ returned' = (capture'["err"] # "spoilt")
      /\ UNCHANGED <<processes, pipes, workers, stop, others, back, timedOut, forced>>
      /\ "err" \in Streams
  BY DEF FinishErr, Streams
<1>2. /\ \A z \in Streams \ {"err"} : capture'[z] = capture[z]
      /\ capture'["err"] \in Harmless \/ capture'["err"] = "spoilt"
  BY <1>1, HandKeeps
<1>3. capture["out"] \in Harmless
  BY <1>1 DEF IInv, ThreadInv
<1>4. returned' => \A z \in Streams : capture'[z] \in Harmless
  BY <1>1, <1>2, <1>3 DEF Streams
<1>5. returned' \in BOOLEAN
  BY <1>1
<1> QED
  BY <1>1, <1>4, <1>5, FinishKeeps

LEMMA DropKeeps ==
    ASSUME IInv, Drop
    PROVE  IInv'
<1>1. /\ pc = "drop" /\ pc' = "end" /\ Release(Dropped)
      /\ capture' = [s \in Streams |-> IF capture[s] = "active" THEN "idle" ELSE capture[s]]
      /\ UNCHANGED <<processes, pipes, workers, stop, spools, others, back, timedOut, returned,
                     forced>>
  BY DEF Drop, Leave
<1>2. /\ reserved' = reserved \ Dropped /\ reserved' \subseteq Streams /\ used' \in 0..Budget
      /\ used' = others' + CaptureLimit * Cardinality(reserved')
  BY <1>1, ReleaseKeeps
<1>3. \A s \in Streams : capture'[s] = IF capture[s] = "active" THEN "idle" ELSE capture[s]
  BY <1>1
<1>4. returned => \A s \in Streams : capture'[s] = capture[s] /\ capture[s] # "active"
  BY <1>3 DEF IInv, ThreadInv, Harmless
<1>5. TypeOK'
  <2>1. capture' \in [Streams -> {"idle", "active", "refused", "lost", "spoilt", "passed"}]
    BY <1>1 DEF IInv, TypeOK
  <2> QED
    BY <1>1, <1>2, <2>1 DEF IInv, TypeOK, processes, pipes, workers, spools, PCs
<1>6. PipeInv'
  BY <1>1 DEF IInv, PipeInv, Holders, Alive, processes, pipes, workers
<1>7. SpoolInv'
  <2>1. Ended'
    BY <1>1 DEF Ended
  <2> QED
    BY <1>1, <1>3, <1>4, <2>1 DEF IInv, SpoolInv, Filled, Ended, processes, pipes, workers, spools
<1>8. ThreadInv'
  <2>1. Settling' => EveryThreadEnded
    BY <1>1, <1>3 DEF IInv, ThreadInv, Settling
  <2>2. returned' => \A s \in Streams : capture'[s] \in Harmless
    BY <1>1, <1>4 DEF IInv, ThreadInv
  <2> QED
    BY <1>1, <2>1, <2>2 DEF ThreadInv, EveryThreadEnded, workers
<1>9. BudgetInv'
  <2>1. \A s \in reserved' : capture'[s] \notin {"idle", "refused"}
    BY <1>2, <1>3 DEF Dropped
  <2>2. ~returned' => reserved' = {}
    BY <1>1, <1>2 DEF Dropped
  <2> QED
    BY <1>1, <1>2, <2>1, <2>2 DEF BudgetInv
<1>10. GroupInv'
  BY <1>1 DEF IInv, GroupInv, processes
<1> QED
  BY <1>5, <1>6, <1>7, <1>8, <1>9, <1>10 DEF IInv

LEMMA ConsumeKeeps ==
    ASSUME IInv, Consume
    PROVE  IInv'
<1>1. /\ pc = "end" /\ pc' = "consumed" /\ returned /\ Release(Streams)
      /\ UNCHANGED <<processes, pipes, workers, stop, capture, spools, others, back, timedOut,
                     returned, forced>>
  BY DEF Consume, Leave
<1>2. /\ reserved' = {} /\ used' \in 0..Budget
      /\ used' = others' + CaptureLimit * Cardinality(reserved')
  BY <1>1, ReleaseKeeps DEF IInv, TypeOK
<1>3. TypeOK'
  BY <1>1, <1>2 DEF IInv, TypeOK, processes, pipes, workers, spools, PCs
<1>4. PipeInv'
  BY <1>1 DEF IInv, PipeInv, Holders, Alive, processes, pipes, workers
<1>5. SpoolInv'
  BY <1>1 DEF IInv, SpoolInv, Filled, Ended, processes, pipes, workers, spools
<1>6. ThreadInv'
  BY <1>1 DEF IInv, ThreadInv, Settling, EveryThreadEnded, workers
<1>7. BudgetInv'
  BY <1>2 DEF BudgetInv
<1>8. GroupInv'
  BY <1>1 DEF IInv, GroupInv, processes
<1> QED
  BY <1>3, <1>4, <1>5, <1>6, <1>7, <1>8 DEF IInv

LEMMA StutterKeeps ==
    ASSUME IInv, UNCHANGED vars
    PROVE  IInv'
<1> USE DEF vars, processes, pipes, workers, spools, captures, caller
<1>1. TypeOK'
  BY DEF IInv, TypeOK
<1>2. PipeInv' /\ SpoolInv' /\ BudgetInv' /\ GroupInv'
  BY DEF IInv, PipeInv, SpoolInv, Filled, BudgetInv, GroupInv, Holders, Alive, Ended
<1>3. ThreadInv'
  BY DEF IInv, ThreadInv, Settling, EveryThreadEnded
<1> QED
  BY <1>1, <1>2, <1>3 DEF IInv

-----------------------------------------------------------------------------
LEMMA Inductive == IInv /\ [Next]_vars => IInv'
<1> SUFFICES ASSUME IInv, [Next]_vars PROVE IInv'
  OBVIOUS
<1>1. CASE Fork
  BY <1>1, ForkKeeps
<1>2. ASSUME NEW p \in Procs, Process(p) PROVE IInv'
  BY <1>2, WriteOutKeeps, ReadInKeeps, PrepareKeeps, ExitKeeps DEF Process
<1>3. ASSUME NEW t \in Threads, Worker(t) PROVE IInv'
  BY <1>3, CheckKeeps, ReadKeeps, StoreKeeps, WriteKeeps DEF Worker
<1>4. CASE Timeout
  BY <1>4, WaitingKeeps
<1>5. CASE Caller
  BY <1>5, StartThreadKeeps, WaitingKeeps, SigTermKeeps, SigKillKeeps, JoiningKeeps,
     FinishOutKeeps, FinishErrKeeps, DropKeeps, ConsumeKeeps DEF Caller
<1>6. CASE UNCHANGED vars
  BY <1>6, StutterKeeps
<1> QED
  BY <1>1, <1>2, <1>3, <1>4, <1>5, <1>6 DEF Next

LEMMA Always == Spec => []IInv
  BY Initially, Inductive, PTL DEF Spec

\* The variables keep their types: no thread, pipe or reservation gets into a
\* state that _collect_spawned_process and its threads do not provide for.
THEOREM TypeCorrect == Spec => []TypeOK
<1>1. IInv => TypeOK
  BY DEF IInv
<1> QED
  BY <1>1, Always, PTL

\* pipe_complete is the truth: whatever the processes write, close, fork or
\* leave behind, a stream that a result calls complete was read to its end.
THEOREM CompleteIsDrained == Spec => []CompleteMeansDrained
<1>1. IInv => CompleteMeansDrained
  <2> SUFFICES ASSUME IInv, NEW s \in Streams, returned, Complete(s)
               PROVE  taken[s] = written[s] /\ \A p \in Procs : Alive(p) => s \notin holds[p]
    BY DEF CompleteMeansDrained
  <2>1. written[s] = taken[s] + pipe[s] /\ pipe[s] = 0 /\ Holders(s) = {} /\ taken[s] \in Nat
    BY DEF IInv, PipeInv, TypeOK, Complete
  <2> QED
    BY <2>1 DEF Holders
<1> QED
  BY <1>1, Always, PTL

\* What a result does not show of an output is in its spool as far as a spool
\* may hold it, and the spool says when it had to stop; or a reason says why
\* there is none (_CaptureBuffer).
THEOREM OverflowAccounted == Spec => []OverflowIsAccounted
<1>1. IInv => OverflowIsAccounted
  <2> SUFFICES ASSUME IInv, NEW s \in Streams, returned, taken[s] > Limit, Ended
               PROVE  \/ /\ capture[s] = "passed" /\ captured[s] = taken[s]
                         /\ IF taken[s] <= CaptureLimit
                              THEN stored[s] = taken[s] /\ ~truncated[s]
                              ELSE stored[s] = CaptureLimit /\ truncated[s]
                      \/ capture[s] \in {"refused", "lost"}
    BY DEF OverflowIsAccounted
  <2>1. thread[s] # "store" /\ capture[s] \in Harmless
    BY DEF IInv, ThreadInv, Settling, EveryThreadEnded, Threads
  <2>2. chunk[s] = 0 /\ taken[s] \in Nat /\ Limit \in Nat /\ CaptureLimit \in Nat
    BY <2>1, CaptureAssumption DEF IInv, SpoolInv, TypeOK
  <2>3. CASE capture[s] = "passed"
    <3>1. captured[s] = taken[s] /\ Filled(s, captured[s])
      BY <2>2, <2>3 DEF IInv, SpoolInv
    <3> QED
      BY <2>2, <2>3, <3>1 DEF Filled
  <2>4. capture[s] # "idle"
    BY <2>2 DEF IInv, SpoolInv
  <2> QED
    BY <2>1, <2>3, <2>4 DEF Harmless
<1> QED
  BY <1>1, Always, PTL

\* A call ends without its leader, and without the rest of a group it had to
\* terminate, whoever ignores SIGTERM, but for those the kernel does not let it
\* signal (_terminate_group and its three callers).
THEOREM NoneSurvive == Spec => []NoSurvivors
<1>1. IInv => NoSurvivors
  <2> SUFFICES ASSUME IInv, Ended
               PROVE  /\ life["leader"] \in {"killed", "exited"} \/ foreign["leader"]
                      /\ forced => \A p \in Members : life[p] = "killed" \/ foreign[p]
    BY DEF NoSurvivors
  <2>1. life["leader"] \in {"killed", "exited"} \/ foreign["leader"]
    BY DEF IInv, TypeOK, GroupInv, Ended, Procs
  <2>2. forced => \A p \in Members : life[p] = "killed" \/ foreign[p]
    BY DEF IInv, GroupInv, Ended, Members, Alive
  <2> QED
    BY <2>1, <2>2
<1> QED
  BY <1>1, Always, PTL

\* The transient capture budget is exact, and a call gives its share back, also
\* when it fails and when a reader outlives it (_release_capture).
THEOREM BudgetReturned == Spec => []BudgetIsReturned
<1>1. IInv => BudgetIsReturned
  <2> SUFFICES ASSUME IInv
               PROVE  /\ used = others + CaptureLimit * Cardinality(reserved)
                      /\ Settled => reserved = {}
    BY DEF BudgetIsReturned
  <2>1. ASSUME Settled, NEW s \in reserved
        PROVE  FALSE
    BY <2>1 DEF IInv, TypeOK, BudgetInv, Settled, EveryThreadEnded, Threads
  <2> QED
    BY <2>1 DEF IInv, BudgetInv
<1> QED
  BY <1>1, Always, PTL
=============================================================================
