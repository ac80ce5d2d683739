--------------------------- MODULE AgentMapProofs ---------------------------
(***************************************************************************)
(* Theorems about AgentMap, for any number of packets, workers, tokens and *)
(* kills.                                                                  *)
(***************************************************************************)
EXTENDS AgentMap, FiniteSetTheorems, WellFoundedInduction, TLAPS

Answered == {"answered", "written", "returned"}

\* Threads exist only for the uncollected packets of a wave; a packet that is
\* completed is neither among them nor pending.
WaveInv ==
    /\ wave # {} => pc = "wave"
    /\ wave \cap todo = {}
    /\ \A k \in Packets : thread[k] # "idle" => k \in wave
    /\ \A k \in Packets : Completed(k) => k \notin wave /\ k \notin todo

\* Only an answer has a usage, and it is within the wave's cap.
TokenInv ==
    \A k \in Packets : tokens[k] <= cap /\ (thread[k] \notin Answered => tokens[k] = 0)

\* Where the answers are, from the thread to the table.
KeptInv ==
    /\ \A k \in Packets : thread[k] = "returned" \/ Completed(k) => output[k] = "recorded"
    /\ \A k \in done : Completed(k)
    /\ \A k \in paid : Completed(k) \/ thread[k] \in Answered
    /\ pc = "finished" => done = Packets
    /\ pc # "out" => step = "running"
    /\ step = "completed" => \A k \in Packets : Completed(k)

IInv == TypeOK /\ WaveInv /\ TokenInv /\ KeptInv /\ WithinBudget

-----------------------------------------------------------------------------
(* Arithmetic of the shares. *)

LEMMA Least ==
    ASSUME NEW S \in SUBSET Nat, S # {}
    PROVE  \E x \in S : \A y \in S : ~(y < x)
<1>1. IsWellFoundedOn(OpToRel(<, Nat), Nat)
  BY NatLessThanWellFounded
<1>2. PICK x \in S : \A y \in S : ~(<<y, x>> \in OpToRel(<, Nat))
  BY <1>1, WFMin
<1> QED
  BY <1>2 DEF OpToRel

LEMMA Division ==
    ASSUME NEW r \in Nat, NEW n \in Nat \ {0}
    PROVE  r \div n \in Nat /\ (r \div n) * n <= r
  OBVIOUS

LEMMA SmallerFactor ==
    ASSUME NEW a \in Nat, NEW b \in Nat, NEW n \in Nat, a <= b
    PROVE  a * n <= b * n
  OBVIOUS

LEMMA OneLess ==
    ASSUME NEW c \in Nat, NEW t \in Nat, NEW n \in Nat \ {0}, t <= c
    PROVE  t + c * (n - 1) <= c * n
  OBVIOUS

LEMMA PacketSets ==
    ASSUME NEW S \in SUBSET Packets
    PROVE  /\ IsFiniteSet(S) /\ Cardinality(S) \in Nat
           /\ Cardinality(S) = 0 <=> S = {}
<1>1. IsFiniteSet(Packets)
  BY MapAssumption, FS_Interval DEF Packets
<1>2. IsFiniteSet(S)
  BY <1>1, FS_Subset
<1> QED
  BY <1>2, FS_CardinalityType, FS_EmptySet

\* A wave is not empty while packets are pending.
LEMMA WaveNotEmpty ==
    ASSUME TypeOK, todo # {}
    PROVE  Wave \in SUBSET todo /\ Wave # {}
<1>1. todo \in SUBSET Nat
  BY DEF TypeOK, Packets
<1>2. PICK k \in todo : \A j \in todo : ~(j < k)
  BY <1>1, Least
<1>3. {j \in todo : j < k} = {}
  BY <1>2
<1>4. Cardinality({j \in todo : j < k}) < Workers
  BY <1>3, FS_EmptySet, MapAssumption
<1> QED
  BY <1>2, <1>4 DEF Wave

\* The shares of n calls fit into what is left.
LEMMA ShareFits ==
    ASSUME NEW n \in Nat \ {0}, used \in Nat, used <= TotalCap
    PROVE  Share(n) \in Nat /\ used + Share(n) * n <= TotalCap
<1> DEFINE r == TotalCap - used
           q == r \div n
<1>1. r \in Nat /\ PerCall \in Nat /\ TotalCap \in Nat
  BY MapAssumption
<1>2. q \in Nat /\ q * n <= r
  BY <1>1, Division
<1>3. Share(n) = IF q < PerCall THEN q ELSE PerCall
  BY DEF Share
<1>4. Share(n) \in Nat /\ Share(n) <= q
  BY <1>1, <1>2, <1>3
<1>5. Share(n) * n <= q * n
  BY <1>2, <1>4, SmallerFactor
<1>6. Share(n) * n \in Nat /\ q * n \in Nat
  BY <1>2, <1>4
<1> HIDE DEF q
<1> QED
  BY <1>1, <1>2, <1>4, <1>5, <1>6
-----------------------------------------------------------------------------
LEMMA Initially == Init => IInv
<1> SUFFICES ASSUME Init PROVE IInv
  OBVIOUS
<1> USE MapAssumption DEF Init, NoLocals
<1>1. TypeOK
  <2>1. at \in 1..(NumPackets + 1) /\ crashes \in 0..MaxCrashes
    OBVIOUS
  <2>2. table \in [Packets -> Records]
    BY DEF Records, NoRecord
  <2>3. tokens \in [Packets -> Nat] /\ used \in Nat /\ cap \in Nat
    OBVIOUS
  <2> QED
    BY <2>1, <2>2, <2>3 DEF TypeOK
<1>2. \A k \in Packets : ~Completed(k)
  BY DEF Completed, NoRecord
<1>3. WaveInv
  BY <1>2 DEF WaveInv
<1>4. TokenInv
  BY DEF TokenInv
<1>5. KeptInv
  BY <1>2 DEF KeptInv
<1> QED
  BY <1>1, <1>3, <1>4, <1>5 DEF IInv, WithinBudget

\* The end of an execution, normal or not, forgets its locals.
LEMMA EndKeeps ==
    ASSUME IInv, ResetLocals, pc' = "out", UNCHANGED <<table, output>>,
           step' \in {"running", "failed", "completed"},
           step' = "completed" => pc = "finished",
           crashes' \in 0..MaxCrashes,
           paid' = {} \/ (paid' = paid /\ pc \notin {"wave", "out"})
    PROVE  IInv'
<1> USE DEF IInv, ResetLocals
<1>1. TypeOK'
  <2>1. at' \in 1..(NumPackets + 1)
    BY MapAssumption
  <2>2. tokens' \in [Packets -> Nat] /\ used' \in Nat /\ cap' \in Nat
    OBVIOUS
  <2>3. paid' \subseteq Packets
    BY DEF TypeOK
  <2> QED
    BY <2>1, <2>2, <2>3 DEF TypeOK
<1>2. \A k \in Packets : Completed(k)' <=> Completed(k)
  BY DEF Completed
<1>3. WaveInv'
  BY <1>2 DEF WaveInv
<1>4. TokenInv'
  BY DEF TokenInv
<1>5. KeptInv'
  <2>1. \A k \in Packets : thread'[k] # "returned"
    OBVIOUS
  <2>2. pc \notin {"wave", "out"} => \A k \in Packets : thread[k] = "idle"
    BY DEF WaveInv
  <2>3. \A k \in paid' : Completed(k)'
    BY <1>2, <2>2 DEF KeptInv, Answered, TypeOK
  <2>4. step' = "completed" => \A k \in Packets : Completed(k)'
    BY <1>2 DEF KeptInv
  <2> QED
    BY <1>2, <2>1, <2>3, <2>4 DEF KeptInv
<1>6. WithinBudget'
  BY DEF WithinBudget
<1> QED
  BY <1>1, <1>3, <1>4, <1>5, <1>6

\* A thread's step leaves everything but its own thread, tokens and output.
LEMMA ThreadKeeps ==
    ASSUME IInv, NEW k \in Packets, Thread(k)
    PROVE  IInv'
<1> USE DEF IInv
<1>1. /\ thread[k] \in {"submitted", "running", "answered", "written"}
      /\ \A j \in Packets : j # k =>
            thread'[j] = thread[j] /\ tokens'[j] = tokens[j] /\ output'[j] = output[j]
      /\ thread'[k] \in {"running", "answered", "written", "returned", "failed"}
      /\ UNCHANGED <<step, table, pc, locals, crashes>>
  BY DEF Thread, Launch, Answer, NoAnswer, WriteOutput, IndexOutput, TypeOK, durable, threads
<1>2. k \in wave /\ ~Completed(k)
  BY <1>1 DEF WaveInv
<1>3. TypeOK'
  BY <1>1 DEF Thread, Launch, Answer, NoAnswer, WriteOutput, IndexOutput, TypeOK,
              durable, locals, threads
<1>4. \A j \in Packets : Completed(j)' <=> Completed(j)
  BY <1>1 DEF Completed
<1>5. WaveInv'
  BY <1>1, <1>2, <1>4 DEF WaveInv, locals
<1>6. TokenInv'
  <2>1. cap' = cap
    BY <1>1 DEF locals
  <2>2. tokens'[k] <= cap /\ (thread'[k] \notin Answered => tokens'[k] = 0)
    BY <1>1 DEF Thread, Launch, Answer, NoAnswer, WriteOutput, IndexOutput, TypeOK, TokenInv,
                durable, threads, Answered
  <2> QED
    BY <1>1, <2>1, <2>2 DEF TokenInv
<1>7. KeptInv'
  <2>1. thread'[k] = "returned" => output'[k] = "recorded"
    BY <1>1 DEF Thread, Launch, Answer, NoAnswer, WriteOutput, IndexOutput, TypeOK
  <2>2. \A j \in Packets : thread'[j] = "returned" \/ Completed(j)' => output'[j] = "recorded"
    BY <1>1, <1>2, <1>4, <2>1 DEF KeptInv
  <2>3. k \in paid' => thread'[k] \in Answered
    BY <1>1, <1>2 DEF Thread, Launch, Answer, NoAnswer, WriteOutput, IndexOutput, TypeOK,
                       KeptInv, Answered
  <2>4. paid' \subseteq paid \union {k}
    BY DEF Thread, Launch, Answer, NoAnswer, WriteOutput, IndexOutput
  <2>5. paid \subseteq Packets /\ done \subseteq Packets
    BY DEF TypeOK
  <2>6. \A j \in paid' : Completed(j)' \/ thread'[j] \in Answered
    BY <1>1, <1>4, <2>3, <2>4, <2>5 DEF KeptInv
  <2> QED
    BY <1>1, <1>4, <2>2, <2>5, <2>6 DEF KeptInv, locals
<1>8. WithinBudget'
  BY <1>1 DEF WithinBudget, locals
<1> QED
  BY <1>3, <1>5, <1>6, <1>7, <1>8
LEMMA NoWave ==
    ASSUME IInv, pc # "wave"
    PROVE  /\ wave = {} /\ cap * Cardinality(wave) = 0
           /\ \A k \in Packets : thread[k] = "idle" /\ tokens[k] = 0
<1>1. wave = {} /\ cap \in Nat
  BY DEF IInv, WaveInv, TypeOK
<1>2. Cardinality(wave) = 0
  BY <1>1, FS_EmptySet
<1> QED
  BY <1>1, <1>2 DEF IInv, WaveInv, TokenInv, Answered

\* The steps of the main thread that change no more than where it is.
LEMMA MovesKeep ==
    ASSUME IInv, StartInterrupted \/ Start \/ Loaded \/ BudgetExhausted \/ Finish
    PROVE  IInv'
<1> USE DEF IInv
<1>1. CASE StartInterrupted
  <2>1. TypeOK'
    BY <1>1 DEF StartInterrupted, TypeOK, durable, locals, threads
  <2>2. WaveInv'
    BY <1>1 DEF StartInterrupted, WaveInv, Completed, durable, locals, threads
  <2>3. TokenInv'
    BY <1>1 DEF StartInterrupted, TokenInv, durable, locals, threads
  <2>4. KeptInv'
    BY <1>1 DEF StartInterrupted, KeptInv, Completed, durable, locals, threads
  <2>5. WithinBudget'
    BY <1>1 DEF StartInterrupted, WithinBudget, durable, locals, threads
  <2> QED
    BY <2>1, <2>2, <2>3, <2>4, <2>5
<1>2. CASE Start
  <2>1. TypeOK'
    BY <1>2 DEF Start, TypeOK, durable, locals, threads
  <2>2. WaveInv'
    BY <1>2 DEF Start, WaveInv, Completed, durable, locals, threads
  <2>3. TokenInv'
    BY <1>2 DEF Start, TokenInv, durable, locals, threads
  <2>4. KeptInv'
    BY <1>2 DEF Start, KeptInv, Completed, durable, locals, threads
  <2>5. WithinBudget'
    BY <1>2 DEF Start, WithinBudget, durable, locals, threads
  <2> QED
    BY <2>1, <2>2, <2>3, <2>4, <2>5
<1>3. CASE Loaded
  <2>1. TypeOK'
    BY <1>3 DEF Loaded, TypeOK, durable, locals, threads
  <2>2. WaveInv'
    BY <1>3 DEF Loaded, WaveInv, Completed, durable, locals, threads
  <2>3. TokenInv'
    BY <1>3 DEF Loaded, TokenInv, durable, locals, threads
  <2>4. KeptInv'
    BY <1>3 DEF Loaded, KeptInv, Completed, durable, locals, threads
  <2>5. WithinBudget'
    <3>1. pc # "wave" /\ used \in Nat /\ TotalCap \in Nat
      BY <1>3, MapAssumption DEF Loaded, TypeOK
    <3>2. cap * Cardinality(wave) = 0
      BY <3>1, NoWave
    <3> QED
      BY <1>3, <3>1, <3>2 DEF Loaded, WithinBudget, durable, locals
  <2> QED
    BY <2>1, <2>2, <2>3, <2>4, <2>5
<1>4. CASE BudgetExhausted
  <2>1. TypeOK'
    BY <1>4 DEF BudgetExhausted, TypeOK, durable, locals, threads
  <2>2. WaveInv'
    BY <1>4 DEF BudgetExhausted, WaveInv, Completed, durable, locals, threads
  <2>3. TokenInv'
    BY <1>4 DEF BudgetExhausted, TokenInv, durable, locals, threads
  <2>4. KeptInv'
    BY <1>4 DEF BudgetExhausted, KeptInv, Completed, durable, locals, threads
  <2>5. WithinBudget'
    BY <1>4 DEF BudgetExhausted, WithinBudget, durable, locals, threads
  <2> QED
    BY <2>1, <2>2, <2>3, <2>4, <2>5
<1>5. CASE Finish
  <2>1. TypeOK'
    BY <1>5 DEF Finish, TypeOK, durable, locals, threads
  <2>2. WaveInv'
    BY <1>5 DEF Finish, WaveInv, Completed, durable, locals, threads
  <2>3. TokenInv'
    BY <1>5 DEF Finish, TokenInv, durable, locals, threads
  <2>4. KeptInv'
    BY <1>5 DEF Finish, KeptInv, Completed, durable, locals, threads
  <2>5. WithinBudget'
    BY <1>5 DEF Finish, WithinBudget, durable, locals, threads
  <2> QED
    BY <2>1, <2>2, <2>3, <2>4, <2>5
<1> QED
  BY <1>1, <1>2, <1>3, <1>4, <1>5

LEMMA LookUpKeeps ==
    ASSUME IInv, LookUp
    PROVE  IInv'
<1> USE DEF IInv
<1>1. pc = "loading" /\ pc' \in {"loading", "raising"} /\ at \in Packets
  BY DEF LookUp
<1>2. /\ used' \in Nat /\ at' \in 1..(NumPackets + 1)
      /\ done' \subseteq Packets /\ todo' \subseteq Packets
  <2>1. table[at].charged \in Nat
    BY <1>1 DEF TypeOK, Records
  <2> QED
    BY <1>1, <2>1, MapAssumption DEF LookUp, TypeOK, Packets
<1>3. TypeOK'
  BY <1>1, <1>2 DEF LookUp, TypeOK, durable, threads
<1>4. WaveInv'
  BY <1>1 DEF LookUp, WaveInv, Completed, IsCached, durable, threads
<1>5. TokenInv'
  BY DEF LookUp, TokenInv, durable, threads
<1>6. KeptInv'
  BY <1>1 DEF LookUp, KeptInv, Completed, IsCached, durable, threads
<1>7. WithinBudget'
  BY <1>1 DEF WithinBudget
<1> QED
  BY <1>3, <1>4, <1>5, <1>6, <1>7

LEMMA BeginWaveKeeps ==
    ASSUME IInv, BeginWave
    PROVE  IInv'
<1> USE DEF IInv
<1> DEFINE n == Cardinality(Wave)
<1>1. /\ Wave \subseteq todo /\ Wave # {} /\ todo \subseteq Packets
      /\ n \in Nat \ {0}
  <2>1. TypeOK /\ todo # {}
    BY DEF BeginWave
  <2>2. Wave \in SUBSET todo /\ Wave # {}
    BY <2>1, WaveNotEmpty
  <2> QED
    BY <2>1, <2>2, PacketSets DEF TypeOK
<1>2. Share(n) \in Nat /\ used + Share(n) * n <= TotalCap
  <2>1. pc = "waves" /\ used \in Nat /\ TotalCap \in Nat
    BY MapAssumption DEF BeginWave, TypeOK
  <2>2. used <= TotalCap
    BY <2>1, NoWave DEF WithinBudget
  <2> QED
    BY <1>1, <2>1, <2>2, ShareFits
<1>3. /\ wave' = Wave /\ cap' = Share(n) /\ todo' = todo \ Wave
      /\ pc = "waves" /\ pc' = "wave"
      /\ UNCHANGED <<durable, at, used, done, tokens, paid, crashes>>
  BY DEF BeginWave
<1>4. \A k \in Packets : /\ thread[k] = "idle" /\ tokens[k] = 0
                          /\ thread'[k] = IF k \in Wave THEN "submitted" ELSE "idle"
  BY <1>3, NoWave DEF BeginWave
<1>5. TypeOK'
  <2>1. thread' \in [Packets -> {"idle", "submitted", "running", "answered", "written",
                                "returned", "failed"}]
    BY DEF BeginWave, TypeOK
  <2> QED
    BY <1>1, <1>2, <1>3, <2>1 DEF BeginWave, TypeOK, durable
<1>6. WaveInv'
  BY <1>1, <1>3, <1>4 DEF WaveInv, Completed, durable
<1>7. TokenInv'
  BY <1>2, <1>3, <1>4 DEF TokenInv
<1>8. KeptInv'
  BY <1>3, <1>4 DEF KeptInv, Completed, durable, TypeOK, Answered
<1>9. WithinBudget'
  BY <1>2, <1>3 DEF WithinBudget
<1> QED
  BY <1>5, <1>6, <1>7, <1>8, <1>9

LEMMA EndWaveKeeps ==
    ASSUME IInv, EndWave
    PROVE  IInv'
<1> USE DEF IInv
<1>1. wave = {} /\ wave' = {} /\ cap' = 0 /\ Cardinality(wave) = 0
  BY FS_EmptySet DEF EndWave, WaveIsOver
<1>2. \A k \in Packets : thread[k] = "idle" /\ tokens[k] = 0
  BY <1>1 DEF WaveInv, TokenInv, Answered
<1>3. TypeOK'
  BY DEF EndWave, TypeOK, durable, threads
<1>4. WaveInv'
  BY <1>1 DEF EndWave, WaveInv, Completed, durable, threads
<1>5. TokenInv'
  BY <1>1, <1>2 DEF EndWave, TokenInv, threads
<1>6. KeptInv'
  BY DEF EndWave, KeptInv, Completed, durable, threads
<1>7. WithinBudget'
  <2>1. used \in Nat /\ cap \in Nat /\ used' = used /\ pc = "wave"
    BY DEF EndWave, TypeOK
  <2> QED
    BY <1>1, <2>1 DEF WithinBudget
<1> QED
  BY <1>3, <1>4, <1>5, <1>6, <1>7
\* One packet fewer in the wave, one usage more among the charged.
LEMMA OneCollected ==
    ASSUME TypeOK, NEW k \in wave, NEW t \in Nat, t <= cap
    PROVE  /\ t + cap * Cardinality(wave \ {k}) <= cap * Cardinality(wave)
           /\ cap * Cardinality(wave) \in Nat
           /\ cap * Cardinality(wave \ {k}) \in Nat
<1>1. IsFiniteSet(wave) /\ Cardinality(wave) \in Nat \ {0} /\ cap \in Nat
  BY PacketSets DEF TypeOK
<1>2. Cardinality(wave \ {k}) = Cardinality(wave) - 1
  BY <1>1, FS_RemoveElement
<1> DEFINE n == Cardinality(wave)
<1>3. t + cap * (n - 1) <= cap * n
  BY <1>1, OneLess
<1>4. cap * n \in Nat /\ cap * (n - 1) \in Nat
  BY <1>1
<1> QED
  BY <1>2, <1>3, <1>4

LEMMA CollectResultKeeps ==
    ASSUME IInv, NEW k \in Packets, CollectResult(k)
    PROVE  IInv'
<1> USE DEF IInv
<1>1. /\ pc = "wave" /\ k \in wave /\ thread[k] = "returned" /\ output[k] = "recorded"
      /\ tokens[k] \in Nat /\ tokens[k] <= cap
  BY DEF CollectResult, Returned, TypeOK, TokenInv, KeptInv
<1>2. table' = [table EXCEPT ![k] = [status |-> "completed", charged |-> tokens[k]]]
  BY DEF CollectResult, CompletedRecord
<1>3. \A j \in Packets : Completed(j)' <=> Completed(j) \/ j = k
  BY <1>2 DEF Completed, TypeOK
<1>4. TypeOK'
  <2>1. table' \in [Packets -> Records]
    BY <1>1, <1>2 DEF TypeOK, Records
  <2>2. used' \in Nat /\ tokens' \in [Packets -> Nat]
    BY <1>1 DEF CollectResult, TypeOK
  <2>3. done' \subseteq Packets /\ wave' \subseteq Packets
    BY DEF CollectResult, TypeOK
  <2>4. thread' \in [Packets -> {"idle", "submitted", "running", "answered", "written",
                                "returned", "failed"}]
    BY DEF CollectResult, TypeOK
  <2> QED
    BY <2>1, <2>2, <2>3, <2>4 DEF CollectResult, TypeOK
<1>5. WaveInv'
  BY <1>1, <1>3 DEF CollectResult, WaveInv, TypeOK
<1>6. TokenInv'
  BY <1>1 DEF CollectResult, TokenInv, TypeOK
<1>7. KeptInv'
  BY <1>1, <1>3 DEF CollectResult, KeptInv, TypeOK
<1>8. WithinBudget'
  <2>1. /\ tokens[k] + cap * Cardinality(wave \ {k}) <= cap * Cardinality(wave)
        /\ cap * Cardinality(wave) \in Nat /\ cap * Cardinality(wave \ {k}) \in Nat
    BY <1>1, OneCollected
  <2>2. used \in Nat /\ TotalCap \in Nat /\ used + cap * Cardinality(wave) <= TotalCap
    BY <1>1, MapAssumption DEF TypeOK, WithinBudget
  <2>3. used' = used + tokens[k] /\ cap' = cap /\ wave' = wave \ {k}
    BY DEF CollectResult
  <2> QED
    BY <1>1, <2>1, <2>2, <2>3 DEF WithinBudget
<1> QED
  BY <1>4, <1>5, <1>6, <1>7, <1>8

LEMMA CollectFailureKeeps ==
    ASSUME IInv, NEW k \in Packets, CollectFailure(k)
    PROVE  IInv'
<1> USE DEF IInv
<1>1. pc = "wave" /\ k \in wave /\ thread[k] = "failed" /\ tokens[k] = 0 /\ ~Completed(k)
  BY DEF CollectFailure, TokenInv, WaveInv, Answered
<1>2. \A j \in Packets : Completed(j)' <=> Completed(j)
  BY <1>1 DEF CollectFailure, FailedRecord, Completed, TypeOK
<1>3. TypeOK'
  <2>1. table' \in [Packets -> Records]
    BY DEF CollectFailure, FailedRecord, TypeOK, Records
  <2>2. thread' \in [Packets -> {"idle", "submitted", "running", "answered", "written",
                                "returned", "failed"}]
    BY DEF CollectFailure, TypeOK
  <2> QED
    BY <2>1, <2>2 DEF CollectFailure, TypeOK
<1>4. WaveInv'
  BY <1>1, <1>2 DEF CollectFailure, WaveInv, TypeOK
<1>5. TokenInv'
  BY <1>1 DEF CollectFailure, TokenInv, TypeOK
<1>6. KeptInv'
  BY <1>1, <1>2 DEF CollectFailure, KeptInv, TypeOK, Answered
<1>7. WithinBudget'
  <2>1. cap \in Nat /\ 0 <= cap
    BY DEF TypeOK
  <2>2. /\ 0 + cap * Cardinality(wave \ {k}) <= cap * Cardinality(wave)
        /\ cap * Cardinality(wave) \in Nat /\ cap * Cardinality(wave \ {k}) \in Nat
    BY <1>1, <2>1, OneCollected
  <2>3. used \in Nat /\ TotalCap \in Nat /\ used + cap * Cardinality(wave) <= TotalCap
    BY <1>1, MapAssumption DEF TypeOK, WithinBudget
  <2>4. used' = used /\ cap' = cap /\ wave' = wave \ {k}
    BY DEF CollectFailure
  <2> QED
    BY <1>1, <2>2, <2>3, <2>4 DEF WithinBudget
<1> QED
  BY <1>3, <1>4, <1>5, <1>6, <1>7

-----------------------------------------------------------------------------
LEMMA Invariants == Spec => []IInv
<1>1. IInv /\ [Next]_vars => IInv'
  <2> SUFFICES ASSUME IInv, [Next]_vars PROVE IInv'
    OBVIOUS
  <2>1. CASE StartInterrupted \/ Start \/ Loaded \/ BudgetExhausted \/ Finish
    BY <2>1, MovesKeep
  <2>2. CASE LookUp
    BY <2>2, LookUpKeeps
  <2>3. CASE BeginWave
    BY <2>3, BeginWaveKeeps
  <2>4. CASE EndWave
    BY <2>4, EndWaveKeeps
  <2>5. CASE Complete
    <3>1. crashes' \in 0..MaxCrashes
      BY <2>5 DEF Complete, IInv, TypeOK
    <3> QED
      BY <2>5, <3>1, EndKeeps DEF Complete
  <2>6. CASE Raise
    <3>1. crashes' \in 0..MaxCrashes
      BY <2>6 DEF Raise, IInv, TypeOK
    <3> QED
      BY <2>6, <3>1, EndKeeps DEF Raise
  <2>7. CASE Crash
    <3>1. crashes' \in 0..MaxCrashes
      BY <2>7, MapAssumption DEF Crash, IInv, TypeOK
    <3>2. step' = "running"
      BY <2>7 DEF Crash, IInv, KeptInv, durable
    <3> QED
      BY <2>7, <3>1, <3>2, EndKeeps DEF Crash, durable
  <2>8. CASE \E k \in Packets : CollectResult(k) \/ CollectFailure(k)
    BY <2>8, CollectResultKeeps, CollectFailureKeeps
  <2>9. CASE \E k \in Packets : Thread(k)
    BY <2>9, ThreadKeeps
  <2>10. CASE UNCHANGED vars
    BY <2>10 DEF IInv, TypeOK, WaveInv, TokenInv, KeptInv, WithinBudget, Completed, vars,
                 durable, locals, threads
  <2> QED
    BY <2>1, <2>2, <2>3, <2>4, <2>5, <2>6, <2>7, <2>8, <2>9, <2>10 DEF Next, Execute, Main
<1> QED
  BY <1>1, Initially, PTL DEF Spec

\* The map step keeps its types.
THEOREM TypeCorrect == Spec => []TypeOK
<1>1. IInv => TypeOK
  BY DEF IInv
<1> QED
  BY <1>1, Invariants, PTL

\* However many packets run at once, fail, and are run again after kills: the
\* tokens charged and those the calls under way may still use stay within
\* max_total_tokens (_agent_map, runner.py:408-414).
THEOREM BudgetHolds == Spec => []WithinBudget
<1>1. IInv => WithinBudget
  BY DEF IInv
<1> QED
  BY <1>1, Invariants, PTL

\* No execution calls a completed packet again or touches its record or its
\* output (_agent_map, runner.py:397-407).
THEOREM PacketsStay == Spec => CompletedPacketsStay
<1> DEFINE Stay == \A k \in Packets : Completed(k) =>
                      /\ table'[k] = table[k] /\ output'[k] = output[k]
                      /\ thread'[k] = "idle"
<1>1. IInv /\ IInv' /\ [Next]_vars => Stay
  <2> SUFFICES ASSUME IInv, IInv', [Next]_vars, NEW k \in Packets, Completed(k)
               PROVE  /\ table'[k] = table[k] /\ output'[k] = output[k]
                      /\ thread'[k] = "idle"
    OBVIOUS
  <2>1. k \notin wave /\ thread[k] = "idle"
    BY DEF IInv, WaveInv
  <2>2. table'[k] = table[k]
    BY <2>1 DEF Next, Execute, Main, Thread, StartInterrupted, Start, LookUp, Loaded, BeginWave,
       BudgetExhausted, EndWave, Finish, Complete, Raise, CollectResult, CollectFailure, Crash,
       Launch, Answer, NoAnswer, WriteOutput, IndexOutput, vars, durable, IInv, TypeOK
  <2>3. output'[k] = output[k]
    BY <2>1 DEF Next, Execute, Main, Thread, StartInterrupted, Start, LookUp, Loaded, BeginWave,
       BudgetExhausted, EndWave, Finish, Complete, Raise, CollectResult, CollectFailure, Crash,
       Launch, Answer, NoAnswer, WriteOutput, IndexOutput, vars, durable, IInv, TypeOK
  <2>4. Completed(k)'
    BY <2>2 DEF Completed
  <2>5. thread'[k] = "idle"
    BY <2>4 DEF IInv, WaveInv
  <2> QED
    BY <2>2, <2>3, <2>5
<1>2. Spec => [][Stay]_vars
  BY <1>1, Invariants, PTL DEF Spec
<1> QED
  BY <1>2 DEF CompletedPacketsStay

\* What the table calls completed has an output the index knows, and a map
\* that says it is completed has every packet.
THEOREM CompletedReadable == Spec => []CompletedIsReadable
<1>1. IInv => CompletedIsReadable
  BY DEF IInv, KeptInv, CompletedIsReadable
<1> QED
  BY <1>1, Invariants, PTL

\* An execution that ends by itself has saved every answer it got, whichever
\* packet failed and in whatever order they ended.
THEOREM AnswersKept == Spec => []PaidWorkIsKept
<1>1. IInv => PaidWorkIsKept
  <2> SUFFICES ASSUME IInv, pc = "out" PROVE \A k \in paid : Completed(k)
    BY DEF PaidWorkIsKept
  <2>1. \A k \in Packets : thread[k] = "idle"
    BY DEF IInv, WaveInv
  <2> QED
    BY <2>1 DEF IInv, KeptInv, TypeOK, Answered
<1> QED
  BY <1>1, Invariants, PTL

-----------------------------------------------------------------------------
(***************************************************************************)
(* The sum over the packet table.  Charged is a fold over a set, a         *)
(* recursive function: that it is defined, and does not depend on the      *)
(* order in which CHOOSE takes the packets, is by induction on the size of *)
(* the set, as the absence of a least counterexample.                      *)
(***************************************************************************)
Taken(s) == CHOOSE k \in s : TRUE

Sums(t) == CHOOSE sum : sum = [s \in SUBSET Packets |->
              IF s = {} THEN 0 ELSE t[Taken(s)].charged + sum[s \ {Taken(s)}]]

LEMMA ChargedIsSum == Charged = Sums(table)[Packets]
  BY DEF Charged, MapThenSumSet, MapThenFoldSet, Sums, Taken

LEMMA TakenIn ==
    ASSUME NEW s \in SUBSET Packets, s # {}
    PROVE  /\ Taken(s) \in s /\ s \ {Taken(s)} \in SUBSET Packets
           /\ Cardinality(s) \in Nat \ {0}
           /\ \A k \in s : Cardinality(s \ {k}) = Cardinality(s) - 1
<1>1. Taken(s) \in s
  BY DEF Taken
<1>2. IsFiniteSet(s) /\ Cardinality(s) \in Nat \ {0}
  BY PacketSets
<1> QED
  BY <1>1, <1>2, FS_RemoveElement

LEMMA SumsDefined ==
    ASSUME NEW t \in [Packets -> Records]
    PROVE  Sums(t) = [s \in SUBSET Packets |->
              IF s = {} THEN 0 ELSE t[Taken(s)].charged + Sums(t)[s \ {Taken(s)}]]
<1> DEFINE Small(n) == {s \in SUBSET Packets : s # {} /\ Cardinality(s) <= n}
           Upto(F, n) == /\ F \in [SUBSET Packets -> Nat] /\ F[{}] = 0
                         /\ \A s \in Small(n) :
                               F[s] = t[Taken(s)].charged + F[s \ {Taken(s)}]
           Missing == {n \in Nat : ~\E F : Upto(F, n)}
<1>1. Missing = {}
  <2> SUFFICES ASSUME Missing # {} PROVE FALSE
    OBVIOUS
  <2>1. PICK n \in Missing : \A m \in Missing : ~(m < n)
    <3>1. Missing \in SUBSET Nat
      OBVIOUS
    <3> QED
      BY <3>1, Least
  <2>2. n # 0
    <3> DEFINE Z == [s \in SUBSET Packets |-> 0]
    <3>1. Small(0) = {}
      BY TakenIn
    <3>2. Upto(Z, 0)
      BY <3>1
    <3> QED
      BY <3>2
  <2>3. n - 1 \in Nat /\ n - 1 \notin Missing
    <3>1. n \in Nat
      BY <2>1
    <3>2. n - 1 \in Nat /\ n - 1 < n
      BY <2>2, <3>1
    <3> QED
      BY <2>1, <3>2
  <2>4. PICK F : Upto(F, n - 1)
    BY <2>3
  <2> DEFINE G == [s \in SUBSET Packets |->
                     IF s = {} \/ Cardinality(s) <= n - 1 THEN F[s]
                     ELSE t[Taken(s)].charged + F[s \ {Taken(s)}]]
  <2>5. ASSUME NEW s \in SUBSET Packets, s # {}
        PROVE  t[Taken(s)].charged + F[s \ {Taken(s)}] \in Nat
    BY <2>4, <2>5, TakenIn DEF Records
  <2>6. G \in [SUBSET Packets -> Nat] /\ G[{}] = 0
    BY <2>4, <2>5
  <2>7. ASSUME NEW s \in Small(n)
        PROVE  G[s] = t[Taken(s)].charged + G[s \ {Taken(s)}]
    <3> DEFINE r == s \ {Taken(s)}
    <3>1. r \in SUBSET Packets /\ Cardinality(r) = Cardinality(s) - 1 /\ Cardinality(s) \in Nat
      BY TakenIn
    <3>2. G[r] = F[r]
      BY <2>7, <2>3, <3>1
    <3>3. G[s] = t[Taken(s)].charged + F[r]
      BY <2>4, <2>7
    <3> QED
      BY <3>2, <3>3
  <2>8. Upto(G, n)
    BY <2>6, <2>7
  <2> QED
    BY <2>8
<1>2. PICK F : Upto(F, NumPackets)
  BY <1>1, MapAssumption
<1>3. \A s \in SUBSET Packets : s # {} => s \in Small(NumPackets)
  <2>1. IsFiniteSet(Packets) /\ Cardinality(Packets) = NumPackets
    BY MapAssumption, FS_Interval DEF Packets
  <2> QED
    BY <2>1, FS_Subset, MapAssumption
<1>4. F = [s \in SUBSET Packets |->
              IF s = {} THEN 0 ELSE t[Taken(s)].charged + F[s \ {Taken(s)}]]
  BY <1>2, <1>3
<1> QED
  BY <1>4 DEF Sums

\* Any packet may be taken out first.
LEMMA SumsRemove ==
    ASSUME NEW t \in [Packets -> Records], NEW s \in SUBSET Packets
    PROVE  /\ Sums(t)[s] \in Nat /\ Sums(t)[{}] = 0
           /\ \A k \in s : Sums(t)[s] = t[k].charged + Sums(t)[s \ {k}]
<1> DEFINE F == Sums(t)
           Holds(r) == /\ F[r] \in Nat
                       /\ \A k \in r : F[r] = t[k].charged + F[r \ {k}]
           Bad == {Cardinality(r) : r \in {r \in SUBSET Packets : ~Holds(r)}}
<1>1. F[{}] = 0 /\ \A r \in SUBSET Packets :
                      r # {} => F[r] = t[Taken(r)].charged + F[r \ {Taken(r)}]
  BY SumsDefined
<1> HIDE DEF F
<1>2. Bad = {}
  <2> SUFFICES ASSUME Bad # {} PROVE FALSE
    OBVIOUS
  <2>1. PICK n \in Bad : \A m \in Bad : ~(m < n)
    <3>1. Bad \in SUBSET Nat
      BY PacketSets
    <3> QED
      BY <3>1, Least
  <2>2. PICK r \in SUBSET Packets : ~Holds(r) /\ Cardinality(r) = n
    BY <2>1
  <2>3. r # {}
    <3>1. Holds({})
      BY <1>1
    <3> QED
      BY <2>2, <3>1
  <2> DEFINE x == Taken(r)
  <2>4. x \in r /\ Cardinality(r) \in Nat \ {0}
        /\ \A k \in r : r \ {k} \in SUBSET Packets /\ Cardinality(r \ {k}) < n
    BY <2>2, <2>3, TakenIn
  <2>5. \A k \in r : Holds(r \ {k})
    BY <2>1, <2>4
  <2>6. F[r] = t[x].charged + F[r \ {x}]
    BY <1>1, <2>3
  <2>7. \A k \in r : t[k].charged \in Nat
    BY DEF Records
  <2> HIDE DEF x
  <2>8. ASSUME NEW k \in r, k # x
        PROVE  F[r] = t[k].charged + F[r \ {k}]
    <3>1. F[r \ {x}] = t[k].charged + F[(r \ {x}) \ {k}]
      BY <2>4, <2>5, <2>8
    <3>2. F[r \ {k}] = t[x].charged + F[(r \ {k}) \ {x}]
      BY <2>4, <2>5, <2>8
    <3>3. (r \ {x}) \ {k} = (r \ {k}) \ {x}
      OBVIOUS
    <3>4. F[(r \ {x}) \ {k}] \in Nat
      <4>1. (r \ {x}) \ {k} \in SUBSET Packets /\ Cardinality((r \ {x}) \ {k}) < n
        <5>1. k \in r \ {x} /\ r \ {x} \in SUBSET Packets
          BY <2>4, <2>8
        <5>2. Cardinality(r \ {x}) \in Nat \ {0}
              /\ Cardinality((r \ {x}) \ {k}) = Cardinality(r \ {x}) - 1
          BY <5>1, TakenIn
        <5> QED
          BY <2>2, <2>4, <5>1, <5>2
      <4>2. Holds((r \ {x}) \ {k})
        BY <2>1, <4>1
      <4> QED
        BY <4>2
    <3>5. x \in r /\ t[x].charged \in Nat /\ t[k].charged \in Nat
      BY <2>4, <2>7, <2>8
    <3> DEFINE rest == F[(r \ {x}) \ {k}]
    <3>6. F[r] = t[x].charged + (t[k].charged + rest)
      BY <2>6, <3>1
    <3>7. F[r \ {k}] = t[x].charged + rest
      BY <3>2, <3>3
    <3>8. rest \in Nat
      BY <3>4
    <3> HIDE DEF rest
    <3> QED
      BY <3>5, <3>6, <3>7, <3>8
  <2>9. F[r] \in Nat
    <3>1. t[x].charged \in Nat /\ F[r \ {x}] \in Nat
      BY <2>4, <2>5, <2>7
    <3> QED
      BY <2>6, <3>1
  <2> QED
    BY <2>2, <2>6, <2>8, <2>9
<1>3. Holds(s)
  BY <1>2
<1> QED
  BY <1>1, <1>3 DEF F

\* A new record changes the sum by the difference of what the two charge.
LEMMA SumsChange ==
    ASSUME NEW t \in [Packets -> Records], NEW u \in [Packets -> Records], NEW k \in Packets,
           \A j \in Packets \ {k} : u[j].charged = t[j].charged
    PROVE  Sums(u)[Packets] = Sums(t)[Packets] - t[k].charged + u[k].charged
<1> DEFINE Bad == {Cardinality(r) : r \in {r \in SUBSET (Packets \ {k}) : Sums(u)[r] # Sums(t)[r]}}
<1>1. Bad = {}
  <2> SUFFICES ASSUME Bad # {} PROVE FALSE
    OBVIOUS
  <2>1. PICK n \in Bad : \A m \in Bad : ~(m < n)
    <3>1. Bad \in SUBSET Nat
      BY PacketSets
    <3> QED
      BY <3>1, Least
  <2>2. PICK r \in SUBSET (Packets \ {k}) : Sums(u)[r] # Sums(t)[r] /\ Cardinality(r) = n
    BY <2>1
  <2>3. r # {}
    BY <2>2, SumsRemove
  <2> DEFINE x == Taken(r)
  <2>4. x \in r /\ Cardinality(r) \in Nat \ {0} /\ Cardinality(r \ {x}) = n - 1
    BY <2>2, <2>3, TakenIn
  <2> HIDE DEF x
  <2>5. Sums(u)[r \ {x}] = Sums(t)[r \ {x}]
    <3>1. r \ {x} \in SUBSET (Packets \ {k}) /\ n - 1 < n
      BY <2>2, <2>4
    <3>2. n - 1 \notin Bad
      BY <2>1, <3>1
    <3> QED
      BY <2>4, <3>1, <3>2
  <2>6. /\ Sums(u)[r] = u[x].charged + Sums(u)[r \ {x}]
        /\ Sums(t)[r] = t[x].charged + Sums(t)[r \ {x}]
    <3>1. r \in SUBSET Packets
      BY <2>2
    <3> QED
      BY <2>4, <3>1, SumsRemove
  <2>7. u[x].charged = t[x].charged
    BY <2>2, <2>4
  <2> QED
    BY <2>2, <2>5, <2>6, <2>7
<1>2. Sums(u)[Packets \ {k}] = Sums(t)[Packets \ {k}]
  BY <1>1
<1>3. /\ Sums(u)[Packets] = u[k].charged + Sums(u)[Packets \ {k}]
      /\ Sums(t)[Packets] = t[k].charged + Sums(t)[Packets \ {k}]
      /\ Sums(t)[Packets \ {k}] \in Nat
  BY SumsRemove
<1>4. u[k].charged \in Nat /\ t[k].charged \in Nat
  BY DEF Records
<1> QED
  BY <1>2, <1>3, <1>4

-----------------------------------------------------------------------------
\* The ledger: only a completed packet is charged, the packets looked up so
\* far are what this execution has used, and the table has room for it.
LedgerInv ==
    /\ \A k \in Packets : ~Completed(k) => table[k].charged = 0
    /\ pc = "out" => at = 1 /\ used = 0
    /\ pc = "loading" => used = Sums(table)[1..(at - 1)]
    /\ pc \in {"waves", "wave"} => used = Charged
    /\ Charged <= TotalCap

\* A new record of one packet moves the total by the difference.
LEMMA ChargedChanges ==
    ASSUME TypeOK, TypeOK', NEW k \in Packets, NEW r \in Records,
           table' = [table EXCEPT ![k] = r]
    PROVE  Charged \in Nat /\ Charged' = Charged - table[k].charged + r.charged
<1>1. table \in [Packets -> Records] /\ table' \in [Packets -> Records]
  BY DEF TypeOK
<1>2. Sums(table')[Packets] = Sums(table)[Packets] - table[k].charged + r.charged
  <2>1. table'[k] = r /\ \A j \in Packets \ {k} : table'[j].charged = table[j].charged
    BY <1>1
  <2> QED
    BY <1>1, <2>1, SumsChange
<1>3. Charged' = Sums(table')[Packets]
  BY ChargedIsSum DEF Charged, MapThenSumSet, MapThenFoldSet, Sums, Taken
<1>4. Sums(table)[Packets] \in Nat
  BY <1>1, SumsRemove
<1> QED
  BY <1>2, <1>3, <1>4, ChargedIsSum

LEMMA LedgerInit == Init => LedgerInv
<1> SUFFICES ASSUME Init PROVE LedgerInv
  OBVIOUS
<1>1. table = [k \in Packets |-> NoRecord] /\ pc = "out" /\ at = 1 /\ used = 0
  BY DEF Init, NoLocals
<1>2. table \in [Packets -> Records] /\ \A k \in Packets : table[k].charged = 0
  BY <1>1 DEF Records, NoRecord
<1> DEFINE Bad == {Cardinality(s) : s \in {s \in SUBSET Packets : Sums(table)[s] # 0}}
<1>3. Bad = {}
  <2> SUFFICES ASSUME Bad # {} PROVE FALSE
    OBVIOUS
  <2>1. PICK n \in Bad : \A m \in Bad : ~(m < n)
    <3>1. Bad \in SUBSET Nat
      BY PacketSets
    <3> QED
      BY <3>1, Least
  <2>2. PICK s \in SUBSET Packets : Sums(table)[s] # 0 /\ Cardinality(s) = n
    BY <2>1
  <2>3. s # {}
    BY <1>2, <2>2, SumsRemove
  <2>4. PICK k \in s : Cardinality(s \ {k}) = n - 1 /\ n \in Nat
    BY <2>2, <2>3, TakenIn
  <2>5. Sums(table)[s] = 0 + Sums(table)[s \ {k}] /\ Sums(table)[s \ {k}] \in Nat
    BY <1>2, <2>2, <2>4, SumsRemove
  <2>6. Sums(table)[s \ {k}] # 0
    BY <2>2, <2>5
  <2>7. n - 1 \in Bad /\ n - 1 < n
    BY <2>2, <2>4, <2>6
  <2> QED
    BY <2>1, <2>7
<1>4. Charged = 0
  BY <1>3, ChargedIsSum
<1> QED
  BY <1>1, <1>2, <1>4, MapAssumption DEF LedgerInv

\* The steps that leave the table alone and charge nothing.
LEMMA LedgerUntouched ==
    ASSUME LedgerInv, UNCHANGED table,
           pc' = "out" => at' = 1 /\ used' = 0,
           pc' = "loading" => used' = Sums(table)[1..(at' - 1)],
           pc' \in {"waves", "wave"} => used' = Charged
    PROVE  LedgerInv'
<1>1. Charged' = Charged
  BY DEF Charged, MapThenSumSet, MapThenFoldSet
<1>2. Sums(table)' = Sums(table)
  BY DEF Sums
<1> QED
  BY <1>1, <1>2 DEF LedgerInv, Completed

LEMMA LookUpLedger ==
    ASSUME IInv, LedgerInv, LookUp
    PROVE  LedgerInv'
<1>1. /\ pc = "loading" /\ pc' \in {"loading", "raising"} /\ at \in Packets /\ at' = at + 1
      /\ UNCHANGED table /\ used = Sums(table)[1..(at - 1)]
  BY DEF LookUp, LedgerInv, durable
<1>2. used' = used + table[at].charged
  <2>1. table[at].charged \in Nat /\ used \in Nat
    BY <1>1 DEF IInv, TypeOK, Records
  <2> QED
    BY <1>1, <2>1 DEF LookUp, LedgerInv, IsCached
<1>3. Sums(table)[1..at] = table[at].charged + Sums(table)[1..(at - 1)]
      /\ Sums(table)[1..(at - 1)] \in Nat /\ table[at].charged \in Nat
  <2>1. 1..at \in SUBSET Packets /\ at \in 1..at /\ (1..at) \ {at} = 1..(at - 1)
        /\ 1..(at - 1) \in SUBSET Packets
    BY <1>1, MapAssumption DEF Packets
  <2>2. table \in [Packets -> Records] /\ table[at].charged \in Nat
    BY <1>1 DEF IInv, TypeOK, Records
  <2>3. \A k \in 1..at : Sums(table)[1..at] = table[k].charged + Sums(table)[(1..at) \ {k}]
    BY <2>1, <2>2, SumsRemove
  <2>4. Sums(table)[1..(at - 1)] \in Nat
    BY <2>1, <2>2, SumsRemove
  <2>5. Sums(table)[1..at] = table[at].charged + Sums(table)[(1..at) \ {at}]
    BY <2>1, <2>3
  <2> QED
    BY <2>1, <2>2, <2>4, <2>5
<1>4. used' = Sums(table)[1..(at' - 1)]
  <2>1. at' - 1 = at
    BY <1>1 DEF Packets
  <2> QED
    BY <1>1, <1>2, <1>3, <2>1
<1> QED
  BY <1>1, <1>4, LedgerUntouched

LEMMA LoadedLedger ==
    ASSUME IInv, LedgerInv, Loaded
    PROVE  LedgerInv'
<1>1. /\ pc = "loading" /\ pc' \in {"waves", "raising"} /\ at \notin Packets
      /\ UNCHANGED <<table, used>> /\ used = Sums(table)[1..(at - 1)]
  BY DEF Loaded, LedgerInv, durable, locals
<1>2. 1..(at - 1) = Packets
  BY <1>1, MapAssumption DEF IInv, TypeOK, Packets
<1>3. used' = Charged
  BY <1>1, <1>2, ChargedIsSum
<1> QED
  BY <1>1, <1>3, LedgerUntouched

LEMMA CollectResultLedger ==
    ASSUME IInv, IInv', LedgerInv, NEW k \in Packets, CollectResult(k)
    PROVE  LedgerInv'
<1>1. /\ pc = "wave" /\ pc' = "wave" /\ ~Completed(k) /\ table[k].charged = 0
      /\ used = Charged /\ used' = used + tokens[k]
      /\ tokens[k] \in Nat
      /\ table' = [table EXCEPT ![k] = [status |-> "completed", charged |-> tokens[k]]]
  BY DEF CollectResult, CompletedRecord, IInv, WaveInv, LedgerInv, TypeOK
<1>2. Charged \in Nat /\ Charged' = Charged + tokens[k]
  <2> DEFINE r == [status |-> "completed", charged |-> tokens[k]]
  <2>1. r \in Records /\ r.charged = tokens[k]
    BY <1>1 DEF Records
  <2>2. TypeOK /\ TypeOK' /\ table' = [table EXCEPT ![k] = r]
    BY <1>1 DEF IInv
  <2> HIDE DEF r
  <2>3. Charged \in Nat /\ Charged' = Charged - table[k].charged + r.charged
    BY <2>1, <2>2, ChargedChanges
  <2> QED
    BY <1>1, <2>1, <2>3
<1>3. Charged' <= TotalCap
  <2>1. used' + cap' * Cardinality(wave') <= TotalCap
    BY <1>1 DEF IInv, WithinBudget
  <2>2. cap' * Cardinality(wave') \in Nat
    <3>1. wave' \in SUBSET Packets /\ cap' \in Nat
      BY DEF IInv, TypeOK
    <3>2. Cardinality(wave') \in Nat
      BY <3>1, PacketSets
    <3> QED
      BY <3>1, <3>2
  <2> QED
    BY <1>1, <1>2, <2>1, <2>2, MapAssumption
<1>4. \A j \in Packets : ~Completed(j)' => table'[j].charged = 0
  BY <1>1 DEF IInv, TypeOK, LedgerInv, Completed
<1> QED
  BY <1>1, <1>2, <1>3, <1>4 DEF LedgerInv

LEMMA CollectFailureLedger ==
    ASSUME IInv, IInv', LedgerInv, NEW k \in Packets, CollectFailure(k)
    PROVE  LedgerInv'
<1>1. /\ pc = "wave" /\ pc' = "wave" /\ ~Completed(k) /\ table[k].charged = 0
      /\ used = Charged /\ used' = used
      /\ table' = [table EXCEPT ![k] = FailedRecord]
  BY DEF CollectFailure, IInv, WaveInv, LedgerInv
<1>2. Charged \in Nat /\ Charged' = Charged
  <2>1. FailedRecord \in Records /\ FailedRecord.charged = 0
    BY DEF Records, FailedRecord
  <2>2. TypeOK /\ TypeOK'
    BY DEF IInv
  <2>3. Charged \in Nat /\ Charged' = Charged - table[k].charged + FailedRecord.charged
    BY <1>1, <2>1, <2>2, ChargedChanges
  <2> QED
    BY <1>1, <2>1, <2>3
<1>3. \A j \in Packets : ~Completed(j)' => table'[j].charged = 0
  BY <1>1 DEF IInv, TypeOK, LedgerInv, Completed, FailedRecord
<1> QED
  BY <1>1, <1>2, <1>3 DEF LedgerInv

LEMMA LedgerNext == IInv /\ IInv' /\ LedgerInv /\ [Next]_vars => LedgerInv'
<1> SUFFICES ASSUME IInv, IInv', LedgerInv, [Next]_vars PROVE LedgerInv'
  OBVIOUS
<1>1. CASE StartInterrupted \/ BudgetExhausted \/ Finish
  BY <1>1, LedgerUntouched
     DEF StartInterrupted, BudgetExhausted, Finish, LedgerInv, durable, locals
<1>2. CASE Start
  <2>1. table \in [Packets -> Records] /\ {} \in SUBSET Packets
    BY DEF IInv, TypeOK
  <2>2. Sums(table)[1..0] = 0
    BY <2>1, SumsRemove
  <2>3. UNCHANGED <<table, at, used>> /\ pc' = "loading" /\ at = 1 /\ used = 0
    BY <1>2 DEF Start, LedgerInv, locals
  <2> QED
    BY <2>2, <2>3, LedgerUntouched
<1>3. CASE LookUp
  BY <1>3, LookUpLedger
<1>4. CASE Loaded
  BY <1>4, LoadedLedger
<1>5. CASE BeginWave \/ EndWave
  BY <1>5, LedgerUntouched DEF BeginWave, EndWave, LedgerInv, durable
<1>6. CASE Complete \/ Raise \/ Crash
  BY <1>6, LedgerUntouched DEF Complete, Raise, Crash, ResetLocals, durable
<1>7. CASE \E k \in Packets : CollectResult(k) \/ CollectFailure(k)
  BY <1>7, CollectResultLedger, CollectFailureLedger
<1>8. CASE \E k \in Packets : Thread(k)
  BY <1>8, LedgerUntouched
     DEF Thread, Launch, Answer, NoAnswer, WriteOutput, IndexOutput, LedgerInv, durable, locals
<1>9. CASE UNCHANGED vars
  BY <1>9, LedgerUntouched DEF LedgerInv, vars, durable, locals
<1> QED
  BY <1>1, <1>2, <1>3, <1>4, <1>5, <1>6, <1>7, <1>8, <1>9 DEF Next, Execute, Main

\* Over all executions, failed, killed and repeated ones included, what the
\* packet table says was charged stays within max_total_tokens, and each
\* execution continues from exactly that sum (_agent_map, runner.py:393-414,
\* 450).
THEOREM TableStaysWithinBudget == Spec => []TableWithinBudget
<1>1. LedgerInv => TableWithinBudget
  BY DEF LedgerInv, TableWithinBudget
<1> QED
  BY <1>1, Invariants, LedgerInit, LedgerNext, PTL DEF Spec
=============================================================================
