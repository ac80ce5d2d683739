------------------------------ MODULE AgentMap ------------------------------
(***************************************************************************)
(* The agent_map step, WorkflowRunner._agent_map (core/runner.py): one     *)
(* Codex call per packet, in waves of at most Workers threads, under a     *)
(* token cap per call and one for the whole step.  Each finished packet is *)
(* saved in the step's packet table, so that a later execution of the step *)
(* runs only the others.                                                   *)
(*                                                                         *)
(* One execution of the step at a time (RunLifecycle has the run's flock   *)
(* and its other steps).  The threads of a wave interleave; a crash loses  *)
(* the locals of _agent_map and keeps the state file and the output files. *)
(***************************************************************************)
EXTENDS Integers, FiniteSets, FiniteSetsExt

CONSTANTS NumPackets, Workers,
          PerCall, TotalCap,      \* max_tokens, max_total_tokens
          MinTokens,              \* MIN_TOKENS of codex.py
          MaxCrashes

Packets == 1..NumPackets

ASSUME MapAssumption ==
    /\ NumPackets \in Nat \ {0} /\ Workers \in Nat \ {0}
    /\ MinTokens \in Nat \ {0}
    /\ PerCall \in Nat /\ PerCall >= MinTokens
    /\ TotalCap \in Nat /\ TotalCap >= MinTokens
    /\ MaxCrashes \in Nat

VARIABLES
    step,        \* state.json: the step's status,
    table,       \*   the packet table,
    output,      \* each packet's output file against the artifact index
    pc, at,      \* where _agent_map is; the packet it looks up next
    used, todo,  \* its locals: tokens charged, packets pending,
    done,        \*   packets whose output is known,
    wave, cap,   \*   the uncollected packets of the wave, their token cap,
    failure,     \*   has one of the wave failed?
    thread,      \* each packet's thread
    tokens,      \* what its call used
    paid,        \* history: packets answered since the last crash
    crashes

durable == <<step, table, output>>
locals  == <<at, used, todo, done, wave, cap, failure>>
threads == <<thread, tokens>>
vars    == <<durable, pc, locals, threads, paid, crashes>>

Records == [status : {"none", "failed", "completed"}, charged : Nat]
NoRecord == [status |-> "none", charged |-> 0]

TypeOK ==
    /\ step \in {"pending", "running", "failed", "completed"}
    /\ table \in [Packets -> Records]
    /\ output \in [Packets -> {"absent", "unrecorded", "recorded", "mismatch"}]
    /\ pc \in {"out", "loading", "waves", "wave", "raising", "finished"}
    /\ at \in 1..(NumPackets + 1)
    /\ used \in Nat /\ cap \in Nat
    /\ todo \subseteq Packets /\ done \subseteq Packets /\ wave \subseteq Packets
    /\ failure \in BOOLEAN
    /\ thread \in [Packets -> {"idle", "submitted", "running", "answered", "written",
                               "returned", "failed"}]
    /\ tokens \in [Packets -> Nat]
    /\ paid \subseteq Packets
    /\ crashes \in 0..MaxCrashes

NoLocals ==
    /\ at = 1 /\ used = 0 /\ todo = {} /\ done = {} /\ wave = {} /\ cap = 0 /\ failure = FALSE
    /\ thread = [k \in Packets |-> "idle"] /\ tokens = [k \in Packets |-> 0]

Init ==
    /\ step = "pending" /\ table = [k \in Packets |-> NoRecord]
    /\ output = [k \in Packets |-> "absent"]
    /\ pc = "out" /\ NoLocals
    /\ paid = {} /\ crashes = 0

-----------------------------------------------------------------------------
Completed(k) == table[k].status = "completed"

\* A run with a damaged artifact index cannot be opened at all.
Intact == \A k \in Packets : output[k] # "mismatch"

FreshOnly == {"pending"}            \* mutant: a failed step cannot be started again
Startable == {"pending", "failed"}

\* execute: a step left running by a crash cannot be started, and fails.
StartInterrupted ==
    /\ pc = "out" /\ Intact /\ step = "running"
    /\ step' = "failed"
    /\ UNCHANGED <<table, output, pc, locals, threads, paid, crashes>>

Start ==
    /\ pc = "out" /\ Intact /\ step \in Startable
    /\ step' = "running" /\ pc' = "loading"
    /\ UNCHANGED <<table, output, locals, threads, paid, crashes>>

\* The loop over the packets: a completed one is charged again and its output
\* read, the others are pending.
IsCached(k) == Completed(k)

LookUp ==
    /\ pc = "loading" /\ at \in Packets
    /\ pc' = IF IsCached(at) /\ output[at] # "recorded" THEN "raising" ELSE pc
    /\ used' = used + IF IsCached(at) THEN table[at].charged ELSE 0
    /\ done' = IF IsCached(at) THEN done \union {at} ELSE done
    /\ todo' = IF IsCached(at) THEN todo ELSE todo \union {at}
    /\ at' = at + 1
    /\ UNCHANGED <<durable, wave, cap, failure, threads, paid, crashes>>

Loaded ==
    /\ pc = "loading" /\ at \notin Packets
    /\ pc' = IF used > TotalCap THEN "raising" ELSE "waves"
    /\ UNCHANGED <<durable, locals, threads, paid, crashes>>

-----------------------------------------------------------------------------
\* The next packets, in their order.
Wave == {k \in todo : Cardinality({j \in todo : j < k}) < Workers}

\* What each of n calls may use of what is left.
Share(n) ==
    LET share == (TotalCap - used) \div n
    IN  IF share < PerCall THEN share ELSE PerCall

BeginWave ==
    /\ pc = "waves" /\ todo # {}
    /\ Share(Cardinality(Wave)) >= MinTokens
    /\ wave' = Wave /\ todo' = todo \ Wave
    /\ cap' = Share(Cardinality(Wave))
    /\ failure' = FALSE
    /\ thread' = [k \in Packets |-> IF k \in Wave THEN "submitted" ELSE thread[k]]
    /\ pc' = "wave"
    /\ UNCHANGED <<durable, at, used, done, tokens, paid, crashes>>

BudgetExhausted ==
    /\ pc = "waves" /\ todo # {}
    /\ Share(Cardinality(Wave)) < MinTokens
    /\ pc' = "raising"
    /\ UNCHANGED <<durable, locals, threads, paid, crashes>>

\* invoke_codex: an output file that the index does not know is refused.
Launch(k) ==
    /\ thread[k] = "submitted"
    /\ thread' = [thread EXCEPT ![k] = IF output[k] = "unrecorded" THEN "failed" ELSE "running"]
    /\ UNCHANGED <<durable, pc, locals, tokens, paid, crashes>>

Answer(k) ==
    /\ thread[k] = "running"
    /\ \E t \in 0..cap : tokens' = [tokens EXCEPT ![k] = t]
    /\ thread' = [thread EXCEPT ![k] = "answered"]
    /\ paid' = paid \union {k}
    /\ UNCHANGED <<durable, pc, locals, crashes>>

\* Any other end, usage over the cap included: nothing is charged.
NoAnswer(k) ==
    /\ thread[k] = "running"
    /\ thread' = [thread EXCEPT ![k] = "failed"]
    /\ UNCHANGED <<durable, pc, locals, tokens, paid, crashes>>

\* write_artifact: the file, then the index.
WriteOutput(k) ==
    /\ thread[k] = "answered"
    /\ output' = [output EXCEPT ![k] = IF @ = "recorded" THEN "mismatch" ELSE "unrecorded"]
    /\ thread' = [thread EXCEPT ![k] = "written"]
    /\ UNCHANGED <<step, table, pc, locals, tokens, paid, crashes>>

IndexOutput(k) ==
    /\ thread[k] = "written"
    /\ output' = [output EXCEPT ![k] = "recorded"]
    /\ thread' = [thread EXCEPT ![k] = "returned"]
    /\ UNCHANGED <<step, table, pc, locals, tokens, paid, crashes>>

-----------------------------------------------------------------------------
WrittenOrReturned(k) == thread[k] \in {"written", "returned"}   \* mutant: does not wait for the index
Returned(k) == thread[k] = "returned"

\* as_completed, in the order in which the threads end: each result is saved
\* before the next is looked at.
CapRecord(k)       == [status |-> "completed", charged |-> cap]              \* mutant: charges the cap
RefundRecord(k)    == [status |-> "completed", charged |-> tokens[k] - cap]  \* mutant: charges the difference
CompletedRecord(k) == [status |-> "completed", charged |-> tokens[k]]
FailedRecord       == [status |-> "failed", charged |-> 0]

CollectResult(k) ==
    /\ pc = "wave" /\ k \in wave /\ Returned(k)
    /\ table' = [table EXCEPT ![k] = CompletedRecord(k)]
    /\ used' = used + tokens[k] /\ done' = done \union {k}
    /\ wave' = wave \ {k}
    /\ thread' = [thread EXCEPT ![k] = "idle"] /\ tokens' = [tokens EXCEPT ![k] = 0]
    /\ UNCHANGED <<step, output, pc, at, todo, cap, failure, paid, crashes>>

CollectFailure(k) ==
    /\ pc = "wave" /\ k \in wave /\ thread[k] = "failed"
    /\ table' = [table EXCEPT ![k] = FailedRecord]
    /\ failure' = TRUE
    /\ wave' = wave \ {k}
    /\ thread' = [thread EXCEPT ![k] = "idle"]
    /\ UNCHANGED <<step, output, pc, at, used, todo, done, cap, tokens, paid, crashes>>

FirstFailureEndsWave == wave = {} \/ failure    \* mutant: raises at once
WaveIsOver == wave = {}

\* The first failure is raised when every thread of the wave has been collected.
EndWave ==
    /\ pc = "wave" /\ WaveIsOver
    /\ pc' = IF failure THEN "raising" ELSE "waves"
    /\ cap' = 0
    /\ UNCHANGED <<durable, at, used, todo, done, wave, failure, threads, paid, crashes>>

Finish ==
    /\ pc = "waves" /\ todo = {}
    /\ pc' = IF done = Packets THEN "finished" ELSE "raising"
    /\ UNCHANGED <<durable, locals, threads, paid, crashes>>

ResetLocals ==
    /\ at' = 1 /\ used' = 0 /\ todo' = {} /\ done' = {} /\ wave' = {} /\ cap' = 0
    /\ failure' = FALSE
    /\ thread' = [k \in Packets |-> "idle"] /\ tokens' = [k \in Packets |-> 0]

\* execute: the step's new status is saved.
Complete ==
    /\ pc = "finished"
    /\ step' = "completed" /\ pc' = "out" /\ ResetLocals
    /\ UNCHANGED <<table, output, paid, crashes>>

Raise ==
    /\ pc = "raising"
    /\ step' = "failed" /\ pc' = "out" /\ ResetLocals
    /\ UNCHANGED <<table, output, paid, crashes>>

Crash ==
    /\ pc # "out" /\ crashes < MaxCrashes /\ crashes' = crashes + 1
    /\ pc' = "out" /\ ResetLocals /\ paid' = {}
    /\ UNCHANGED durable

-----------------------------------------------------------------------------
Execute == StartInterrupted \/ Start

Thread(k) == Launch(k) \/ Answer(k) \/ NoAnswer(k) \/ WriteOutput(k) \/ IndexOutput(k)

Main ==
    \/ LookUp \/ Loaded \/ BeginWave \/ BudgetExhausted \/ EndWave
    \/ Finish \/ Complete \/ Raise
    \/ \E k \in Packets : CollectResult(k) \/ CollectFailure(k)

Next == Execute \/ Main \/ Crash \/ \E k \in Packets : Thread(k)

Spec == Init /\ [][Next]_vars

\* The main thread and its workers go on; the user runs the workflow again;
\* an agent called again and again answers at last.
FairSpec ==
    /\ Spec /\ WF_vars(Main) /\ SF_vars(Execute)
    /\ \A k \in Packets : WF_vars(Thread(k)) /\ SF_vars(Answer(k))
-----------------------------------------------------------------------------
(***************************************************************************)
(* What the step promises.                                                 *)
(***************************************************************************)

\* What was charged, by this execution and earlier ones, and what the calls
\* under way may use never exceed max_total_tokens together
\* (runner.py:408-414).
WithinBudget ==
    pc \in {"waves", "wave", "finished"} => used + cap * Cardinality(wave) <= TotalCap

Charged == MapThenSumSet(LAMBDA k : table[k].charged, Packets)

\* Over all executions the packet table stays within max_total_tokens, and an
\* execution continues from what the table says was charged.
TableWithinBudget ==
    /\ Charged <= TotalCap
    /\ pc \in {"waves", "wave"} => used = Charged

\* A completed packet is never called again, and its record and its output
\* never change, whatever fails or crashes later.
CompletedPacketsStay ==
    [][\A k \in Packets : Completed(k) =>
          /\ table'[k] = table[k] /\ output'[k] = output[k]
          /\ thread'[k] = "idle"]_vars

\* A completed packet can be read by the executions to come; a completed map
\* has every packet.
CompletedIsReadable ==
    /\ \A k \in Packets : Completed(k) => output[k] = "recorded"
    /\ step = "completed" => \A k \in Packets : Completed(k)

\* The failure of one packet loses no answer of another: when an execution
\* ends by itself, every answer it got is in the table.
PaidWorkIsKept == pc = "out" => \A k \in paid : Completed(k)

\* Run again and again the map completes, unless a crash left an output ahead
\* of the index, or what is left of the budget is too little for a wave.
BudgetIsGone ==
    LET rest == {k \in Packets : ~Completed(k)}
        n    == IF Cardinality(rest) < Workers THEN Cardinality(rest) ELSE Workers
    IN  rest # {} /\ (TotalCap - Charged) \div n < MinTokens
OutputIsAhead == \E k \in Packets : output[k] \in {"unrecorded", "mismatch"}
MapCompletes  == <>[](step = "completed" \/ OutputIsAhead \/ BudgetIsGone)
=============================================================================
