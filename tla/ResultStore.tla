----------------------------- MODULE ResultStore -----------------------------
(***************************************************************************)
(* Where the overflow of the agents of a map step goes (core/results.py):  *)
(* each thread of a wave (core/runner.py) runs an agent, captures what its *)
(* preview could not hold, stores it under the run's directory as an       *)
(* immutable container, and reports by id what is stored; the conductor    *)
(* saves those ids in state.json (core/state.py).  Other processes inspect *)
(* the run, its containers and its ids meanwhile.                          *)
(*                                                                         *)
(* One action is one system call that another thread, a reader or a kill   *)
(* of the conductor can tell from the next.  A container is its id: what   *)
(* is in it never changes.  Each read of the store by a reader happens     *)
(* under its shared lock, at once; the two flocks (the run's directory,    *)
(* the lock file), always taken in this order, are one, and the mutex of   *)
(* the store and that of the run, likewise.  The byte quota is the record  *)
(* quota in another unit.                                                  *)
(***************************************************************************)
EXTENDS Integers, FiniteSets

CONSTANTS NumPackets, Workers,
          Chatty,                      \* the streams that may outgrow their preview
          MaxTransient, MaxCapture,    \* MAX_TRANSIENT_CAPTURE_BYTES, MAX_CAPTURE_BYTES
          MaxRecords,                  \* MAX_RESULT_RECORDS
          Readers,
          MaxAttempts, MaxKills, MaxFaults,
          None

Packets == 1..NumPackets
Streams == {"out", "err"}

ASSUME StoreAssumption ==
    /\ NumPackets \in Nat \ {0} /\ Workers \in Nat \ {0}
    /\ MaxTransient \in Nat /\ MaxCapture \in Nat
    /\ MaxRecords \in Nat /\ MaxAttempts \in Nat /\ MaxKills \in Nat /\ MaxFaults \in Nat
    /\ Chatty \subseteq Packets \X Streams
    /\ None \notin Packets

\* The identity of a container: whose output it is, of which attempt.
Ids == Packets \X Streams \X (0..MaxAttempts)
Spools == Packets \X Streams

VARIABLES
    store,        \* the directory: absent, without its lock file, ready,
    records,      \*   its containers,
    temps,        \*   its temporaries: of which container, already linked to it?
    status, attempt, table, refs,    \* state.json: the step, its packets, the ids saved
    pc, failure,  \* the conductor: down, or executing the step; did a packet fail?
    at, result,   \* each packet's thread; its agent's result, or what was raised
    kept,         \* what became of each stream's overflow
    hard,         \* history: did something fail that is not optional?
    held, used,   \* reservations not released; _capture_budget_used
    size,         \* capture_limit_bytes of this wave
    holder,       \* who is inside _locked(create=True)
    reader, snapshot, verdict,
    kills, faults

disk    == <<store, records, temps>>
state   == <<status, attempt, table, refs>>
main    == <<pc, failure>>
threads == <<at, result, kept, hard>>
budget  == <<held, used, size>>
inspect == <<reader, snapshot, verdict>>
counts  == <<kills, faults>>
vars    == <<disk, state, main, threads, budget, holder, inspect, counts>>

Snapshots == [attempt : 0..MaxAttempts, refs : SUBSET Ids]
Start == [attempt |-> 0, refs |-> {}]

TypeOK ==
    /\ store \in {"absent", "bare", "ready"}
    /\ records \subseteq Ids /\ temps \subseteq [id : Ids, linked : BOOLEAN]
    /\ status \in {"pending", "running", "failed", "completed"} /\ attempt \in 0..MaxAttempts
    /\ table \in [Packets -> {"pending", "failed", "completed"}] /\ refs \subseteq Ids
    /\ pc \in {"down", "map"} /\ failure \in BOOLEAN
    /\ at \in [Packets -> {"out", "run", "keep", "root", "lock", "wait", "scan", "temp", "linked",
                           "done"}]
    /\ result \in [Packets -> {"none", "good", "bad", "raised"}] /\ hard \in [Packets -> BOOLEAN]
    /\ kept \in [Spools -> {"none", "held", "budget", "lost", "stored", "quota", "storage"}]
    /\ held \subseteq Spools /\ used \in 0..MaxTransient /\ size \in Nat
    /\ holder \in Packets \union {None}
    /\ reader \in [Readers -> {"out", "look", "list", "lock"}]
    /\ snapshot \in [Readers -> Snapshots]
    /\ verdict \in [Readers -> {"valid", "missing", "invalid"}]
    /\ kills \in 0..MaxKills /\ faults \in 0..MaxFaults

Nobody == [p \in Packets |-> "out"]
Nothing == [x \in Spools |-> "none"]

Init ==
    /\ store = "absent" /\ records = {} /\ temps = {}
    /\ status = "pending" /\ attempt = 0
    /\ table = [p \in Packets |-> "pending"] /\ refs = {}
    /\ pc = "down" /\ failure = FALSE
    /\ at = Nobody /\ kept = Nothing
    /\ result = [p \in Packets |-> "none"] /\ hard = [p \in Packets |-> FALSE]
    /\ held = {} /\ used = 0 /\ size = 0
    /\ holder = None
    /\ reader = [r \in Readers |-> "out"] /\ verdict = [r \in Readers |-> "valid"]
    /\ snapshot = [r \in Readers |-> Start]
    /\ kills = 0 /\ faults = 0

-----------------------------------------------------------------------------
(***************************************************************************)
(* What verify() accepts: _scan_unlocked and _verify_state_references.     *)
(***************************************************************************)
Listable ==
    /\ Cardinality(temps) <= 1
    /\ \A t \in temps : t.linked <=> t.id \in records
    /\ Cardinality(records) <= MaxRecords

Resolves(snap) ==
    \A id \in snap.refs : id \in records /\ id[3] = snap.attempt

\* Without its lock file the store holds nothing.
Accepts(snap) == IF store = "ready" THEN Listable /\ Resolves(snap) ELSE snap.refs = {}

State == [attempt |-> attempt, refs |-> refs]

-----------------------------------------------------------------------------
(***************************************************************************)
(* The conductor: RunState.resume, transition_step and _agent_map.  A save *)
(* of the state takes the run's mutex.                                     *)
(***************************************************************************)
Unlocked == holder = None

\* A step found running cannot be started, and fails at the attempt; one that
\* starts forgets the ids it had saved.
Restarts ==
    /\ status' = "running" /\ attempt' = attempt + 1 /\ refs' = {} /\ UNCHANGED table

Resume ==
    /\ pc = "down" /\ Accepts(State)
    /\ \/ /\ status = "running" /\ status' = "failed"
          /\ UNCHANGED <<attempt, table, refs, pc>>
       \/ /\ status \in {"pending", "failed"} /\ attempt < MaxAttempts
          /\ Restarts /\ pc' = "map"
    /\ UNCHANGED <<disk, failure, threads, budget, holder, inspect, counts>>

Wave == {p \in Packets : at[p] # "out"}
Pending == {p \in Packets : table[p] # "completed"}

\* The first of them, in order.
FirstOf(S) == {p \in S : Cardinality({q \in S : q < p}) < Workers}

\* capture_limit_for_parallelism
Smaller(m, n) == IF m < n THEN m ELSE n
Share(n) == Smaller(MaxCapture, MaxTransient \div (2 * n))

StartWave ==
    /\ pc = "map" /\ Wave = {} /\ ~failure /\ Pending # {}
    /\ LET wave == FirstOf(Pending)
       IN  /\ at' = [p \in Packets |-> IF p \in wave THEN "run" ELSE "out"]
           /\ size' = Share(Cardinality(wave))
    /\ UNCHANGED <<disk, state, main, result, kept, hard, held, used, holder, inspect, counts>>

Of(p) == {p} \X Streams
Stored(p) == {<<p, s, attempt>> : s \in {z \in Streams : kept[<<p, z>>] = "stored"}}

\* as_completed: save what became of the packet; the ids go with a failure.
Collect(p) ==
    /\ pc = "map" /\ at[p] = "done" /\ Unlocked
    /\ table' = [table EXCEPT ![p] = IF result[p] = "good" THEN "completed" ELSE "failed"]
    /\ failure' = (failure \/ result[p] # "good")
    /\ refs' = IF result[p] = "bad" THEN refs \union Stored(p) ELSE refs
    /\ at' = [at EXCEPT ![p] = "out"] /\ result' = [result EXCEPT ![p] = "none"]
    /\ kept' = [x \in Spools |-> IF x \in Of(p) THEN "none" ELSE kept[x]]
    /\ hard' = [hard EXCEPT ![p] = FALSE]
    /\ UNCHANGED <<disk, status, attempt, pc, budget, holder, inspect, counts>>

EndMap ==
    /\ pc = "map" /\ Wave = {} /\ (failure \/ Pending = {})
    /\ status' = IF failure THEN "failed" ELSE "completed"
    /\ pc' = "down" /\ failure' = FALSE
    /\ UNCHANGED <<disk, attempt, table, refs, threads, budget, holder, inspect, counts>>

\* The process goes, with its locks and its captures; the disk stays.
Kill ==
    /\ pc = "map" /\ kills < MaxKills /\ kills' = kills + 1
    /\ pc' = "down" /\ failure' = FALSE
    /\ at' = Nobody /\ kept' = Nothing
    /\ result' = [p \in Packets |-> "none"] /\ hard' = [p \in Packets |-> FALSE]
    /\ held' = {} /\ used' = 0 /\ size' = 0 /\ holder' = None
    /\ UNCHANGED <<disk, state, inspect, faults>>

-----------------------------------------------------------------------------
(***************************************************************************)
(* A thread: invoke_codex.  Its run_process is module ProcessCapture, here *)
(* with no thread of its own that outlives it.                             *)
(***************************************************************************)
Become(p, label) == at' = [at EXCEPT ![p] = label]

\* A stream outgrows its preview: a reservation, if the budget has room.
Overflow(p, s) ==
    /\ at[p] = "run" /\ <<p, s>> \in Chatty /\ kept[<<p, s>>] = "none"
    /\ IF used + size > MaxTransient
         THEN kept' = [kept EXCEPT ![<<p, s>>] = "budget"] /\ UNCHANGED <<held, used>>
         ELSE /\ kept' = [kept EXCEPT ![<<p, s>>] = "held"]
              /\ held' = held \union {<<p, s>>} /\ used' = used + size
    /\ UNCHANGED <<disk, state, main, at, result, hard, size, holder, inspect, counts>>

\* _finish_failure, or the end of the use of captures.
ReleaseTwice(S) ==               \* mutant: a release does not remember that it was done
    held' = held \ S /\ used' = used - size * Cardinality(S)
Release(S) == held' = held \ S /\ used' = used - size * Cardinality(held \intersect S)

\* discard_process_captures
Discard(p) == Release(Of(p))

\* The agent has ended, some of its captures were given up; or run_process
\* raised.  An agent whose output was truncated has failed (its output is stored
\* first).
EndRun(p) ==
    /\ at[p] = "run"
    /\ \/ \E outcome \in {"good", "bad"}, S \in SUBSET (held \intersect Of(p)) :
            /\ outcome = "good" => \A s \in Streams : kept[<<p, s>>] = "none"
            /\ result' = [result EXCEPT ![p] = outcome]
            /\ kept' = [x \in Spools |-> IF x \in S THEN "lost" ELSE kept[x]] /\ Release(S)
            /\ Become(p, "keep") /\ UNCHANGED hard
       \/ /\ result' = [result EXCEPT ![p] = "raised"] /\ hard' = [hard EXCEPT ![p] = TRUE]
          /\ Release(Of(p))
          /\ Become(p, "done") /\ UNCHANGED kept
    /\ UNCHANGED <<disk, state, main, size, holder, inspect, counts>>

-----------------------------------------------------------------------------
(***************************************************************************)
(* preserve_process_overflow: standard output, then standard error; a      *)
(* capture that was refused or lost is its own reason.                     *)
(***************************************************************************)
Left(p) == {s \in Streams : kept[<<p, s>>] = "held"}
Current(p) == IF "out" \in Left(p) THEN "out" ELSE "err"
Id(p) == <<p, Current(p), attempt>>

Note(p, what) == kept' = [kept EXCEPT ![<<p, Current(p)>>] = what]

\* The next stream that was captured, or the end, which discards the captures.
Keep(p) ==
    /\ at[p] = "keep"
    /\ IF Left(p) = {} THEN Discard(p) /\ Become(p, "done")
                       ELSE /\ Become(p, IF store = "ready" THEN "wait" ELSE "root")
                            /\ UNCHANGED <<held, used>>
    /\ UNCHANGED <<disk, state, main, result, kept, hard, size, holder, inspect, counts>>

\* _prepare_root: the directory, then its lock file, outside every lock; there
\* is nothing of it to see when both are there.
MakeRoot(p) ==
    /\ at[p] = "root" /\ Become(p, "lock")
    /\ store' = IF store = "absent" THEN "bare" ELSE store
    /\ UNCHANGED <<records, temps, state, main, result, kept, hard, budget, holder, inspect, counts>>

MakeLock(p) ==
    /\ at[p] = "lock" /\ Become(p, "wait")
    /\ store' = "ready"
    /\ UNCHANGED <<records, temps, state, main, result, kept, hard, budget, holder, inspect, counts>>

\* _locked(create=True), and first _recover_temporary_unlocked.
NoRecovery == UNCHANGED temps    \* mutant: what a crash left stays
Recover == temps' = {}

Lock(p) ==
    /\ at[p] = "wait" /\ Unlocked
    /\ holder' = p /\ Become(p, "scan")
    /\ Recover
    /\ UNCHANGED <<store, records, state, main, result, kept, hard, budget, inspect, counts>>

Unlock == holder' = None

\* The quota; then write_new_bytes: the temporary, the link, the unlink.
QuotaRaises(p) ==          \* mutant: the quota is an error like another
    /\ at[p] = "scan" /\ Cardinality(records) >= MaxRecords
    /\ result' = [result EXCEPT ![p] = "raised"] /\ Unlock /\ Discard(p) /\ Become(p, "done")
    /\ UNCHANGED <<disk, state, main, kept, hard, size, inspect, counts>>

OverQuota(p) ==
    /\ at[p] = "scan" /\ Cardinality(records) >= MaxRecords
    /\ Note(p, "quota") /\ Unlock /\ Become(p, "keep")
    /\ UNCHANGED <<disk, state, main, result, hard, budget, inspect, counts>>

Temp(p, isLinked) == [id |-> Id(p), linked |-> isLinked]

Stage(p) ==
    /\ at[p] = "scan" /\ Cardinality(records) < MaxRecords
    /\ temps' = temps \union {Temp(p, FALSE)} /\ Become(p, "temp")
    /\ UNCHANGED <<store, records, state, main, result, kept, hard, budget, holder, inspect, counts>>

Link(p) ==
    /\ at[p] = "temp" /\ Become(p, "linked")
    /\ records' = records \union {Id(p)}
    /\ temps' = (temps \ {Temp(p, FALSE)}) \union {Temp(p, TRUE)}
    /\ UNCHANGED <<store, state, main, result, kept, hard, budget, holder, inspect, counts>>

Finish(p) ==
    /\ at[p] = "linked"
    /\ temps' = temps \ {Temp(p, TRUE)}
    /\ Note(p, "stored") /\ Unlock /\ Become(p, "keep")
    /\ UNCHANGED <<store, records, state, main, result, hard, budget, inspect, counts>>

\* A step of it fails.  The finally clause removes the temporary, or fails too.
\* A storage error is a reason, any other ends the thread; the record of a
\* container already linked stays, unreported.
StillLocked(p) == UNCHANGED holder    \* mutant: an exception passes by the unlock
Unwind(p) == holder' = IF holder = p THEN None ELSE holder

Fail(p) ==
    /\ at[p] \in {"root", "lock", "scan", "temp", "linked"}
    /\ faults < MaxFaults /\ faults' = faults + 1
    /\ \/ UNCHANGED temps
       \/ at[p] = "temp" /\ temps' = temps \ {Temp(p, FALSE)}
       \/ at[p] = "linked" /\ temps' = temps \ {Temp(p, TRUE)}
    /\ Unwind(p)
    /\ \/ Note(p, "storage") /\ Become(p, "keep") /\ UNCHANGED <<result, hard, held, used>>
       \/ /\ result' = [result EXCEPT ![p] = "raised"] /\ hard' = [hard EXCEPT ![p] = TRUE]
          /\ Discard(p) /\ Become(p, "done") /\ UNCHANGED kept
    /\ UNCHANGED <<store, records, state, main, size, inspect, kills>>

Thread(p) ==
    \/ EndRun(p) \/ Keep(p) \/ MakeRoot(p) \/ MakeLock(p) \/ OverQuota(p) \/ Stage(p) \/ Link(p)
    \/ Finish(p) \/ Lock(p)

-----------------------------------------------------------------------------
(***************************************************************************)
(* Another process: RunState.inspect, then verify() of list and of the     *)
(* run's detail.  The first writer of a run may create the lock file       *)
(* between its two looks: then the directory is not empty, and it rejects  *)
(* it, as missing its lock.                                                *)
(***************************************************************************)
Reports(r, what) ==
    /\ verdict' = [verdict EXCEPT ![r] = what]
    /\ reader' = [reader EXCEPT ![r] = "out"] /\ snapshot' = [snapshot EXCEPT ![r] = Start]

Judges(r, accepted) == Reports(r, IF accepted THEN "valid" ELSE "invalid")

Inspect(r) ==
    /\ \/ /\ reader[r] = "out" /\ UNCHANGED verdict
          /\ reader' = [reader EXCEPT ![r] = "look"]
          /\ snapshot' = [snapshot EXCEPT ![r] = State]
       \/ /\ reader[r] = "look" /\ store = "absent" /\ Judges(r, snapshot[r].refs = {})
       \/ /\ reader[r] = "look" /\ store # "absent" /\ UNCHANGED <<snapshot, verdict>>
          /\ reader' = [reader EXCEPT ![r] = IF store = "ready" THEN "lock" ELSE "list"]
       \/ /\ reader[r] = "list" /\ store = "bare" /\ Judges(r, snapshot[r].refs = {})
       \/ reader[r] = "list" /\ store = "ready" /\ Reports(r, "missing")
       \/ /\ reader[r] = "lock" /\ Unlocked /\ Judges(r, Listable /\ Resolves(snapshot[r]))
    /\ UNCHANGED <<disk, state, main, threads, budget, holder, counts>>

Next ==
    \/ Resume \/ StartWave \/ EndMap \/ Kill
    \/ \E p \in Packets :
         \/ Collect(p) \/ Thread(p) \/ Fail(p)
         \/ \E s \in Streams : Overflow(p, s)
    \/ \E r \in Readers : Inspect(r)

Spec == Init /\ [][Next]_vars

\* The conductor's thread and each packet's go on.  (Weak fairness will do for
\* the lock: a thread takes it once for each of its streams.)
FairSpec ==
    /\ Spec
    /\ WF_vars(StartWave \/ EndMap \/ \E p \in Packets : Collect(p))
    /\ \A p \in Packets : WF_vars(Thread(p))

-----------------------------------------------------------------------------
\* Mid-write, after a kill or after a failed write, a reader accepts what it
\* sees of a run, with one exception: its look may fall between the first
\* writer's directory and lock file, and then verify() rejects the run's own work
\* for a missing lock.  That happens to a reader once: then the lock is there,
\* and whatever it looks at next it accepts.  The next conductor always accepts.
\* Every id in state.json names a container that is there, of the attempt the
\* step is at, at every moment.
InspectAccepts ==
    /\ \A r \in Readers :
         /\ verdict[r] # "invalid"
         /\ verdict[r] = "missing" => store = "ready" /\ reader[r] # "list"
    /\ pc = "down" => Accepts(State)
    /\ Resolves(State)

\* The share of a wave's streams is such that none is refused a capture: the
\* waves before it left nothing reserved (capture_limit_for_parallelism).
BudgetNeverExhausted == \A x \in Spools : kept[x] # "budget"

\* Storing overflow is optional: whatever of it is lost, refused or over quota,
\* the packet's outcome is its agent's, and each truncated stream has either a
\* container or a reason (preserve_process_overflow).
CaptureIsOptional ==
    \A p \in Packets :
        at[p] = "done" /\ ~hard[p] =>
            /\ result[p] # "raised"
            /\ \A s \in Streams :
                 /\ kept[<<p, s>>] # "held"
                 /\ kept[<<p, s>>] = "stored" => <<p, s, attempt>> \in records

\* Every wave is collected whole, also when a thread fails inside the lock; a
\* kill collects it too.
WavesEnd == []<>(Wave = {})
=============================================================================
