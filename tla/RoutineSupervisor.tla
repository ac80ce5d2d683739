------------------------- MODULE RoutineSupervisor -------------------------
(***************************************************************************)
(* Scheduled routines (conductor_extras/runtime/routine_supervisor.py):    *)
(* supervisors that look for due slots cycle after cycle, users that run a *)
(* routine by hand, and the one document, state.json, they all write.      *)
(*                                                                         *)
(* A process is known by its pid.  It reads the document at the start of a *)
(* cycle without a lock, decides on what it read, and takes the lock for   *)
(* each read-modify-write of its own: it reserves a routine before it runs *)
(* it, records how the run ended, or notes that a slot was not run.  A     *)
(* background supervisor is started only when no other one is active, a    *)
(* foreground one and the service whenever the user likes: Overlap.        *)
(***************************************************************************)
EXTENDS Integers

CONSTANTS Supers, Manuals,          \* pids of supervisors and of manual runs
          Routines,
          MaxTime,                  \* the clock stops there
          CatchUp,                  \* MAX_ROUTINE_CATCHUP_DAYS, in ticks
          Schedules,                \* the schedules a routine may have
          Overlap,                  \* may supervisors run side by side?
          PidReuse,                 \* may the pid of a dead process be given away?
          MaxEvents,                \* crashes, errors and commands of the user
          Nobody

Pids  == Supers \union Manuals
Slots == 1..MaxTime

ASSUME RoutineAssumption ==
    /\ Supers \intersect Manuals = {} /\ Nobody \notin Pids
    /\ MaxTime \in Nat \ {0} /\ CatchUp \in Nat /\ MaxEvents \in Nat
    /\ Schedules \subseteq SUBSET Slots
    /\ Overlap \in BOOLEAN /\ PidReuse \in BOOLEAN

VARIABLES
    now, schedule, paused,      \* the clock, the manifests, controls.json
    record,                     \* state.json: one record for each routine
    locked,                     \* who holds the flock on state.lock
    pc, job, outcome,           \* each process, the slot it handles, how its run ended
    view, todo,                 \* what a cycle knows, the routines it has still to look at
    seen,                       \* the document as read under the lock
    settled, finished, overlapped,  \* history: slots run or noted, runs recorded
    crashes, errors, controls   \* bounded by MaxEvents

inputs  == <<now, schedule, paused>>
process == <<pc, job, outcome, view, todo>>
history == <<settled, finished, overlapped>>
bounds  == <<crashes, errors, controls>>
vars    == <<inputs, record, locked, process, seen, history, bounds>>

\* owner is owner_pid while last_status is "running", and Nobody in any other
\* status; last is last_scheduled_for_utc, 0 if none.
Record == [owner : Pids \union {Nobody}, last : 0..MaxTime, executions : Nat]
View   == [last : [Routines -> 0..MaxTime], paused : SUBSET Routines, now : Slots]
Job    == [routine : Routines, slot : 0..MaxTime]
NoteOps   == {"skip", "note"}      \* of a paused slot; of a blocked one, in the handler
LockedOps == {"reserve", "record"} \union NoteOps
PCs       == {"fresh", "sleep", "cycle", "run", "reload", "dead", "other"} \union LockedOps

TypeOK ==
    /\ now \in Slots /\ schedule \in [Routines -> Schedules]
    /\ paused \in SUBSET Routines
    /\ record \in [Routines -> Record]
    /\ locked \in SUBSET Pids
    /\ pc \in [Pids -> PCs]
    /\ job \in [Pids -> Job \union {Nobody}]
    /\ outcome \in [Pids -> {"returned", "raised", "died"}]
    /\ view \in [Pids -> View \union {Nobody}]
    /\ todo \in [Pids -> SUBSET Routines]
    /\ seen \in [Pids -> [Routines -> Record] \union {Nobody}]
    /\ settled \in [Routines -> SUBSET Slots]
    /\ finished \in [Routines -> Nat] /\ overlapped \in BOOLEAN
    /\ crashes \in Nat /\ errors \in Nat /\ controls \in Nat

EventsLeft == crashes + errors + controls < MaxEvents

Alive(p)      == pc[p] \notin {"fresh", "dead", "other"}
PidRunning(p) == pc[p] \notin {"fresh", "dead"}
Executing(p, r) == pc[p] \in {"run", "record"} /\ job[p].routine = r

\* The latest slot of the schedule that has come, if it is after the last one
\* handled and not too late: one slot or none.
TooLate(slot, time) == time - slot > CatchUp

DueSlots(slots, last, time) ==
    {s \in slots : /\ s <= time /\ s > last /\ ~TooLate(s, time)
                   /\ \A t \in slots : t <= time => t <= s}
-----------------------------------------------------------------------------
Init ==
    /\ now = 1 /\ schedule \in [Routines -> Schedules] /\ paused = {}
    /\ record = [r \in Routines |-> [owner |-> Nobody, last |-> 0, executions |-> 0]]
    /\ locked = {}
    /\ pc = [p \in Pids |-> "fresh"] /\ job = [p \in Pids |-> Nobody]
    /\ outcome = [p \in Pids |-> "returned"]
    /\ view = [p \in Pids |-> Nobody] /\ todo = [p \in Pids |-> {}]
    /\ seen = [p \in Pids |-> Nobody]
    /\ settled = [r \in Routines |-> {}] /\ finished = [r \in Routines |-> 0]
    /\ overlapped = FALSE
    /\ crashes = 0 /\ errors = 0 /\ controls = 0

\* The process ends, and the system takes its lock and its memory.
Ends(p) ==
    /\ pc' = [pc EXCEPT ![p] = "dead"] /\ job' = [job EXCEPT ![p] = Nobody]
    /\ outcome' = [outcome EXCEPT ![p] = "returned"]
    /\ view' = [view EXCEPT ![p] = Nobody] /\ todo' = [todo EXCEPT ![p] = {}]

GoesTo(p, next) == pc' = [pc EXCEPT ![p] = next] /\ UNCHANGED <<job, outcome, view, todo>>

\* A PolicyError or ValidationError leaves execute_routine_manifest: the
\* supervisor notes the slot as blocked, a manual run is over.
GivesUp(p) == IF p \in Supers THEN GoesTo(p, "note") ELSE Ends(p)

Start(p) ==
    /\ p \in Supers /\ pc[p] = "fresh"
    /\ Overlap \/ \A q \in Supers : ~Alive(q)
    /\ GoesTo(p, "sleep")
    /\ overlapped' = (overlapped \/ \E q \in Supers : Alive(q))
    /\ UNCHANGED <<inputs, record, locked, seen, settled, finished, bounds>>

\* execute_routine_manifest called by run-routine or by the dashboard.
StartManual(p, r) ==
    /\ p \in Manuals /\ pc[p] = "fresh"
    /\ pc' = [pc EXCEPT ![p] = "reserve"]
    /\ job' = [job EXCEPT ![p] = [routine |-> r, slot |-> 0]]
    /\ UNCHANGED <<inputs, record, locked, outcome, view, todo, seen, history, bounds>>

\* The state, the controls and the time a whole cycle goes by.
BeginCycle(p) ==
    /\ pc[p] = "sleep"
    /\ pc' = [pc EXCEPT ![p] = "cycle"]
    /\ view' = [view EXCEPT ![p] = [last |-> [r \in Routines |-> record[r].last],
                                    paused |-> paused, now |-> now]]
    /\ todo' = [todo EXCEPT ![p] = Routines]
    /\ UNCHANGED <<inputs, record, locked, job, outcome, seen, history, bounds>>

EndCycle(p) ==
    /\ pc[p] = "cycle" /\ todo[p] = {}
    /\ pc' = [pc EXCEPT ![p] = "sleep"] /\ view' = [view EXCEPT ![p] = Nobody]
    /\ UNCHANGED <<inputs, record, locked, job, outcome, todo, seen, history, bounds>>

\* max_cycles reached, or stopped between two cycles.
Stop(p) ==
    /\ pc[p] = "sleep" /\ Ends(p)
    /\ UNCHANGED <<inputs, record, locked, seen, history, bounds>>

NotDue(p, r) ==
    /\ pc[p] = "cycle" /\ r \in todo[p]
    /\ DueSlots(schedule[r], view[p].last[r], view[p].now) = {}
    /\ todo' = [todo EXCEPT ![p] = @ \ {r}]
    /\ UNCHANGED <<inputs, record, locked, pc, job, outcome, view, seen, history, bounds>>

\* A paused routine is skipped; one whose approvals or target are refused is
\* blocked; any other one is about to be reserved.
Due(p, r) ==
    /\ pc[p] = "cycle" /\ r \in todo[p]
    /\ \E slot \in DueSlots(schedule[r], view[p].last[r], view[p].now) :
          job' = [job EXCEPT ![p] = [routine |-> r, slot |-> slot]]
    /\ \E next \in {"reserve", "note", "skip"} :
          /\ r \in view[p].paused <=> next = "skip"
          /\ pc' = [pc EXCEPT ![p] = next]
    /\ todo' = [todo EXCEPT ![p] = @ \ {r}]
    /\ UNCHANGED <<inputs, record, locked, outcome, view, seen, history, bounds>>
-----------------------------------------------------------------------------
\* _supervisor_lock, and the read of the document under it.
Enter(p) ==
    /\ pc[p] \in LockedOps /\ p \notin locked
    /\ locked = {}
    /\ locked' = locked \union {p} /\ seen' = [seen EXCEPT ![p] = record]
    /\ UNCHANGED <<inputs, record, process, history, bounds>>

Leave(p) == locked' = locked \ {p} /\ seen' = [seen EXCEPT ![p] = Nobody]

Busy(p) == LET owner == seen[p][job[p].routine].owner
           IN  owner # Nobody /\ PidRunning(owner)

\* What a manual run leaves of last_scheduled_for_utc.
SlotOnly(p)   == job[p].slot        \* mutant: a manual run forgets the last slot
NextSlotOr(p) == IF job[p].slot = 0 THEN seen[p][job[p].routine].last
                 ELSE job[p].slot + 1   \* mutant: the slot to come is stored
LastOr(p) == IF job[p].slot = 0 THEN seen[p][job[p].routine].last ELSE job[p].slot

\* The three ways to rewrite the routine's record in the document read.
Reserved(p) == [seen[p] EXCEPT ![job[p].routine] = [@ EXCEPT !.owner = p, !.last = LastOr(p)]]
StillReserved(p) == [seen[p] EXCEPT ![job[p].routine] =   \* mutant: the status stays
                       [@ EXCEPT !.last = LastOr(p), !.executions = @ + 1]]
Recorded(p) == [seen[p] EXCEPT ![job[p].routine] =
                  [owner |-> Nobody, last |-> LastOr(p), executions |-> @.executions + 1]]
NotedAsIdle(p) == [seen[p] EXCEPT ![job[p].routine] =     \* mutant: a reservation is lost
                     [@ EXCEPT !.owner = Nobody, !.last = job[p].slot]]
Unchanged(p)   == seen[p]           \* mutant: a slot not run stays due
Noted(p)    == [seen[p] EXCEPT ![job[p].routine] = [@ EXCEPT !.last = job[p].slot]]

\* The document is replaced as a whole.
Writes(p) ==
    /\ \/ pc[p] = "reserve" /\ record' = Reserved(p)
       \/ pc[p] = "record"  /\ record' = Recorded(p)
       \/ pc[p] \in NoteOps /\ record' = Noted(p)
    /\ settled' = [settled EXCEPT ![job[p].routine] = @ \union ({job[p].slot} \ {0})]
    /\ finished' = [finished EXCEPT ![job[p].routine] = IF pc[p] = "record" THEN @ + 1 ELSE @]
    /\ UNCHANGED overlapped

Reserve(p) ==
    /\ pc[p] = "reserve" /\ p \in locked /\ ~Busy(p)
    /\ Writes(p) /\ Leave(p) /\ GoesTo(p, "run")
    /\ UNCHANGED <<inputs, bounds>>

Refuse(p) ==
    /\ pc[p] = "reserve" /\ p \in locked /\ Busy(p)
    /\ Leave(p) /\ GivesUp(p)
    /\ UNCHANGED <<inputs, record, history, bounds>>

\* The run returns or times out, raises an error run_due_routines handles, or
\* raises another or is interrupted: that ends the process once it is recorded,
\* as every way does if it is a manual run.
Finish(p) ==
    /\ pc[p] = "run"
    /\ \E how \in {"returned", "raised", "died"} :
          /\ p \in Manuals => how = "returned"
          /\ outcome' = [outcome EXCEPT ![p] = how]
    /\ pc' = [pc EXCEPT ![p] = "record"]
    /\ UNCHANGED <<inputs, record, locked, job, view, todo, seen, history, bounds>>

RecordRun(p) ==
    /\ pc[p] = "record" /\ p \in locked
    /\ Writes(p) /\ Leave(p)
    /\ \/ (p \in Manuals \/ outcome[p] = "died") /\ Ends(p)
       \/ p \in Supers /\ outcome[p] = "returned" /\ GoesTo(p, "reload")
       \/ p \in Supers /\ outcome[p] = "raised" /\ GoesTo(p, "note")
    /\ UNCHANGED <<inputs, bounds>>

\* A slot that was not run is handled all the same; a run of another process
\* that is under way keeps its reservation.
Note(p) ==
    /\ pc[p] \in NoteOps /\ p \in locked
    /\ Writes(p) /\ Leave(p) /\ GoesTo(p, "reload")
    /\ UNCHANGED <<inputs, bounds>>

Reload(p) ==
    /\ pc[p] = "reload"
    /\ pc' = [pc EXCEPT ![p] = "cycle"]
    /\ view' = [view EXCEPT ![p].last = [r \in Routines |-> record[r].last]]
    /\ job' = [job EXCEPT ![p] = Nobody] /\ outcome' = [outcome EXCEPT ![p] = "returned"]
    /\ UNCHANGED <<inputs, record, locked, todo, seen, history, bounds>>

\* replace_text_file_no_follow raises ValidationError, before the document is
\* replaced or, when only the fsync of the directory fails, after it.  A slot
\* that could not be reserved, recorded or skipped is noted as blocked, in the
\* handler: an error there ends the supervisor.
WriteFails(p) ==
    /\ p \in locked /\ EventsLeft
    /\ pc[p] = "reserve" => ~Busy(p)
    /\ errors' = errors + 1
    /\ Writes(p) \/ UNCHANGED <<record, history>>
    /\ Leave(p)
    /\ IF pc[p] = "note" THEN Ends(p) ELSE GivesUp(p)
    /\ UNCHANGED <<inputs, crashes, controls>>
-----------------------------------------------------------------------------
\* SIGKILL, or any end that runs no handler.
Crash(p) ==
    /\ Alive(p) /\ EventsLeft
    /\ crashes' = crashes + 1
    /\ Ends(p) /\ Leave(p)
    /\ UNCHANGED <<inputs, record, history, errors, controls>>

\* An unrelated program gets the pid of a dead process; it matters when a
\* record names it.
Reuse(p) ==
    /\ PidReuse /\ pc[p] = "dead" /\ \E r \in Routines : record[r].owner = p
    /\ GoesTo(p, "other")
    /\ UNCHANGED <<inputs, record, locked, seen, history, bounds>>

Tick ==
    /\ now < MaxTime /\ now' = now + 1
    /\ UNCHANGED <<schedule, paused, record, locked, process, seen, history, bounds>>

\* set_routine_paused and update_routine_schedule, each under the same lock.
SetPaused(r) ==
    /\ locked = {} /\ EventsLeft
    /\ controls' = controls + 1
    /\ paused' = IF r \in paused THEN paused \ {r} ELSE paused \union {r}
    /\ UNCHANGED <<now, schedule, record, locked, process, seen, history, crashes, errors>>

UpdateSchedule(r) ==
    /\ locked = {} /\ EventsLeft
    /\ controls' = controls + 1
    /\ \E s \in Schedules \ {schedule[r]} : schedule' = [schedule EXCEPT ![r] = s]
    /\ UNCHANGED <<now, paused, record, locked, process, seen, history, crashes, errors>>

Acts(p) ==
    \/ BeginCycle(p) \/ EndCycle(p)
    \/ \E r \in Routines : NotDue(p, r) \/ Due(p, r)
    \/ Enter(p) \/ Reserve(p) \/ Refuse(p) \/ Finish(p) \/ RecordRun(p) \/ Note(p) \/ Reload(p)

Next ==
    \/ \E p \in Pids :
          \/ Acts(p)
          \/ Start(p) \/ Stop(p) \/ WriteFails(p) \/ Crash(p) \/ Reuse(p)
          \/ \E r \in Routines : StartManual(p, r)
    \/ Tick
    \/ \E r \in Routines : SetPaused(r) \/ UpdateSchedule(r)

Spec == Init /\ [][Next]_vars

\* A process goes on, wakes up after poll_seconds, and gets the lock in its
\* turn; a run ends, at the latest when its timeout does.
FairSpec == Spec /\ \A p \in Pids : WF_vars(Acts(p))
-----------------------------------------------------------------------------
(***************************************************************************)
(* What the supervisor promises.                                           *)
(***************************************************************************)

\* Whatever supervisors and manual runs overlap, crash or skip a slot, no two
\* live processes run the same routine (routine_supervisor.py:1068-1071).
OneExecution ==
    \A p, q \in Pids, r \in Routines : Executing(p, r) /\ Executing(q, r) => p = q

\* A routine is refused as "already running" only while the process named in
\* its record runs it, unless a write failed or its pid was given away: every
\* way out of a run clears the reservation, or leaves a dead owner.
BusyMeansRunning ==
    errors = 0 =>
        \A p \in Pids, r \in Routines :
            record[r].owner = p => Executing(p, r) \/ pc[p] \in {"dead", "other"}

\* The execution counts of all routines add up to the runs that were recorded,
\* although every writer rewrites the records of all routines.
RecordsAddUp == \A r \in Routines : record[r].executions = finished[r]

\* As long as supervisors have not run side by side, no slot is run twice, or
\* run after it was skipped or blocked, whatever crashed, failed or was run by
\* hand, paused or rescheduled meanwhile.
Launches(p) == pc[p] = "reserve" /\ pc'[p] = "run"
SlotRunsOnce ==
    [][\A p \in Pids : Launches(p) /\ ~overlapped =>
          job[p].slot \notin settled[job[p].routine]]_vars

\* A slot that has come is run, skipped or blocked, or a later one is, as long
\* as a supervisor stays up and the schedule has the slot, or it gets too late
\* for it: then the supervisor passes it by, up or not.
DueSlotIsHandled ==
    \A r \in Routines, s \in UNION Schedules :
        (s <= now /\ s \in schedule[r]) ~>
            \/ record[r].last >= s \/ s \notin schedule[r]
            \/ TooLate(s, now)
            \/ \A p \in Supers : ~Alive(p)
=============================================================================
