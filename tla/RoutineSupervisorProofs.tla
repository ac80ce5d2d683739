---------------------- MODULE RoutineSupervisorProofs ----------------------
(***************************************************************************)
(* Proofs about RoutineSupervisor, for any processes, routines, schedules  *)
(* and bounds, with and without supervisors side by side.  The argument:   *)
(* the lock has one holder, what it read is still what the document says,  *)
(* and a routine that is executed is reserved by the process executing it. *)
(***************************************************************************)
EXTENDS RoutineSupervisor, TLAPS

\* The lock has one holder, who is at a locked operation, and the document he
\* read has not changed since.
LockInv ==
    /\ \A p, q \in locked : p = q
    /\ \A p \in locked : pc[p] \in LockedOps /\ seen[p] = record

\* A process past the reservation has a slot to handle, 0 for a manual run,
\* and only supervisors have cycles.
JobInv ==
    /\ \A p \in Pids : pc[p] \in LockedOps \union {"run", "reload"} => job[p] \in Job
    /\ \A p \in Supers : pc[p] \in LockedOps \union {"run", "reload"} => job[p].slot # 0
    /\ \A p \in Manuals : /\ pc[p] \in {"fresh", "reserve", "run", "record", "dead", "other"}
                          /\ pc[p] # "fresh" /\ Alive(p) => job[p].slot = 0
                          /\ todo[p] = {}
    /\ \A p \in Pids : pc[p] \in LockedOps \union {"run", "reload"} => job[p].routine \notin todo[p]
    /\ \A p \in Supers : Alive(p) /\ pc[p] # "sleep" => view[p] \in View

\* The executing process is the owner.
OwnerInv == \A p \in Pids, r \in Routines : Executing(p, r) => record[r].owner = p

IInv == TypeOK /\ LockInv /\ JobInv /\ OwnerInv /\ RecordsAddUp /\ BusyMeansRunning

\* While no supervisors have overlapped: one of them is alive at most, what is
\* settled is not after the last slot of the record, the supervisor knows at
\* least that slot, and is about to handle one that is not before it.
SoloInv ==
    ~overlapped =>
        /\ \A p, q \in Supers : Alive(p) /\ Alive(q) => p = q
        /\ \A r \in Routines : \A s \in settled[r] : s <= record[r].last
        /\ \A p \in Supers : \A r \in todo[p] :
              pc[p] \in LockedOps \union {"cycle", "run", "reload"} =>
                  record[r].last <= view[p].last[r]
        /\ \A p \in Supers : pc[p] = "reserve" => record[job[p].routine].last < job[p].slot
        /\ \A p \in Supers : pc[p] \in {"run", "record"} \union NoteOps =>
                  record[job[p].routine].last <= job[p].slot

USE DEF NoteOps

\* What the holder of the lock does to the document and the history.
LEMMA WriteEffect ==
    ASSUME TypeOK, LockInv, JobInv, NEW p \in Pids, p \in locked, Writes(p)
    PROVE  /\ job[p] \in Job
           /\ record' \in [Routines -> Record]
           /\ settled' \in [Routines -> SUBSET Slots] /\ finished' \in [Routines -> Nat]
           /\ overlapped' = overlapped
           /\ \A r \in Routines \ {job[p].routine} :
                 record'[r] = record[r] /\ settled'[r] = settled[r] /\ finished'[r] = finished[r]
           /\ record'[job[p].routine].owner =
                 IF pc[p] = "reserve" THEN p
                 ELSE IF pc[p] = "record" THEN Nobody ELSE record[job[p].routine].owner
           /\ record'[job[p].routine].last =
                 IF job[p].slot = 0 THEN record[job[p].routine].last ELSE job[p].slot
           /\ record[job[p].routine].executions = finished[job[p].routine] =>
                 record'[job[p].routine].executions = finished'[job[p].routine]
           /\ settled'[job[p].routine] = settled[job[p].routine] \union ({job[p].slot} \ {0})
<1> DEFINE r == job[p].routine
           s == job[p].slot
<1>. USE RoutineAssumption DEF Pids, Record
<1>1. pc[p] \in LockedOps /\ seen[p] = record /\ job[p] \in Job
  BY DEF LockInv, JobInv
<1>2. r \in Routines /\ s \in 0..MaxTime /\ (s # 0 => s \in Slots)
  BY <1>1 DEF Job, Slots
<1>3. pc[p] \in NoteOps => s # 0
  BY <1>1 DEF JobInv, LockedOps
<1>4. record \in [Routines -> Record] /\ settled \in [Routines -> SUBSET Slots]
      /\ finished \in [Routines -> Nat]
  BY DEF TypeOK
<1>5. record[r].last \in 0..MaxTime /\ record[r].executions \in Nat
      /\ record[r].owner \in Pids \union {Nobody} /\ finished[r] \in Nat
  BY <1>2, <1>4
<1>6. LastOr(p) = (IF s = 0 THEN record[r].last ELSE s) /\ LastOr(p) \in 0..MaxTime
  BY <1>1, <1>2, <1>5 DEF LastOr
<1>7. /\ settled' = [settled EXCEPT ![r] = @ \union ({s} \ {0})]
      /\ finished' = [finished EXCEPT ![r] = IF pc[p] = "record" THEN @ + 1 ELSE @]
      /\ overlapped' = overlapped
  BY DEF Writes
<1>11. /\ settled' \in [Routines -> SUBSET Slots] /\ finished' \in [Routines -> Nat]
       /\ settled'[r] = settled[r] \union ({s} \ {0})
       /\ finished'[r] = IF pc[p] = "record" THEN finished[r] + 1 ELSE finished[r]
       /\ \A q \in Routines \ {r} : settled'[q] = settled[q] /\ finished'[q] = finished[q]
  BY <1>2, <1>4, <1>5, <1>7
<1>12. SUFFICES
          /\ record' \in [Routines -> Record]
          /\ \A q \in Routines \ {r} : record'[q] = record[q]
          /\ record'[r].owner = IF pc[p] = "reserve" THEN p
                                ELSE IF pc[p] = "record" THEN Nobody ELSE record[r].owner
          /\ record'[r].last = IF s = 0 THEN record[r].last ELSE s
          /\ record[r].executions = finished[r] => record'[r].executions = finished'[r]
  BY <1>1, <1>7, <1>11
<1>8. CASE pc[p] = "reserve"
  <2>1. record' = [record EXCEPT ![r] = [@ EXCEPT !.owner = p, !.last = LastOr(p)]]
    BY <1>1, <1>8 DEF Writes, Reserved
  <2>2. /\ record'[r] = [record[r] EXCEPT !.owner = p, !.last = LastOr(p)]
        /\ record[r] \in Record
        /\ \A q \in Routines \ {r} : record'[q] = record[q]
    BY <1>2, <1>4, <2>1
  <2>3. /\ record'[r].owner = p /\ record'[r].last = LastOr(p)
        /\ record'[r].executions = record[r].executions /\ record'[r] \in Record
    BY <1>6, <2>2
  <2>4. record' \in [Routines -> Record]
    BY <1>4, <2>1, <2>2, <2>3
  <2>. QED
    BY <1>1, <1>2, <1>6, <1>8, <1>11, <2>2, <2>3, <2>4
<1>9. CASE pc[p] = "record"
  <2>1. record' = [record EXCEPT ![r] = [owner |-> Nobody, last |-> LastOr(p),
                                          executions |-> @.executions + 1]]
    BY <1>1, <1>9 DEF Writes, Recorded
  <2>. QED
    BY <1>2, <1>4, <1>5, <1>6, <1>9, <1>11, <2>1
<1>10. CASE pc[p] \in NoteOps
  <2>1. record' = [record EXCEPT ![r] = [@ EXCEPT !.last = s]]
    BY <1>1, <1>10 DEF Writes, Noted
  <2>. QED
    BY <1>2, <1>3, <1>4, <1>5, <1>10, <1>11, <2>1
<1>. QED
  BY <1>1, <1>8, <1>9, <1>10 DEF LockedOps

\* The moves that end a locked operation.
Moves(p) == \/ Ends(p)
            \/ pc[p] = "reserve" /\ GoesTo(p, "run")
            \/ p \in Supers /\ \E next \in {"note", "reload"} : GoesTo(p, next)

ProcessOK == /\ pc \in [Pids -> PCs] /\ job \in [Pids -> Job \union {Nobody}]
             /\ outcome \in [Pids -> {"returned", "raised", "died"}]
             /\ view \in [Pids -> View \union {Nobody}] /\ todo \in [Pids -> SUBSET Routines]

LEMMA MovesKeep ==
    ASSUME TypeOK, LockInv, JobInv, NEW p \in Pids, p \in locked, Moves(p)
    PROVE  ProcessOK' /\ JobInv'
<1>. USE RoutineAssumption DEF Pids
<1>1. pc[p] \in LockedOps
  BY DEF LockInv
<1>2. CASE Ends(p)
  <2>1. ProcessOK'
    BY <1>2 DEF Ends, TypeOK, ProcessOK, PCs, LockedOps
  <2>. QED
    BY <1>2, <2>1 DEF Ends, ProcessOK, TypeOK, JobInv, LockedOps, Alive
<1>3. CASE pc[p] = "reserve" /\ GoesTo(p, "run")
  <2>1. ProcessOK'
    BY <1>3 DEF GoesTo, TypeOK, ProcessOK, PCs, LockedOps
  <2>. QED
    BY <1>3, <2>1 DEF GoesTo, ProcessOK, TypeOK, JobInv, LockedOps, Alive
<1>4. ASSUME p \in Supers, NEW next \in {"note", "reload"}, GoesTo(p, next)
      PROVE  ProcessOK' /\ JobInv'
  <2>1. ProcessOK'
    BY <1>4 DEF GoesTo, TypeOK, ProcessOK, PCs, LockedOps
  <2>. QED
    BY <1>1, <1>4, <2>1 DEF GoesTo, ProcessOK, TypeOK, JobInv, LockedOps, Alive
<1>. QED
  BY <1>2, <1>3, <1>4 DEF Moves

\* The steps that end a locked operation move so, and hold the lock.
LEMMA LockedSteps ==
    ASSUME TypeOK, LockInv, JobInv, NEW p \in Pids,
           Reserve(p) \/ Refuse(p) \/ RecordRun(p) \/ Note(p) \/ WriteFails(p)
    PROVE  p \in locked /\ Moves(p) /\ Leave(p) /\ UNCHANGED inputs
           /\ \/ Writes(p) /\ (pc[p] = "reserve" => ~Busy(p))
              \/ UNCHANGED <<record, history>> /\ pc'[p] # "run"
           /\ (UNCHANGED <<crashes, controls>>) /\ errors' \in {errors, errors + 1}
<1>. USE DEF inputs, bounds
<1>1. GivesUp(p) => Moves(p)
  BY DEF GivesUp, Moves
<1>8. Ends(p) \/ GivesUp(p) => pc'[p] # "run"
  BY DEF GivesUp, Ends, GoesTo, TypeOK
<1>2. CASE Reserve(p)
  BY <1>2 DEF Reserve, Moves
<1>3. CASE Refuse(p)
  BY <1>1, <1>3, <1>8 DEF Refuse
<1>4. CASE RecordRun(p)
  BY <1>4 DEF RecordRun, Moves
<1>5. p \in Manuals => pc[p] \notin NoteOps
  BY DEF JobInv
<1>6. CASE Note(p)
  BY <1>5, <1>6 DEF Note, Moves, Pids
<1>7. CASE WriteFails(p)
  BY <1>1, <1>7, <1>8 DEF WriteFails, Moves
<1>. QED
  BY <1>2, <1>3, <1>4, <1>6, <1>7

\* Every step keeps the types.
LEMMA TypeStep == TypeOK /\ LockInv /\ JobInv /\ [Next]_vars => TypeOK'
<1> SUFFICES ASSUME TypeOK, LockInv, JobInv, [Next]_vars PROVE TypeOK'
  OBVIOUS
<1>. USE RoutineAssumption DEF Pids
<1>1. ASSUME NEW p \in Pids, Start(p) PROVE TypeOK'
  BY <1>1 DEF Start, GoesTo, Alive, inputs, bounds, TypeOK, Record, View, Job, PCs, LockedOps, Slots
<1>2. ASSUME NEW p \in Pids, NEW r \in Routines, StartManual(p, r) PROVE TypeOK'
  BY <1>2 DEF StartManual, inputs, history, bounds, TypeOK, Record, View, Job, PCs, LockedOps, Slots
<1>3. ASSUME NEW p \in Pids, BeginCycle(p) PROVE TypeOK'
  BY <1>3 DEF BeginCycle, inputs, history, bounds, TypeOK, Record, View, Job, PCs, LockedOps, Slots
<1>4. ASSUME NEW p \in Pids, EndCycle(p) PROVE TypeOK'
  BY <1>4 DEF EndCycle, inputs, history, bounds, TypeOK, Record, View, Job, PCs, LockedOps, Slots
<1>5. ASSUME NEW p \in Pids, Stop(p) PROVE TypeOK'
  BY <1>5 DEF Stop, Ends, Alive, inputs, history, bounds, TypeOK, Record, View, Job, PCs,
       LockedOps, Slots
<1>6. ASSUME NEW p \in Pids, NEW r \in Routines, NotDue(p, r) PROVE TypeOK'
  BY <1>6 DEF NotDue, DueSlots, inputs, history, bounds, TypeOK, Record, View, Job, PCs,
       LockedOps, Slots
<1>7. ASSUME NEW p \in Pids, NEW r \in Routines, Due(p, r) PROVE TypeOK'
  <2>1. PICK slot \in DueSlots(schedule[r], view[p].last[r], view[p].now) :
          job' = [job EXCEPT ![p] = [routine |-> r, slot |-> slot]]
    BY <1>7 DEF Due
  <2>2. slot \in Slots
    BY <2>1 DEF DueSlots, TypeOK
  <2>3. job' \in [Pids -> Job \union {Nobody}]
    BY <2>1, <2>2 DEF TypeOK, Job, Slots
  <2>. QED
    BY <1>7, <2>3 DEF Due, inputs, history, bounds, TypeOK, PCs, LockedOps
<1>8. ASSUME NEW p \in Pids, Enter(p) PROVE TypeOK'
  BY <1>8 DEF Enter, LockedOps, inputs, process, history, bounds, TypeOK, Record, View, Job,
       PCs, Slots
<1>9. ASSUME NEW p \in Pids,
             Reserve(p) \/ Refuse(p) \/ RecordRun(p) \/ Note(p) \/ WriteFails(p)
      PROVE  TypeOK'
  <2>1. /\ p \in locked /\ Moves(p) /\ Leave(p) /\ UNCHANGED inputs
        /\ Writes(p) \/ UNCHANGED <<record, history>>
        /\ UNCHANGED <<crashes, controls>> /\ errors' \in {errors, errors + 1}
    BY <1>9, LockedSteps
  <2>2. ProcessOK'
    BY <2>1, MovesKeep
  <2>3. /\ record' \in [Routines -> Record]
        /\ settled' \in [Routines -> SUBSET Slots] /\ finished' \in [Routines -> Nat]
        /\ overlapped' \in BOOLEAN
    BY <2>1, WriteEffect DEF TypeOK, history
  <2>. QED
    BY <2>1, <2>2, <2>3 DEF TypeOK, ProcessOK, Leave, inputs
<1>10. ASSUME NEW p \in Pids, Finish(p) PROVE TypeOK'
  BY <1>10 DEF Finish, inputs, history, bounds, TypeOK, Record, View, Job, PCs, LockedOps, Slots
<1>11. ASSUME NEW p \in Pids, Reload(p) PROVE TypeOK'
  <2>1. p \in Supers
    BY <1>11 DEF Reload, JobInv
  <2>2. view[p] \in View
    BY <1>11, <2>1 DEF Reload, JobInv, Alive
  <2>3. [r \in Routines |-> record[r].last] \in [Routines -> 0..MaxTime]
    BY DEF TypeOK, Record
  <2>4. [view[p] EXCEPT !.last = [r \in Routines |-> record[r].last]] \in View
    BY <2>2, <2>3 DEF View
  <2>5. view' \in [Pids -> View \union {Nobody}]
    BY <1>11, <2>4 DEF Reload, TypeOK
  <2>. QED
    BY <1>11, <2>5 DEF Reload, inputs, history, bounds, TypeOK, PCs, LockedOps
<1>12. ASSUME NEW p \in Pids, Crash(p) PROVE TypeOK'
  BY <1>12 DEF Crash, Ends, Leave, Alive, inputs, history, TypeOK, Record, View, Job, PCs,
       LockedOps, Slots
<1>13. ASSUME NEW p \in Pids, Reuse(p) PROVE TypeOK'
  BY <1>13 DEF Reuse, GoesTo, Alive, inputs, history, bounds, TypeOK, Record, View, Job,
       PCs, LockedOps,
       Slots
<1>14. ASSUME Tick PROVE TypeOK'
  BY <1>14 DEF Tick, process, history, bounds, TypeOK, Record, View, Job, PCs, LockedOps, Slots
<1>15. ASSUME NEW r \in Routines, SetPaused(r) PROVE TypeOK'
  BY <1>15 DEF SetPaused, process, history, TypeOK, Record, View, Job, PCs, LockedOps, Slots
<1>16. ASSUME NEW r \in Routines, UpdateSchedule(r) PROVE TypeOK'
  BY <1>16 DEF UpdateSchedule, process, history, TypeOK, Record, View, Job, PCs, LockedOps, Slots
<1>17. CASE UNCHANGED vars
  BY <1>17 DEF vars, inputs, process, history, bounds, TypeOK, Record, View, Job, PCs,
       LockedOps, Slots
<1>. QED
  BY <1>1, <1>2, <1>3, <1>4, <1>5, <1>6, <1>7, <1>8, <1>9, <1>10, <1>11, <1>12, <1>13, <1>14,
       <1>15, <1>16, <1>17 DEF Next, Acts

\* Every step keeps the lock to one holder, who knows the document.
LEMMA LockStep == TypeOK /\ LockInv /\ JobInv /\ [Next]_vars => LockInv'
<1> SUFFICES ASSUME TypeOK, LockInv, JobInv, [Next]_vars PROVE LockInv'
  OBVIOUS
<1>. USE RoutineAssumption DEF Pids
<1>1. ASSUME NEW p \in Pids, Start(p) PROVE LockInv'
  BY <1>1 DEF Start, GoesTo, Alive, inputs, bounds, TypeOK, LockInv, JobInv, LockedOps
<1>2. ASSUME NEW p \in Pids, NEW r \in Routines, StartManual(p, r) PROVE LockInv'
  BY <1>2 DEF StartManual, inputs, history, bounds, TypeOK, LockInv, JobInv, LockedOps, Alive
<1>3. ASSUME NEW p \in Pids, BeginCycle(p) PROVE LockInv'
  BY <1>3 DEF BeginCycle, inputs, history, bounds, TypeOK, LockInv, JobInv, LockedOps, Alive
<1>4. ASSUME NEW p \in Pids, EndCycle(p) PROVE LockInv'
  BY <1>4 DEF EndCycle, inputs, history, bounds, TypeOK, LockInv, JobInv, LockedOps, Alive
<1>5. ASSUME NEW p \in Pids, Stop(p) PROVE LockInv'
  BY <1>5 DEF Stop, Ends, Alive, inputs, history, bounds, TypeOK, LockInv, JobInv, LockedOps
<1>6. ASSUME NEW p \in Pids, NEW r \in Routines, NotDue(p, r) PROVE LockInv'
  BY <1>6 DEF NotDue, DueSlots, inputs, history, bounds, TypeOK, LockInv, JobInv, LockedOps,
       Alive
<1>7. ASSUME NEW p \in Pids, NEW r \in Routines, Due(p, r) PROVE LockInv'
  BY <1>7 DEF Due, DueSlots, Slots, inputs, process, history, bounds, TypeOK, LockInv, JobInv,
       LockedOps, Alive
<1>8. ASSUME NEW p \in Pids, Enter(p) PROVE LockInv'
  BY <1>8 DEF Enter, LockedOps, inputs, process, history, bounds, TypeOK, LockInv, JobInv, Alive
<1>9. ASSUME NEW p \in Pids,
             Reserve(p) \/ Refuse(p) \/ RecordRun(p) \/ Note(p) \/ WriteFails(p)
      PROVE  LockInv'
  <2>1. p \in locked /\ Leave(p)
    BY <1>9, LockedSteps
  <2>. QED
    BY <2>1 DEF LockInv, Leave
<1>10. ASSUME NEW p \in Pids, Finish(p) PROVE LockInv'
  BY <1>10 DEF Finish, inputs, history, bounds, TypeOK, LockInv, JobInv, LockedOps, Alive
<1>11. ASSUME NEW p \in Pids, Reload(p) PROVE LockInv'
  BY <1>11 DEF Reload, inputs, history, bounds, TypeOK, LockInv, JobInv, LockedOps, Alive
<1>12. ASSUME NEW p \in Pids, Crash(p) PROVE LockInv'
  BY <1>12 DEF Crash, Ends, Leave, Alive, inputs, history, TypeOK, LockInv, JobInv, LockedOps
<1>13. ASSUME NEW p \in Pids, Reuse(p) PROVE LockInv'
  BY <1>13 DEF Reuse, GoesTo, Alive, inputs, history, bounds, TypeOK, LockInv, JobInv, LockedOps
<1>14. ASSUME Tick PROVE LockInv'
  BY <1>14 DEF Tick, process, history, bounds, TypeOK, LockInv, JobInv, LockedOps, Alive
<1>15. ASSUME NEW r \in Routines, SetPaused(r) PROVE LockInv'
  BY <1>15 DEF SetPaused, process, history, TypeOK, LockInv, JobInv, LockedOps, Alive
<1>16. ASSUME NEW r \in Routines, UpdateSchedule(r) PROVE LockInv'
  BY <1>16 DEF UpdateSchedule, process, history, TypeOK, LockInv, JobInv, LockedOps, Alive
<1>17. CASE UNCHANGED vars
  BY <1>17 DEF vars, inputs, process, history, bounds, TypeOK, LockInv, JobInv, LockedOps, Alive
<1>. QED
  BY <1>1, <1>2, <1>3, <1>4, <1>5, <1>6, <1>7, <1>8, <1>9, <1>10, <1>11, <1>12, <1>13, <1>14,
       <1>15, <1>16, <1>17 DEF Next, Acts

\* Every step keeps what a process knows of the slot it handles.
LEMMA JobStep == TypeOK /\ LockInv /\ JobInv /\ [Next]_vars => JobInv'
<1> SUFFICES ASSUME TypeOK, LockInv, JobInv, [Next]_vars PROVE JobInv'
  OBVIOUS
<1>. USE RoutineAssumption DEF Pids
<1>1. ASSUME NEW p \in Pids, Start(p) PROVE JobInv'
  BY <1>1 DEF Start, GoesTo, Alive, inputs, bounds, TypeOK, JobInv, LockedOps, View, Slots
<1>2. ASSUME NEW p \in Pids, NEW r \in Routines, StartManual(p, r) PROVE JobInv'
  <2>1. job'[p] = [routine |-> r, slot |-> 0] /\ job'[p] \in Job /\ job'[p].routine \notin todo'[p]
    BY <1>2 DEF StartManual, TypeOK, Job, JobInv
  <2>2. p \in Manuals /\ p \notin Supers /\ pc'[p] = "reserve" /\ job'[p].slot = 0
    BY <1>2, <2>1 DEF StartManual, TypeOK
  <2>3. \A q \in Pids \ {p} : pc'[q] = pc[q] /\ job'[q] = job[q]
    BY <1>2 DEF StartManual, TypeOK
  <2>4. todo' = todo /\ view' = view
    BY <1>2 DEF StartManual
  <2>. QED
    BY <2>1, <2>2, <2>3, <2>4 DEF JobInv, LockedOps, Alive
<1>3. ASSUME NEW p \in Pids, BeginCycle(p) PROVE JobInv'
  <2>1. view'[p] \in View /\ pc'[p] = "cycle"
    BY <1>3 DEF BeginCycle, TypeOK, View, Record
  <2>2. \A q \in Pids \ {p} : pc'[q] = pc[q] /\ view'[q] = view[q] /\ todo'[q] = todo[q]
    BY <1>3 DEF BeginCycle, TypeOK
  <2>3. job' = job /\ pc[p] = "sleep"
    BY <1>3 DEF BeginCycle
  <2>. QED
    BY <2>1, <2>2, <2>3 DEF JobInv, LockedOps, Alive
<1>4. ASSUME NEW p \in Pids, EndCycle(p) PROVE JobInv'
  BY <1>4 DEF EndCycle, inputs, history, bounds, TypeOK, JobInv, LockedOps, Alive, View, Slots
<1>5. ASSUME NEW p \in Pids, Stop(p) PROVE JobInv'
  BY <1>5 DEF Stop, Ends, Alive, inputs, history, bounds, TypeOK, JobInv, LockedOps, View, Slots
<1>6. ASSUME NEW p \in Pids, NEW r \in Routines, NotDue(p, r) PROVE JobInv'
  BY <1>6 DEF NotDue, DueSlots, inputs, history, bounds, TypeOK, JobInv, LockedOps, Alive, View,
       Slots
<1>7. ASSUME NEW p \in Pids, NEW r \in Routines, Due(p, r) PROVE JobInv'
  <2>1. PICK slot \in DueSlots(schedule[r], view[p].last[r], view[p].now) :
          job' = [job EXCEPT ![p] = [routine |-> r, slot |-> slot]]
    BY <1>7 DEF Due
  <2>2. slot \in Slots
    BY <2>1 DEF DueSlots, TypeOK
  <2>3. job'[p] = [routine |-> r, slot |-> slot] /\ job'[p] \in Job /\ slot # 0
    BY <2>1, <2>2 DEF TypeOK, Job, Slots
  <2>4. /\ pc[p] = "cycle" /\ pc' = [pc EXCEPT ![p] = pc'[p]] /\ pc'[p] \in {"reserve"} \union NoteOps
        /\ todo' = [todo EXCEPT ![p] = @ \ {r}] /\ view' = view
    BY <1>7 DEF Due, TypeOK
  <2>5. p \in Supers
    BY <2>4 DEF JobInv
  <2>6. job'[p].routine \notin todo'[p]
    BY <2>3, <2>4 DEF TypeOK
  <2>7. \A q \in Pids : q # p => pc'[q] = pc[q] /\ job'[q] = job[q] /\ todo'[q] = todo[q]
    BY <2>1, <2>4 DEF TypeOK
  <2>. QED
    BY <2>3, <2>4, <2>5, <2>6, <2>7 DEF JobInv, LockedOps, Alive
<1>8. ASSUME NEW p \in Pids, Enter(p) PROVE JobInv'
  BY <1>8 DEF Enter, LockedOps, inputs, process, history, bounds, TypeOK, JobInv, Alive, View,
       Slots
<1>9. ASSUME NEW p \in Pids,
             Reserve(p) \/ Refuse(p) \/ RecordRun(p) \/ Note(p) \/ WriteFails(p)
      PROVE  JobInv'
  BY <1>9, LockedSteps, MovesKeep
<1>10. ASSUME NEW p \in Pids, Finish(p) PROVE JobInv'
  BY <1>10 DEF Finish, inputs, history, bounds, TypeOK, JobInv, LockedOps, Alive, View, Slots
<1>11. ASSUME NEW p \in Pids, Reload(p) PROVE JobInv'
  <2>1. p \in Supers
    BY <1>11 DEF Reload, JobInv
  <2>2. view[p] \in View
    BY <1>11, <2>1 DEF Reload, JobInv, Alive
  <2>3. [r \in Routines |-> record[r].last] \in [Routines -> 0..MaxTime]
    BY DEF TypeOK, Record
  <2>4. [view[p] EXCEPT !.last = [r \in Routines |-> record[r].last]] \in View
    BY <2>2, <2>3 DEF View
  <2>5. view'[p] \in View /\ \A q \in Pids \ {p} : view'[q] = view[q]
    BY <1>11, <2>4 DEF Reload, TypeOK
  <2>6. pc'[p] = "cycle" /\ \A q \in Pids \ {p} : pc'[q] = pc[q] /\ job'[q] = job[q]
    BY <1>11 DEF Reload, TypeOK
  <2>7. todo' = todo
    BY <1>11 DEF Reload
  <2>. QED
    BY <2>1, <2>5, <2>6, <2>7 DEF JobInv, LockedOps, Alive
<1>12. ASSUME NEW p \in Pids, Crash(p) PROVE JobInv'
  BY <1>12 DEF Crash, Ends, Leave, Alive, inputs, history, TypeOK, JobInv, LockedOps, View,
       Slots
<1>13. ASSUME NEW p \in Pids, Reuse(p) PROVE JobInv'
  BY <1>13 DEF Reuse, GoesTo, Alive, inputs, history, bounds, TypeOK, JobInv, LockedOps, View,
       Slots
<1>14. ASSUME Tick PROVE JobInv'
  BY <1>14 DEF Tick, process, history, bounds, TypeOK, JobInv, LockedOps, Alive, View, Slots
<1>15. ASSUME NEW r \in Routines, SetPaused(r) PROVE JobInv'
  BY <1>15 DEF SetPaused, process, history, TypeOK, JobInv, LockedOps, Alive, View, Slots
<1>16. ASSUME NEW r \in Routines, UpdateSchedule(r) PROVE JobInv'
  BY <1>16 DEF UpdateSchedule, process, history, TypeOK, JobInv, LockedOps, Alive, View, Slots
<1>17. CASE UNCHANGED vars
  BY <1>17 DEF vars, inputs, process, history, bounds, TypeOK, JobInv, LockedOps, Alive, View, Slots
<1>. QED
  BY <1>1, <1>2, <1>3, <1>4, <1>5, <1>6, <1>7, <1>8, <1>9, <1>10, <1>11, <1>12, <1>13, <1>14,
       <1>15, <1>16, <1>17 DEF Next, Acts

\* Every step keeps the reservation of a run under way: a reservation that would
\* take it is refused, and a note leaves the owner.
LEMMA OwnerStep == TypeOK /\ LockInv /\ JobInv /\ OwnerInv /\ [Next]_vars => OwnerInv'
<1> SUFFICES ASSUME TypeOK, LockInv, JobInv, OwnerInv, [Next]_vars PROVE OwnerInv'
  OBVIOUS
<1>. USE RoutineAssumption DEF Pids
<1>1. ASSUME NEW p \in Pids, Start(p) PROVE OwnerInv'
  BY <1>1 DEF Start, GoesTo, Alive, inputs, bounds, TypeOK, OwnerInv, Executing
<1>2. ASSUME NEW p \in Pids, NEW r \in Routines, StartManual(p, r) PROVE OwnerInv'
  BY <1>2 DEF StartManual, inputs, history, bounds, TypeOK, OwnerInv, Executing
<1>3. ASSUME NEW p \in Pids, BeginCycle(p) PROVE OwnerInv'
  BY <1>3 DEF BeginCycle, inputs, history, bounds, TypeOK, OwnerInv, Executing
<1>4. ASSUME NEW p \in Pids, EndCycle(p) PROVE OwnerInv'
  BY <1>4 DEF EndCycle, inputs, history, bounds, TypeOK, OwnerInv, Executing
<1>5. ASSUME NEW p \in Pids, Stop(p) PROVE OwnerInv'
  BY <1>5 DEF Stop, Ends, Alive, inputs, history, bounds, TypeOK, OwnerInv, Executing
<1>6. ASSUME NEW p \in Pids, NEW r \in Routines, NotDue(p, r) PROVE OwnerInv'
  BY <1>6 DEF NotDue, DueSlots, inputs, history, bounds, TypeOK, OwnerInv, Executing
<1>7. ASSUME NEW p \in Pids, NEW r \in Routines, Due(p, r) PROVE OwnerInv'
  BY <1>7 DEF Due, DueSlots, Slots, inputs, process, history, bounds, TypeOK, OwnerInv,
       Executing
<1>8. ASSUME NEW p \in Pids, Enter(p) PROVE OwnerInv'
  BY <1>8 DEF Enter, LockedOps, inputs, process, history, bounds, TypeOK, OwnerInv, Executing
<1>9. ASSUME NEW p \in Pids,
             Reserve(p) \/ Refuse(p) \/ RecordRun(p) \/ Note(p) \/ WriteFails(p)
      PROVE  OwnerInv'
  <2>1. /\ p \in locked /\ Moves(p)
        /\ \/ Writes(p) /\ (pc[p] = "reserve" => ~Busy(p))
           \/ UNCHANGED record /\ pc'[p] # "run"
    BY <1>9, LockedSteps
  <2>2. /\ \A q \in Pids \ {p} : pc'[q] = pc[q] /\ job'[q] = job[q]
        /\ pc'[p] \in {"run", "record"} => pc[p] = "reserve" /\ pc'[p] = "run" /\ job'[p] = job[p]
    BY <2>1 DEF Moves, Ends, GoesTo, TypeOK
  <2>3. CASE UNCHANGED record /\ pc'[p] # "run"
    BY <2>2, <2>3 DEF OwnerInv, Executing
  <2>4. CASE Writes(p) /\ (pc[p] = "reserve" => ~Busy(p))
    <3> DEFINE r == job[p].routine
    <3>1. /\ r \in Routines /\ pc[p] \in LockedOps /\ seen[p] = record
          /\ \A x \in Routines \ {r} : record'[x] = record[x]
          /\ record'[r].owner = IF pc[p] = "reserve" THEN p
                                ELSE IF pc[p] = "record" THEN Nobody ELSE record[r].owner
      BY <2>1, <2>4, WriteEffect DEF Job, LockInv
    <3>2. SUFFICES ASSUME NEW q \in Pids, NEW x \in Routines, Executing(q, x)'
                   PROVE  record'[x].owner = q
      BY DEF OwnerInv
    <3>3. CASE q = p
      BY <2>2, <3>1, <3>2, <3>3 DEF Executing
    <3>4. CASE q # p
      <4>1. Executing(q, x) /\ record[x].owner = q
        BY <2>2, <3>2, <3>4 DEF Executing, OwnerInv
      <4>2. CASE x # r
        BY <3>1, <4>1, <4>2
      <4>3. CASE x = r /\ pc[p] = "reserve"
        BY <2>4, <3>1, <4>1, <4>3 DEF Busy, PidRunning, Executing
      <4>4. CASE x = r /\ pc[p] = "record"
        BY <3>4, <4>1, <4>4 DEF OwnerInv, Executing
      <4>5. CASE x = r /\ pc[p] \in NoteOps
        BY <3>1, <4>1, <4>5
      <4>. QED
        BY <3>1, <4>2, <4>3, <4>4, <4>5 DEF LockedOps
    <3>. QED
      BY <3>3, <3>4
  <2>. QED
    BY <2>1, <2>3, <2>4
<1>10. ASSUME NEW p \in Pids, Finish(p) PROVE OwnerInv'
  BY <1>10 DEF Finish, inputs, history, bounds, TypeOK, OwnerInv, Executing
<1>11. ASSUME NEW p \in Pids, Reload(p) PROVE OwnerInv'
  BY <1>11 DEF Reload, inputs, history, bounds, TypeOK, OwnerInv, Executing
<1>12. ASSUME NEW p \in Pids, Crash(p) PROVE OwnerInv'
  BY <1>12 DEF Crash, Ends, Leave, Alive, inputs, history, TypeOK, OwnerInv, Executing
<1>13. ASSUME NEW p \in Pids, Reuse(p) PROVE OwnerInv'
  BY <1>13 DEF Reuse, GoesTo, Alive, inputs, history, bounds, TypeOK, OwnerInv, Executing
<1>14. ASSUME Tick PROVE OwnerInv'
  BY <1>14 DEF Tick, process, history, bounds, TypeOK, OwnerInv, Executing
<1>15. ASSUME NEW r \in Routines, SetPaused(r) PROVE OwnerInv'
  BY <1>15 DEF SetPaused, process, history, TypeOK, OwnerInv, Executing
<1>16. ASSUME NEW r \in Routines, UpdateSchedule(r) PROVE OwnerInv'
  BY <1>16 DEF UpdateSchedule, process, history, TypeOK, OwnerInv, Executing
<1>17. CASE UNCHANGED vars
  BY <1>17 DEF vars, inputs, process, history, bounds, TypeOK, OwnerInv, Executing
<1>. QED
  BY <1>1, <1>2, <1>3, <1>4, <1>5, <1>6, <1>7, <1>8, <1>9, <1>10, <1>11, <1>12, <1>13, <1>14,
       <1>15, <1>16, <1>17 DEF Next, Acts

\* Every step that counts a run records it.
LEMMA CountStep == TypeOK /\ LockInv /\ JobInv /\ RecordsAddUp /\ [Next]_vars => RecordsAddUp'
<1> SUFFICES ASSUME TypeOK, LockInv, JobInv, RecordsAddUp, [Next]_vars PROVE RecordsAddUp'
  OBVIOUS
<1>. USE RoutineAssumption DEF Pids
<1>1. ASSUME NEW p \in Pids, Start(p) PROVE RecordsAddUp'
  BY <1>1 DEF Start, GoesTo, Alive, inputs, bounds, TypeOK, RecordsAddUp
<1>2. ASSUME NEW p \in Pids, NEW r \in Routines, StartManual(p, r) PROVE RecordsAddUp'
  BY <1>2 DEF StartManual, inputs, history, bounds, TypeOK, RecordsAddUp
<1>3. ASSUME NEW p \in Pids, BeginCycle(p) PROVE RecordsAddUp'
  BY <1>3 DEF BeginCycle, inputs, history, bounds, TypeOK, RecordsAddUp
<1>4. ASSUME NEW p \in Pids, EndCycle(p) PROVE RecordsAddUp'
  BY <1>4 DEF EndCycle, inputs, history, bounds, TypeOK, RecordsAddUp
<1>5. ASSUME NEW p \in Pids, Stop(p) PROVE RecordsAddUp'
  BY <1>5 DEF Stop, Ends, Alive, inputs, history, bounds, TypeOK, RecordsAddUp
<1>6. ASSUME NEW p \in Pids, NEW r \in Routines, NotDue(p, r) PROVE RecordsAddUp'
  BY <1>6 DEF NotDue, DueSlots, inputs, history, bounds, TypeOK, RecordsAddUp
<1>7. ASSUME NEW p \in Pids, NEW r \in Routines, Due(p, r) PROVE RecordsAddUp'
  BY <1>7 DEF Due, DueSlots, Slots, inputs, process, history, bounds, TypeOK, RecordsAddUp
<1>8. ASSUME NEW p \in Pids, Enter(p) PROVE RecordsAddUp'
  BY <1>8 DEF Enter, LockedOps, inputs, process, history, bounds, TypeOK, RecordsAddUp
<1>9. ASSUME NEW p \in Pids,
             Reserve(p) \/ Refuse(p) \/ RecordRun(p) \/ Note(p) \/ WriteFails(p)
      PROVE  RecordsAddUp'
  <2>1. p \in locked /\ (Writes(p) \/ UNCHANGED <<record, history>>)
    BY <1>9, LockedSteps
  <2>2. CASE Writes(p)
    BY <2>1, <2>2, WriteEffect DEF RecordsAddUp, Job
  <2>. QED
    BY <2>1, <2>2 DEF RecordsAddUp, history
<1>10. ASSUME NEW p \in Pids, Finish(p) PROVE RecordsAddUp'
  BY <1>10 DEF Finish, inputs, history, bounds, TypeOK, RecordsAddUp
<1>11. ASSUME NEW p \in Pids, Reload(p) PROVE RecordsAddUp'
  BY <1>11 DEF Reload, inputs, history, bounds, TypeOK, RecordsAddUp
<1>12. ASSUME NEW p \in Pids, Crash(p) PROVE RecordsAddUp'
  BY <1>12 DEF Crash, Ends, Leave, Alive, inputs, history, TypeOK, RecordsAddUp
<1>13. ASSUME NEW p \in Pids, Reuse(p) PROVE RecordsAddUp'
  BY <1>13 DEF Reuse, GoesTo, Alive, inputs, history, bounds, TypeOK, RecordsAddUp
<1>14. ASSUME Tick PROVE RecordsAddUp'
  BY <1>14 DEF Tick, process, history, bounds, TypeOK, RecordsAddUp
<1>15. ASSUME NEW r \in Routines, SetPaused(r) PROVE RecordsAddUp'
  BY <1>15 DEF SetPaused, process, history, TypeOK, RecordsAddUp
<1>16. ASSUME NEW r \in Routines, UpdateSchedule(r) PROVE RecordsAddUp'
  BY <1>16 DEF UpdateSchedule, process, history, TypeOK, RecordsAddUp
<1>17. CASE UNCHANGED vars
  BY <1>17 DEF vars, inputs, process, history, bounds, TypeOK, RecordsAddUp
<1>. QED
  BY <1>1, <1>2, <1>3, <1>4, <1>5, <1>6, <1>7, <1>8, <1>9, <1>10, <1>11, <1>12, <1>13, <1>14,
       <1>15, <1>16, <1>17 DEF Next, Acts

\* Every step that ends a run clears its reservation, or leaves a dead owner.
LEMMA BusyStep ==
    TypeOK /\ LockInv /\ JobInv /\ OwnerInv /\ BusyMeansRunning /\ [Next]_vars => BusyMeansRunning'
<1> SUFFICES ASSUME TypeOK, LockInv, JobInv, OwnerInv, BusyMeansRunning, [Next]_vars
      PROVE  BusyMeansRunning'
  OBVIOUS
<1>. USE RoutineAssumption DEF Pids
<1>1. ASSUME NEW p \in Pids, Start(p) PROVE BusyMeansRunning'
  BY <1>1 DEF Start, GoesTo, Alive, inputs, bounds, TypeOK, Executing, BusyMeansRunning
<1>2. ASSUME NEW p \in Pids, NEW r \in Routines, StartManual(p, r) PROVE BusyMeansRunning'
  BY <1>2 DEF StartManual, inputs, history, bounds, TypeOK, Executing, BusyMeansRunning
<1>3. ASSUME NEW p \in Pids, BeginCycle(p) PROVE BusyMeansRunning'
  BY <1>3 DEF BeginCycle, inputs, history, bounds, TypeOK, Executing, BusyMeansRunning
<1>4. ASSUME NEW p \in Pids, EndCycle(p) PROVE BusyMeansRunning'
  BY <1>4 DEF EndCycle, inputs, history, bounds, TypeOK, Executing, BusyMeansRunning
<1>5. ASSUME NEW p \in Pids, Stop(p) PROVE BusyMeansRunning'
  BY <1>5 DEF Stop, Ends, Alive, inputs, history, bounds, TypeOK, Executing, BusyMeansRunning
<1>6. ASSUME NEW p \in Pids, NEW r \in Routines, NotDue(p, r) PROVE BusyMeansRunning'
  BY <1>6 DEF NotDue, DueSlots, inputs, history, bounds, TypeOK, Executing, BusyMeansRunning
<1>7. ASSUME NEW p \in Pids, NEW r \in Routines, Due(p, r) PROVE BusyMeansRunning'
  BY <1>7 DEF Due, DueSlots, Slots, inputs, process, history, bounds, TypeOK, Executing,
       BusyMeansRunning
<1>8. ASSUME NEW p \in Pids, Enter(p) PROVE BusyMeansRunning'
  BY <1>8 DEF Enter, LockedOps, inputs, process, history, bounds, TypeOK, Executing,
       BusyMeansRunning
<1>9. ASSUME NEW p \in Pids,
             Reserve(p) \/ Refuse(p) \/ RecordRun(p) \/ Note(p) \/ WriteFails(p)
      PROVE  BusyMeansRunning'
  <2>1. /\ p \in locked /\ Moves(p) /\ errors' \in {errors, errors + 1}
        /\ Writes(p) \/ UNCHANGED record
    BY <1>9, LockedSteps
  <2>2. CASE WriteFails(p)
    BY <2>2 DEF WriteFails, BusyMeansRunning, TypeOK
  <2>3. CASE ~WriteFails(p) /\ errors = 0
    <3>1. /\ \A q \in Pids \ {p} : pc'[q] = pc[q] /\ job'[q] = job[q]
          /\ pc'[p] = "dead" \/ job'[p] = job[p]
      BY <2>1 DEF Moves, Ends, GoesTo, TypeOK
    <3>2. pc[p] \in LockedOps /\ job[p] \in Job
      BY <2>1 DEF LockInv, JobInv
    <3>3. \A x \in Routines : record[x].owner = p => pc[p] = "record" /\ x = job[p].routine
      BY <2>3, <3>2 DEF BusyMeansRunning, Executing, LockedOps
    <3>4. \A x \in Routines : record'[x].owner = p => pc'[p] = "run" /\ x = job'[p].routine
      <4>1. CASE Reserve(p)
        <5>1. Writes(p) /\ pc[p] = "reserve" /\ pc'[p] = "run" /\ job' = job
          BY <4>1 DEF Reserve, GoesTo, TypeOK
        <5>. QED
          BY <2>1, <3>3, <5>1, WriteEffect
      <4>2. CASE Refuse(p)
        BY <3>3, <4>2 DEF Refuse
      <4>3. CASE RecordRun(p)
        <5>1. Writes(p) /\ pc[p] = "record"
          BY <4>3 DEF RecordRun
        <5>. QED
          BY <2>1, <3>2, <3>3, <5>1, WriteEffect, RoutineAssumption DEF Job
      <4>4. CASE Note(p)
        <5>1. Writes(p) /\ pc[p] \in NoteOps
          BY <4>4 DEF Note
        <5>. QED
          BY <2>1, <3>2, <3>3, <5>1, WriteEffect DEF Job
      <4>. QED
        BY <1>9, <2>3, <4>1, <4>2, <4>3, <4>4
    <3>5. \A q \in Pids \ {p} : \A x \in Routines : record'[x].owner = q => record[x].owner = q
      <4>1. CASE Writes(p)
        BY <2>1, <3>2, <4>1, WriteEffect, RoutineAssumption DEF Job
      <4>. QED
        BY <2>1, <4>1
    <3>. QED
      BY <2>3, <3>1, <3>4, <3>5 DEF BusyMeansRunning, Executing
  <2>. QED
    BY <2>1, <2>2, <2>3 DEF BusyMeansRunning, TypeOK
<1>10. ASSUME NEW p \in Pids, Finish(p) PROVE BusyMeansRunning'
  BY <1>10 DEF Finish, inputs, history, bounds, TypeOK, Executing, BusyMeansRunning
<1>11. ASSUME NEW p \in Pids, Reload(p) PROVE BusyMeansRunning'
  BY <1>11 DEF Reload, inputs, history, bounds, TypeOK, Executing, BusyMeansRunning
<1>12. ASSUME NEW p \in Pids, Crash(p) PROVE BusyMeansRunning'
  BY <1>12 DEF Crash, Ends, Leave, Alive, inputs, history, TypeOK, Executing, BusyMeansRunning
<1>13. ASSUME NEW p \in Pids, Reuse(p) PROVE BusyMeansRunning'
  BY <1>13 DEF Reuse, GoesTo, Alive, inputs, history, bounds, TypeOK, Executing,
       BusyMeansRunning
<1>14. ASSUME Tick PROVE BusyMeansRunning'
  BY <1>14 DEF Tick, process, history, bounds, TypeOK, Executing, BusyMeansRunning
<1>15. ASSUME NEW r \in Routines, SetPaused(r) PROVE BusyMeansRunning'
  BY <1>15 DEF SetPaused, process, history, TypeOK, Executing, BusyMeansRunning
<1>16. ASSUME NEW r \in Routines, UpdateSchedule(r) PROVE BusyMeansRunning'
  BY <1>16 DEF UpdateSchedule, process, history, TypeOK, Executing, BusyMeansRunning
<1>17. CASE UNCHANGED vars
  BY <1>17 DEF vars, inputs, process, history, bounds, TypeOK, Executing, BusyMeansRunning
<1>. QED
  BY <1>1, <1>2, <1>3, <1>4, <1>5, <1>6, <1>7, <1>8, <1>9, <1>10, <1>11, <1>12, <1>13, <1>14,
       <1>15, <1>16, <1>17 DEF Next, Acts

\* Every step of a lone supervisor, and of anything beside it, keeps the order of
\* the slots.
LEMMA SoloStep == TypeOK /\ LockInv /\ JobInv /\ SoloInv /\ [Next]_vars => SoloInv'
<1> SUFFICES ASSUME TypeOK, LockInv, JobInv, SoloInv, [Next]_vars PROVE SoloInv'
  OBVIOUS
<1>. USE RoutineAssumption DEF Pids
<1>1. ASSUME NEW p \in Pids, Start(p) PROVE SoloInv'
  BY <1>1 DEF Start, GoesTo, Alive, inputs, bounds, TypeOK, JobInv, SoloInv, LockedOps
<1>2. ASSUME NEW p \in Pids, NEW r \in Routines, StartManual(p, r) PROVE SoloInv'
  BY <1>2 DEF StartManual, inputs, history, bounds, TypeOK, JobInv, SoloInv, LockedOps, Alive
<1>3. ASSUME NEW p \in Pids, BeginCycle(p) PROVE SoloInv'
  <2>1. \A x \in Routines : view'[p].last[x] = record[x].last /\ record[x].last \in Int
    BY <1>3 DEF BeginCycle, TypeOK, Record
  <2>2. /\ \A q \in Pids \ {p} : pc'[q] = pc[q] /\ view'[q] = view[q] /\ todo'[q] = todo[q]
        /\ pc'[p] = "cycle" /\ todo'[p] = Routines /\ job' = job
        /\ UNCHANGED <<record, history>>
    BY <1>3 DEF BeginCycle, TypeOK
  <2>3. pc[p] = "sleep"
    BY <1>3 DEF BeginCycle
  <2>. QED
    BY <2>1, <2>2, <2>3 DEF SoloInv, LockedOps, Alive, history
<1>4. ASSUME NEW p \in Pids, EndCycle(p) PROVE SoloInv'
  BY <1>4 DEF EndCycle, inputs, history, bounds, TypeOK, JobInv, SoloInv, LockedOps, Alive
<1>5. ASSUME NEW p \in Pids, Stop(p) PROVE SoloInv'
  BY <1>5 DEF Stop, Ends, Alive, inputs, history, bounds, TypeOK, JobInv, SoloInv, LockedOps
<1>6. ASSUME NEW p \in Pids, NEW r \in Routines, NotDue(p, r) PROVE SoloInv'
  BY <1>6 DEF NotDue, DueSlots, inputs, history, bounds, TypeOK, JobInv, SoloInv, LockedOps,
       Alive
<1>7. ASSUME NEW p \in Pids, NEW r \in Routines, Due(p, r) PROVE SoloInv'
  <2>1. PICK slot \in DueSlots(schedule[r], view[p].last[r], view[p].now) :
          job' = [job EXCEPT ![p] = [routine |-> r, slot |-> slot]]
    BY <1>7 DEF Due
  <2>2. slot \in Slots /\ view[p].last[r] < slot
    BY <2>1 DEF DueSlots, TypeOK
  <2>3. pc[p] = "cycle" /\ r \in todo[p] /\ p \in Supers
    BY <1>7 DEF Due, JobInv
  <2>4. view[p] \in View
    BY <2>3 DEF JobInv, Alive
  <2>5. record[r].last \in Int /\ view[p].last[r] \in Int /\ slot \in Int
    BY <2>2, <2>4 DEF TypeOK, Record, View, Slots
  <2>6. ~overlapped => record[r].last < slot
    BY <2>2, <2>3, <2>5 DEF SoloInv
  <2>7. /\ job'[p] = [routine |-> r, slot |-> slot] /\ pc'[p] \in {"reserve"} \union NoteOps
        /\ todo'[p] = todo[p] \ {r}
        /\ \A q \in Pids \ {p} : pc'[q] = pc[q] /\ todo'[q] = todo[q] /\ job'[q] = job[q]
        /\ UNCHANGED <<record, view, history>>
    BY <1>7, <2>1 DEF Due, TypeOK
  <2>. QED
    BY <2>3, <2>5, <2>6, <2>7 DEF SoloInv, LockedOps, Alive, history
<1>8. ASSUME NEW p \in Pids, Enter(p) PROVE SoloInv'
  BY <1>8 DEF Enter, LockedOps, inputs, process, history, bounds, TypeOK, JobInv, SoloInv, Alive
<1>9. ASSUME NEW p \in Pids,
             Reserve(p) \/ Refuse(p) \/ RecordRun(p) \/ Note(p) \/ WriteFails(p)
      PROVE  SoloInv'
  <2>1. /\ p \in locked /\ Moves(p)
        /\ Writes(p) \/ (UNCHANGED <<record, history>> /\ pc'[p] # "run")
    BY <1>9, LockedSteps
  <2>2. /\ pc[p] \in LockedOps /\ job[p] \in Job /\ Alive(p)
        /\ p \in Manuals => job[p].slot = 0 /\ p \notin Supers
        /\ p \in Supers => job[p].slot # 0
        /\ job[p].routine \notin todo[p]
    BY <2>1 DEF LockInv, JobInv, LockedOps, Alive
  <2>3. overlapped' = overlapped
    BY <2>1, WriteEffect DEF history
  <2>4. SUFFICES ASSUME ~overlapped PROVE SoloInv'
    BY <2>3 DEF SoloInv
  <2> DEFINE r == job[p].routine
             s == job[p].slot
  <2>5. r \in Routines /\ s \in 0..MaxTime
    BY <2>2 DEF Job
  <2>6. /\ \A q \in Pids \ {p} : pc'[q] = pc[q] /\ job'[q] = job[q] /\ todo'[q] = todo[q]
                                /\ view'[q] = view[q]
        /\ pc'[p] # "dead" => job'[p] = job[p] /\ todo'[p] = todo[p] /\ view'[p] = view[p]
        /\ pc'[p] \in {"dead", "run", "note", "reload"}
    BY <2>1 DEF Moves, Ends, GoesTo, TypeOK
  <2>7. p \in Supers => /\ \A q \in Supers : Alive(q) => q = p
                        /\ record[r].last <= s
    <3>1. record[r].last \in Int /\ s \in Int
      BY <2>5 DEF TypeOK, Record
    <3>. QED
      BY <2>2, <2>4, <3>1 DEF SoloInv, LockedOps
  <2>8. /\ \A x \in Routines : record'[x].last \in 0..MaxTime /\ record[x].last \in 0..MaxTime
        /\ \A x \in Routines \ {r} : record'[x].last = record[x].last /\ settled'[x] = settled[x]
        /\ p \in Manuals => record'[r].last = record[r].last
        /\ p \in Supers => record'[r].last \in {record[r].last, s}
        /\ \A t \in settled'[r] : t \in settled[r] \/ (t = s /\ record'[r].last = s)
    <3>1. \A x \in Routines : record[x].last \in 0..MaxTime
      BY DEF TypeOK, Record
    <3>2. CASE Writes(p)
      <4>1. /\ record' \in [Routines -> Record]
            /\ \A x \in Routines \ {r} : record'[x] = record[x] /\ settled'[x] = settled[x]
            /\ record'[r].last = IF s = 0 THEN record[r].last ELSE s
            /\ settled'[r] = settled[r] \union ({s} \ {0})
        BY <2>1, <3>2, WriteEffect
      <4>. QED
        BY <2>2, <2>5, <3>1, <4>1 DEF Record
    <3>. QED
      BY <2>1, <2>5, <3>1, <3>2 DEF history
  <2>9. settled \in [Routines -> SUBSET Slots]
    BY DEF TypeOK
  <2>10. \A q \in Supers : Alive(q)' => Alive(q)
    BY <2>2, <2>6 DEF Alive
  <2>11. /\ \A q1, q2 \in Supers : Alive(q1)' /\ Alive(q2)' => q1 = q2
         /\ \A x \in Routines : \A t \in settled'[x] : t <= record'[x].last
    <3>1. \A q1, q2 \in Supers : Alive(q1)' /\ Alive(q2)' => q1 = q2
      BY <2>4, <2>10 DEF SoloInv
    <3>2. \A x \in Routines : \A t \in settled[x] : t <= record[x].last /\ t \in Nat
      BY <2>4, <2>9 DEF SoloInv, Slots
    <3>3. record[r].last <= record'[r].last
      BY <2>2, <2>5, <2>7, <2>8
    <3>4. ASSUME NEW x \in Routines, NEW t \in settled'[x] PROVE t <= record'[x].last
      <4>1. CASE x # r
        BY <2>8, <3>2, <4>1
      <4>2. CASE x = r
        BY <2>5, <2>8, <3>2, <3>3, <4>2
      <4>. QED
        BY <4>1, <4>2
    <3>. QED
      BY <3>1, <3>4
  <2>12. CASE p \in Manuals
    <3>1. \A x \in Routines : record'[x].last = record[x].last
      BY <2>8, <2>12
    <3>2. \A q \in Supers : pc'[q] = pc[q] /\ job'[q] = job[q] /\ todo'[q] = todo[q] /\ view'[q] = view[q]
      BY <2>2, <2>6, <2>12
    <3>3. \A q \in Supers : pc[q] \in LockedOps \union {"run"} => job[q].routine \in Routines
      BY DEF JobInv, Job
    <3>4. \A q \in Supers : todo[q] \subseteq Routines
      BY DEF TypeOK
    <3>. QED
      BY <2>3, <2>4, <2>11, <3>1, <3>2, <3>3, <3>4 DEF SoloInv, LockedOps
  <2>13. CASE p \in Supers
    <3>1. \A q \in Supers \ {p} : pc'[q] = pc[q] /\ ~Alive(q)
      BY <2>6, <2>7, <2>13
    <3>2. \A x \in todo[p] : x \in Routines \ {r} /\ record[x].last <= view[p].last[x]
      BY <2>2, <2>4, <2>13 DEF SoloInv, TypeOK
    <3>3. record'[r].last <= s
      BY <2>5, <2>7, <2>8, <2>13
    <3>4. \A q \in Supers : \A x \in todo'[q] :
             pc'[q] \in LockedOps \union {"cycle", "run", "reload"} =>
                 record'[x].last <= view'[q].last[x]
      BY <2>6, <2>8, <3>1, <3>2 DEF Alive, LockedOps
    <3>5. \A q \in Supers : pc'[q] # "reserve"
      BY <2>6, <3>1 DEF Alive
    <3>6. \A q \in Supers : pc'[q] \in {"run", "record"} \union NoteOps =>
             record'[job'[q].routine].last <= job'[q].slot
      BY <2>6, <3>1, <3>3 DEF Alive
    <3>. QED
      BY <2>11, <3>4, <3>5, <3>6 DEF SoloInv
  <2>. QED
    BY <2>12, <2>13
<1>10. ASSUME NEW p \in Pids, Finish(p) PROVE SoloInv'
  BY <1>10 DEF Finish, inputs, history, bounds, TypeOK, JobInv, SoloInv, LockedOps, Alive
<1>11. ASSUME NEW p \in Pids, Reload(p) PROVE SoloInv'
  <2>1. p \in Supers
    BY <1>11 DEF Reload, JobInv
  <2>2. view[p] \in View
    BY <1>11, <2>1 DEF Reload, JobInv, Alive
  <2>3. \A x \in Routines : view'[p].last[x] = record[x].last /\ record[x].last \in Int
    BY <1>11, <2>2 DEF Reload, TypeOK, Record, View
  <2>4. /\ \A q \in Pids \ {p} : pc'[q] = pc[q] /\ view'[q] = view[q] /\ job'[q] = job[q]
        /\ pc[p] = "reload" /\ pc'[p] = "cycle" /\ todo'[p] \subseteq Routines
        /\ UNCHANGED <<record, todo, history>>
    BY <1>11 DEF Reload, TypeOK
  <2>. QED
    BY <2>3, <2>4 DEF SoloInv, LockedOps, Alive, history
<1>12. ASSUME NEW p \in Pids, Crash(p) PROVE SoloInv'
  BY <1>12 DEF Crash, Ends, Leave, Alive, inputs, history, TypeOK, JobInv, SoloInv, LockedOps
<1>13. ASSUME NEW p \in Pids, Reuse(p) PROVE SoloInv'
  BY <1>13 DEF Reuse, GoesTo, Alive, inputs, history, bounds, TypeOK, JobInv, SoloInv, LockedOps
<1>14. ASSUME Tick PROVE SoloInv'
  BY <1>14 DEF Tick, process, history, bounds, TypeOK, JobInv, SoloInv, LockedOps, Alive
<1>15. ASSUME NEW r \in Routines, SetPaused(r) PROVE SoloInv'
  BY <1>15 DEF SetPaused, process, history, TypeOK, JobInv, SoloInv, LockedOps, Alive
<1>16. ASSUME NEW r \in Routines, UpdateSchedule(r) PROVE SoloInv'
  BY <1>16 DEF UpdateSchedule, process, history, TypeOK, JobInv, SoloInv, LockedOps, Alive
<1>17. CASE UNCHANGED vars
  BY <1>17 DEF vars, inputs, process, history, bounds, TypeOK, JobInv, SoloInv, LockedOps, Alive
<1>. QED
  BY <1>1, <1>2, <1>3, <1>4, <1>5, <1>6, <1>7, <1>8, <1>9, <1>10, <1>11, <1>12, <1>13, <1>14,
       <1>15, <1>16, <1>17 DEF Next, Acts

\* The invariant is inductive.
LEMMA Inductive == IInv /\ [Next]_vars => IInv'
  BY TypeStep, LockStep, JobStep, OwnerStep, CountStep, BusyStep DEF IInv

\* It holds at first.
LEMMA Initially == Init => IInv /\ SoloInv
<1>. SUFFICES ASSUME Init PROVE IInv /\ SoloInv
  OBVIOUS
<1>. USE RoutineAssumption DEF Init, Pids
<1>1. TypeOK
  <2>1. record \in [Routines -> Record]
    BY DEF Record
  <2>2. now \in Slots /\ schedule \in [Routines -> Schedules] /\ paused \in SUBSET Routines
    BY DEF Slots
  <2>3. /\ locked \in SUBSET Pids /\ pc \in [Pids -> PCs] /\ job \in [Pids -> Job \union {Nobody}]
        /\ outcome \in [Pids -> {"returned", "raised", "died"}]
    BY DEF PCs, LockedOps
  <2>4. /\ view \in [Pids -> View \union {Nobody}] /\ todo \in [Pids -> SUBSET Routines]
        /\ seen \in [Pids -> [Routines -> Record] \union {Nobody}]
        /\ settled \in [Routines -> SUBSET Slots] /\ finished \in [Routines -> Nat]
    OBVIOUS
  <2>. QED
    BY <2>1, <2>2, <2>3, <2>4 DEF TypeOK
<1>2. LockInv /\ JobInv /\ OwnerInv /\ RecordsAddUp /\ BusyMeansRunning
  BY DEF LockInv, JobInv, OwnerInv, RecordsAddUp, BusyMeansRunning, Executing, LockedOps, Alive
<1>3. SoloInv
  BY DEF SoloInv, LockedOps, Alive
<1>. QED
  BY <1>1, <1>2, <1>3 DEF IInv

\* Both invariants hold.
LEMMA Always == Spec => []IInv /\ []SoloInv
<1>1. IInv /\ SoloInv /\ [Next]_vars => IInv' /\ SoloInv'
  BY Inductive, SoloStep DEF IInv
<1>. QED
  BY Initially, <1>1, PTL DEF Spec

\* Every variable keeps its type.
THEOREM TypeCorrect == Spec => []TypeOK
<1>1. IInv => TypeOK
  BY DEF IInv
<1>. QED
  BY Always, <1>1, PTL

\* No two live processes run one routine: each would be its record's owner.
THEOREM OneExecutionHolds == Spec => []OneExecution
<1>1. IInv => OneExecution
  BY DEF IInv, OwnerInv, OneExecution
<1>. QED
  BY Always, <1>1, PTL

\* A live owner that does not run the routine comes of a failed write or of a
\* pid given away, of nothing else.
THEOREM BusyIsRunning == Spec => []BusyMeansRunning
<1>1. IInv => BusyMeansRunning
  BY DEF IInv
<1>. QED
  BY Always, <1>1, PTL

\* No update of the document is lost.
THEOREM CountsAddUp == Spec => []RecordsAddUp
<1>1. IInv => RecordsAddUp
  BY DEF IInv
<1>. QED
  BY Always, <1>1, PTL

\* Without supervisors side by side a slot is run once, and not after it was
\* skipped or blocked.
THEOREM SlotsRunOnce == Spec => SlotRunsOnce
<1>1. IInv /\ SoloInv => [\A p \in Pids : Launches(p) /\ ~overlapped =>
                             job[p].slot \notin settled[job[p].routine]]_vars
  <2> SUFFICES ASSUME IInv, SoloInv, NEW p \in Pids, Launches(p), ~overlapped
               PROVE  job[p].slot \notin settled[job[p].routine]
    OBVIOUS
  <2>1. pc[p] = "reserve" /\ job[p] \in Job
    BY DEF Launches, IInv, JobInv, LockedOps
  <2>2. /\ settled[job[p].routine] \subseteq Slots /\ job[p].slot \in Int
        /\ record[job[p].routine].last \in Int /\ job[p].routine \in Routines
    BY <2>1 DEF IInv, TypeOK, Record, Job
  <2>3. CASE p \in Supers
    BY <2>1, <2>2, <2>3 DEF SoloInv, Slots
  <2>4. CASE p \in Manuals
    BY <2>1, <2>2, <2>4 DEF IInv, JobInv, Alive, Slots
  <2>. QED
    BY <2>3, <2>4 DEF Pids
<1>. QED
  BY Always, <1>1, PTL DEF SlotRunsOnce
=============================================================================
