--------------------------- MODULE ProcessCapture ---------------------------
(***************************************************************************)
(* One call of run_process (core/process.py): a child process, its         *)
(* descendants, and in the conductor the calling thread, a reader thread   *)
(* for each output pipe and a writer thread for the input pipe.            *)
(*                                                                         *)
(* The child is the leader of a group of its own.  It may fork once; what  *)
(* it forks inherits its pipes, and may leave the group, ignore SIGTERM,   *)
(* take on a user the conductor may not signal, close its pipes or hang.   *)
(* Bytes are counted, not spelled out: a unit is what one write or read    *)
(* moves at least.  Every timeout may expire at any time, as the threads   *)
(* may be as slow as they like.                                            *)
(***************************************************************************)
EXTENDS Integers, FiniteSets, Sequences

CONSTANTS LeaderPrograms, ChildPrograms,    \* what the processes may do
          Payload,                          \* units of input
          PipeCap,                          \* units a pipe holds
          Limit,                            \* output_limit_bytes
          CaptureLimit, Budget,             \* capture_limit_bytes, MAX_TRANSIENT_CAPTURE_BYTES
          OthersUse                         \* what other calls may have reserved

Ops == {"out", "err", "in", "fork", "detach", "ignore", "setuid", "close", "hang"}

ASSUME CaptureAssumption ==
    /\ LeaderPrograms \subseteq Seq(Ops) /\ ChildPrograms \subseteq Seq(Ops)
    /\ Payload \in Nat /\ PipeCap \in Nat \ {0} /\ Limit \in Nat
    /\ CaptureLimit \in Nat \ {0} /\ Budget \in Nat
    /\ OthersUse \subseteq 0..Budget

Streams == {"out", "err"}
Threads == Streams \union {"in"}
Procs == {"leader", "child"}

VARIABLES
    life, prog,         \* each process, and what it has still to do,
    group, deaf,        \*   is it in the leader's group, does it ignore SIGTERM,
    foreign,            \*   does the kernel refuse to signal it for the conductor,
    holds,              \*   the pipes it has open
    pipe,               \* units in each pipe
    open,               \* has the conductor its end of the pipe open?
    written, taken,     \* units written to and read from an output pipe
    left,               \* units of input not yet written
    thread, chunk,      \* each I/O thread; what a reader just read
    eof, readError,     \* what a reader reported
    stop,               \* stop_io
    capture, captured,  \* each _CaptureBuffer; its total_bytes,
    stored, truncated,  \*   stored_bytes and truncated
    reserved, used,     \* reservations not released; _capture_budget_used
    others,             \* what other calls use of it
    pc, back,           \* the calling thread; where _terminate_group returns to
    timedOut, returned, \* locals of _collect_spawned_process
    forced              \* history: the group has been terminated

processes == <<life, prog, group, deaf, foreign, holds>>
pipes     == <<pipe, open, written, taken, left>>
workers   == <<thread, chunk, eof, readError>>
spools    == <<captured, stored, truncated>>
captures  == <<capture, spools, reserved, used>>
caller    == <<pc, back, timedOut, returned, forced>>
vars      == <<processes, pipes, workers, stop, captures, others, caller>>

PCs == {"start", "wait", "term", "grace", "reap", "join", "stop", "rejoin", "finishOut",
        "finishErr", "cleanup", "lastJoin", "shut", "drop", "end", "consumed"}

TypeOK ==
    /\ life \in [Procs -> {"unborn", "running", "killed", "exited"}]
    /\ prog \in [Procs -> Seq(Ops)]
    /\ group \in [Procs -> BOOLEAN] /\ deaf \in [Procs -> BOOLEAN]
    /\ foreign \in [Procs -> BOOLEAN]
    /\ holds \in [Procs -> SUBSET Threads]
    /\ pipe \in [Threads -> 0..PipeCap] /\ open \in [Threads -> BOOLEAN]
    /\ written \in [Streams -> Nat] /\ taken \in [Streams -> Nat]
    /\ left \in 0..Payload
    /\ thread \in [Threads -> {"new", "check", "select", "store", "done"}]
    /\ chunk \in [Streams -> Nat]
    /\ eof \in [Streams -> BOOLEAN] /\ readError \in [Streams -> BOOLEAN]
    /\ stop \in BOOLEAN
    /\ capture \in [Streams -> {"idle", "active", "refused", "lost", "spoilt", "passed"}]
    /\ captured \in [Streams -> Nat] /\ stored \in [Streams -> 0..CaptureLimit]
    /\ truncated \in [Streams -> BOOLEAN]
    /\ reserved \subseteq Streams /\ used \in 0..Budget /\ others \in 0..Budget
    /\ pc \in PCs /\ back \in {"reap", "stop", "lastJoin"}
    /\ timedOut \in BOOLEAN /\ returned \in BOOLEAN /\ forced \in BOOLEAN

Init ==
    /\ life = [p \in Procs |-> IF p = "leader" THEN "running" ELSE "unborn"]
    /\ \E program \in LeaderPrograms :
         prog = [p \in Procs |-> IF p = "leader" THEN program ELSE <<>>]
    /\ group = [p \in Procs |-> TRUE] /\ deaf = [p \in Procs |-> FALSE]
    /\ foreign = [p \in Procs |-> FALSE]
    /\ holds = [p \in Procs |-> IF p = "leader" THEN Threads ELSE {}]
    /\ pipe = [t \in Threads |-> 0] /\ open = [t \in Threads |-> TRUE]
    /\ written = [s \in Streams |-> 0] /\ taken = [s \in Streams |-> 0] /\ left = Payload
    /\ thread = [t \in Threads |-> "new"] /\ chunk = [s \in Streams |-> 0]
    /\ eof = [s \in Streams |-> FALSE] /\ readError = [s \in Streams |-> FALSE]
    /\ stop = FALSE
    /\ capture = [s \in Streams |-> "idle"]
    /\ captured = [s \in Streams |-> 0] /\ stored = [s \in Streams |-> 0]
    /\ truncated = [s \in Streams |-> FALSE]
    /\ reserved = {} /\ others \in OthersUse /\ used = others
    /\ pc = "start" /\ back = "reap"
    /\ timedOut = FALSE /\ returned = FALSE /\ forced = FALSE

-----------------------------------------------------------------------------
(***************************************************************************)
(* The child process and what it forks (not the repository's code).        *)
(***************************************************************************)
Alive(p) == life[p] \in {"running", "killed"}
\* mutant: the end of the leader is the end of its streams
LeaderOnly(t) == {p \in {"leader"} : Alive(p) /\ t \in holds[p]}
Holders(t) == {p \in Procs : Alive(p) /\ t \in holds[p]}

\* A process that is gone has closed its pipes.
Advance(p) == prog' = [prog EXCEPT ![p] = Tail(@)]
Doing(p, op) == life[p] = "running" /\ prog[p] # <<>> /\ Head(prog[p]) = op

\* A write waits for room; without a reader it ends the process (SIGPIPE).
WriteOut(p, s) ==
    /\ Doing(p, s)
    /\ \/ /\ s \in holds[p] /\ open[s] /\ pipe[s] < PipeCap
          /\ pipe' = [pipe EXCEPT ![s] = @ + 1] /\ written' = [written EXCEPT ![s] = @ + 1]
          /\ Advance(p) /\ UNCHANGED life
       \/ /\ s \in holds[p] /\ ~open[s]
          /\ life' = [life EXCEPT ![p] = "exited"] /\ UNCHANGED <<pipe, written, prog>>
       \/ /\ s \notin holds[p] /\ Advance(p) /\ UNCHANGED <<pipe, written, life>>
    /\ UNCHANGED <<group, deaf, foreign, holds, open, taken, left, workers, stop, captures, others,
                   caller>>

\* A read of the input waits for a unit or for the end of the input.
ReadIn(p) ==
    /\ Doing(p, "in")
    /\ "in" \in holds[p] => pipe["in"] > 0 \/ ~open["in"]
    /\ pipe' = IF "in" \in holds[p] /\ pipe["in"] > 0 THEN [pipe EXCEPT !["in"] = @ - 1] ELSE pipe
    /\ Advance(p)
    /\ UNCHANGED <<life, group, deaf, foreign, holds, open, written, taken, left, workers, stop,
                   captures, others, caller>>

Fork ==
    /\ Doing("leader", "fork") /\ life["child"] = "unborn"
    /\ \E program \in ChildPrograms :
         prog' = [p \in Procs |-> IF p = "child" THEN program ELSE Tail(prog[p])]
    /\ life' = [life EXCEPT !["child"] = "running"]
    /\ deaf' = [deaf EXCEPT !["child"] = deaf["leader"]]
    /\ foreign' = [foreign EXCEPT !["child"] = foreign["leader"]]
    /\ holds' = [holds EXCEPT !["child"] = holds["leader"]]
    /\ UNCHANGED <<group, pipes, workers, stop, captures, others, caller>>

\* setsid (which fails for the leader of a session), signal(SIGTERM, SIG_IGN),
\* setuid, closing the three pipes.
Prepare(p) ==
    /\ \/ /\ Doing(p, "detach") /\ UNCHANGED <<deaf, foreign, holds>>
          /\ group' = [group EXCEPT ![p] = (p = "leader")]
       \/ /\ Doing(p, "ignore") /\ UNCHANGED <<group, foreign, holds>>
          /\ deaf' = [deaf EXCEPT ![p] = TRUE]
       \/ /\ Doing(p, "setuid") /\ UNCHANGED <<group, deaf, holds>>
          /\ foreign' = [foreign EXCEPT ![p] = TRUE]
       \/ /\ Doing(p, "close") /\ UNCHANGED <<group, deaf, foreign>>
          /\ holds' = [holds EXCEPT ![p] = {}]
    /\ Advance(p)
    /\ UNCHANGED <<life, pipes, workers, stop, captures, others, caller>>

\* The end of the program, or of a killed process.
Exit(p) ==
    /\ life[p] = "killed" \/ (life[p] = "running" /\ prog[p] = <<>>)
    /\ life' = [life EXCEPT ![p] = "exited"]
    /\ UNCHANGED <<prog, group, deaf, foreign, holds, pipes, workers, stop, captures, others,
                   caller>>

Process(p) == (\E s \in Streams : WriteOut(p, s)) \/ ReadIn(p) \/ Prepare(p) \/ Exit(p)

-----------------------------------------------------------------------------
(***************************************************************************)
(* Captures and the budget all calls of the conductor share.               *)
(***************************************************************************)
\* A reservation is released once, whoever drops it.
Release(S) ==
    /\ reserved' = reserved \ S
    /\ used' = used - CaptureLimit * Cardinality(reserved \intersect S)

\* The stream outgrew its preview with the chunk just read.
Overflows(s) == taken[s] - chunk[s] <= Limit /\ taken[s] > Limit
\* _reserve_capture
FitsBefore == used <= Budget          \* mutant: the new reservation is not counted
Fits == used + CaptureLimit <= Budget

NoPrefix(s) == 0                      \* mutant: the preview is not copied
Prefix(s) == taken[s] - chunk[s]      \* the preview, complete up to here

\* _append_bytes: all of it is counted, what there is room for is stored.
\* Storage may fail on the way, in a way that may be ignored ("lost") or not
\* ("spoilt"); what was written then is dropped unread, and not counted here.
Kept == {"active", "lost", "spoilt"}

Room(s) == CaptureLimit - stored[s]
Selected(s, n) == IF n <= Room(s) THEN n ELSE Room(s)

AppendBytes(s, n) ==
    \E c \in Kept :
        /\ capture' = [capture EXCEPT ![s] = c]
        /\ captured' = [captured EXCEPT ![s] = @ + n]
        /\ stored' = IF c = "active" THEN [stored EXCEPT ![s] = @ + Selected(s, n)] ELSE stored
        /\ truncated' = [truncated EXCEPT ![s] = @ \/ n > Room(s)]

\* _CaptureBuffer._activate and append; the preview and the chunk one after
\* the other, which comes to the same as both at once.
Activate(s) ==
    \/ /\ ~Fits
       /\ capture' = [capture EXCEPT ![s] = "refused"]
       /\ UNCHANGED <<spools, reserved, used>>
    \/ /\ Fits
       /\ \E c \in Kept \ {"active"} : capture' = [capture EXCEPT ![s] = c]
       /\ UNCHANGED <<spools, reserved, used>>
    \/ /\ Fits
       /\ AppendBytes(s, Prefix(s) + chunk[s])
       /\ reserved' = reserved \union {s} /\ used' = used + CaptureLimit

Spool(s) ==
    \/ capture[s] = "idle" /\ Overflows(s) /\ Activate(s)
    \/ /\ capture[s] = "active"
       /\ AppendBytes(s, chunk[s])
       /\ UNCHANGED <<reserved, used>>
    \/ /\ capture[s] \in {"refused", "lost", "spoilt"} \/ (capture[s] = "idle" /\ ~Overflows(s))
       /\ UNCHANGED captures

-----------------------------------------------------------------------------
(***************************************************************************)
(* The I/O threads: _read_stream and _write_stream.  A thread ends in      *)
(* closing its stream; with it go the last references to a capture made    *)
(* after the call has returned.                                            *)
(***************************************************************************)
Ended == pc \in {"end", "consumed"}

EndThread(t) ==
    /\ thread' = [thread EXCEPT ![t] = "done"]
    /\ open' = [open EXCEPT ![t] = FALSE]
    /\ IF Ended THEN Release({t}) ELSE UNCHANGED <<reserved, used>>
    /\ UNCHANGED <<capture, spools>>

EndReader(s, atEnd) ==
    /\ EndThread(s)
    /\ eof' = [eof EXCEPT ![s] = atEnd] /\ readError' = [readError EXCEPT ![s] = ~atEnd]
    /\ UNCHANGED <<pipe, written, taken, left, chunk>>

Check(t) ==
    /\ thread[t] = "check"
    /\ \/ /\ stop /\ t \in Streams /\ EndReader(t, FALSE)
       \/ /\ t = "in" /\ (stop \/ left = 0) /\ EndThread(t)
          /\ UNCHANGED <<pipe, written, taken, left, chunk, eof, readError>>
       \/ /\ ~stop /\ (t = "in" => left > 0)
          /\ thread' = [thread EXCEPT ![t] = "select"]
          /\ UNCHANGED <<pipes, chunk, eof, readError, captures>>
    /\ UNCHANGED <<processes, stop, others, caller>>

\* select and, if there is something, one read.
Read(s) ==
    /\ thread[s] = "select"
    /\ \/ ~open[s] /\ EndReader(s, FALSE)
       \/ open[s] /\ pipe[s] = 0 /\ Holders(s) = {} /\ EndReader(s, TRUE)
       \/ /\ open[s] /\ pipe[s] = 0 /\ Holders(s) # {}
          /\ thread' = [thread EXCEPT ![s] = "check"]
          /\ UNCHANGED <<pipes, chunk, eof, readError, captures>>
       \/ /\ open[s] /\ pipe[s] > 0
          /\ \E n \in 1..pipe[s] :
               /\ pipe' = [pipe EXCEPT ![s] = @ - n]
               /\ taken' = [taken EXCEPT ![s] = @ + n]
               /\ chunk' = [chunk EXCEPT ![s] = n]
          /\ thread' = [thread EXCEPT ![s] = "store"]
          /\ UNCHANGED <<open, written, left, eof, readError, captures>>
    /\ UNCHANGED <<processes, stop, others, caller>>

Store(s) ==
    /\ thread[s] = "store"
    /\ Spool(s)
    /\ thread' = [thread EXCEPT ![s] = "check"] /\ chunk' = [chunk EXCEPT ![s] = 0]
    /\ UNCHANGED <<processes, pipes, eof, readError, stop, others, caller>>

\* select and one write; nobody reads any more: the thread ends.
Write ==
    /\ thread["in"] = "select"
    /\ \/ /\ ~open["in"] \/ Holders("in") = {}
          /\ EndThread("in") /\ UNCHANGED <<pipe, left>>
       \/ /\ open["in"] /\ Holders("in") # {}
          /\ thread' = [thread EXCEPT !["in"] = "check"]
          /\ IF pipe["in"] < PipeCap
               THEN pipe' = [pipe EXCEPT !["in"] = @ + 1] /\ left' = left - 1
               ELSE UNCHANGED <<pipe, left>>
          /\ UNCHANGED <<open, captures>>
    /\ UNCHANGED <<processes, written, taken, chunk, eof, readError, stop, others, caller>>

Worker(t) == Check(t) \/ (t \in Streams /\ (Read(t) \/ Store(t))) \/ (t = "in" /\ Write)

-----------------------------------------------------------------------------
(***************************************************************************)
(* The calling thread: _collect_spawned_process.                           *)
(***************************************************************************)
Order == [out |-> 1, err |-> 2, in |-> 3]

\* Reader, reader, writer; a thread that cannot be started is an error.
StartThread ==
    /\ pc = "start"
    /\ \E t \in Threads :
         /\ thread[t] = "new" /\ \A u \in Threads : Order[u] < Order[t] => thread[u] # "new"
         /\ \/ /\ thread' = [thread EXCEPT ![t] = "check"]
               /\ pc' = IF t = "in" THEN "wait" ELSE "start"
            \/ pc' = "cleanup" /\ UNCHANGED thread
    /\ UNCHANGED <<processes, pipes, chunk, eof, readError, stop, captures, others,
                   back, timedOut, returned, forced>>

Leave(from, to) == pc = from /\ pc' = to
EveryThreadEnded == \A t \in Threads : thread[t] \in {"new", "done"}

LeaderExits ==
    /\ pc \in {"wait", "reap"} /\ ~Alive("leader") /\ pc' = "join"
    /\ UNCHANGED <<processes, pipes, workers, stop, captures, others, back, timedOut, returned,
                   forced>>

Timeout ==
    /\ Leave("wait", "term") /\ Alive("leader")
    /\ timedOut' = TRUE /\ back' = "reap"
    /\ UNCHANGED <<processes, pipes, workers, stop, captures, others, returned, forced>>

\* "process group did not terminate"
NotReaped ==
    /\ Leave("reap", "cleanup") /\ Alive("leader")
    /\ UNCHANGED <<processes, pipes, workers, stop, captures, others, back, timedOut, returned,
                   forced>>

\* _terminate_group: SIGTERM, which is all if the group is gone or the kernel
\* refuses to signal any of it; and, once the leader and then the group have
\* had their time, SIGKILL.
Members == {p \in Procs : Alive(p) /\ group[p]}
Reached == {p \in Members : ~foreign[p]}

Kill(S) == life' = [p \in Procs |-> IF p \in S /\ life[p] = "running" THEN "killed" ELSE life[p]]

SigTerm ==
    /\ pc = "term" /\ forced' = TRUE
    /\ pc' = IF Reached = {} THEN back ELSE "grace"
    /\ Kill({p \in Reached : ~deaf[p]})
    /\ UNCHANGED <<prog, group, deaf, foreign, holds, pipes, workers, stop, captures, others, back,
                   timedOut, returned>>

\* mutant: a group that has been asked to end is left alone
NoSigKill ==
    /\ Leave("grace", back)
    /\ UNCHANGED <<processes, pipes, workers, stop, captures, others, back, timedOut, returned,
                   forced>>

SigKill ==
    /\ Leave("grace", back)
    /\ Kill(Reached)
    /\ UNCHANGED <<prog, group, deaf, foreign, holds, pipes, workers, stop, captures, others, back,
                   timedOut, returned, forced>>

\* mutant: the joins have no timeout
JoinForever ==
    /\ pc = "join" /\ EveryThreadEnded /\ pc' = "finishOut"
    /\ UNCHANGED <<processes, pipes, workers, stop, captures, others, back, timedOut, returned,
                   forced>>

\* The joins, each with its timeout; what is still alive then holds a pipe.
Join ==
    /\ pc = "join"
    /\ IF EveryThreadEnded THEN pc' = "finishOut" /\ UNCHANGED back
                           ELSE pc' = "term" /\ back' = "stop"
    /\ UNCHANGED <<processes, pipes, workers, stop, captures, others, timedOut, returned, forced>>

StopIO ==
    /\ Leave("stop", "rejoin") /\ stop' = TRUE
    /\ UNCHANGED <<processes, pipes, workers, captures, others, back, timedOut, returned, forced>>

\* "process I/O worker did not terminate"
Rejoin ==
    /\ pc = "rejoin" /\ pc' = IF EveryThreadEnded THEN "finishOut" ELSE "cleanup"
    /\ UNCHANGED <<processes, pipes, workers, stop, captures, others, back, timedOut, returned,
                   forced>>

\* _CaptureBuffer.finish: hand the spool over, or drop it if storage failed;
\* a failure that may not be ignored is an error.
Hand(s, next) ==
    \/ /\ capture[s] \in {"idle", "refused"} /\ pc' = next
       /\ UNCHANGED captures
    \/ /\ capture[s] = "active" /\ pc' = next
       /\ capture' = [capture EXCEPT ![s] = "passed"]
       /\ UNCHANGED <<spools, reserved, used>>
    \/ \E failure \in {"lost", "spoilt"} :
         /\ capture[s] \in {"active", failure}
         /\ capture' = [capture EXCEPT ![s] = failure] /\ Release({s})
         /\ pc' = IF failure = "spoilt" THEN "cleanup" ELSE next
         /\ UNCHANGED spools

FinishOut ==
    /\ pc = "finishOut" /\ Hand("out", "finishErr")
    /\ UNCHANGED <<processes, pipes, workers, stop, others, back, timedOut, returned, forced>>

FinishErr ==
    /\ pc = "finishErr" /\ Hand("err", "cleanup")
    /\ returned' = (capture'["err"] # "spoilt")
    /\ UNCHANGED <<processes, pipes, workers, stop, others, back, timedOut, forced>>

\* The finally clause: whatever happened, stop the threads and the group,
Cleanup ==
    /\ pc = "cleanup" /\ stop' = TRUE
    /\ IF Alive("leader") THEN pc' = "term" /\ back' = "lastJoin"
                          ELSE pc' = "lastJoin" /\ UNCHANGED back
    /\ UNCHANGED <<processes, pipes, workers, captures, others, timedOut, returned, forced>>

\* join; the pipe of a thread that is still alive is closed under it, then the rest,
LastJoin ==
    /\ Leave("lastJoin", "shut")
    /\ open' = IF EveryThreadEnded THEN open ELSE [t \in Threads |-> FALSE]
    /\ UNCHANGED <<processes, pipe, written, taken, left, workers, stop, captures, others, back,
                   timedOut, returned, forced>>

Shut ==
    /\ Leave("shut", "drop")
    /\ open' = [t \in Threads |-> FALSE]
    /\ UNCHANGED <<processes, pipe, written, taken, left, workers, stop, captures, others, back,
                   timedOut, returned, forced>>

\* wait for the leader (or not), discard what was not handed over, or was but
\* will not be returned.
BuffersOnly == {s \in Streams : capture[s] # "passed"}    \* mutant: no result, spools handed over
Dropped == {s \in Streams : capture[s] # "passed" \/ ~returned}

Drop ==
    /\ Leave("drop", "end")
    /\ Release(Dropped)
    /\ capture' = [s \in Streams |-> IF capture[s] = "active" THEN "idle" ELSE capture[s]]
    /\ UNCHANGED <<processes, pipes, workers, stop, spools, others, back, timedOut, returned,
                   forced>>

\* discard_process_captures, by whoever used the result.
Consume ==
    /\ Leave("end", "consumed") /\ returned
    /\ Release(Streams)
    /\ UNCHANGED <<processes, pipes, workers, stop, capture, spools, others, back, timedOut,
                   returned, forced>>

Caller ==
    \/ StartThread \/ LeaderExits \/ NotReaped \/ SigTerm \/ SigKill \/ Join \/ StopIO
    \/ Rejoin \/ FinishOut \/ FinishErr \/ Cleanup \/ LastJoin \/ Shut \/ Drop \/ Consume

Next ==
    \/ Fork \/ \E p \in Procs : Process(p)
    \/ \E t \in Threads : Worker(t)
    \/ Timeout \/ Caller

Spec == Init /\ [][Next]_vars

\* Threads and processes go on.  The timeout is only counted on for a leader
\* that hangs: any other gets its input in and its output out.
FairSpec ==
    /\ Spec
    /\ WF_vars(Caller) /\ WF_vars(Timeout /\ Doing("leader", "hang"))
    /\ \A t \in Threads : WF_vars(Worker(t))
    /\ WF_vars(Fork \/ \E p \in Procs : Process(p))

-----------------------------------------------------------------------------
\* pipe_complete: the reader saw the end of the stream.
Complete(s) == eof[s] /\ ~readError[s]

\* A stream reported complete was read to its last unit, and nobody is left
\* who could write to it: the end a reader sees is not the end of the leader,
\* nor a closed descriptor, nor stop_io (_read_stream, pipe_complete).
CompleteMeansDrained ==
    \A s \in Streams :
        returned /\ Complete(s) =>
            taken[s] = written[s] /\ \A p \in Procs : Alive(p) => s \notin holds[p]

\* A returned result accounts for every unit of an output that outgrew its
\* preview: there is a spool that starts with the preview, counts all that was
\* read, has all of it up to capture_limit_bytes and says that it was truncated
\* exactly if there was more; or a reason says why there is none
\* (_CaptureBuffer.append, _append_bytes, finish).
OverflowIsAccounted ==
    \A s \in Streams :
        returned /\ taken[s] > Limit /\ Ended =>
            \/ /\ capture[s] = "passed" /\ captured[s] = taken[s]
               /\ IF taken[s] <= CaptureLimit
                    THEN stored[s] = taken[s] /\ ~truncated[s]
                    ELSE stored[s] = CaptureLimit /\ truncated[s]
            \/ capture[s] \in {"refused", "lost"}

\* The call leaves no leader behind, and once it told the group to end, on a
\* timeout or because a descendant held a pipe, no member that is not killed:
\* except those the kernel does not let it signal, a leader among them, which
\* _terminate_group leaves running without a word (process.py, PermissionError).
NoSurvivors ==
    Ended =>
        /\ life["leader"] \in {"killed", "exited"} \/ foreign["leader"]
        /\ forced => \A p \in Members : life[p] = "killed" \/ foreign[p]

\* The call is over for the caller and for its threads.
Settled ==
    /\ pc = "consumed" \/ (pc = "end" /\ ~returned)
    /\ EveryThreadEnded

\* The shared budget is what the calls have reserved, no more than there is;
\* a call gives all of its share back, whichever way it ends and however late
\* a stuck reader makes its capture.
BudgetIsReturned ==
    /\ used = others + CaptureLimit * Cardinality(reserved)
    /\ Settled => reserved = {}

\* Every call ends.
CallEnds == <>Ended
=============================================================================
