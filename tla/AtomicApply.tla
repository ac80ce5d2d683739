---------------------------- MODULE AtomicApply -----------------------------
(***************************************************************************)
(* What "conductor apply" promises, with no files, locks or crashes: the   *)
(* changes of a run reach the workspace all at once and only from the      *)
(* state they were verified against; they may be taken back, all at once,  *)
(* until the receipt is written, and never after.                          *)
(***************************************************************************)
CONSTANT Runs
VARIABLES evidence, tree, merged

Init == merged = [r \in Runs |-> FALSE]

Land(r) ==
    /\ ~merged[r] /\ tree = evidence[r].before
    /\ tree' = evidence[r].after
    /\ UNCHANGED <<evidence, merged>>

TakeBack(r) ==
    /\ ~merged[r] /\ tree = evidence[r].after
    /\ tree' = evidence[r].before
    /\ UNCHANGED <<evidence, merged>>

Record(r) ==
    /\ ~merged[r] /\ tree = evidence[r].after
    /\ merged' = [merged EXCEPT ![r] = TRUE]
    /\ UNCHANGED <<evidence, tree>>

Next == \E r \in Runs : Land(r) \/ TakeBack(r) \/ Record(r)

Spec == Init /\ [][Next]_<<evidence, tree, merged>>
=============================================================================
