------------------------ MODULE StageApplyRefinement ------------------------
(***************************************************************************)
(* The apply transaction implements AtomicApply.  While a merge is under   *)
(* way, and after a crash until it is completed or undone, every file that *)
(* already holds its after content counts as unchanged: the backup can     *)
(* still take it back.  The merge lands with its last file.                *)
(***************************************************************************)
EXTENDS StageApply

CommittedTree ==
    IF inflight = Nobody THEN ws
    ELSE IF ws = evidence[inflight].after THEN ws
    ELSE [f \in Paths |-> IF ws[f] = evidence[inflight].after[f]
                            THEN evidence[inflight].before[f] ELSE ws[f]]

Promise == INSTANCE AtomicApply WITH tree <- CommittedTree, merged <- receipt

\* Crashes, errors and retries included, the workspace and its receipts
\* behave as if every apply happened at once.  (Edits are left to
\* DriftIsNotOverwritten and MergedMeansVerified: an edit may race the last
\* comparison.)
ImplementsAtomicApply == Promise!Spec
=============================================================================
