---------------------------- MODULE MCStageApply ----------------------------
EXTENDS StageApplyRefinement, TLC

CONSTANTS old, new

\* Paths 1, 2, 3 are "a", "a/b", "c".
MCDir == <<0, 1, 0>>
T(a, b, c) == <<a, b, c>>

\* Replace a and delete c; delete a and add c, staged from that result.
FlatStages ==
    { [before |-> T(old, Absent, old),    after |-> T(new, Absent, Absent)],
      [before |-> T(new, Absent, Absent), after |-> T(Absent, Absent, new)] }

\* Two runs that make the same change to a; only one of them deletes c.
OverlappingStages ==
    { [before |-> T(old, Absent, old), after |-> T(new, Absent, Absent)],
      [before |-> T(old, Absent, old), after |-> T(new, Absent, old)] }

\* The file a becomes a directory with a file b, and the converse.
SwapStages ==
    { [before |-> T(old, Absent, old), after |-> T(Absent, new, new)],
      [before |-> T(Absent, old, old), after |-> T(new, Absent, old)] }

\* The first swap is the one of interest: it can be applied.
AllStages == OverlappingStages \union SwapStages

RunSymmetry == Permutations(Runs)
=============================================================================
