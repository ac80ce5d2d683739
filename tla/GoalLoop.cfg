SPECIFICATION FairSpec
CONSTANTS
    Procs = {p1, p2}
    MaxIterations = 2
    Verifiers = {"check", "verify"}
    WithOutput = TRUE
    Replaces = {TRUE, FALSE}
    MaxRuns = 4
    MaxCrashes = 1
    MaxResumes = 1
    None = None
INVARIANTS
    TypeOK
    CompletedGoalIsDone
    ContextIsRecorded
PROPERTIES
    CompletedGoalIsFinal
    GoalSettles
CHECK_DEADLOCK FALSE
