SPECIFICATION Spec
CONSTANTS
    Procs = {p1, p2}
    NumSteps = 3
    Writer = 1
    Downstream = {2, 3}
    ShellVerifiers = {}
    CodexVerifiers = {2}
    Policies <- AnyPolicy
    DryRuns = {FALSE}
    Versions = {a, b}
    MaxCrashes = 1
    MaxEdits = 1
    None = None
INVARIANT PendingStageExists
PROPERTIES
    CompletedIsFinal
    CompletedWorkIsKept
CHECK_DEADLOCK FALSE
