SPECIFICATION Spec
CONSTANTS
    Procs = {p1, p2}
    NumSteps = 3
    Writer = 1
    Downstream = {2, 3}
    ShellVerifiers = {2}
    CodexVerifiers = {}
    Policies <- FullPolicy
    DryRuns = {FALSE}
    Versions = {a, b}
    MaxCrashes = 1
    MaxEdits = 0
    None = None
INVARIANT SealedWasVerified
CHECK_DEADLOCK FALSE
