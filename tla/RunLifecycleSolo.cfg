SPECIFICATION FairSpec
CONSTANTS
    Procs = {p1}
    NumSteps = 3
    Writer = 1
    Downstream = {2, 3}
    ShellVerifiers = {2}
    CodexVerifiers = {3}
    Policies <- FullPolicy
    DryRuns = {TRUE, FALSE}
    Versions = {a, b}
    MaxCrashes = 1
    MaxEdits = 1
    None = None
INVARIANTS
    TypeOK
    SealedWasVerified
    CompletedIsSealed
PROPERTY ResumedRunCompletes
CHECK_DEADLOCK FALSE
