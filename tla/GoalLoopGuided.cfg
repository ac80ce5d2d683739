SPECIFICATION Spec
CONSTANTS
    Procs = {p1}
    MaxIterations = 2
    Verifiers = {"verify"}
    WithOutput = FALSE
    Replaces = {FALSE}
    MaxRuns = 3
    MaxCrashes = 0
    MaxResumes = 0
    None = None
INVARIANT RetriesCarryTheRejection
CHECK_DEADLOCK FALSE
