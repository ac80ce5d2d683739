SPECIFICATION RetrySpec
CONSTANTS
    Procs = {p1, p2}
    Runs = {r1, r2}
    NumPaths = 3
    Dir <- MCDir
    old = old
    new = new
    Contents = {old, new}
    Stages <- FlatStages
    MayDelete = {p1, p2}
    SyncFails = FALSE
    MaxCrashes = 1
    MaxErrors = 1
    MaxEdits = 0
    Absent = Absent
    Nobody = Nobody
PROPERTIES
    ImplementsAtomicApply
    RollsBackOnFailure
    RetrySettles
