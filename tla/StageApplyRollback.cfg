SPECIFICATION Spec
CONSTANTS
    Procs = {p1}
    Runs = {r1}
    NumPaths = 3
    Dir <- MCDir
    old = old
    new = new
    Contents = {old, new}
    Stages <- AllStages
    MayDelete = {p1}
    SyncFails = FALSE
    MaxCrashes = 0
    MaxErrors = 1
    MaxEdits = 0
    Absent = Absent
    Nobody = Nobody
PROPERTY RollsBackOnFailure
