SPECIFICATION Spec
CONSTANTS
    Procs = {p1, p2}
    Runs = {r1, r2}
    NumPaths = 3
    Dir <- MCDir
    old = old
    new = new
    Contents = {old, new}
    Stages <- AllStages
    MayDelete = {p1}
    SyncFails = TRUE
    MaxCrashes = 1
    MaxErrors = 1
    MaxEdits = 1
    Absent = Absent
    Nobody = Nobody
INVARIANTS
    TypeOK
    TornWorkspaceHasBackup
    CrashStatesAreRecognised
PROPERTIES
    DriftIsNotOverwritten
    MergedMeansVerified
SYMMETRY RunSymmetry
