SPECIFICATION FairSpec
CONSTANTS
    LeaderPrograms <- Leaders
    ChildPrograms <- Children
    Payload = 1
    PipeCap = 1
    Limit = 1
    CaptureLimit = 2
    Budget = 4
    OthersUse = {0, 2}
INVARIANTS
    TypeOK
    CompleteMeansDrained
    OverflowIsAccounted
    NoSurvivors
    BudgetIsReturned
PROPERTY CallEnds
CHECK_DEADLOCK FALSE
