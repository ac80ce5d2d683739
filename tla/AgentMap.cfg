SPECIFICATION FairSpec
CONSTANTS
    NumPackets = 3
    Workers = 2
    PerCall = 3
    TotalCap = 5
    MinTokens = 2
    MaxCrashes = 2
INVARIANTS
    TypeOK
    TableWithinBudget
    CompletedIsReadable
    PaidWorkIsKept
PROPERTIES
    MapCompletes
CHECK_DEADLOCK FALSE
