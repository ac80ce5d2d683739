SPECIFICATION FairSpec
CONSTANTS
    NumPackets = 2
    Workers = 2
    Chatty <- OneEach
    MaxTransient = 4
    MaxCapture = 3
    MaxRecords = 2
    Readers = {r1}
    MaxAttempts = 2
    MaxKills = 1
    MaxFaults = 1
    None = None
INVARIANTS
    TypeOK
    InspectAccepts
    CaptureIsOptional
PROPERTY WavesEnd
CHECK_DEADLOCK FALSE
