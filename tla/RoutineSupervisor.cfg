SPECIFICATION FairSpec
CONSTANTS
    Supers = {s1, s2}
    Manuals = {m1}
    Routines = {r1}
    MaxTime = 2
    CatchUp = 0
    Schedules = {{1, 2}, {1}}
    Overlap = TRUE
    PidReuse = TRUE
    MaxEvents = 1
    Nobody = Nobody
INVARIANTS
    TypeOK
    OneExecution
    BusyMeansRunning
PROPERTIES
    SlotRunsOnce
    DueSlotIsHandled
CHECK_DEADLOCK FALSE
