SPECIFICATION FairSpec
CONSTANTS
    LastDay = 1
    DayLen = 5
    PlanAt = 0
    RetentionAt = 1
    Slots <- MCSlots
    WStart = 2
    WEnd = 4
    Cutoff = 2
    Keep = 0
    AdminDates <- MCAdminDates
    MaxCrashes = 2
    MaxStops = 1
    MaxLag = 1
    MaxFaults = 1
INVARIANTS
    StatusExplained
    PublishedInTime
    EarlyFinalNeedsStop
    NeverOversleeps
PROPERTIES
    CompletedStays
    KeepsContract
    EndedDaySettles
CHECK_DEADLOCK FALSE
