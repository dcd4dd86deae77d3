SPECIFICATION Spec
CONSTANTS
    LastDay = 1
    DayLen = 5
    PlanAt = 0
    RetentionAt = 1
    Slots <- MCSlots
    WStart = 2
    WEnd = 4
    Cutoff = 2
    Keep = 0
    AdminDates <- MCNoDates
    MaxCrashes = 0
    MaxStops = 1
    MaxLag = 1
    MaxFaults = 0
PROPERTIES
    ReconcileSettlesEnded
CHECK_DEADLOCK FALSE
