SPECIFICATION Spec
CONSTANTS
    LastDay = 2
    Midnight <- Midnights
    Slot <- DaySlots
    DayLength = 14
    Keep = 2
    Usable = {"openmeteo", "sunsethue"}
    Comparison = TRUE
    Selections = {"openmeteo", "sunsethue"}
    MaxCrashes = 1
    MaxFaults = 1
    MaxLag = 1
INVARIANTS SlotsNotSlept RestorePointKept HeadsUpOnce
PROPERTY DayServed
CHECK_DEADLOCK FALSE
