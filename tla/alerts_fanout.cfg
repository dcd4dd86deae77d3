SPECIFICATION Spec
CONSTANTS
    Cameras = {}
    Tests <- MCTests
    Ids = {a, b}
    Ntfy = {a}
    Defined = {a}
    MaxAttempts = 2
    MaxCrashes = 1
    MaxLost = 0
    MaxFaults = 1
    MaxEdits = 1
INVARIANTS
    BatchFresh
    UnsentForCause
PROPERTIES
    KeepsContract
CHECK_DEADLOCK FALSE
