SPECIFICATION FairSpec
CONSTANTS
    Cameras = {c1}
    Tests <- MCNoTests
    Ids = {a}
    Ntfy = {a}
    Defined = {a}
    MaxAttempts = 3
    MaxCrashes = 1
    MaxLost = 1
    MaxFaults = 1
    MaxEdits = 1
INVARIANTS
    SentWasReceived
    DuplicatesExplained
    RetriesBounded
PROPERTIES
    DeliveriesConclude
CHECK_DEADLOCK FALSE
