SPECIFICATION Spec
CONSTANTS
    Callers = {engine, admin}
    prim = prim
    back = back
    Cameras <- MCCameras
    Frames <- MCFrames
    CameraOf <- MCCameraOf
    Score <- MCScore
    Posts <- MCPosts
    FirstPost <- MCFirstPost
    Rulings <- MCRulings
    Crops = {full, tight}
    FullFrame = full
    RecropAlone = TRUE
    MaxFinalizes = 2
    MaxEdits = 2
    MaxFaults = 1
    MaxCrashes = 1
SYMMETRY MCSymmetry
INVARIANTS
    RowServable
    NothingBetter
    NoLitter
PROPERTIES
    KeepsImageContract
    ImageLostForCause
CHECK_DEADLOCK FALSE
