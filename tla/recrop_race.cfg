SPECIFICATION Spec
CONSTANTS
    Callers = {admin1, admin2}
    prim = prim
    back = back
    Cameras <- MCCameras
    Frames <- MCFrames
    CameraOf <- MCCameraOf
    Score <- MCScore
    Posts <- MCPosts
    FirstPost <- MCFirstPost
    Rulings <- MCRulings
    Crops = {full, tight}
    FullFrame = full
    RecropAlone = FALSE
    MaxFinalizes = 1
    MaxEdits = 1
    MaxFaults = 0
    MaxCrashes = 0
INVARIANTS
    RowServable
CHECK_DEADLOCK FALSE
