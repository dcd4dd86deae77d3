\* The frame archive: two cameras, two paths, two troubles.
CONSTANTS
    i1 = i1
    i2 = i2
    i3 = i3
    None = None
    Cameras <- MCCameras
    Images <- MCImages
    Undecodable <- MCUndecodable
    LastDate = 1
    Keep = 0
    MaxFrames = 2
    MaxTroubles = 2
SPECIFICATION Spec
SYMMETRY MCSymmetry
INVARIANTS
    RowHasFile
    SweptClean
    RetentionKept
    PausesWhenLow
    GoShowsTheFrame
PROPERTIES
    NoRearchive
CHECK_DEADLOCK FALSE
