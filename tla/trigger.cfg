SPECIFICATION TriggerSpec
CONSTANTS
    Scores <- MCScores
    Gaps <- MCGaps
    MaxSamples = 8
    ThresholdAbs = 7
    RatioNum = 8
    RatioDen = 5
    DeltaAbs = 6
    RiseDelta = 2
PROPERTIES
    NoOutlierFires
    StillRising
    SunsetFires
CHECK_DEADLOCK FALSE
