SPECIFICATION Spec
CONSTANTS
    Frames <- SomeFrames
    Others <- Amd
    TopBox = 2
    Limit = 2
    MaxMem = 5
    MaxSamples = 3
    MaxEvents = 6
INVARIANT TypeOK
INVARIANT DeviceHistories
INVARIANT OthersKept
INVARIANT PanelsLaidOut
INVARIANT ProcessTotals
CHECK_DEADLOCK FALSE
