SPECIFICATION LiveSpec
CONSTANTS
    Pids = {p1}
    None = None
    StaleAfter = 3
    InitialBackoff = 1
    MaximumBackoff = 4
    KillDelay = 1
    ShutdownWait = 1
    FramesPerPoll = 4
    PollPeriod = 4
    Timely = TRUE
    CanStick = FALSE
    PipeChunks = 12
    MaxSeq = 8
    MaxFaults = 2
    MaxUserOps = 1
PROPERTY RecoversHealthy
PROPERTY FreshSampleClearsStale
