SPECIFICATION LiveSpec
CONSTANTS
    Pids = {p1}
    None = None
    StaleAfter = 1
    InitialBackoff = 1
    MaximumBackoff = 4
    KillDelay = 1
    ShutdownWait = 1
    FramesPerPoll = 1
    PollPeriod = 1
    Timely = FALSE
    CanStick = TRUE
    PipeChunks = 2
    MaxSeq = 1
    MaxFaults = 2
    MaxUserOps = 0
PROPERTY HelperReplaced
PROPERTY HelpersEnd
