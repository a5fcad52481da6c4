SPECIFICATION Spec
CONSTANTS
    Pids = {p1, p2}
    None = None
    StaleAfter = 1
    InitialBackoff = 1
    MaximumBackoff = 4
    KillDelay = 1
    ShutdownWait = 1
    FramesPerPoll = 1
    PollPeriod = 1
    Timely = FALSE
    CanStick = TRUE
    PipeChunks = 2
    MaxSeq = 2
    MaxFaults = 2
    MaxUserOps = 1
SYMMETRY PidSymmetry
INVARIANT TypeOK
INVARIANT CutOffIsFinal
INVARIANT ShutdownLeavesNoHelper
PROPERTY NoProcessStorm
PROPERTY ImplementsSupervisor
PROPERTY HonestFramesAccepted
PROPERTY HealthMatchesHelpers
