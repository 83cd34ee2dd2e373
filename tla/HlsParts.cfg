SPECIFICATION FairSpec

CONSTANTS
    LowLatency = TRUE
    TargetDur = 2
    PartTarget = 1
    WindowSize = 2
    Wrap = 16
    AudioLag = 1
    Waiters = {w1}
    StopAllowed = FALSE
    Failures <- WriteFailures
    MaxClock = 2
    MaxSegments = 3
    MaxBytes = 3

INVARIANTS
    PartsTile
    PartWakesWaiters

PROPERTIES
    WaitersAnswered

CHECK_DEADLOCK FALSE
