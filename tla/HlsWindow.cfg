SPECIFICATION Spec

CONSTANTS
    LowLatency = FALSE
    TargetDur = 2
    PartTarget = 1
    WindowSize = 2
    Wrap = 16
    AudioLag = 1
    Waiters = {}
    StopAllowed = TRUE
    Failures <- OpenFailures
    MaxClock = 8
    MaxSegments = 6
    MaxBytes = 4

PROPERTIES
    ImplementsLiveWindow

INVARIANTS
    PlaylistFilesExist
    KeyFirst

CHECK_DEADLOCK FALSE
