SPECIFICATION FairSpec

CONSTANTS
    TargetDur = 1
    WindowSize = 2
    Failures <- AllFailures
    MaxClock = 2
    MaxFrames = 6
    MaxHeaders = 1

INVARIANTS
    FragmentsDecodable
    NothingLostBetween
    ManifestHasInit
    OneLateFragment

PROPERTIES
    ImplementsLiveWindow
    DeadUnblocksWaiters

CHECK_DEADLOCK FALSE
