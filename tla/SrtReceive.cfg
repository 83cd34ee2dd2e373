SPECIFICATION Spec

CONSTANTS
    a = a
    b = b
    Peers = {a}
    Half = 8
    InitialSequence <- IsnNearWrap
    DupKinds <- DupDataAndInduction
    HandlerFails = TRUE
    MaxSend = 4
    MaxCookies = 2
    MaxFed = 4

INVARIANTS
    GapsReported

PROPERTIES
    ImplementsLiveChannel
    NakOnlyMissing

CHECK_DEADLOCK FALSE
