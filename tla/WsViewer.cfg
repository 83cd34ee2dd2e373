SPECIFICATION FairSpec

CONSTANTS
    MaxPings = 2
    ClientCloses = TRUE
    MaxTags = 3

INVARIANTS
    QuietFramesWhole

PROPERTIES
    GoroutinesEnd

CHECK_DEADLOCK FALSE
