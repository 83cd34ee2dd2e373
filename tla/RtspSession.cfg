\* A client that plays or records under two names, both tracks by UDP.
SPECIFICATION FairSpec

CONSTANTS
    Streams = {s1, s2}
    NoStream = none
    Transports <- AllUdp
    Client = "oneRole"
    MaxRooms = 2
    MaxSocks = 2
    MaxDepth = 2
    MaxLoops = 2
    MaxReaders = 2

INVARIANTS
    TypeOK
    OneStreamLoop
    PlayingHasLoop
    IngestReleases

PROPERTY
    GoroutinesEnd

CHECK_DEADLOCK FALSE
