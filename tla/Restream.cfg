\* A stream of four pictures by MPEG-TS that loses packets, and by RTP over TCP
\* and over UDP that loses, repeats and reorders them.
SPECIFICATION Spec
CONSTANTS
    PacketSize = 7
    TsHeader = 1
    KeyField = 3
    Mtu = 4
    TsStreams <- Streams
    RtpStreams <- Streams
    RtpLinks = {"tcp", "udp"}
    ClockRate = 3
    Wrap = 64
    Inc = 4
    Sync = 1
    CacheFrames = 2
    OneStap = FALSE
    ShortReads = TRUE
    MaxWire = 8
    MaxFaults = 3
INVARIANTS
    
    LossHeals
    TsNeverBack
CHECK_DEADLOCK FALSE
