\* One connection, from the first byte of the handshake to the media, whose
\* frames are two chunks each.  With Silent = TRUE, a server that answers no
\* command, NobodyStuck is violated.
SPECIFICATION Spec
CONSTANTS
    Modes = {"COMPLEX1", "COMPLEX2"}
    Apps = {"live", "other"}
    OtherCommands = {"pause", "call"}
    MetaShape = "setDataFrame"
    FrameUnits = 4
    Silent = FALSE
    MaxOthers = 1
    MaxTags = 3
INVARIANTS
    HandshakeAgrees
    FramingAgreed
    AnswersInOrder
    PulledIsAStretch
    NobodyStuck
CHECK_DEADLOCK FALSE
