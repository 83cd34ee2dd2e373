\* One media chunk stream; messages of one and two chunks and more; times that
\* wrap and deltas that need the extended timestamp.
SPECIFICATION FairSpec
CONSTANTS
    MediaCs <- MCMediaCs
    ControlCs <- MCControlCs
    FrameTypes = {"video"}
    Aggregates <- MCAggregates
    Lengths = {3}
    Times = {6, 1, 4}
    Sentinel = 3
    Wrap = 8
    DefaultChunkSize = 2
    ChunkSizes = {1, 3}
    Windows = {4}
    Habits <- PlainHabits
    MaxMessages = 4
    MaxWire = 5
INVARIANTS
    MessagesWhole
    InFrame
PROPERTY
    WindowSlides
CHECK_DEADLOCK FALSE
