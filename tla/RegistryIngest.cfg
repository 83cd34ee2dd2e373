\* A publisher of each protocol, two by RTMP, that take turns.
SPECIFICATION Spec
CONSTANTS
  b1 = b1
  c1 = c1
  c2 = c2
  n1 = n1
  n2 = n2
  p1 = p1
  s1 = s1
  Names <- OneName
  RtmpConns = {c1, c2}
  PullConns = {p1}
  RtspConns = {s1}
  SrtBridges = {b1}
  Viewers = {}
  StreamOf <- MCStreamOf
  HlsMode = "immediately"
  DashEnabled = TRUE
  TakeTurns = TRUE
  OneStreamPerConn = FALSE
  MaxRooms = 3
  MaxTranscoders = 6
SYMMETRY ConnSymmetry
INVARIANTS
  ClosedRoomNotListed
  PublisherListed
  StreamKeepsTranscoders
