\* Publishers race: any number of them may be between lookup and store.
SPECIFICATION Spec
CONSTANTS
  c1 = c1
  c2 = c2
  n1 = n1
  n2 = n2
  p1 = p1
  Names <- OneName
  RtmpConns = {c1, c2}
  PullConns = {p1}
  RtspConns = {}
  SrtBridges = {}
  Viewers = {}
  StreamOf <- MCStreamOf
  HlsMode = "immediately"
  DashEnabled = TRUE
  TakeTurns = FALSE
  OneStreamPerConn = TRUE
  MaxRooms = 3
  MaxTranscoders = 6
SYMMETRY ConnSymmetry
INVARIANTS
  OrphanFree
  NameReleased
  ListedTranscoderIsLive
