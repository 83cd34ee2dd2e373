SPECIFICATION FairSpec
CONSTANTS
  c1 = c1
  n1 = n1
  n2 = n2
  v1 = v1
  Names <- OneName
  RtmpConns = {c1}
  PullConns = {}
  RtspConns = {}
  SrtBridges = {}
  Viewers = {v1}
  StreamOf <- MCStreamOf
  HlsMode = "delay"
  DashEnabled = TRUE
  TakeTurns = TRUE
  OneStreamPerConn = TRUE
  MaxRooms = 2
  MaxTranscoders = 5
PROPERTIES
  TeardownReachesViewers
