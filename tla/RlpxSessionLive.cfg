SPECIFICATION FairSpec
CONSTANTS
  A = A
  B = B
  Users = {A}
  UserReasons = {"tooManyPeers"}
  Writers = {}
  Timeouts = {}
  Late = {B}
  MaxData = 0
  MaxPings = 1
  ConnCap = 3
  NetBreaks = TRUE
PROPERTIES
  PeerDisconnects
  GoroutinesExit
  StreamTold
CHECK_DEADLOCK FALSE
