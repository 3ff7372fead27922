SPECIFICATION Spec
CONSTANTS
  A = A
  B = B
  Users = {A}
  UserReasons = {"tooManyPeers"}
  Writers = {B}
  Timeouts = {A}
  Late = {A}
  MaxData = 1
  MaxPings = 1
  ConnCap = 2
  NetBreaks = TRUE
INVARIANTS
  ClosesOnce
  NoWriteAfterClose
  OneDisconnectMessage
  CauseIsTrue
CHECK_DEADLOCK FALSE
