SPECIFICATION FairSpec
CONSTANTS
  Protocols = {eth, les}
  SessionCap = 1
INVARIANTS
  FailsForAReason
  OpenMeansAgreed
PROPERTIES
  HandshakeEnds
CHECK_DEADLOCK FALSE
