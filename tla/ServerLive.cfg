SPECIFICATION FairSpec
CONSTANTS
  Nodes = {n1, n2}
  Workers = {w1}
  Acceptor = acceptor
  MaxSessions = 1
  AddCap = 1
  EventCap = 1
  JobCap = 1
  None = None
PROPERTIES
  DialAttempted
  ClosedIsUnlisted
