SPECIFICATION Spec
CONSTANTS
  Nodes = {n1}
  Workers = {w1}
  Acceptor = acceptor
  MaxSessions = 2
  AddCap = 1
  EventCap = 1
  JobCap = 1
  None = None
INVARIANT ClosedStaysUnlisted
