SPECIFICATION FairSpec
CONSTANTS
  Nodes = {n1}
  Workers = {w1, w2}
  Acceptor = acceptor
  MaxSessions = 1
  AddCap = 1
  EventCap = 1
  JobCap = 1
  None = None
INVARIANTS
  TypeOK
  ListedIsWatched
PROPERTIES
  VerdictKept
  DialAttempted
