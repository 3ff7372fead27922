SPECIFICATION FairSpec
CONSTANTS
  Peers = {x1, x2, x3}
  Lookups = {l1}
  Alpha = 2
  MaxFound = 3
INVARIANTS
  AsksEverybody
PROPERTIES
  LookupEnds
CHECK_DEADLOCK FALSE
