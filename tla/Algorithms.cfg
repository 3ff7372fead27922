SPECIFICATION MCSpec
CONSTANTS
  Ids = {a, b, c, d, e, f}
  HeapTimes = {0, 1, 2, 3}
  ForkLists <- MCForkLists
  MaxHead = 6
  Domain = "dom"
  Zone <- MCZone
  NoRecord = "nil"
  me = me
  p1 = p1
  p2 = p2
  p3 = p3
  Keys <- MCKeys
  Local = me
  Bits = 3
  Hash <- MCHash
  BucketSize = 2
  Threads = {t1, t2}
  MaxRaces = 1
SYMMETRY Symmetry
INVARIANTS
  HeapServesEarliest
  ForksJudgedRight
  NothingVanishes
  TypeOK
  WellPlaced
  QueriesFindNearest
PROPERTY NoPeerLost
CHECK_DEADLOCK FALSE
