SPECIFICATION Spec
CONSTANTS
  Peers = {x1}
  Probers = {t1}
  Callers = {f1}
  Goroutines = {g1}
  TaskCap = 1
  MaxCalls = 3
  None = None
INVARIANTS
  OnlyProvenPeers
  HandlerKept
  SomeoneWillTell
CHECK_DEADLOCK FALSE
