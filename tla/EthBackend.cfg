SPECIFICATION EthFairSpec
CONSTANTS
  Reqs = {r1, r2}
  MaxSent = 2
INVARIANTS
  OverWhenReturned
  NoAnswerLostWhileWaiting
PROPERTIES
  
  HandlerProgress
CHECK_DEADLOCK FALSE
