SPECIFICATION Spec
CONSTANTS
  eth = eth
  les = les
  Order <- MCOrder
  Length <- MCLength
  MsgCodes <- MCMsgCodes
  Bodies <- MCBodies
  WireCap = 2
  MaxSent = 3
  None = None
INVARIANTS
  NoLostWakeup
PROPERTIES
  IsChannel
CHECK_DEADLOCK FALSE
