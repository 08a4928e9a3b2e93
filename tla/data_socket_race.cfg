SPECIFICATION Spec
CONSTANTS
  MaxConnections = 1
  None = none
PROPERTIES
  TransferCallsReturn
CHECK_DEADLOCK FALSE
