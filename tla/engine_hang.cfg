SPECIFICATION FairSpec
CONSTANTS
  Names = {"connect", "merge", "sync"}
  NameParents <- Join
  Workers = {w1, w2}
  MaxStarts = 1
  None = None
PROPERTY InterruptedEngineExits
CHECK_DEADLOCK FALSE
