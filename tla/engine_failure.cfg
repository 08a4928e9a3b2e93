SPECIFICATION Spec
CONSTANTS
  Names = {"connect", "merge", "sync"}
  NameParents <- Join
  Workers = {w1, w2}
  MaxStarts = 1
  None = None
INVARIANT FailureIsReported
CHECK_DEADLOCK FALSE
