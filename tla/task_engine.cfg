SPECIFICATION Spec
CONSTANTS
  Names = {"connect", "merge", "sync"}
  NameParents <- Join
  Workers = {w1, w2}
  MaxStarts = 2
  None = None
INVARIANTS
  NoStarvation
  StartTellsTheTruth
  PassedFailureIsKept
PROPERTIES
  DependencyOrder
CHECK_DEADLOCK FALSE
