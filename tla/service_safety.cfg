SPECIFICATION Spec
CONSTANTS
  Instances = {a, b}
  Sessions = {s1, s2}
  None = none
  MaxAhead = 0
  StartAttempts = 1
  BindAttempts = 1
  MaxPending = 2
\* an uncaught exception ends the process
CHECK_DEADLOCK FALSE
SYMMETRY Symmetry
INVARIANTS
  TypeOK
  AtMostOneServer
  RunningSessionsKnown
  RetiredLeavesNothing
  NullLockNeedsTimeOut
PROPERTIES
  TerminationMissesAtMostOne
