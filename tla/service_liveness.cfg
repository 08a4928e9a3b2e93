SPECIFICATION ApartFairSpec
CONSTANTS
  Instances = {a, b}
  Sessions = {s1}
  None = none
  MaxAhead = 1
  StartAttempts = 0
  BindAttempts = 2
  MaxPending = 2
\* an uncaught exception ends the process
CHECK_DEADLOCK FALSE
PROPERTIES
  StopEndsServer
  NoNetworkStopsServer
  TerminatedSessionsEnd
  ListenerFollowsServer
