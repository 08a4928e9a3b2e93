SPECIFICATION LifecycleSpec
CONSTANTS
  Instances = {a}
  Sessions = {}
  None = none
  StartAttempts = 1
  BindAttempts = 1
  MaxPending = 2
INVARIANTS
  IsRunningIsTrue
