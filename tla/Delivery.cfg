SPECIFICATION Spec
CONSTANTS
  Destinations = {d1, d2}
  MaxBatches = 2
  MaxRetryAttempts = 2
  MaxActiveBatches = 2
  MaxActiveRetries = 2
  MaxGeneration = 1
  MaxCrashes = 1
SYMMETRY Symmetry
VIEW Unobserved
CHECK_DEADLOCK FALSE
INVARIANTS
  KeyspacesAgree
  SerialPerDestination
  RetryTaskCurrent
