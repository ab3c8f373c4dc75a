SPECIFICATION FairSpec
CONSTANTS
  Destinations = {d1}
  MaxBatches = 2
  MaxRetryAttempts = 2
  MaxActiveBatches = 2
  MaxActiveRetries = 2
  MaxGeneration = 2
  MaxCrashes = 1
CHECK_DEADLOCK FALSE
INVARIANTS
  PushesBounded
  SkippedOnlyWhenChanged
PROPERTIES
  PushesInOrder
  ImplementsOutbox
  EveryRowRetired
