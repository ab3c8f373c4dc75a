SPECIFICATION Spec
CONSTANTS
  Destinations = {d1}
  MaxRequests = 1
  MaxAttempts = 2
  MaxConcurrent = 1
  MaxLeases = 2
  MaxDeletes = 1
  MaxCrashes = 0
CHECK_DEADLOCK FALSE
INVARIANT
  NotFoundMeansNone
