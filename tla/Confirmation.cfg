SPECIFICATION FairSpec
CONSTANTS
  Destinations = {d1}
  MaxRequests = 2
  MaxAttempts = 2
  MaxConcurrent = 1
  MaxLeases = 3
  MaxDeletes = 1
  MaxCrashes = 1
CHECK_DEADLOCK FALSE
INVARIANTS
  IndexMatches
  SendsBounded
  DecisionIsFinal
PROPERTIES
  ImplementsRegistry
  EveryRequestResolved
