SPECIFICATION FairSpec
CONSTANTS
  Destinations = {d1}
  Targets = {t1, t2}
  Capacity = 1
  MaxDeliveries = 2
  MaxGenerations = 1
CHECK_DEADLOCK FALSE
INVARIANTS
  RunningIsKnown
  OutdatedIsCalledOff
  LateTicksBounded
PROPERTIES
  EverythingEnds
