CHECK_DEADLOCK FALSE
CONSTANTS
  Ingress = {"server", "wolfx"}
  Events = {e1}
  NoEvent = NoEvent
  MaxSignals = 2
  MaxFaults = 1
SPECIFICATION FairSpec
INVARIANTS
  ShutdownOrderly
  RefusedOnlyWhenForced
PROPERTIES
  ShutdownEnds
  EveryEventHandled
