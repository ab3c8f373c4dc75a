SPECIFICATION Spec
CONSTANTS
  Reports <- MCReports
  MaxUpdates = 2
  MaxApplied = 6
CHECK_DEADLOCK FALSE
INVARIANTS
  TerminalHolds
  RepeatedOnlyByFinal
PROPERTIES
  OrderKept
