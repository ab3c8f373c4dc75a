SPECIFICATION Spec
CONSTANTS
  jma = jma
  fj = fj
  eqlist = eqlist
  Streams <- MCStreams
  Source <- MCSource
  Category <- MCCategory
  Similar <- MCSimilar
  Reports <- MCFewReports
  MaxUpdates = 2
  MaxMarks = 2
  MaxLatest = 1
  MaxCandidates = 2
  PushUpdates = FALSE
  MinGap = 1
  IgnoreTraining = TRUE
  IgnoreCancel = FALSE
  CheckStale = TRUE
  MaxIngested = 3
  MaxRestarts = 1
CHECK_DEADLOCK FALSE
INVARIANTS
  EveryReportListed
