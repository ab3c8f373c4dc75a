SPECIFICATION FairSpec
CONSTANTS
  jma = jma
  fj = fj
  eqlist = eqlist
  Streams <- MCStreams
  Source <- MCSource
  Category <- MCCategory
  Similar <- MCSimilar
  Reports <- MCReports
  MaxUpdates = 2
  MaxMarks = 2
  MaxLatest = 1
  MaxCandidates = 2
  PushUpdates = TRUE
  MinGap = 1
  IgnoreTraining = TRUE
  IgnoreCancel = FALSE
  CheckStale = TRUE
  MaxIngested = 4
  MaxRestarts = 1
CHECK_DEADLOCK FALSE
INVARIANTS
  RecordsConsistent
  ReportsStayListed
PROPERTIES
  EverythingSettles
