CONSTANTS
  d1 = d1
  d2 = d2
  noEvent = noEvent
  NoEvent = noEvent
  NoPlace = noPlace
  NoMagnitude = noMagnitude
  All = all
  SourceOf <- MCSources
  Distance <- MCDistance
  Intensity <- MCIntensity
  WarningCap = 2
  BlockSize = 2
  Destinations <- MCDestinations
  Requests <- MCRequests
  Batches <- MCBatches
  Legacies <- MCLegacies
  Events <- MCEvents
  MaxId = 3
  MaxGeneration = 3
  MaxDeletes = 1

SPECIFICATION Spec

INVARIANTS
  PostingsExact
  StoreConsistent

PROPERTIES
  GenerationNamesContent
  MatchedExactly
  CriticalWins
