CHECK_DEADLOCK FALSE
SPECIFICATION FairSpec
CONSTANTS
  Requests = {r1, r2}
  Size <- OneStoragePermit
  Queries = {q1, q2, q3}
  Coordinates = {c1, c2}
  NoLock = NoLock
  MaxCached = 1
  HasAmap = TRUE
  Notices <- SomeNotices
  Simulated <- SomeSimulated
  Nothing = Nothing
  Retention = 2
  MaxDays = 2
  Feed <- SomeFeed
  Registry <- SomeRegistry
  DelayMin = 1
  DelayMax = 3
  MaxUnread = 2
  IncidentIds = {1, 2, 3}
  Limits = {1, 2}
  MaxNow = 1
  Messages <- SomeMessages
  MaxPayload = 10
INVARIANTS StorageFollowsWork LookupsRestrained LinkOpens PagedOnce PayloadFits
PROPERTIES PermitsComeBack QueriesEnd ProviderEnds
