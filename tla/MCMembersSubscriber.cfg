SPECIFICATION FairSpec
CONSTANTS
  Collections = {1}
  MaxRingIndex = 2
  MaxUpdatesPerBatch = 2
  MaxMissingRootsPerCollection = 2
  MaxDeletedRingsPerCollection = 2
  MaxRecentRootsPerRing = 1
  ReplayAbandonThreshold = 2
  ReplayCooldownSeconds = 1
  ClearLimit = 3
  MaxRequests = 1
  MaxSequence = 1
  MaxRevision = 0
  Messages <- MCMessages
INVARIANTS StateExact NothingKept
PROPERTIES MissingResolved
