SPECIFICATION SyncSpec
CONSTANTS
  p1 = p1
  Paras = {p1}
  Chain = p1
  Collections = {1}
  MaxRingIndex = 1
  MaxRevision <- BuiltOnce
  StorageRank <- MCStorageRank
  CollectionLists <- MCOneList
  MaxSubscribers = 1
  MaxUpdatesPerBatch = 2
  UpdateTriggerBlocks = 0
  UpdateTriggerThreshold = 1
  StuckBatchTimeout = 1
  ReplayCooldown = 0
  PageModulus = 3
  ChannelSizes = {1}
  MaxQueued = 2
  MaxMissingRootsPerCollection = 2
  MaxDeletedRingsPerCollection = 3
  MaxRecentRootsPerRing = 2
  ReplayAbandonThreshold = 2
  ReplayCooldownSeconds = 1
  ClearLimit = 2
  MaxRequests = 1
  TerminateMayFail = FALSE
  Unsubscription = TRUE
  LocalTermination = TRUE
  OffchainWorker = TRUE
  EnsureSubscriberOrigin = FALSE
  ReplaySets = {}
INVARIANTS EndsOnBothSides
