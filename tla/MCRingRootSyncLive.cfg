SPECIFICATION FairSyncSpec
CONSTANTS
  p1 = p1
  Paras = {p1}
  Chain = p1
  Collections = {1}
  MaxRingIndex = 1
  MaxRevision <- FirstRebuilt
  StorageRank <- MCStorageRank
  CollectionLists <- MCOneList
  MaxSubscribers = 1
  MaxUpdatesPerBatch = 2
  UpdateTriggerBlocks = 1
  UpdateTriggerThreshold = 2
  StuckBatchTimeout = 1
  ReplayCooldown = 0
  PageModulus = 3
  ChannelSizes = {2}
  MaxQueued = 1
  MaxMissingRootsPerCollection = 2
  MaxDeletedRingsPerCollection = 3
  MaxRecentRootsPerRing = 2
  ReplayAbandonThreshold = 2
  ReplayCooldownSeconds = 1
  ClearLimit = 2
  MaxRequests = 1
  TerminateMayFail = FALSE
  Unsubscription = FALSE
  LocalTermination = TRUE
  OffchainWorker = FALSE
  EnsureSubscriberOrigin = FALSE
  ReplaySets = {{0}}
INVARIANTS Mirrored
PROPERTIES EventuallyInSync
