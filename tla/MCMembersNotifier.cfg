SPECIFICATION Spec
CONSTANTS
  p1 = p1
  p2 = p2
  Paras = {p1, p2}
  Collections = {1}
  MaxRingIndex = 1
  MaxRevision <- BuiltOnce
  StorageRank <- MCStorageRank
  CollectionLists <- MCOneList
  MaxSubscribers = 2
  MaxUpdatesPerBatch = 1
  UpdateTriggerBlocks = 0
  UpdateTriggerThreshold = 1
  StuckBatchTimeout = 1
  ReplayCooldown = 0
  PageModulus = 3
  ReplaySets = {}
  ChannelSizes = {0, 1}
  MaxQueued = 1
SYMMETRY ParaSymmetry
INVARIANTS RemainingExact PagesExact
PROPERTY ClearedOnlyWhenServed
