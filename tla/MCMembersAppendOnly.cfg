SPECIFICATION FairSpec
CONSTANTS
  k1 = k1
  k2 = k2
  k3 = k3
  Keys = {k1, k2, k3}
  MaxRingIndex = 2
  MaxRevision = 3
  MaxSessions = 0
  MaxCreations = 1
  RingCapacity = 2
  PageSize = 1
  OnboardingQueuePageSize = 1
  QueuePages = 3
  RingBuildingMemberLimit = 1
  AppendOnly = TRUE
  SelfInclusion = FALSE
  OnboardingSizes = {1}
  MergePairs <- NoMerges
  Deletable = TRUE
INVARIANTS SlotsExact CountsExact RootsAnnounced DeletedClean
PROPERTIES ImmutableFrozen DeletionCompletes
CHECK_DEADLOCK FALSE
