SPECIFICATION FairSpec
CONSTANTS
  k1 = k1
  k2 = k2
  Keys = {k1, k2}
  MaxRingIndex = 3
  MaxRevision = 6
  MaxSessions = 1
  MaxCreations = 1
  RingCapacity = 2
  PageSize = 2
  OnboardingQueuePageSize = 1
  QueuePages = 3
  RingBuildingMemberLimit = 2
  AppendOnly = FALSE
  SelfInclusion = TRUE
  OnboardingSizes = {1}
  MergePairs <- NoMerges
  Deletable = FALSE
PROPERTIES Maintained
CHECK_DEADLOCK FALSE
