SPECIFICATION FlexibleSpec
CONSTANTS
  m0 = m0
  m1 = m1
  k1 = k1
  Keys = {m0, m1, k1}
  MaxRingIndex = 3
  MaxRevision = 6
  MaxSessions = 1
  MaxCreations = 1
  RingCapacity = 4
  PageSize = 4
  OnboardingQueuePageSize = 2
  QueuePages = 2
  RingBuildingMemberLimit = 4
  AppendOnly = FALSE
  SelfInclusion = TRUE
  OnboardingSizes = {1, 2}
  MergePairs <- IntoLower
  Deletable = FALSE
INVARIANTS QueueExact SlotsExact CountsExact RootCommits WorkTracked CurrentOpen
PROPERTIES RevisionsStable
CHECK_DEADLOCK FALSE
