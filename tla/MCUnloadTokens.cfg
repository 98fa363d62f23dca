SPECIFICATION TokenSpec
CONSTANTS
  Persons = {p}
  PaidKeys = {q, r}
  FreeLimits <- MCFreeLimits
  RingCapacity = 1
  MaxRings = 3
  UnloadTokenTimePeriod = 2
  GraceWindow = 1
  PaidTimePeriod = 1
  PaidExpirationTime = 1
  CleanConsumedFreeTokenLimit = 1
  DustCleanupBatchSize = 1
  MaxNow = 3
INVARIANTS TokensSpentOnce PaidTokensKept
PROPERTIES ExpiredForgotten
CHECK_DEADLOCK FALSE
