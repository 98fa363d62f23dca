SPECIFICATION Spec
CONSTANTS
  Accounts = {a, b, c}
  Keys = {k, l, m}
  Persons = {p}
  PaidKeys = {q}
  FreeLimits <- MCFreeLimits
  RingCapacity = 2
  MaxRings = 2
  UnloadTokenTimePeriod = 2
  GraceWindow = 0
  PaidTimePeriod = 2
  PaidExpirationTime = 1
  CleanConsumedFreeTokenLimit = 1
  DustCleanupBatchSize = 1
  MaxNow = 1
  MaximumExponent = 1
  UnitAmount = 2
  MinimumExponentForOutputUnloadFee = 1
  MaxSplitOutputs = 2
  MaxConsolidation = 2
  MaxBatchUnpaidLoad = 2
  MaximumAge = 1
  RecyclerExpirationTime = 1
  CoinFailureLockPeriod = 1
  Fees = {1}
  Supply = 4
SYMMETRY MCSymmetry
INVARIANTS RecyclersExact
PROPERTIES ImplementsLedger
CHECK_DEADLOCK FALSE
