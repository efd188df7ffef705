SPECIFICATION Spec
CONSTANTS
  RequestWindow = 2
  Pattern1 <- Up0
  Pattern2 <- Down0
  NumPages = 1
  CacheOn = FALSE
  FlushCycle = 2
  Minor = 0
  FinishValue <- LoseOnly
INVARIANTS
  LossIsFound
