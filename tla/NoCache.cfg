SPECIFICATION Spec
CONSTANTS
  RequestWindow = 2
  Pattern1 <- Up0
  Pattern2 <- Down0
  NumPages = 2
  CacheOn = FALSE
  FlushCycle = 2
  Minor = 2
  FinishValue <- TearOrLose
INVARIANTS
  NoFalseCrash
  NoRequestSkipped
  LossIsFoundBehindZero
PROPERTIES
  NothingRewritten
  EvidenceIsKept
