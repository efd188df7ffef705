SPECIFICATION Spec
CONSTANTS
  RequestWindow = 3
  Pattern1 <- Up6
  Pattern2 <- Down6
  NumPages = 1
  CacheOn = TRUE
  FlushCycle = 3
  Minor = 0
  FinishValue <- KeepOrLose
INVARIANTS
  TypeOK
  NoFalseCrash
  NoRequestSkipped
  HostKnowsThePhase
  NothingBehindPrediction
  LossBeforeCommitIsFound
PROPERTIES
  NeverBackwards
  TestEnds
