SPECIFICATION Spec
CONSTANTS
  RequestWindow = 4
  AreaStart = 1
  AreaLength = 6
  DeviceLength = 7
  ratio_of_filled = 60
  Word = 256
  MaxLength = 3
  Margin = 3
  RD_REPEAT_COUNT = 3
  CompareEvery = 2
  MaxRandomPasses = 1
  Tests <- AllTests
  Seeds <- TwoSeeds
  AGING_VERIFICATION_INTERVAL = 3
  FinishPages = {5, 16}
  Cycles = {0, 1, 2}
  MAX_TEST_CYCLE = 4
  PerfLength = 4
  MaxLoop = 3
  MaxFaults = 1
  MaxLosses = 1
  MaxRestarts = 2
INVARIANT NoOtherFalseAlarm
PROPERTY LossIsFound
