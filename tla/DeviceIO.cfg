SPECIFICATION Spec
CONSTANTS
  AreaStart = 1
  AreaLength = 4
  DeviceLength = 7
  Word = 4096
  RWRETRY = 3
  Polls = 3
  Setups <- Chosen
  MaxFaults = 3
  MaxMisses = 1
INVARIANTS
  TypeOK
  CutIsNeverAnError
  CutIsLocated
PROPERTIES
  ImplementsPromise
  EveryRequestReturns
