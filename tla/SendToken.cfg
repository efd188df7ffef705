SPECIFICATION Spec
CONSTANTS
  Arity <- MCArity
  NoAck <- MCNoAck
  Retries = 3
  AckRetries = 1
  MayBeLate = FALSE
INVARIANTS
  SuccessIsRecorded
  OwnParameters
PROPERTY
  EveryTokenReturns
