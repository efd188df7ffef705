CONSTANTS
  MAX_NORMAL_REQUEST = 1
  SectorUnits = 2
  Areas <- Prepares
  MaxRequests <- Requests
  MaxFaults = 1
  MaxTests = 2
SPECIFICATION Spec
INVARIANTS
  CrashIsRemembered
  CrashIsPrinted
  PreparedAsAsked
