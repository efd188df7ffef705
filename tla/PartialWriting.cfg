SPECIFICATION ScanSpec
CONSTANTS
  RequestWindow = 2
  MaxPages = 6
  MaxMinor = 2
INVARIANTS
  LoopComputesTheClass
