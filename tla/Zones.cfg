SPECIFICATION Spec
CONSTANTS
  AreaStart = 0
  AreaLength = 24
  ZoneSize = 8
  Chunks <- OneTwo
  RD_PAGES = 2
  FlushCycle = 6
  MaxLoop = 3
  Tests <- Every
INVARIANTS
  NoOtherFalseAlarm
  ZoneIsCovered
