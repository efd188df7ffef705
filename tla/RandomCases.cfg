SPECIFICATION Spec
CONSTANTS
  AreaStart = 6
  AreaLength = 24
  ZoneSize = 6
  Chunks <- ShortAndLong
  RD_PAGES = 1
  FlushCycle = 4
  MinRequest = 2
  MaxRequest = 3
  FirstLength = 2
  Gap = 1
  ReadWindow = 4
  RequestWindow = 6
  Tests <- Every
  Seeds <- TwoSeeds
  MaxEnds = 4
INVARIANTS
  ResumesAtFirstMissing
  NoHole
  NoOtherFalseAlarm
  ZoneIsCovered
