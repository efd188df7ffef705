SPECIFICATION Spec
CONSTANTS
  RequestWindow = 2
  MaxLoop = 2
  Pattern <- MCPattern
  PageSeqs <- MCPageSeqs
  Configs <- MCConfigs
INVARIANTS
  TypeOK
  VerdictIsRight
  ResumeAtFirstUnexpected
  CrashedStepsAreRight
  WindowIsRead
PROPERTIES
  CrashIsSticky
  EventuallyJudged
