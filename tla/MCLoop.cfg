SPECIFICATION Spec
CONSTANTS
  None = None
  Configs <- SomeConfigs
  Contexts <- SomeContexts
  Answers <- SomeAnswers
  Compact <- KeepLatest
  MaxTurn = 4
  MaxResumes = 2
CHECK_DEADLOCK FALSE
INVARIANTS
  LimitsHold
  ReplayIsExact
  AccountsExact
  TranscriptComplete
PROPERTIES
  ContinuationForward
