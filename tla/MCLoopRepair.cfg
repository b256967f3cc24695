SPECIFICATION Spec
CONSTANTS
  None = None
  Configs <- Repairing
  Contexts <- NewConversation
  Answers <- TextAnswers
  Compact <- KeepLatest
  MaxTurn = 4
  MaxResumes = 0
CHECK_DEADLOCK FALSE
INVARIANTS
  BoundariesAccepted
