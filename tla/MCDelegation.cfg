SPECIFICATION FairSpec
CONSTANTS
  Calls <- Tree
  Plain <- PlainCalls
  MaxDepth <- Depths
  Budget <- OwnBudgets
  Plans <- Shapes
  Tokens = {0, 2}
  Cancelable <- Contexts
  MaxUpdates = 2
CHECK_DEADLOCK FALSE
INVARIANTS
  PoolConserved
  CeilingHeld
  UsageOnce
  NotExecutedTrue
PROPERTIES
  UpdateFailureSurfaces
  NoLateUpdate
  RunReturns
