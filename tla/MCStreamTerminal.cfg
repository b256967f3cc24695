CONSTANTS
  Items = {1}
  MaxToolCalls = 2
  Configs <- ResponsesCalls
  MaxRetries = 2
  Attempts = 1
  MaxTurnEvents = 7
  MaxTurnBytes = 6
SPECIFICATION Spec
INVARIANT NothingAfterTerminal
