CONSTANTS
  Items = {1, 2}
  MaxToolCalls = 2
  Configs <- AllCalls
  MaxRetries = 1
  Attempts = 2
  MaxTurnEvents = 7
  MaxTurnBytes = 6
SPECIFICATION FairSpec
INVARIANTS OneBody AcceptedIsWire NeverMixed PartialKept BodiesClosed
PROPERTY CancelReturns
