SPECIFICATION RuntimeSpec
CONSTANTS
  None = None
  c1 = c1
  c2 = c2
  w1 = w1
  w2 = w2
  o1 = o1
  o2 = o2
  Specs = {s1}
  Owners = {w1}
  ClaimIDs = {c1, c2}
  LeaseTTLs = {1}
  Operations = {o1}
  Inputs = {i1}
  Payloads = {p1}
  Failures = {f1}
  InvalidPayloads = {}
  runtimeOf <- OneProcess
  Plan <- OneEffect
  Continuations <- EngineContinuations
  Results <- EngineResults
  FailedResults <- FailingResults
  Fates = {"answered", "lost"}
  Suspended = {c1}
  Cancelled = {}
  Closed = {}
  MaxToken = 9
  MaxVersion = 20
  MaxSequence = 20
  MaxAttempts = 1
CHECK_DEADLOCK FALSE
INVARIANT
  SuspendPersists
