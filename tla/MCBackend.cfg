SPECIFICATION Spec
CONSTANTS
  None = None
  Specs = {s1}
  Owners = {w1}
  ClaimIDs = {c1, c2}
  LeaseTTLs = {1}
  Operations = {o1}
  Inputs = {i1}
  Payloads = {p1}
  Failures = {f1}
  Continuations = {k1}
  Results = {done, broken}
  FailedResults = {broken}
  MaxToken = 3
  MaxVersion = 3
  MaxSequence = 2
  MaxAttempts = 2
CHECK_DEADLOCK FALSE
SYMMETRY Symmetry
INVARIANTS
  StaleLeaseFenced
  RetryIsExact
  TerminalIsSettled
  RunningHeldByLease
  OnlyLatestOpen
PROPERTIES
  CheckpointForward
  OutcomeFinal
  ImplementsJournal
