SPECIFICATION FairSpec
CONSTANTS
  None = None
  b1 = b1
  b2 = b2
  read = read
  write = write
  ask = ask
  lost = lost
  files = files
  Batches = {b1, b2}
  calls <- Delegating
  parent <- Delegated
  Tools = {read, write, ask, lost}
  Registered = {read, write, ask}
  Sequential = {read}
  Timed = {read}
  group <- OrderedReads
  capacity <- OneFileOneRead
  MaxBatchCalls = 3
  BatchConcurrency = 2
CHECK_DEADLOCK FALSE
INVARIANTS
  AnswersTrue
  GroupBounded
  SequentialInOrder
PROPERTIES
  BatchReturns
