SPECIFICATION FairSpec
CONSTANTS
  IDs = {1, 2, 3, 4}
  Malformed = {4}
  Results = {r1}
  MaxTicks = 2
  Limits = {0, 1, 2}
  MaxBatch = 3
  MaxDrives = 2
CHECK_DEADLOCK FALSE
INVARIANTS
  StateIsCanonical
  SuccessesFinal
  PermitsBound
PROPERTIES
  DriveReturns
