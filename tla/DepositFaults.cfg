SPECIFICATION FairSpec
CONSTANTS
  Deposits = {d}
  Stages = 2
  Ignored = {}
  Unparsable = {}
  Copies = 2
  Limit = 1
  MaxTime = 1
  MaxFaults = 1
  MaxRestarts = 1
  RoutesFirst = TRUE
  InOrder = FALSE
  None = None
CHECK_DEADLOCK FALSE
INVARIANTS
  AckedIsStored
  ProcessedIsApplied
PROPERTIES
  TxHashStays
  EventuallyAcked
