SPECIFICATION FairSpec
CONSTANTS
  Deposits = {d}
  Stages = 2
  Ignored = {k}
  Unparsable = {u}
  Copies = 1
  Limit = 2
  MaxTime = 1
  MaxFaults = 0
  MaxRestarts = 1
  RoutesFirst = FALSE
  InOrder = TRUE
  None = None
CHECK_DEADLOCK FALSE
INVARIANTS
  DepositIsReported
PROPERTIES
  
  
  EventuallyProcessed
