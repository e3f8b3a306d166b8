SPECIFICATION Spec
CONSTANTS
  Requests = {r1, r2, r3}
  Users = {u1, u2}
  MaxKeys = 1
  Modes = {"user_paid", "sponsored", "unsupported"}
  MaxTx = 2
  IntentTTL = 0
  MaxTime = 1
  Concurrent = TRUE
  StoreFaults = TRUE
  RpcFaults = TRUE
  Crashes = TRUE
  None = None
SYMMETRY RequestSymmetry

  
  
  
  
PROPERTIES
  PendingIsLeftForGood
  
CHECK_DEADLOCK FALSE
