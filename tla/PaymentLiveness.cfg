SPECIFICATION FairSpec
CONSTANTS
  Requests = {r1, r2, r3}
  Users = {u1}
  MaxKeys = 1
  Modes = {"user_paid"}
  MaxTx = 2
  IntentTTL = 0
  MaxTime = 1
  Concurrent = TRUE
  StoreFaults = FALSE
  RpcFaults = FALSE
  Crashes = FALSE
  None = None
INVARIANTS
  PaymentSettlesIntent
PROPERTIES
  
  EveryCallAnswered
CHECK_DEADLOCK FALSE
