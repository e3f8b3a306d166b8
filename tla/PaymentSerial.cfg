SPECIFICATION Spec
CONSTANTS
  Requests = {r1, r2, r3, r4}
  Users = {u1}
  MaxKeys = 2
  Modes = {"sponsored"}
  MaxTx = 2
  IntentTTL = 0
  MaxTime = 1
  Concurrent = FALSE
  StoreFaults = FALSE
  RpcFaults = TRUE
  Crashes = FALSE
  None = None
SYMMETRY RequestSymmetry
INVARIANTS
  PaidAtMostOnce
  CancelSticks
  ConfirmedPaymentIsReadable

  
CHECK_DEADLOCK FALSE
