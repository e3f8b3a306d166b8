SPECIFICATION Spec
CONSTANTS
  Users = {u1, u2}
  Requests = {r1, r2}
  Chains = 2
  MaxWallets = 2
  MaxFaults = 1
  BridgeFaults = TRUE
  Crashes = TRUE
  None = None
SYMMETRY RequestSymmetry
INVARIANTS
  ShownIsOwn
  
CHECK_DEADLOCK FALSE
