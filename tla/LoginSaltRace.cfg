SPECIFICATION Spec
CONSTANTS
  Begins = {b1, b2}
  LoginCalls = {l1, l2}
  Accounts = {a1}
  Addresses = {x}
  Concurrent = TRUE
  StoreFaults = FALSE
  Crashes = FALSE
  None = None
SYMMETRY LoginSymmetry
INVARIANTS
  SaltIsStable
CHECK_DEADLOCK FALSE
