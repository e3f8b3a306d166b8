SPECIFICATION Spec
CONSTANTS
  Begins = {b1, b2}
  LoginCalls = {l1, l2, l3}
  Accounts = {a1, a2}
  Addresses = {x}
  Concurrent = TRUE
  StoreFaults = TRUE
  Crashes = TRUE
  None = None
SYMMETRY LoginSymmetry
INVARIANTS
  SameAccountSameUser
  StateAdmitsOneLogin
  LoginIsComplete
  AddressHasOneOwner
CHECK_DEADLOCK FALSE
