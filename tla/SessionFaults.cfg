SPECIFICATION Spec
CONSTANTS
  SessionIds = {s1}
  Requests = {r1, r2, r3}
  Nonces = {n}
  AccessTTL = 1
  RefreshTTL = 1
  Skew = 1
  NonceTTL = 2
  MaxAhead = 0
  MaxDelay = 0
  MaxTime = 2
  StoreFaults = TRUE
  Crashes = TRUE
  None = None
SYMMETRY SessionSymmetry
INVARIANTS
  RevocationSticks
  
PROPERTIES
  RevokedAdmitsNothing
  OldTokensAreDead
CHECK_DEADLOCK FALSE
