SPECIFICATION Spec
CONSTANTS
  Clients = {c1, c2, c3}
  Parts <- MavenParts
  Teams <- ClientTeams
  Digests = {a, b}
  Actions = {a}
  Probes <- ProbeCalls
  MaxAge = 2
  MaxUpload = 1
  MavenTTL = 1
  BazelTTL = 9
  MaxTime = 3
  StoreFaults = TRUE
  Crashes = TRUE
  SerialPushes = TRUE
  None = None
SYMMETRY ClientSymmetry
INVARIANTS
  FreshEntryIsComplete
  SettledReadsAgree
PROPERTIES
  ImplementsBuildCache
CHECK_DEADLOCK FALSE
