SPECIFICATION Spec
CONSTANTS
  Instances = {i1, i2}
  NumFiles = 3
  MaxFaults = 3
  SessionIds = {s1}
  Users = {u1, u2}
  Requests = {r1, r2}
  Resets <- LastFile
  SessionTTL = 1
  MaxTime = 2
  None = None
INVARIANTS
  AppliedOnceInOrder
  SessionsSurvive
  AnswerStands
PROPERTIES
  EveryInstanceServes
CHECK_DEADLOCK FALSE
