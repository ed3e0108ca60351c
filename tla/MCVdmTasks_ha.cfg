\* Two actives and a standby over one database.
CONSTANTS
  Instance = {i1, i2, s1}
  Active = {i1, i2}
  Task = {t1, t2}
  Resource = {r1}
  Node = {n1}
  Request = {}
  NoInstance = NoInstance
  NoTask = NoTask
  NoMutation = NoMutation
  TTL = 2
  StepBudget = 1
  HeartbeatEvery = 1
  LeaderWindow = 1
  Clustered = TRUE
  MaxTime = 2
SYMMETRY Symmetry
SPECIFICATION Spec
INVARIANT LockOwnerIsActive
PROPERTIES ClearedFindsNoActive
