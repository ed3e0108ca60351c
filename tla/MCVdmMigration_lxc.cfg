CONSTANTS
  Node = {n1, n2}
  Guest = {a, c}
  Container = {a, c}
  CopyName = {c}
  Workflow = {o1, o2}
  Kinds = {"migrate", "clone"}
  SharedChoice = {TRUE}
  InitialPool = {"local"}
  MaxDisk = 1
  MaxVersion = 0
  NoDomain = NoDomain
  NoData = NoData
  NoWork = NoWork
SPECIFICATION FairSpec
INVARIANTS GuestSurvives
PROPERTIES EveryWorkflowSettles
CHECK_DEADLOCK FALSE
