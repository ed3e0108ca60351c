CONSTANTS
  Node = {n1, n2}
  Guest = {a}
  Container = {}
  CopyName = {}
  Workflow = {o1, o2}
  Kinds = {"migrate"}
  SharedChoice = {TRUE}
  InitialPool = {"local"}
  MaxDisk = 1
  MaxVersion = 1
  NoDomain = NoDomain
  NoData = NoData
  NoWork = NoWork
SPECIFICATION Spec
PROPERTIES MovedGuestIsWhole
CHECK_DEADLOCK FALSE
SYMMETRY Symmetry
