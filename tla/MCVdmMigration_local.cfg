CONSTANTS
  Node = {n1, n2}
  Guest = {a, c}
  Container = {}
  CopyName = {c}
  Workflow = {o1, o2}
  Kinds = {"migrate", "clone"}
  SharedChoice = {FALSE}
  InitialPool = {"local"}
  MaxDisk = 2
  MaxVersion = 1
  NoDomain = NoDomain
  NoData = NoData
  NoWork = NoWork
SPECIFICATION Spec
INVARIANTS TypeOK
PROPERTIES CompletedMeansMoved DisksNeverGoBack ImplementsCopySet
CHECK_DEADLOCK FALSE
SYMMETRY Symmetry
