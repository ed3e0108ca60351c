SPECIFICATION FairSpec
CONSTANTS
  Op = {backup}
  Reconciler = reconciler
  MaxLine = 2
  Nobody = nobody
  Old = TRUE
INVARIANTS TypeOK WaiterIsAnswered StrayMountWasCut
PROPERTIES StorageComesBack
CHECK_DEADLOCK FALSE
