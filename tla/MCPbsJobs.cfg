SPECIFICATION FairSpec
CONSTANTS
  n1 = n1
  g1 = g1
  g2 = g2
  Node = {n1}
  Guest = {g1, g2}
  Home <- OneHome
  Container = {g2}
  Selected = {g1}
  Task = {1, 2}
  Run = {1, 2}
  Days = {0}
  MaxTime = 1
  NoGuest = NoGuest
  NoTask = NoTask
  NoRun = NoRun
INVARIANTS TypeOK OkMeansStored OneBackupPerGuest RunsAlone
PROPERTIES OncePerSlot SlotIsServed
CHECK_DEADLOCK FALSE
