\* One VDM process, as installed: it may crash and restart at any moment.
CONSTANTS
  Instance = {i1}
  Active = {i1}
  Task = {t1, t2}
  Resource = {r1}
  Node = {n1, n2}
  Request = {q1}
  NoInstance = NoInstance
  NoTask = NoTask
  NoMutation = NoMutation
  TTL = 2
  StepBudget = 1
  HeartbeatEvery = 3
  LeaderWindow = 4
  Clustered = FALSE
  MaxTime = 3
SPECIFICATION FairSpec
INVARIANTS TypeOK ShownActiveIffDriven
PROPERTIES EveryTaskSettles GatedMutationFindsResourceFree OutcomeIsFinal ImplementsExclusiveWork
