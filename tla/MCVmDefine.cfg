\* Three calls of any kind on one machine.
CONSTANTS
  Request = {q1, q2, q3}
  Kinds = {"vnc", "spice", "console", "start", "update", "reorder", "iso", "repair", "attach", "detach", "stop", "delete"}
  NoRequest = NoRequest
  Unset = Unset
  NoDevice = NoDevice
  NoDomain = NoDomain
SPECIFICATION FairSpec
INVARIANTS TypeOK HandedPasswordOpens
PROPERTIES DefineChangesOnlyItsOwn ImplementsExclusiveWork EveryCallEnds
CHECK_DEADLOCK FALSE
