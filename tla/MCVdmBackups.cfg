\* One repository that keeps the newest day, scheduled and manual backups.
CONSTANTS
  Guest = {g1}
  MaxBackup = 2
  Scheduled = {g1}
  Admin = {a1}
  Daily = 1
  Weekly = 1
  Monthly = 0
  Week = 2
  Month = 3
  Quota = 1
  MaxTime = 2
  NoOne = NoOne
SPECIFICATION Spec
INVARIANTS TypeOK LatestArchiveStays CompletedIsCatalogued
PROPERTIES ForgottenIsDeleted
CHECK_DEADLOCK FALSE
