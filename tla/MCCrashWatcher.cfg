SPECIFICATION LiveSpec
CONSTANTS
  Guests = {g1}
  MaxAttempts = 2
  Window = 3
  Ttl = 2
  MaxJobs = 2
INVARIANTS TypeOK RestartsAreBounded OncePerStop
PROPERTIES CrashIsRecorded
