SPECIFICATION Spec
CONSTANTS
  Parts = {"s3"}
  MaxMsgs = 2
  MaxConns = 3
  Prefetch = 1
  ReconnectTries = 2
  WatchdogTries = 1
  StartupTries = 1
  LateNotices = TRUE
  OverlappingSessions = TRUE
  UnhealthyAfter = 2
  StuckAfter = 2
  StableTicks = 2
  RetryInitial = 1
  RetryMax = 2
  MaxAge = 2
  PassPeriod = 4
  StatusPeriod = 3
  MaxTime = 9
  Resources = {"r1", "r2"}
  Emails = {"e"}
  DaysPerMonth = 2
  Retention = 1
  MaxDay = 3
  MaxCalls = 2
  MaxPeriods = 3
  Allocations = {"r1", "r2"}
  Configs <- SlurmConfigs
  MaxEdits = 2
  MaxBreaks = 1
  S3Rotators = {"worker", "sweep"}
INVARIANTS RotationsSafe
CHECK_DEADLOCK FALSE
