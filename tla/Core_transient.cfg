SPECIFICATION CoreSpec
CONSTANTS
  Parts = {"order"}
  MaxMsgs = 2
  MaxConns = 3
  Prefetch = 2
  ReconnectTries = 2
  WatchdogTries = 1
  StartupTries = 1
  LateNotices = FALSE
  OverlappingSessions = FALSE
  p1 = p1
  p2 = p2
  Procs = {p1}
  OrderTypes = {"CREATE"}
  NameTries = 1
  RetryCount = 2
  MaxHiccups = 1
  MaxFaults = 0
  MaxCrashes = 0
  MaxCancels = 0
  r1 = r1
  r2 = r2
  main = main
  event = event
  Resources = {r1, r2}
  Sweeper = main
  Events = event
  OneAtATime = TRUE
  MaxNotices = 1
  MaxGrants = 1
  MaxUserFaults = 2
  MaxUserHiccups = 1
  MaxUserCrashes = 1
INVARIANTS TransientNeverErrs
