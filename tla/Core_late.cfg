SPECIFICATION CoreSpec
CONSTANTS
  Parts = {"listener"}
  MaxMsgs = 1
  MaxConns = 2
  Prefetch = 1
  ReconnectTries = 1
  WatchdogTries = 1
  StartupTries = 1
  LateNotices = TRUE
  OverlappingSessions = FALSE
  p1 = p1
  p2 = p2
  Procs = {p1, p2}
  OrderTypes = {"CREATE", "UPDATE", "TERMINATE"}
  NameTries = 2
  RetryCount = 3
  MaxHiccups = 2
  MaxFaults = 1
  MaxCrashes = 1
  MaxCancels = 1
  r1 = r1
  r2 = r2
  main = main
  event = event
  Resources = {r1, r2}
  Sweeper = main
  Events = event
  OneAtATime = TRUE
  MaxNotices = 1
  MaxGrants = 1
  MaxUserFaults = 2
  MaxUserHiccups = 1
  MaxUserCrashes = 1
PROPERTIES EveryMessageAcked
