SPECIFICATION CoreSpec
CONSTANTS
  Parts = {"listener", "order", "teardown"}
  MaxMsgs = 2
  MaxConns = 3
  Prefetch = 2
  ReconnectTries = 2
  WatchdogTries = 1
  StartupTries = 1
  LateNotices = FALSE
  OverlappingSessions = FALSE
  p1 = p1
  p2 = p2
  Procs = {p1, p2}
  OrderTypes = {"CREATE", "UPDATE", "TERMINATE"}
  NameTries = 2
  RetryCount = 3
  MaxHiccups = 2
  MaxFaults = 1
  MaxCrashes = 1
  MaxCancels = 1
  r1 = r1
  r2 = r2
  main = main
  event = event
  Resources = {r1, r2}
  Sweeper = main
  Events = event
  OneAtATime = TRUE
  MaxNotices = 1
  MaxGrants = 1
  MaxUserFaults = 2
  MaxUserHiccups = 1
  MaxUserCrashes = 1
INVARIANTS TypeOK AckedWasHandled AcksOwnConnection StartsInOrder DoneIsProvisioned TeardownTypeOK
PROPERTIES StartsOnlyLive EveryMessageAcked ConsumerRecovers PendingNeverErred LifecycleSpec ReleasedLast DeletedIsClean AccessEnds
