SPECIFICATION Spec
CONSTANTS
  Parts = {"logs", "names", "restore", "team", "usage", "keys", "groups", "race", "swap", "roles"}
  Agents = 2
  MaxSize = 2
  Large = {3}
  BatchSize = 1
  Retries = 1
  MaxEntries = 3
  Holders = {"u"}
  Namers = {"main", "event"}
  MaxIdpChanges = 2
  MaxNameFaults = 1
  TeamUsers = {"u"}
  ServiceAccounts = {"a"}
  Outsiders = {"o"}
  MaxEdits = 2
  MaxTroubles = 1
  Components = {"c", "d"}
  Periods = 2
  DaysPerMonth = 2
  FinalReportDays = 1
  MaxDay = 2
  MaxUse = 1
  MaxMishaps = 1
  Groups = {"a"}
  GroupUsers = {"u1"}
  Gid <- GidOfA
  Foreign = {}
  HandMade = {}
  Adopt = TRUE
  MaxGroupChanges = 1
  MaxGroupFaults = 1
  MaxWaiting = 1
  Racers = {"p"}
  Swappers = {"p", "q"}
  PosixNames = {"a", "b", "c"}
  WaldurNames = {"k1", "k2"}
  FirstAccount <- AccountsOfPQ
  UidNumber <- NumbersOfPQ
  OnMismatch = "adopt"
  EventThreads = {"event"}
  MaxRaceChanges = 2
  MaxSwapChanges = 3
  MaxAccountFaults = 1
  Holdings = {"r1", "r2"}
  Duties = {"admin", "common"}
  Common = {"common"}
  Fellows = {"f"}
  Pullers = {"pass", "event"}
  MaxLrEdits = 2
  MaxLrFaults = 1
INVARIANTS TypeOK NothingForgotten RightMonth AccessKept
PROPERTIES WaldurLearns PeopleSettle BegunEnds NeverLowered NoFalseRemoval
CHECK_DEADLOCK FALSE
