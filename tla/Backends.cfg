SPECIFICATION Spec
CONSTANTS
  Parts = {"approved", "federation", "orders", "chat", "mup", "slurm", "one", "rancher", "crd", "import", "namespace", "meter", "nextcloud", "harbor"}
  MaxFoEvents = 4
  MupGrants = {"r1", "r2"}
  Components = {1, 2}
  MupPeople = {"m", "u"}
  PI = "m"
  MaxMupEdits = 6
  MaxMupFaults = 1
  VDCs = {"v1", "v2"}
  Pools = {{1}, {1, 2}}
  MaxOneEdits = 4
  MaxOneFaults = 2
  SharedClusters = {"r1", "r2"}
  Members = {"p", "q"}
  MaxRancherEdits = 5
  MaxRancherFaults = 1
  Projects = {"p1", "p2"}
  Titles = {"n1", "n2"}
  Holders = {"u"}
  MaxImportEdits = 5
  MaxImportFaults = 1
  NsRoles = {"admin", "readwrite"}
  DefaultRole = "readwrite"
  NsPeople = {"u"}
  MaxNsEdits = 6
  MaxNsFaults = 1
  Shares = {"r"}
  Guests = {"g"}
  Sizes = {2, 3}
  MaxNcEdits = 3
  MaxNcFaults = 2
  Registries = {"r1", "r2"}
  Candidates <- TwoNames
  DefaultQuota = 2
  Quotas = {3}
  MaxHarborEdits = 5
  MaxHarborFaults = 2
INVARIANTS TypeOK OkHasItsOwn NothingLeftBehind
PROPERTIES OrdersEnd TeamsSettle SettingsFollow OthersKept FailsSafe
CHECK_DEADLOCK FALSE
