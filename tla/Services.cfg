CONSTANTS
  NULL = NULL
  WatchIds = {1}
  Owners = {o1, o2}
  RunIds = {run1, run2}
  RecordIds = {a, b}
  Targets = {hook}
  Configs = {hook}
  Intervals = {1}
  Leases = {1, 2}
  Times = {0, 1}
  MaxAttempts = 2
  RetrySeconds = 1
  N = 4
  Limit = 2
  MaxDue = 2
  Broken = {2}
  MaxBytes = 2
  MaxSize = 4
  Addresses = {"public1", "public2", "private"}
  Public = {"public1", "public2"}
  None = None
  Requests = {"r1", "r2"}
  Inputs <- SomeInputs
  Deployments <- SomeDeployments
  Strong = {"ta", "tb"}
  TenantIds = {"A", "B"}
  NoOne = NoOne
  k1 = k1
  k2 = k2
  k3 = k3
  Calls = {k1, k2, k3}
  ProcessOf <- SomeProcesses
  Executions = {"e"}
  Artifacts = {"x"}
SPECIFICATION ServicesSpec
SYMMETRY Interchangeable
INVARIANT
  NoStarvation
  NoRequestLeft
  ConnectedPublic
  AccessControl
  MigratedOnce
  DeletedGone
PROPERTY
  D1Contract
  ReadsBounded
  ReadsCreateNothing
CHECK_DEADLOCK FALSE
