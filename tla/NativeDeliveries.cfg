CONSTANTS
  NULL = NULL
  Procs = {p1, p2}
  Pids = {pid1, pid2}
  WatchIds = {1}
  RecordIds = {a}
  Targets = {hook, other}
  Configs = {hook, other, NULL}
  Intervals = {9}
  Leases = {1}
  LeaseSeconds = 1
  DeliveryLease = 1
  MaxClock = 2
  MaxAttempts = 2
  RetrySeconds = 1
  StoreFaults = {"claim", "start", "complete", "claimDelivery"}
  Times <- NativeTimes
  Owners <- NativeOwners
  RunIds <- NativeRuns
SPECIFICATION NativeSpec
SYMMETRY Symmetry
INVARIANTS
  SendsCounted
  SuccessWasSent
CHECK_DEADLOCK FALSE
