CONSTANTS
  NULL = NULL
  Procs = {p1, p2}
  Pids = {pid1, pid2}
  WatchIds = {1}
  RecordIds = {a}
  Targets = {hook}
  Configs = {NULL}
  Intervals = {1}
  Leases = {1}
  LeaseSeconds = 1
  DeliveryLease = 1
  MaxClock = 3
  MaxAttempts = 3
  RetrySeconds = 1
  StoreFaults = {"claim", "start", "complete", "claimDelivery", "settle"}
  Times <- NativeTimes
  Owners <- NativeOwners
  RunIds <- NativeRuns
SPECIFICATION NativeSpec
SYMMETRY Symmetry
INVARIANTS
  OccurrenceCompletedOnce
PROPERTIES
  HistoryMonotone
CHECK_DEADLOCK FALSE
