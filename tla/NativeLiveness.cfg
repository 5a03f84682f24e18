CONSTANTS
  NULL = NULL
  Procs = {p1, p2}
  Pids = {pid1, pid2, pid3}
  WatchIds = {1}
  RecordIds = {a}
  Targets = {hook}
  Configs = {hook}
  Intervals = {9}
  Leases = {1}
  LeaseSeconds = 1
  DeliveryLease = 1
  MaxClock = 1
  MaxAttempts = 2
  RetrySeconds = 1
  StoreFaults = {}
  Times <- NativeTimes
  Owners <- NativeOwners
  RunIds <- NativeRuns
SPECIFICATION FairSpec
PROPERTY
  DueWatchRuns
  DeliverySettles
CHECK_DEADLOCK FALSE
