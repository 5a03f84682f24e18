CONSTANTS
  NULL = NULL
  Procs = {p1}
  Pids = {pid1}
  WatchIds = {1, 2}
  RecordIds = {a}
  Targets = {hook}
  Configs = {hook}
  Intervals = {9}
  Leases = {1}
  LeaseSeconds = 1
  DeliveryLease = 1
  MaxClock = 3
  MaxAttempts = 2
  RetrySeconds = 1
  StoreFaults = {"claim", "start", "complete", "claimDelivery", "settle"}
  Times <- NativeTimes
  Owners <- NativeOwners
  RunIds <- NativeRuns
SPECIFICATION NativeSpec
INVARIANT
  SendBound
CHECK_DEADLOCK FALSE
