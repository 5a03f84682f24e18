CONSTANTS
  NULL = NULL
  WatchIds = {1}
  RunIds = {o1, o2, o3}
  RecordIds = {a}
  Owners = {o1, o2, o3}
  Targets = {hook}
  Configs = {NULL}
  Intervals = {1}
  Leases = {1}
  Times <- CloudTimes
  MaxAttempts = 2
  RetrySeconds = 1
  Crons = {k1}
  Consumers = {c1}
  MaxClock = 2
  LeaseSeconds = 1
  DeliveryLease = 1
  ClaimLimit = 1
  Oversize = FALSE
  FaultTimes = {0, 1}
SPECIFICATION CloudFairSpec
PROPERTY
  QueueDrains
  CloudDueWatchRuns
CHECK_DEADLOCK FALSE
