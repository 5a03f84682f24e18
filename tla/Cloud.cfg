CONSTANTS
  NULL = NULL
  WatchIds = {1}
  RunIds = {o1, o2, o3}
  RecordIds = {a}
  Owners = {o1, o2, o3}
  Targets = {hook}
  Configs = {hook}
  Intervals = {1}
  Leases = {1}
  Times <- CloudTimes
  MaxAttempts = 1
  RetrySeconds = 1
  Crons = {k1}
  Consumers = {c1, c2}
  MaxClock = 1
  LeaseSeconds = 1
  DeliveryLease = 1
  ClaimLimit = 1
  Oversize = TRUE
  FaultTimes = {0}
SPECIFICATION CloudSpec
SYMMETRY Symmetry
INVARIANT
  CloudSendsCounted
PROPERTY
  CloudOccurrences
CHECK_DEADLOCK FALSE
