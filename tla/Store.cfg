CONSTANTS
  NULL = NULL
  WatchIds = {1}
  Owners = {o1, o2}
  RunIds = {run1, run2}
  RecordIds = {a, b}
  Targets = {hook}
  Configs = {hook}
  Intervals = {1}
  Leases = {1}
  Times = {0, 1}
  MaxAttempts = 2
  RetrySeconds = 1
SPECIFICATION BoundedSpec
SYMMETRY Symmetry
INVARIANTS
  NoOrphans
  BatchesDisjoint
  OutboxComplete
  RetryBudget
PROPERTIES
  Final
CHECK_DEADLOCK FALSE
