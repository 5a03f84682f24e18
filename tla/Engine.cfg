CONSTANTS
  a = a
  b = b
  c = c
  r1 = r1
  r2 = r2
  r3 = r3
  BAD = BAD
  Sources = {a, b, c}
  Order <- Three
  MissingIds <- SomeUnknown
  Records = {r1, r2, r3}
  Scripts <- MergeScripts
  StrictModes = {FALSE, TRUE}
  DedupeKeys <- UrlKeys
  MaxActive = 2
  EventBuffer = 1
  MaxRecords = 2
SPECIFICATION EngineSpec
INVARIANTS
  OrderStable
  NoLostWakeup
  Backpressure
  OneOutcomePerRequest
  FailuresReported
  NothingLost
CHECK_DEADLOCK FALSE
