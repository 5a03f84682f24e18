CONSTANTS
  None = None
  Calls = {c1, c2}
  Objects <- World
  Content <- Truth
  Faults <- AllFaults
  Queries <- SeedQueries
  Targets <- SeedTargets
  DEFAULT_COOLDOWN = 1
  GhLimit = 2
  GhDefaultLimit = 1
  HnLimit = 2
  MAX_FETCH_BYTES = 1
  c1 = c1
  c2 = c2
  Streams <- SomeStreams
  Profiles <- SomeProfiles
  ExpectedClass = "rate_limit"
  Documents <- SomeDocuments
  Clients = {"k1", "k2"}
  Cli = "k1"
  Registered <- SomeSources
  Stdin <- SomeStdin
  Given <- SomeOptions
  Codes = {"RATE_LIMIT", "CANCELLED", "VALIDATION_ERROR"}
  MaxRecords = 1
SPECIFICATION Spec
INVARIANT
  FollowPages
  ThreadClosed
  ReportSound
  WalkCorrect
  MetersBalance
  StdinInOrder
PROPERTY
  RefusalHonoured
SYMMETRY Callers
CHECK_DEADLOCK FALSE
