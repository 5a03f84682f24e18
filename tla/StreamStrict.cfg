CONSTANTS
  a = a
  b = b
  c = c
  r1 = r1
  r2 = r2
  r3 = r3
  BAD = BAD
  Sources = {a, b, c}
  Order <- Three
  MissingIds <- AllKnown
  Records = {r1, r2, r3}
  Scripts <- StreamScripts
  StrictModes = {TRUE}
  DedupeKeys <- UrlKeys
  MaxActive = 2
  EventBuffer = 1
  MaxRecords = 2
SPECIFICATION StreamSpec
INVARIANT
  StrictExit
CHECK_DEADLOCK FALSE
