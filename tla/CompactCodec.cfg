SPECIFICATION CompactSpec
CONSTANTS
  x = x  y = y
  Client = {c1, c2}
  Dir = {A, B}
  Key = {0, 1}
  Value = {x, y}
  Encodes = TRUE
  Faults = {}
  Absent = Absent
  NoCache = NoCache
  Contents <- Caches
  MaxLog = 2
  MaxCalls = 2
PROPERTIES
  CompactionExact
CHECK_DEADLOCK FALSE
