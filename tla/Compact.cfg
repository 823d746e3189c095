SPECIFICATION FairCompactSpec
CONSTANTS
  x = x  y = y
  Client = {c1, c2}
  Dir = {A, B}
  Key = {0, 1}
  Value = {x, y}
  Encodes = FALSE
  Faults = {"memory"}
  Absent = Absent
  NoCache = NoCache
  Contents <- Caches
  MaxLog = 3
  MaxCalls = 2
INVARIANTS
  CompactTypeOK
PROPERTIES
  CompactionExact
  OutputWhole
  SourcePinned
  CompactReturns
CHECK_DEADLOCK FALSE
