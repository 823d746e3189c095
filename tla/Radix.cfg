SPECIFICATION RadixSpec
CONSTANTS
  Label = {0, 1, 2}
  MaxLen = 2
  MaxKeys = 3
  EdgeCap = 1
  NodeCap = 2
  AllocFails = TRUE
INVARIANTS
  TrieShape
  WithinArrays
  GetExact
  ScanExact
CHECK_DEADLOCK FALSE
