SPECIFICATION StoreSpec
CONSTANTS
  x = x  y = y
  Client = {c1, c2}
  Key = {0, 1}
  Value = {x, y}
  Backend = {"sorted", "mph"}
  Puts <- TablePuts
  MaxLog = 0
  Faults = {"write", "memory", "checksum", "crash"}
  Absent = Absent
  Missing = Missing
  Torn = Torn
SYMMETRY Clients
INVARIANTS
  SoundOpens
PROPERTIES
  ImplementsAtomicCache
