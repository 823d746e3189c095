SPECIFICATION StoreSpec
CONSTANTS
  x = x  y = y
  Client = {c1, c2}
  Key = {0, 1}
  Value = {x, y}
  Backend = {"sorted", "log"}
  Puts <- TablePuts
  MaxLog = 0
  Faults = {}
  Absent = Absent
  Missing = Missing
  Torn = Torn
INVARIANTS
  FrozenCachesOpen
