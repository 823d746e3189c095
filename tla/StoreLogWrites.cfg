SPECIFICATION StoreSpec
CONSTANTS
  x = x  y = y
  Client = {c1}
  Key = {0, 1}
  Value = {x, y}
  Backend = {"log"}
  Puts <- EmptyLog
  MaxLog = 3
  Faults = {"write"}
  Absent = Absent
  Missing = Missing
  Torn = Torn
INVARIANTS
  LogSizeRecorded
