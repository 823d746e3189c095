SPECIFICATION StoreSpec
CONSTANTS
  x = x  y = y
  Client = {c1, c2, c3}
  Key = {0, 1}
  Value = {x, y}
  Backend = {"log"}
  Puts <- LogPuts
  MaxLog = 2
  Faults = {"memory", "checksum"}
  Absent = Absent
  Missing = Missing
  Torn = Torn
SYMMETRY Clients
PROPERTIES
  ImplementsAtomicCache
  ReadersPinFiles
  MutationsAddUp
