SPECIFICATION HostSpec
CONSTANTS
  t1 = t1
  t2 = t2
  t3 = t3
  a1 = a1
  a2 = a2
  a3 = a3
  a4 = a4
  a5 = a5
  Thread = {t1, t2, t3}
  Addr = {a1, a2, a3, a4, a5}
  Size = {0, 3}
  NoThread = NoThread
  NoAddr = NoAddr
  MaxAllocs = 3
  Worker = {1, 2}
  Block = {1, 2, 3, 4, 5, 6, 7, 8, 9, 10, 11, 12, 13, 14}
  Files = 3
  MaxGets = 2
INVARIANTS
  Tracked
  FreedOnce
  StatsExact
  NoLeak
  ArenaSafe
  NothingLeft
PROPERTIES
  ImplementsAllocator
SYMMETRY Symmetry
CHECK_DEADLOCK FALSE
