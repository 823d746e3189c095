SPECIFICATION LockSpec
CONSTANTS
  A = A  B = B  p1 = p1  p2 = p2  t1 = t1  t2 = t2  t3 = t3  t4 = t4
  a1 = a1  a2 = a2  a3 = a3  b1 = b1  b2 = b2
  Proc = {p1, p2}
  Thread = {t1, t2, t3}
  Handle = {a1, a2, a3, b1}
  Dir = {A, B}
  ProcOf <- CrowdedProcOf
  ThreadOf <- CrowdedThreadOf
  DirOf <- CrowdedDirOf
  WritersFirst = FALSE
INVARIANTS
  LockTypeOK
  MutexHolders
  WriterCovered
  WriterExclusion
