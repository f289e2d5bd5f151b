SPECIFICATION FairSpec
CONSTANTS
  Procs = {p1, p2, p3, p4}
  NoProc = NoProc
  None = None
  a1 = a1
  a2 = a2
  t1 = t1
  t2 = t2
  w1 = w1
  w2 = w2
  r1 = r1
  r2 = r2
  c1 = c1
INVARIANTS
  MutexWhileAllLive
  NoOrphanLock
PROPERTIES
  DeadOwnerReclaimed
  WaitsEnd
CHECK_DEADLOCK FALSE
