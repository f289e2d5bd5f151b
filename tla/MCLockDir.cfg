SPECIFICATION FairSpec
CONSTANTS
  Procs = {p1, p2, p3}
  NoProc = NoProc
  None = None
  Dead = Dead
  t1 = t1
  complete = complete
  k1 = k1
  k2 = k2
  c1 = c1
  v1 = v1
  h1 = h1
  s1 = s1
  s2 = s2
  u1 = u1
INVARIANTS
  KeepsLockWhileAllLive
PROPERTIES
  DeadOwnerBroken
  
CHECK_DEADLOCK FALSE
