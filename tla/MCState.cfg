SPECIFICATION Spec
CONSTANTS
  None = None
  Dead = Dead
  w1 = w1
  w2 = w2
  w3 = w3
  x1 = x1
  x2 = x2
  x3 = x3
  n1 = n1
  n2 = n2
  fileA = fileA
  fileB = fileB
  fileC = fileC
  fileD = fileD
  y = y
  z = z
  t1 = t1
  t2 = t2
  s1 = s1
  s2 = s2
  s3 = s3
  complete = complete
  review = review
  coordination = coordination
  c1 = c1
  v1 = v1
  v2 = v2
SYMMETRY Symmetric
INVARIANTS
  TokenIsSpentOnce
PROPERTIES
  LedgerIsSound
  NothingLiveIsPurged
  NoticesAreOwed
CHECK_DEADLOCK FALSE
