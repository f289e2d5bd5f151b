SPECIFICATION MemorySpec
CONSTANTS
  Absence = Absence
  n1 = n1
  n2 = n2
  n3 = n3
  p1 = p1
  p2 = p2
  q1 = q1
  q2 = q2
  r1 = r1
  r2 = r2
SYMMETRY MemorySymmetric
INVARIANTS
  AccessIsHonest
  BrokerServesOnce
  CaptureKeepsFindings
PROPERTIES
  VaultKeepsHistory
CHECK_DEADLOCK FALSE
