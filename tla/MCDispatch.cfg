SPECIFICATION Spec
CONSTANTS
  None = None
  d1 = d1
  d2 = d2
  h1 = h1
  h2 = h2
  h3 = h3
  h4 = h4
  a1 = a1
  a2 = a2
  t1 = t1
  t2 = t2
  new = new
  old = old
  Operator = Operator
  Board = Board
  Link = Link
  Big = Big
  f = f
  g = g
  o = o
  srcDir = srcDir
  v = v
  w = w
  bad = bad
SYMMETRY Symmetric
INVARIANTS
  ContractIsPinned
PROPERTIES
  LaunchWasAdmitted
  VerdictIsGenuine
  PublicationIsWhole
  LandingKeepsWork
CHECK_DEADLOCK FALSE
