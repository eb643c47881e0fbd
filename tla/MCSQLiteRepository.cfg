SPECIFICATION Spec
CONSTANTS
  i1 = i1
  i2 = i2
  p1 = p1
  p2 = p2
  h1 = h1
  h2 = h2
  c1 = c1
  c2 = c2
  None = None
  Ids = {i1, i2}
  Names = {1, 2}
  Hashes = {h1, h2}
  Contents = {c1, c2}
  Callers = {p1, p2}
  MaxClock = 4
  Numbers = {1, 2, 3}
SYMMETRY Symmetric
VIEW View
CHECK_DEADLOCK FALSE
INVARIANTS
  TypeOK
  EveryFileOpens
PROPERTIES
  ImplementsMemory
  RetentionIsByAge
