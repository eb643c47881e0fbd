SPECIFICATION Spec
CONSTANTS
  i1 = i1
  i2 = i2
  i3 = i3
  r1 = r1
  r2 = r2
  None = None
  Servers = {i1, i2, i3}
  Policies = {p1}
  Schedules = {c1}
  Names = {a, b}
  Configured = {a}
  Requests = {r1, r2}
  MaxRequests = 4
  MaxStops = 1
SYMMETRY Symmetric
CHECK_DEADLOCK FALSE
INVARIANTS
  TypeOK
  ReferencesResolve
PROPERTIES
  CreatesReplaceNothing
