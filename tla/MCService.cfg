SPECIFICATION ServiceSpec
CONSTANTS
  i1 = i1
  i2 = i2
  r1 = r1
  r2 = r2
  h1 = h1
  h2 = h2
  root = root
  other = other
  k1 = k1
  k2 = k2
  None = None
  Ids = {i1, i2}
  Names = {root, other}
  Roles = {"admin", "viewer"}
  Hashes = {h1, h2}
  Workloads <- MCWorkloads
  Bootstrap = root
  FirstHash = h1
  Requests = {r1, r2}
  AccessTTL = 1
  RefreshTTL = 2
  MaxClock = 2
  MaxPairs = 2
  Keys = {k1, k2}
  Clients = {r1, r2}
  Ips = {"ip"}
  Limit = 2
  Window = 2
  Day = 1
  Horizon = 4
  Copies = {r1, r2}
  Changes <- MCChanges
SYMMETRY Symmetric
CHECK_DEADLOCK FALSE
INVARIANTS
  ServiceTypeOK
  PasswordStands
  RoleIsRecent
  KeyedRunsOnce
  AtMostLimitPerWindow
  OnlyCheckedIsUsed
  MemoryMatchesRow
  AcknowledgedSurvives
PROPERTIES
  LastAdminStays
