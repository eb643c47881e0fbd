SPECIFICATION FairSpec
CONSTANTS
  s1 = s1
  p1 = p1
  None = None
  Schedules = {s1}
  Editors = {p1}
  Exprs = {"every", "grid", "leap"}
  NextRunAt <- MCNextRunAt
  Local <- MCLocal
  Least <- MCLeast
  Most <- MCMost
  Search = 6
  Any = Any
  Times <- MCTimes
  MaxTime = 4
  MaxEdits = 1
  MaxStops = 1
  Poll = 1
INVARIANTS
  TypeOK
  LastEditStands
  FiresOncePerDue
  PlansItsOwn
PROPERTIES
  DisabledStaysQuiet
  DueIsHandled
