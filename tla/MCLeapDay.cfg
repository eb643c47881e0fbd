SPECIFICATION Spec
CONSTANTS
  s1 = s1
  p1 = p1
  None = None
  Schedules = {s1}
  Editors = {p1}
  Exprs = {"leap"}
  NextRunAt <- MCNextRunAt
  Local <- MCLocal
  Least <- MCLeast
  Most <- MCMost
  Search = 6
  Any = Any
  Times <- MCTimes
  MaxTime = 4
  MaxEdits = 0
  MaxStops = 0
  Poll = 1
INVARIANT CronFiresOncePerDue
