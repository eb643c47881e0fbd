SPECIFICATION SessionFairSpec
CONSTANTS
  j1 = j1
  j2 = j2
  None = None
  Followed = j1
  Jobs <- MCJobs
  Limits <- MCLimits
  Hangs <- MCHangs
INVARIANTS
  TypeOK
  SlotsMatchHolders
PROPERTIES
  ImplementsContract
  RunReturns
  ImplementsRunner
  SessionEnds
