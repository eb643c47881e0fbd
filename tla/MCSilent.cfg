SPECIFICATION FairSpec
CONSTANTS
  j1 = j1
  j2 = j2
  j3 = j3
  None = None
  Jobs <- MCJobs
  Limits <- MCLimits
  Hangs <- MCHangs
PROPERTY TimeoutEndsRun
