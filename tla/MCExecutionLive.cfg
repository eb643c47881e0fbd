SPECIFICATION FairSpec
CONSTANTS
  e1 = e1
  e2 = e2
  s1 = s1
  s2 = s2
  NoExec = NoExec
  ExecIds = {e1}
  Servers <- MCServers
  Selections <- MCAllSelections
  MaxRetry = 2
  Silent = {s2}
  Untimed = {e1}
PROPERTIES
  EveryExecutionEnds
  CancelWins
