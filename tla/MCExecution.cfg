SPECIFICATION Spec
CONSTANTS
  e1 = e1
  e2 = e2
  s1 = s1
  s2 = s2
  NoExec = NoExec
  ExecIds <- MCExecIds
  Servers <- MCServers
  Selections <- MCSelections
  MaxRetry = 1
  Silent = {}
  Untimed = {}
INVARIANTS
  TypeOK
  LiveRowsAreOwned
  OutcomeMatchesReport
  NotificationMatchesRow
PROPERTIES
  ImplementsLifecycle
