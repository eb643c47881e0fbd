SPECIFICATION FairSpec
CONSTANTS
  w1 = w1
  w2 = w2
  c1 = c1
  Writers <- MCWriters
  Clients = {c1}
  MaxLines = 2
  MaxConns = 2
  MaxClock = 1
  LastIds = {0, 1}
  Buffer = 1
INVARIANTS
  TypeOK
  StreamsAreOpen
  DeliveredOnce
  WriterOrderKept
PROPERTIES
  AppendsEnd
CHECK_DEADLOCK FALSE
