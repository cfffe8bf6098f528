SPECIFICATION Spec
CHECK_DEADLOCK FALSE
CONSTANTS
  n1 = n1
  cpu = cpu
  mem = mem
  Nodes = {n1}
  Metrics = {cpu, mem}
  Order <- MCOrder
  Window = 2
  Retention = 4
  PollInterval = 2
  RoundTime = 1
  ReadTime = 1
  MaxTime = 7
INVARIANTS
  TypeOK
  HistoryComplete
  LatestIsRecent
  RowsWhole
