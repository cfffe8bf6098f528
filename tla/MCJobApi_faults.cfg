SPECIFICATION FairSpec
CHECK_DEADLOCK FALSE
CONSTANTS
  j1 = j1
  j2 = j2
  Jobs = {j1}
  Dying = {j1}
  Posted = {"processing"}
  StreamMaxLen = 1
  Kinds = {"link", "api", "checker", "db", "lostReply", "evict", "report", "worker", "commit", "consumer", "admin"}
  MaxFaults = 2
  MaxBacklog = 2
  MaxUnderWay = 2
INVARIANTS
  TypeOK
  RowBeforeMessage
PROPERTIES
  EveryRowEnds
  StatusFlow
