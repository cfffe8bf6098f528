SPECIFICATION FairSpec
CONSTANTS
  j1 = j1
  ghost = ghost
  Jobs = {j1}
  Strangers = {ghost}
  BatchSize = 2
  StreamMaxLen = 2
  Budget <- AnyFault
  MaxFaults = 1
  MaxReports = 3
INVARIANTS
  TypeOK
  AckedIsCommitted
  CountedOnce
PROPERTIES
  Writes
  EveryReportApplied
  LockEnds
