SPECIFICATION Spec
CONSTANTS
  ok1 = ok1
  fail1 = fail1
  bad1 = bad1
  g1 = g1
  g2 = g2
  Jobs <- EachKind
  Malformed = {bad1}
  ForceFail = {fail1}
  Goroutines = {g1, g2}
  BatchSize = 1
  MaxRetries = 2
  StreamMaxLen = 1
  LinkFails = FALSE
  Budget <- StopOrDisk
  MaxFaults = 2
  MaxQueued = 2
INVARIANTS
  EndIsLast
  StatusOrder
  DeadRecorded
PROPERTIES
  LiveWritesSaved
