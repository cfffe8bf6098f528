SPECIFICATION Spec
CONSTANTS
  ok1 = ok1
  fail1 = fail1
  bad1 = bad1
  g1 = g1
  g2 = g2
  Jobs <- EachKind
  Malformed = {bad1}
  ForceFail = {fail1}
  Goroutines = {g1, g2}
  BatchSize = 2
  MaxRetries = 2
  StreamMaxLen = 9
  LinkFails = TRUE
  Budget <- StopOnly
  MaxFaults = 1
  MaxQueued = 2
PROPERTIES
  FailedWritesSaved
