SPECIFICATION Spec
CONSTANTS
  ok1 = ok1
  fail1 = fail1
  bad1 = bad1
  g1 = g1
  g2 = g2
  Jobs = {fail1, bad1}
  Malformed = {bad1}
  ForceFail = {fail1}
  Goroutines = {g1}
  BatchSize = 2
  MaxRetries = 2
  StreamMaxLen = 9
  LinkFails = TRUE
  Budget <- AnyFault
  MaxFaults = 1
  MaxQueued = 2
INVARIANTS
  TypeOK
  Shape
  JobsKept
  FailingJobsKept
  RejectedAreReported
PROPERTIES
  SavedUntilPublished
  LossesAreSingle
  KeepsLedger
