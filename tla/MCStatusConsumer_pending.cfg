SPECIFICATION FairSpec
CONSTANTS
  j1 = j1
  ghost = ghost
  Jobs = {j1}
  Strangers = {ghost}
  BatchSize = 2
  StreamMaxLen = 9
  Budget <- DbOnly
  MaxFaults = 1
  MaxReports = 2
PROPERTIES
  UnackedIsRetried
