SPECIFICATION FairSpec
CHECK_DEADLOCK FALSE
CONSTANTS
  r1 = r1
  r2 = r2
  j1 = j1
  j2 = j2
  none = none
  Runs = {r1, r2}
  Jobs = {j1, j2}
  Shown = {"processing", "done"}
  NoRun = none
  MaxRestarts = 1
INVARIANTS
  TypeOK
  FinishedIsWhole
  RowsOfKnownRuns
  SummariesAgree
PROPERTIES
  EveryRunAnswered
