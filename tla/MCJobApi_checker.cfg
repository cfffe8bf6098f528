SPECIFICATION Spec
CHECK_DEADLOCK FALSE
CONSTANTS
  j1 = j1
  j2 = j2
  Jobs = {j1}
  Dying = {j1}
  Posted = {"processing"}
  StreamMaxLen = 1
  Kinds = {}
  MaxFaults = 0
  MaxBacklog = 2
  MaxUnderWay = 2
PROPERTIES
  EndIsFinal
