SPECIFICATION Spec
CHECK_DEADLOCK FALSE
CONSTANTS
  IntMax = 1
  Bodies <- MCBodies
INVARIANTS
  TypeOK
  DeadOnArrival
  RunAsPosted
