SPECIFICATION Spec
CONSTANTS
  RunIDs = {r1, r2}
  MaxClears = 2
INVARIANTS
  TypeOK
  ShownCompletedHasCompleted
PROPERTIES
  ActiveLeavesByChoice
CHECK_DEADLOCK FALSE
