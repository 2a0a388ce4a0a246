SPECIFICATION UpdatingSpec
CONSTANTS
  RunIDs = {r1, r2}
  MaxClears = 1
PROPERTIES
  RunsAppear
CHECK_DEADLOCK FALSE
