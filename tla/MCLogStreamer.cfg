SPECIFICATION Spec
CONSTANTS
  NumJobs = 2
  StepCount <- MCStepCount
  MaxGroups = 1
  MaxLines = 2
  UpdateCap = 1
INVARIANTS
  TypeOK
  LinesInOrder
PROPERTIES
  StopReturns
  EndsWithRun
CHECK_DEADLOCK FALSE
