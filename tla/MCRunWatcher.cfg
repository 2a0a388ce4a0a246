SPECIFICATION Spec
CONSTANTS
  RunIDs = {r1, r2}
  Callers = {c1}
  UpdateCap = 1
INVARIANTS
  TypeOK
  PlaceholderIsBeingPolled
  LoopIsAwaited
PROPERTIES
  NoneForgotten
  StopReturns
  KeepsList
CHECK_DEADLOCK FALSE
