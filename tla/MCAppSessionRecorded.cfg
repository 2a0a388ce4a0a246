SPECIFICATION Spec
CONSTANTS
  Chains = {a, b}
  Asking = {b}
  UpdateCap = 2
  MaxConfirms = 1
  MaxInFlight = 2
PROPERTY CompletionRecorded
CHECK_DEADLOCK FALSE
