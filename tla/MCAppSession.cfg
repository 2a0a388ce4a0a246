SPECIFICATION Spec
CONSTANTS
  Chains = {a, b}
  Asking = {b}
  UpdateCap = 2
  MaxConfirms = 2
  MaxInFlight = 2
INVARIANTS
  TypeOK
  StatusShowsExecutor
  MetadataMatchesExecutor
  ResultsRecordedOnce
  SubscriptionsDoNotMultiply
PROPERTY StartsAsConfirmed
CHECK_DEADLOCK FALSE
