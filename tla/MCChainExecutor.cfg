SPECIFICATION SpecWithInputs
CONSTANTS
  Chains <- MCChains
  Histories <- MCHistories
  UpdateCap = 7
  MaxForeign = 1
  Inputs <- MCInputs
  Variables <- MCVariables
INVARIANTS
  TypeOK
  SequentialDispatch
  AbortIsFinal
  ResultsAreOutcomes
  AtMostOneLateDispatch
  CompletionAnnounced
  ShownIsSent
PROPERTIES
  EndsUnlessRunHangs
  KeepsPromise
