SPECIFICATION SpecWithInputs
CONSTANTS
  Chains <- PreviousChains
  Histories = {}
  UpdateCap = 7
  MaxForeign = 0
  Inputs <- PreviousInputs
  Variables <- MCVariables
INVARIANTS
  PreviewIsSent
