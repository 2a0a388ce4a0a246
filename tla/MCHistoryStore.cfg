SPECIFICATION Spec
CONSTANTS
  Instances = {a, b}
  InputNames = {"env", "target"}
  Values = {"prod"}
  Empty = ""
  DefaultInputs <- MCDefaultInputs
  ChainVariables <- MCChainVariables
  OldEntries <- MCOldEntries
  MaxRecords = 2
  a = a
  b = b
INVARIANTS
  TypeOK
  NothingInvented
  KeepsAllRuns
  ParsesUnlessDisturbed
