SPECIFICATION Spec
CONSTANTS
  Facts <- MCFacts
  Patterns = {}
  Texts <- MCTexts
  FirstTexts = {"a", "b"}
  Ranking <- MCRanking
  Inputs <- MCInputs
  SelectForms <- MCSelectForms
  FilterItems <- MCBranches
  BranchForms <- MCBranchForms
  LiveRuns <- MCLiveRuns
  ErrorCounts = {1, 2}
  Variables <- MCVariables
  RunLogs <- MCRunLogs
  Terms = {"x", "X"}
  TermsIn <- MCTermsIn
  Heights = {2, 5}
INVARIANTS
  TypeOK
  ShowsFilteredLogs
PROPERTIES
  AnswersAreChecked
  JumpShowsMatch
CHECK_DEADLOCK FALSE
