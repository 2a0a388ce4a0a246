SPECIFICATION Spec
CONSTANTS
  Facts <- MCFacts
  Patterns = {}
  Workflows <- MCWorkflows
  Texts <- MCValues
  Typed = {"v"}
  Branches = {""}
  Histories <- MCHistories
  Ranking <- MCRanking
  BestMatch <- MCBestMatch
  Keys <- MCKeys
  MaxInFlight = 1
INVARIANTS
  TypeOK
  AnswersMeetTheirQuestion
  RunsAreValidated
  PreviewIsListed
CHECK_DEADLOCK FALSE
