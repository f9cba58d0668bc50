CONSTANTS
  FindingLists <- MCFindingLists
  Compliances = {0, 665, 1000}
  TlsResults <- MCTlsResults
  Parts <- MCParts
  Dicts = TRUE
  MaxResults = 3
  MaxParts = 4
SPECIFICATION Spec
INVARIANTS FactorsExplainScore
PROPERTIES CleanDirectiveNeverCosts
CHECK_DEADLOCK FALSE
