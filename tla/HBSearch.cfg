CONSTANTS
  N = 3
  Graphs <- MCGraphs
SPECIFICATION SearchSpec
INVARIANT AnswerIsExact
PROPERTY CallReturns
CHECK_DEADLOCK FALSE
