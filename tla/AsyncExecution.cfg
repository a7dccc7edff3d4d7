CONSTANTS
  Programs <- LoweredPrograms
SPECIFICATION Spec
INVARIANTS AgentsKeepOrder DefinedInAgent FailsOnlyOnKept
PROPERTY LoweredRunsToEnd
CHECK_DEADLOCK FALSE
