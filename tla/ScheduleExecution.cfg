CONSTANTS
  Programs <- RunPrograms
SPECIFICATION Spec
INVARIANTS OracleInv VerdictIsExact WritesAreCarried ProgramOrderKept
INVARIANTS RunInv DefinedWhenRead OrderRespected
PROPERTIES OracleDecides RunsToEnd
CHECK_DEADLOCK FALSE
