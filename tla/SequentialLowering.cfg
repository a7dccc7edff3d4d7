CONSTANTS
  Programs <- SequentialPrograms
SPECIFICATION LowerSpec
INVARIANT LinearExtension
PROPERTY Converges
CHECK_DEADLOCK FALSE
