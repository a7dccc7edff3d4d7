CONSTANTS
  Programs <- UnjoinedTasks
SPECIFICATION Spec
INVARIANT LoweredDefined
CHECK_DEADLOCK FALSE
