CONSTANTS
  Programs <- NestedTasks
SPECIFICATION Spec
INVARIANT NeverUndefined
CHECK_DEADLOCK FALSE
