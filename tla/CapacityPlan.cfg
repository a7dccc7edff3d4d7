CONSTANTS
  Inputs <- MCInputs
SPECIFICATION Spec
INVARIANTS FamilyIsExact SelectionIsMeasured UsableCovers HandoffIsExact
PROPERTY PlanEnds
CHECK_DEADLOCK FALSE
