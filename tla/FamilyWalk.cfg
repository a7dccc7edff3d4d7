CONSTANTS
  FamilyScheds <- MCScheds
  FamilyMaps <- MCMaps
  FamilyDevices <- MCDevices
  Scores <- MCScores
SPECIFICATION Spec
INVARIANTS CompleteIsX NoScoredIsBetter SegmentCovers
PROPERTY WalkEnds
CHECK_DEADLOCK FALSE
