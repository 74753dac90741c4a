SPECIFICATION Spec
CONSTANTS
  Inputs <- Slices
  Threshold = 1
  RandomRange = 4
  Share = 2
INVARIANTS
  StrandedParentIsStranded
  TreeIsDetermined
  WalkVisitsAllOnce
  CompleteIsOneTree
  SelfTimeIsUncovered
  PathCoversOnce
  PathAgreesWithSelfTime
  VerdictIsOfTheSpans
  
PROPERTIES
  BuildReturns
CHECK_DEADLOCK FALSE
