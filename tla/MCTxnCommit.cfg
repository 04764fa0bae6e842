SPECIFICATION Spec
CONSTANTS
  LegCount = 3
  LegShapes <- Mixed
  MaxRuns = 3
INVARIANTS ApplyOnce NoHoles SealedIsHeld ResumeCallsNobody
CHECK_DEADLOCK FALSE
