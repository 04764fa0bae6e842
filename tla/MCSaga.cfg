SPECIFICATION Spec
CONSTANTS
  LegCount = 3
  LegShapes <- AllShapes
  ConflictRetries = 1
  MaxRuns = 2
  Modes = {"saga", "acid"}
  MaxForeign = 2
INVARIANTS
  NoOrphans
  LandsOncePerRun
CHECK_DEADLOCK FALSE
