SPECIFICATION WatcherSpec
CONSTANTS
  Events = {1, 2}
  Keys = {1, 2}
  Capacity = 1
  Pollers = {p1, p2}
  HasIds = TRUE
  Versions = 1
  Deletes = TRUE
  Cancels = TRUE
INVARIANTS
  NothingSkipped
CHECK_DEADLOCK FALSE
