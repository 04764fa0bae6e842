SPECIFICATION WatcherLiveSpec
CONSTANTS
  Events = {1, 2}
  Keys = {1, 2}
  Capacity = 1
  Pollers = {p1}
  HasIds = TRUE
  Versions = 1
  Deletes = FALSE
  Cancels = FALSE
PROPERTY
  StayingRowIsSent
CHECK_DEADLOCK FALSE
