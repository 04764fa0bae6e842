SPECIFICATION LiveSpec
CONSTANTS
  NoEvent = NoEvent
  r1 = r1
  r2 = r2
  r3 = r3
  Events <- TwoEvents
  Capacity = 1
  TriggerCount = 2
  Requests = {r1, r2}
  Asks <- AskedOnce
  Matches <- BothMatchFirst
  Passes <- GuardsPass
  Configs <- OneConfig
  CanFail = TRUE
  Redelivers = TRUE
PROPERTY
  SpoolDrains
CHECK_DEADLOCK FALSE
