SPECIFICATION SweeperSpec
CONSTANTS
    job = job
    agent = agent
    Jobs = {job}
    Agents = {agent}
    KeyOf <- OwnKeys
    Periods = {2}
    Never = Never
    None = None
    HistoryCap = 1
    MaxTime = 2
    MaxWrites = 2
    MaxCrashes = 1
PROPERTIES
    DueIsTried
CHECK_DEADLOCK FALSE
