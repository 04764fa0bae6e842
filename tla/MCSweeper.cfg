SPECIFICATION SweeperSpec
CONSTANTS
    job = job
    agent = agent
    Jobs = {job}
    Agents = {agent}
    KeyOf <- OneKey
    Periods = {2}
    Never = Never
    None = None
    HistoryCap = 1
    MaxTime = 3
    MaxWrites = 2
    MaxCrashes = 1
INVARIANTS
    MarkIsAFiring
PROPERTIES
    OncePerPeriod
    MarksMoveOn
    DueIsTried
CHECK_DEADLOCK FALSE
