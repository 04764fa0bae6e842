SPECIFICATION Spec
CONSTANTS
    None = None
    Empty = Empty
    Torn = Torn
    api = api
    other = other
    v1 = v1
    v2 = v2
    c1 = c1
    c2 = c2
    Rows <- MCRows
    Grant = api
    Defs <- MCDefs
    ReadAs <- MCReadAs
    Clients <- MCClients
    MaxCommits = 2
    MaxStops = 1
PROPERTY
    Converges
CHECK_DEADLOCK FALSE
