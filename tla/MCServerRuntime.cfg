SPECIFICATION Spec
CONSTANTS
    None = None
    Empty = Empty
    Torn = Torn
    api = api
    other = other
    v1 = v1
    v2 = v2
    c1 = c1
    c2 = c2
    Rows <- MCRows
    Grant = api
    Defs <- MCDefs
    ReadAs <- MCReadAs
    Clients <- MCClients
    MaxCommits = 3
    MaxStops = 1
SYMMETRY Symmetry
INVARIANTS
    BindingsFollow
    NothingUnrecorded
    FileIsState
    FileIsWhole
CHECK_DEADLOCK FALSE
