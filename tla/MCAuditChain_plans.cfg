SPECIFICATION Spec
CONSTANTS
  c1 = c1
  c2 = c2
  s1 = s1
  e1 = e1
  e2 = e2
  d1 = d1
  team = team
  driver = driver
  view = view
  base = base
  alias = alias
  v1 = v1
  v2 = v2
  toBase = toBase
  redacted = redacted
  policy = policy
  secret = secret
  Absent = Absent
  KindOf <- MCKindOf
  NameOf <- MCNameOf
  RowsOf <- MCRowsOf
  AliasOf <- MCAliasOf
  LogText <- MCLogText
  TeamOf <- MCTeamOf
  StatusOf <- MCStatusOf
  Clients = {c1, c2}
  Deliveries = {d1}
  Teams = {team}
  Sealers = {s1}
  Effects = {e1, e2}
  Irreversible = {e2}
  Policies = {}
  Settings = {}
  Secret = {}
  Paths = {}
  Declared = {driver}
  Values = {v1, v2}
  TailCap = 2
  PlanSize = 2
  MaxWrites = 2
  MaxSeals = 1
SYMMETRY Symmetry
INVARIANTS
  TailVerifies
  SealsHold
PROPERTIES
  ImplementsLog
CHECK_DEADLOCK FALSE
