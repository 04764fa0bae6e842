SPECIFICATION Spec
CONSTANTS
  c1 = c1
  c2 = c2
  s1 = s1
  e1 = e1
  e2 = e2
  d1 = d1
  team = team
  driver = driver
  view = view
  base = base
  alias = alias
  v1 = v1
  v2 = v2
  toBase = toBase
  redacted = redacted
  Absent = Absent
  KindOf <- MCKindOf
  NameOf <- MCNameOf
  RowsOf <- MCRowsOf
  AliasOf <- MCAliasOf
  LogText <- MCLogText
  TeamOf <- MCTeamOf
  StatusOf <- MCStatusOf
  Clients = {c1, c2}
  Deliveries = {d1}
  Teams = {team}
  Sealers = {s1}
  Effects = {e1}
  Irreversible = {e1}
  Policies = {policy}
  policy = policy
  Settings = {secret}
  secret = secret
  Secret = {secret}
  Paths = {base, alias}
  Declared = {driver, view}
  Values = {v1, v2, toBase, redacted}
  TailCap = 2
  PlanSize = 1
  MaxWrites = 3
  MaxSeals = 1
SYMMETRY Symmetry
INVARIANTS
  TailVerifies
  SealsHold
  LedgersAgree
PROPERTIES
  ImplementsLog
CHECK_DEADLOCK FALSE
