SPECIFICATION Spec
CONSTANTS
  Node = {1, 2, 3}
  d1 = d1
  d2 = d2
  Driver = {d1, d2}
  Key = {1, 2, 3}
  DriverOf <- MCDriverOf
  Registered = {d1, d2}
  Plans <- WidePlans
  Global = 2
  PerDriver = 1
  MaxAttempts = 1
INVARIANTS BudgetIsShared
