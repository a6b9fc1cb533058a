CONSTANTS
  c1 = c1
  c2 = c2
  k1 = k1
  k2 = k2
  Calls = {c1, c2}
  Customers = {k1, k2}
  NoCustomer = NoCustomer
  BasePoints = {0, 45}
  BlockThreshold = 70
  FlagThreshold = 40
  DayTicks = 1
  MonthTicks = 2
  DayMax = 1
  MonthMax = 1
  MaxItems = 1
  Ttl = 1
  Latency = 1
  MaxTime = 4
SPECIFICATION Spec
SYMMETRY Symmetry
INVARIANTS
  RiskTypeOK
  FactsAreRecent
  FailClosed
  VelocityHolds
CHECK_DEADLOCK FALSE
