CONSTANTS
  c1 = c1
  c2 = c2
  c3 = c3
  p1 = p1
  Customers = {c1, c2, c3}
  Purges = {p1}
  Concurrency = 2
  MaxRetries = 1
  Nobody = Nobody
SPECIFICATION Spec
INVARIANTS
  PurgeTypeOK
  NoneTwiceNoneSkipped
  ReportIsExact
PROPERTIES
  PurgeReturns
CHECK_DEADLOCK FALSE
