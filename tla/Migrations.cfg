CONSTANTS
  Processes = {p1, p2}
  NoProcess = NoProcess
  Tokens = {t1}
  Executions = {e1, e2}
  Keys = {k1, k2}
SPECIFICATION Spec
INVARIANTS
  MigrationsInv
  OpenedIsCurrent
PROPERTIES
  TokensKeepTheirMeaning
  OpenedUnlessStranded
CHECK_DEADLOCK FALSE
