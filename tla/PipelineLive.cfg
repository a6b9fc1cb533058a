CONSTANTS
  c1 = c1
  k1 = k1
  pay = pay
  archive = archive
  purge = purge
  r1 = r1
  r2 = r2
  Calls = {c1}
  Keys = {k1}
  Bodies = {pay, archive, purge}
  PurgeBodies = {purge}
  NoToken = NoToken
  ToolOf <- MCToolOf
  AlwaysGated = {}
  RiskScored = {}
  ApprovalEligible = {}
  Rewritten = {archive}
  Modes = {"live"}
  Reconcilers = {r1, r2}
  MaxFaults = 1
  ExpiryTicks = 0
  StaleTicks = 0
  RetryTicks = 1
  MaxAgeTicks = 1
SPECIFICATION FairSpec
PROPERTIES
  UnknownIsResolved
  StaleIsSwept
CHECK_DEADLOCK FALSE
