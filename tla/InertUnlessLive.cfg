CONSTANTS
  c1 = c1
  k1 = k1
  pay = pay
  r1 = r1
  Calls = {c1}
  Keys = {k1}
  Bodies = {pay}
  PurgeBodies = {}
  NoToken = NoToken
  ToolOf <- MCToolOf
  AlwaysGated = {}
  RiskScored = {}
  ApprovalEligible = {}
  Rewritten = {}
  Modes = {"live", "dry_run", "read_only"}
  Reconcilers = {r1}
  MaxFaults = 0
  ExpiryTicks = 0
  StaleTicks = 0
  RetryTicks = 0
  MaxAgeTicks = 1
SPECIFICATION Spec
PROPERTIES
  InertUnlessLive
CHECK_DEADLOCK FALSE
