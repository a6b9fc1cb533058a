CONSTANTS
  c1 = c1
  c2 = c2
  k1 = k1
  archive = archive
  r1 = r1
  Calls = {c1, c2}
  Keys = {k1}
  Bodies = {archive}
  PurgeBodies = {}
  NoToken = NoToken
  ToolOf <- MCToolOf
  AlwaysGated = {}
  RiskScored = {}
  ApprovalEligible = {}
  Rewritten = {archive}
  Modes = {"live"}
  Reconcilers = {r1}
  MaxFaults = 0
  ExpiryTicks = 0
  StaleTicks = 0
  RetryTicks = 0
  MaxAgeTicks = 0
SPECIFICATION Spec
SYMMETRY Symmetry
INVARIANTS
  ReplayIsOriginal
CHECK_DEADLOCK FALSE
