CONSTANTS
  c1 = c1
  c2 = c2
  c3 = c3
  k1 = k1
  del = del
  del2 = del2
  Calls = {c1, c2, c3}
  Keys = {k1}
  Bodies = {del, del2}
  PurgeBodies = {}
  NoToken = NoToken
  ToolOf <- MCToolOf
  AlwaysGated = {del}
  RiskScored = {del, del2}
  ApprovalEligible = {del, del2}
  Rewritten = {}
  Modes = {"live", "dry_run", "read_only"}
  Reconcilers = {}
  MaxFaults = 0
  ExpiryTicks = 0
  StaleTicks = 0
  RetryTicks = 0
  MaxAgeTicks = 0
SPECIFICATION Spec
SYMMETRY Symmetry
INVARIANTS
  PipelineTypeOK
  GatedEffectApproved
  SingleExecutor
  OnlyLiveCallsAct
  UniqueKey
  RowTokenConsumed
  ConsumedTokenBoughtOneRow
PROPERTIES
  TokenLivesUntilExpiry
CHECK_DEADLOCK FALSE
