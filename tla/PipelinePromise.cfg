CONSTANTS
  c1 = c1
  c2 = c2
  k1 = k1
  purge = purge
  pay = pay
  r1 = r1
  Calls = {c1, c2}
  Keys = {k1}
  Bodies = {purge, pay}
  PurgeBodies = {purge}
  NoToken = NoToken
  ToolOf <- MCToolOf
  AlwaysGated = {purge}
  RiskScored = {purge}
  ApprovalEligible = {purge}
  Rewritten = {}
  Modes = {"live"}
  Reconcilers = {r1}
  MaxFaults = 1
  ExpiryTicks = 0
  StaleTicks = 0
  RetryTicks = 0
  MaxAgeTicks = 1
SPECIFICATION Spec
SYMMETRY Symmetry
INVARIANTS
  OnlyClaimsReachStripe
  CompletedTookEffect
  SuccessIsReal
PROPERTIES
  KeepsPromise
  UsesStore
  ClaimIsPermanent
CHECK_DEADLOCK FALSE
