CONSTANTS
  Processes = {p1, p2}
  AuditRows = {a1, a2}
  ApprovalRows = {t1}
  ExecutionRows = {e1}
  AuditRetention = 0
  ExecutionRetention = 0
  ApprovalTtl = 0
  CallTicks = 0
  ChunkSize = 1
  MaxTime = 1
SPECIFICATION Spec
INVARIANTS
  PruningInv
  GoneIsArchived
PROPERTIES
  LiveNeverPruned
  OldIsPruned
CHECK_DEADLOCK FALSE
