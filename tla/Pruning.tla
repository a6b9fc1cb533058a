------------------------------- MODULE Pruning -------------------------------
(***************************************************************************)
(* The daily pruning of the audit log and of the two tables of approvals.db*)
(* (audit/prune.worker.ts), run by every server process over shared files. *)
(* Per table: select what is final and past its retention, append it to a  *)
(* CSV archive, delete it by id in chunks, reclaim space.  One try block   *)
(* holds all three tables, so an error anywhere ends the cycle.  Inside    *)
(* one process the cycle is a single synchronous operation; the other      *)
(* processes go on between its statements.                                 *)
(*                                                                         *)
(* The rest of the server is what it does to the status and to the time    *)
(* that pruning looks at: timestamp, expires_at or completed_at.           *)
(***************************************************************************)
EXTENDS Integers, FiniteSets

CONSTANTS
  Processes,
  AuditRows, ApprovalRows, ExecutionRows,
  AuditRetention,      \* AUDIT_RETENTION_DAYS
  ExecutionRetention,  \* EXECUTION_RETENTION_DAYS
  ApprovalTtl,         \* APPROVAL_EXPIRY_MINUTES
  CallTicks,           \* how long a call may take to write its last status
  ChunkSize,           \* 500
  MaxTime              \* bound: the clock

ASSUME PruningAssumption ==
  /\ AuditRetention \in Nat /\ ExecutionRetention \in Nat /\ ApprovalTtl \in Nat
  /\ CallTicks \in Nat /\ CallTicks <= ExecutionRetention
  /\ AuditRows \cap ApprovalRows = {} /\ AuditRows \cap ExecutionRows = {}
  /\ ApprovalRows \cap ExecutionRows = {}
  /\ ChunkSize \in Nat \ {0} /\ MaxTime \in Nat

Rows == AuditRows \cup ApprovalRows \cup ExecutionRows
TableRows == <<AuditRows, ApprovalRows, ExecutionRows>>
NoMark == MaxTime + ApprovalTtl + 1   \* NULL: never below a cutoff

VARIABLES
  now,
  status,     \* per row: "none", "live", "final", "gone"
  mark,       \* per row: the time that pruning compares
  archived,   \* the rows that are in the archive, once or more
  cycle,      \* per process: the statement it is at, in which table
  sound       \* tables 1..sound neither fail nor see a process die any more

worldVars == <<now, status, mark>>
vars == <<worldVars, archived, cycle, sound>>

Stages == {"select", "export", "delete"}
Idle == [stage |-> "select", table |-> 1, cutoff |-> 0, batch |-> {}]

Cycles == [stage : Stages, table : 1..3, cutoff : Int, batch : SUBSET Rows]

PruningTypeOK ==
  /\ now \in 0..MaxTime
  /\ status \in [Rows -> {"none", "live", "final", "gone"}]
  /\ mark \in [Rows -> 0..NoMark]
  /\ archived \subseteq Rows
  /\ cycle \in [Processes -> Cycles]
  /\ sound \in 0..3

Init ==
  /\ now = 0
  /\ status = [r \in Rows |-> "none"]
  /\ mark = [r \in Rows |-> NoMark]
  /\ archived = {}
  /\ cycle = [p \in Processes |-> Idle]
  /\ sound = 0

----------------------------------------------------------------------------
\* The rest of the server.
Write(r, newStatus, newMark) ==
  /\ status' = [status EXCEPT ![r] = newStatus]
  /\ mark' = [mark EXCEPT ![r] = newMark]
  /\ UNCHANGED <<now, archived, cycle, sound>>

LogAudit(r) ==
  r \in AuditRows /\ status[r] = "none" /\ Write(r, "final", now)

CreateApproval(r) ==
  r \in ApprovalRows /\ status[r] = "none" /\ Write(r, "live", now + ApprovalTtl)

\* Consumed or rejected in time, or expired by whoever looks at it later.
EndApproval(r) ==
  r \in ApprovalRows /\ status[r] = "live" /\ Write(r, "final", mark[r])

BeginExecution(r) ==
  r \in ExecutionRows /\ status[r] = "none" /\ Write(r, "live", NoMark)

Completed(r) == IF mark[r] = NoMark THEN now ELSE mark[r]

\* sweepStaleExecutions stamps completed_at although the row stays live.
SweepExecution(r) ==
  /\ r \in ExecutionRows /\ status[r] = "live" /\ mark[r] = NoMark
  /\ Write(r, "live", now)

\* updateExecutionStatus keeps a completed_at that is there.
EndExecution(r) ==
  r \in ExecutionRows /\ status[r] = "live" /\ Write(r, "final", Completed(r))

\* A call that comes late marks its execution, ended meanwhile by the
\* reconciler, unknown again.
LateUnknown(r) ==
  /\ r \in ExecutionRows /\ status[r] = "final"
  /\ now <= mark[r] + CallTicks
  /\ Write(r, "live", mark[r])

Tick ==
  /\ now < MaxTime
  /\ now' = now + 1
  /\ UNCHANGED <<status, mark, archived, cycle, sound>>

----------------------------------------------------------------------------
\* pruneAuditLog in process p.
At(p, stage) == cycle[p].stage = stage

\* The cutoff of the second table serves the third as well.
Cutoff(c) ==
  CASE c.table = 1 -> now - AuditRetention
    [] c.table = 2 -> now - ExecutionRetention
    [] c.table = 3 -> c.cutoff

\* Mutant: the cycle does not end.
NextTableRunsOn(c) == [Idle EXCEPT !.table = c.table + 1, !.cutoff = c.cutoff]

NextTable(c) ==
  IF c.table = 3 THEN Idle ELSE [Idle EXCEPT !.table = c.table + 1, !.cutoff = c.cutoff]

\* Mutant: the status is not looked at.
PrunableByAge(r, cutoff) == status[r] \in {"live", "final"} /\ mark[r] < cutoff

Prunable(r, cutoff) == status[r] = "final" /\ mark[r] < cutoff

\* Mutant: nothing old in one table ends the cycle.
SelectReturnsEarly(p) ==
  LET c == [cycle[p] EXCEPT !.cutoff = Cutoff(cycle[p])]
      old == {r \in TableRows[c.table] : Prunable(r, c.cutoff)} IN
  /\ At(p, "select")
  /\ cycle' = [cycle EXCEPT ![p] =
       IF old = {} THEN Idle ELSE [c EXCEPT !.stage = "export", !.batch = old]]
  /\ UNCHANGED <<worldVars, archived, sound>>

Select(p) ==
  LET c == [cycle[p] EXCEPT !.cutoff = Cutoff(cycle[p])]
      old == {r \in TableRows[c.table] : Prunable(r, c.cutoff)} IN
  /\ At(p, "select")
  /\ cycle' = [cycle EXCEPT ![p] =
       IF old = {} THEN NextTable(c) ELSE [c EXCEPT !.stage = "export", !.batch = old]]
  /\ UNCHANGED <<worldVars, archived, sound>>

\* Mutant: the deletion does not wait for the archive.
ExportNothing(p) ==
  /\ At(p, "export")
  /\ cycle' = [cycle EXCEPT ![p].stage = "delete"]
  /\ UNCHANGED <<worldVars, archived, sound>>

Export(p) ==
  /\ At(p, "export")
  /\ archived' = archived \cup cycle[p].batch
  /\ cycle' = [cycle EXCEPT ![p].stage = "delete"]
  /\ UNCHANGED <<worldVars, sound>>

\* One DELETE: at most ChunkSize ids, deleted if they are still there.
DeleteChunk(p) ==
  LET c == cycle[p] IN
  /\ At(p, "delete")
  /\ \E chunk \in SUBSET c.batch :
       /\ Cardinality(chunk) = IF Cardinality(c.batch) < ChunkSize
                               THEN Cardinality(c.batch) ELSE ChunkSize
       /\ status' = [r \in Rows |-> IF r \in chunk THEN "gone" ELSE status[r]]
       /\ cycle' = [cycle EXCEPT ![p] =
            IF chunk = c.batch THEN NextTable(c) ELSE [c EXCEPT !.batch = @ \ chunk]]
  /\ UNCHANGED <<now, mark, archived, sound>>

\* A statement fails, VACUUM included, or the process dies and is started
\* again: the rest of the cycle is given up.  An append may be cut short.
Abort(p) ==
  /\ cycle[p] # Idle /\ cycle[p].table > sound
  /\ cycle' = [cycle EXCEPT ![p] = Idle]
  /\ \/ UNCHANGED archived
     \/ /\ At(p, "export")
        /\ \E lines \in SUBSET cycle[p].batch : archived' = archived \cup lines
  /\ UNCHANGED <<worldVars, sound>>

\* What keeps failing in the first tables is mended (external): it may never be.
Mend ==
  /\ \E n \in 1..3 : n > sound /\ sound' = n
  /\ UNCHANGED <<worldVars, archived, cycle>>

Prune(p) == Select(p) \/ Export(p) \/ DeleteChunk(p)

WorldStep(r) ==
  \/ LogAudit(r) \/ CreateApproval(r) \/ EndApproval(r)
  \/ BeginExecution(r) \/ SweepExecution(r) \/ EndExecution(r) \/ LateUnknown(r)

Next ==
  \/ \E r \in Rows : WorldStep(r)
  \/ Tick
  \/ Mend
  \/ \E p \in Processes : Prune(p) \/ Abort(p)

\* The timer of each process is set again after every cycle, failed or not, and
\* a cycle that has begun goes on or is given up.  In a sound table it goes on;
\* of a table that fails nothing is expected.
Fairness(p) ==
  /\ WF_vars(cycle[p].table <= sound /\ Prune(p))
  /\ WF_vars(cycle[p] # Idle /\ (Prune(p) \/ Abort(p)))

Spec == Init /\ [][Next]_vars /\ \A p \in Processes : Fairness(p)

----------------------------------------------------------------------------
\* Nothing live is ever deleted, although the DELETE does not look at the
\* status again after the SELECT (pruneAuditLog; a call's last write comes
\* long before the retention ends).
LiveNeverPruned ==
  [][\A r \in Rows : status[r] = "live" => status'[r] # "gone"]_vars

\* What was deleted is in the archive: no crash, failure or concurrent cycle
\* loses a record (the append precedes the DELETE of the same ids).
GoneIsArchived ==
  \A r \in Rows : status[r] = "gone" => r \in archived

\* What the cutoff of a table is below the clock.
Retention(table) == IF table = 1 THEN AuditRetention ELSE ExecutionRetention

\* How far pruning gets whatever fails: a row past its retention goes in the end,
\* unless it becomes live again or its table or one before it keeps failing for
\* ever.  Failures that pass, and failures of later tables however often, starve
\* nothing; a table that never works again starves those after it (one try block
\* for the three tables; scheduler.ts sets its timer again after every cycle).
OldIsPruned ==
  \A table \in 1..3 : \A r \in TableRows[table] :
    (status[r] = "final" /\ mark[r] < now - Retention(table))
      ~> (status[r] # "final" \/ sound < table)

\* Why: what a cycle selected stays final until it is deleted, and what it is
\* about to delete is in the archive.
TakenIsFinal ==
  \A p \in Processes : \A r \in cycle[p].batch :
    /\ r \in TableRows[cycle[p].table]
    /\ status[r] \in {"final", "gone"}
    /\ r \in ExecutionRows => mark[r] + CallTicks < now
    /\ cycle[p].stage = "delete" => r \in archived

CutoffHolds ==
  \A p \in Processes :
    cycle[p].table = 3 \/ (cycle[p].table = 2 /\ cycle[p].stage # "select")
      => cycle[p].cutoff <= now - ExecutionRetention

PruningInv == PruningTypeOK /\ GoneIsArchived /\ TakenIsFinal /\ CutoffHolds
=============================================================================
