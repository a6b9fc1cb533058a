--------------------------- MODULE ExecutionStore ---------------------------
(***************************************************************************)
(* The executions table (execution/store.worker.ts) on top of the          *)
(* approvals table: both live in approvals.db, which every server process  *)
(* of a deployment opens.  The clients here are the most general ones: any *)
(* caller may invoke any operation at any time; Pipeline.tla restricts     *)
(* them to what the middleware and the reconciler do.                      *)
(*                                                                         *)
(* beginExecution looks the key up OUTSIDE its transaction and then        *)
(* consumes the token and inserts the row inside it, so other processes    *)
(* run between the two: "begun" holds the calls that are there.            *)
(* The row inserted for a call is named by that call.                      *)
(***************************************************************************)
EXTENDS ApprovalStore

CONSTANTS
  PurgeBodies,  \* bodies of purge_expired_customers
  StaleTicks,   \* EXECUTION_STALE_MINUTES
  RetryTicks,   \* RECONCILIATION_RETRY_INTERVAL_MS
  MaxAgeTicks   \* RECONCILIATION_MAX_AGE_HOURS

ASSUME ExecutionAssumption ==
  /\ PurgeBodies \subseteq Bodies
  /\ StaleTicks \in Nat /\ RetryTicks \in Nat /\ MaxAgeTicks \in Nat

VARIABLES
  executions,   \* the table, [Calls -> row]
  begun         \* calls between the SELECT and the transaction

storeVars == <<approvals, executions, begun>>

Statuses ==
  {"executing", "unknown_outcome", "completed", "failed_terminal", "cancelled"}
TerminalStatuses == {"completed", "failed_terminal", "cancelled"}

\* "idle" counts ticks since last_reconcile_at; "attempted" says it is not null.
ExecutionRows ==
  [status : Statuses, hash : Requests, token : Tokens,
   age : Nat, attempted : BOOLEAN, idle : Nat]

NoExecution == [status |-> "absent"]
NoBegin == [stage |-> "none"]
BeginArgs == [stage : {"looked_up"}, hash : Requests, token : Tokens]

StoreTypeOK ==
  /\ ApprovalsTypeOK
  /\ executions \in [Calls -> ExecutionRows \cup {NoExecution}]
  /\ begun \in [Calls -> BeginArgs \cup {NoBegin}]

InitStore ==
  /\ InitApprovals
  /\ executions = [e \in Calls |-> NoExecution]
  /\ begun = [c \in Calls |-> NoBegin]

Exists(e) == executions[e].status # "absent"
Begun(c) == begun[c].stage = "looked_up"
RowsWith(key) == {e \in Calls : Exists(e) /\ executions[e].hash.key = key}

----------------------------------------------------------------------------
\* What an existing row of the same key makes beginExecution return.
Conflict(e, hash) ==
  CASE executions[e].hash # hash -> "idempotency_key_mismatch"
    [] executions[e].hash = hash /\ executions[e].status = "unknown_outcome"
         -> "unknown_outcome_pending"
    [] executions[e].hash = hash /\ executions[e].status = "executing"
         -> "duplicate_in_flight"
    [] OTHER -> "already_completed"

\* The SELECT of beginExecution finds no row of this key.
BeginLookup(c, hash, token) ==
  /\ ~Begun(c) /\ ~Exists(c)
  /\ RowsWith(hash.key) = {}
  /\ begun' = [begun EXCEPT ![c] = 
       [stage |-> "looked_up", hash |-> hash, token |-> token]]
  /\ UNCHANGED <<approvals, executions>>

TokenVerdict(c) ==
  IF begun[c].token = NoToken THEN "ok"
  ELSE ConsumeResult(begun[c].token, begun[c].hash)

\* The transaction refuses the token; its own write to that token commits.
BeginRefused(c) ==
  /\ Begun(c)
  /\ TokenVerdict(c) # "ok"
  /\ approvals' = RefusedRows(begun[c].token)
  /\ begun' = [begun EXCEPT ![c] = NoBegin]
  /\ UNCHANGED executions

\* Mutant: the consumption survives the failed INSERT.
BeginDuplicateKeepsToken(c) ==
  /\ Begun(c)
  /\ TokenVerdict(c) = "ok"
  /\ RowsWith(begun[c].hash.key) # {}
  /\ approvals' = IF begun[c].token = NoToken THEN approvals
                  ELSE ConsumedRows(begun[c].token)
  /\ begun' = [begun EXCEPT ![c] = NoBegin]
  /\ UNCHANGED executions

\* The INSERT hits the UNIQUE index: the transaction, consumption included,
\* is rolled back and the row that is there decides the answer.
BeginDuplicate(c) ==
  /\ Begun(c)
  /\ TokenVerdict(c) = "ok"
  /\ RowsWith(begun[c].hash.key) # {}
  /\ begun' = [begun EXCEPT ![c] = NoBegin]
  /\ UNCHANGED <<approvals, executions>>

NewExecution(c) ==
  [status |-> "executing", hash |-> begun[c].hash, token |-> begun[c].token,
   age |-> 0, attempted |-> FALSE, idle |-> 0]

\* Mutant: idx_executions_idemp_key is not UNIQUE.
BeginCommitNoIndex(c) ==
  /\ Begun(c)
  /\ TokenVerdict(c) = "ok"
  /\ approvals' = IF begun[c].token = NoToken THEN approvals
                  ELSE ConsumedRows(begun[c].token)
  /\ executions' = [executions EXCEPT ![c] = NewExecution(c)]
  /\ begun' = [begun EXCEPT ![c] = NoBegin]

\* The transaction commits: token consumed and row inserted, or neither.
BeginCommit(c) ==
  /\ Begun(c)
  /\ TokenVerdict(c) = "ok"
  /\ RowsWith(begun[c].hash.key) = {}
  /\ approvals' = IF begun[c].token = NoToken THEN approvals
                  ELSE ConsumedRows(begun[c].token)
  /\ executions' = [executions EXCEPT ![c] = NewExecution(c)]
  /\ begun' = [begun EXCEPT ![c] = NoBegin]

\* The worker dies, or SQLite fails, before the transaction commits.
BeginAborted(c) ==
  /\ Begun(c)
  /\ begun' = [begun EXCEPT ![c] = NoBegin]
  /\ UNCHANGED <<approvals, executions>>

\* updateExecutionStatus: no condition on the status it overwrites.
UpdateExecutionStatus(e, status) ==
  /\ Exists(e)
  /\ executions' = [executions EXCEPT ![e].status = status]
  /\ UNCHANGED <<approvals, begun>>

\* Mutant: a reconciliation attempt reopens the execution.
RecordReconcileAttemptReopens(e) ==
  /\ Exists(e)
  /\ executions' = [executions EXCEPT ![e].attempted = TRUE, ![e].idle = 0,
                                     ![e].status = "executing"]
  /\ UNCHANGED <<approvals, begun>>

RecordReconcileAttempt(e) ==
  /\ Exists(e)
  /\ executions' = [executions EXCEPT ![e].attempted = TRUE, ![e].idle = 0]
  /\ UNCHANGED <<approvals, begun>>

\* Mutant: the cutoff comparison is the wrong way round.
SweepableFresh(row) ==
  /\ row.status = "executing"
  /\ row.age < StaleTicks
  /\ row.hash.body \notin PurgeBodies

Sweepable(row) ==
  /\ row.status = "executing"
  /\ row.age > StaleTicks
  /\ row.hash.body \notin PurgeBodies

SweepStaleExecutions ==
  /\ executions' = [e \in Calls |->
       IF Exists(e) /\ Sweepable(executions[e])
       THEN [executions[e] EXCEPT !.status = "unknown_outcome"]
       ELSE executions[e]]
  /\ UNCHANGED <<approvals, begun>>

FindUnknownOutcomes ==
  {e \in Calls : Exists(e) /\ executions[e].status = "unknown_outcome"}

AgedExecutions ==
  [e \in Calls |->
     IF Exists(e)
     THEN [executions[e] EXCEPT
             !.age = IF @ <= StaleTicks \/ @ <= MaxAgeTicks THEN @ + 1 ELSE @,
             !.idle = IF executions[e].attempted /\ @ < RetryTicks
                      THEN @ + 1 ELSE @]
     ELSE executions[e]]

\* The wall clock moves.
StoreTick ==
  /\ approvals' = AgedApprovals
  /\ executions' = AgedExecutions
  /\ UNCHANGED begun

----------------------------------------------------------------------------
\* The most general client of approvals.db.
ApprovalCall(t) ==
  /\ \/ \E hash \in Requests : CreateApproval(t, hash)
     \/ ExpireStaleApprovals
     \/ ApproveToken(t)
     \/ RejectToken(t)
  /\ UNCHANGED <<executions, begun>>

BeginCall(c) ==
  \/ \E hash \in Requests, token \in Tokens : BeginLookup(c, hash, token)
  \/ BeginRefused(c)
  \/ BeginDuplicate(c)
  \/ BeginCommit(c)
  \/ BeginAborted(c)

UpdateCall(e) ==
  \/ \E status \in Statuses \ {"executing"} : UpdateExecutionStatus(e, status)
  \/ RecordReconcileAttempt(e)

StoreNext ==
  \/ \E c \in Calls : ApprovalCall(c) \/ BeginCall(c) \/ UpdateCall(c)
  \/ SweepStaleExecutions
  \/ StoreTick

StoreSpec == InitStore /\ [][StoreNext]_storeVars

----------------------------------------------------------------------------
\* No idempotency key ever has two rows, although the lookup that would
\* notice the first one is not in the transaction that inserts the second
\* (beginExecution, the UNIQUE index and its catch block).
UniqueKey ==
  \A e, f \in Calls :
    Exists(e) /\ Exists(f) /\ executions[e].hash.key = executions[f].hash.key
      => e = f

\* Approval and consumption are only reached through a human decision.
ApprovedWasDecided ==
  \A t \in Calls :
    approvals[t].status \in {"approved", "consumed"} => approvals[t].decided

\* A row that carries a token was started under a token that a human decided,
\* that is consumed, and that was granted for exactly this request
\* (consumeApprovalInTransaction inside beginExecution).
RowTokenConsumed ==
  \A e \in Calls :
    Exists(e) /\ executions[e].token # NoToken =>
      LET token == approvals[executions[e].token] IN
      /\ token.status = "consumed"
      /\ token.decided
      /\ token.hash = executions[e].hash

\* A consumed token has bought exactly one execution: none is spent by a
\* begin that was refused or rolled back, and none is spent twice.
ConsumedTokenBoughtOneRow ==
  \A t \in Calls : approvals[t].status = "consumed" =>
    /\ \E e \in Calls : Exists(e) /\ executions[e].token = t
    /\ \A e, f \in Calls :
         /\ Exists(e) /\ executions[e].token = t
         /\ Exists(f) /\ executions[f].token = t
         => e = f

\* Between its lookup and its transaction a call has no row yet.
BegunHasNoRow == \A c \in Calls : Begun(c) => ~Exists(c)

\* The inductive invariant behind the three.
StoreInv ==
  /\ StoreTypeOK
  /\ BegunHasNoRow
  /\ UniqueKey
  /\ ApprovedWasDecided
  /\ RowTokenConsumed
  /\ ConsumedTokenBoughtOneRow

\* What a row claims never changes, and once it has left "executing" it
\* never returns there: no later call, sweep or reconciliation reopens a key.
ClaimIsPermanent ==
  [][\A e \in Calls : Exists(e) =>
       /\ executions'[e].status # "absent"
       /\ executions'[e].hash = executions[e].hash
       /\ executions'[e].token = executions[e].token
       /\ executions'[e].status = "executing" =>
            executions[e].status = "executing"]_storeVars

\* A human's approval counts up to the last instant of the token's life and not
\* beyond it: the sweep of every look at the table, the decision and the
\* consumption, which happen at different times and in different processes,
\* agree about that instant.  Before it only a human's rejection voids a token,
\* and what is spent or void stays so
\* (expireStaleApprovals, approveToken, consumeApprovalInTransaction).
TokenLivesUntilExpiry ==
  [][\A t \in Calls : approvals[t].status # "absent" =>
       /\ approvals[t].age > ExpiryTicks =>
            approvals'[t].status \in {approvals[t].status, "expired"}
       /\ approvals[t].age <= ExpiryTicks /\ approvals[t].status # "expired"
            /\ approvals'[t].status = "expired" =>
            approvals[t].status = "pending" /\ approvals'[t].decided
       /\ approvals[t].status \in {"consumed", "expired"} =>
            approvals'[t].status = approvals[t].status]_storeVars
=============================================================================
