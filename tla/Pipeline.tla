------------------------------ MODULE Pipeline ------------------------------
(***************************************************************************)
(* The path of a mutating tool call through executeStripeOperation         *)
(* (middleware/execute.ts), together with everything it races with: other  *)
(* calls, the humans of the approval server, the reconciler of             *)
(* reconciliation/worker.ts, the clock, crashes, and database operations   *)
(* whose caller sees a failure although they may have been applied         *)
(* (worker/db/db.client.ts times out and rejects without undoing).         *)
(*                                                                         *)
(* Each await of the code is a step boundary.  Each call and each          *)
(* reconciler may be of a server process of its own, in a mode of its own; *)
(* all of them share approvals.db and the Stripe account, at the same time *)
(* or one after the other (a call of a dead server is a crashed call).     *)
(***************************************************************************)
EXTENDS ExecutionStore

CONSTANTS
  ToolOf,            \* tool and operation of a body
  AlwaysGated,       \* bodies shouldRequireApproval gates whatever the risk
  RiskScored,        \* bodies of tools with riskScored
  ApprovalEligible,  \* bodies of tools with approvalEligible
  Rewritten,         \* bodies whose replay sends something else (archive)
  Modes,             \* subset of {"live", "read_only", "dry_run"}
  Reconcilers,       \* reconciliation loops; index.ts starts one in any mode
  MaxFaults          \* bound: database failures and reconciler crashes

ASSUME PipelineAssumption ==
  /\ DOMAIN ToolOf = Bodies
  /\ AlwaysGated \subseteq Bodies
  /\ ApprovalEligible \subseteq RiskScored
  /\ RiskScored \subseteq Bodies
  /\ Modes \subseteq {"live", "read_only", "dry_run"}
  /\ MaxFaults \in Nat

VARIABLES
  mode,      \* STRIPE_READ_ONLY / STRIPE_DRY_RUN of the server a call or a
             \* reconciler belongs to, fixed when the server starts
  pc,        \* where each call is
  req,       \* what it was asked: request and approval token
  grant,     \* the token it will consume (isPreApproved), or NoToken
  answer,    \* what it returns to the agent
  audit,     \* outcomes it has written to the audit log
  stripe,    \* payloads that took effect at Stripe, per idempotency key
  sent,      \* payloads sent to Stripe, per idempotency key
  rec,       \* the reconcilers
  faults

callVars == <<mode, pc, req, grant, answer, audit>>
stripeVars == <<stripe, sent>>
vars == <<storeVars, callVars, stripeVars, rec, faults>>

Servers == Calls \cup Reconcilers

Payloads == [body : Bodies, replayed : BOOLEAN]
Payload(body) == [body |-> body, replayed |-> FALSE]
ReplayPayload(body) == [body |-> body, replayed |-> body \in Rewritten]

CallStates ==
  {"idle", "received", "risk", "approve", "begin", "transaction", "stripe",
   "settle_completed", "settle_failed", "settle_unknown",
   "audit", "answered", "crashed"}

ConsumeFailures ==
  {"not_found", "not_approved", "expired", "hash_mismatch", "already_consumed"}
Conflicts ==
  {"idempotency_key_mismatch", "unknown_outcome_pending",
   "duplicate_in_flight", "already_completed"}
Answers ==
  {"none", "success", "simulated", "error", "thrown", "read_only",
   "risk_blocked", "approval_required", "invalid_approval_token",
   "token_not_approved", "approval_mismatch"} \cup ConsumeFailures \cup Conflicts
AuditOutcomes == {"success", "error", "blocked", "pending_approval", "dry_run"}

\* Mutant: the answer's own name is logged.
AuditOutcomeVerbatim(a) == a

\* The audit outcome written before an answer that is audited.
AuditOutcome(a) ==
  CASE a = "success" -> "success"
    [] a = "error" -> "error"
    [] a \in {"read_only", "risk_blocked"} -> "blocked"
    [] a = "approval_required" -> "pending_approval"
    [] a = "simulated" -> "dry_run"

NoRequest == [token |-> NoToken]
CallRequests == [request : Requests, token : Tokens]
IdleRec == [at |-> "idle", cancel |-> {}, retry |-> {}, row |-> NoToken]
RecRows ==
  [at : {"idle", "find", "loop", "replay", "completed", "failed_terminal"},
   cancel : SUBSET Calls, retry : SUBSET Calls, row : Tokens]

PipelineTypeOK ==
  /\ StoreTypeOK
  /\ mode \in [Servers -> Modes]
  /\ pc \in [Calls -> CallStates]
  /\ req \in [Calls -> CallRequests \cup {NoRequest}]
  /\ grant \in [Calls -> Tokens]
  /\ answer \in [Calls -> Answers]
  /\ audit \in [Calls -> SUBSET AuditOutcomes]
  /\ stripe \in [Keys -> SUBSET Payloads]
  /\ sent \in [Keys -> SUBSET Payloads]
  /\ rec \in [Reconcilers -> RecRows]
  /\ faults \in 0..MaxFaults

Init ==
  /\ InitStore
  /\ mode \in [Servers -> Modes]
  /\ pc = [c \in Calls |-> "idle"]
  /\ req = [c \in Calls |-> NoRequest]
  /\ grant = [c \in Calls |-> NoToken]
  /\ answer = [c \in Calls |-> "none"]
  /\ audit = [c \in Calls |-> {}]
  /\ stripe = [k \in Keys |-> {}]
  /\ sent = [k \in Keys |-> {}]
  /\ rec = [r \in Reconcilers |-> IdleRec]
  /\ faults = 0

Key(c) == req[c].request.key
Body(c) == req[c].request.body

Goto(c, state) == pc' = [pc EXCEPT ![c] = state]

\* Answer without an audit entry, or through the audit log first.
Return(c, a) == Goto(c, "answered") /\ answer' = [answer EXCEPT ![c] = a]
AuditAndReturn(c, a) == Goto(c, "audit") /\ answer' = [answer EXCEPT ![c] = a]

----------------------------------------------------------------------------
\* An agent calls a mutating tool with an idempotency key and maybe a token.
Submit(c) ==
  /\ pc[c] = "idle"
  /\ \E r \in CallRequests : req' = [req EXCEPT ![c] = r]
  /\ IF mode[c] = "read_only" THEN AuditAndReturn(c, "read_only")
     ELSE Goto(c, "received") /\ UNCHANGED answer
  /\ UNCHANGED <<storeVars, mode, grant, audit, stripeVars, rec, faults>>

PresentsToken(c) == req[c].token # NoToken /\ Body(c) \in ApprovalEligible

SkipTokenGate(c) ==
  /\ pc[c] = "received"
  /\ ~PresentsToken(c)
  /\ Goto(c, "risk")
  /\ UNCHANGED <<storeVars, mode, req, grant, answer, audit, stripeVars, rec, faults>>

\* getApproval and the checks on what it returned.
CheckToken(c) ==
  LET row == GetApproval(req[c].token) IN
  /\ pc[c] = "received"
  /\ PresentsToken(c)
  /\ ExpireStaleApprovals
  /\ \/ row.status = "absent" /\ Return(c, "invalid_approval_token") /\ UNCHANGED grant
     \/ /\ row.status \notin {"absent", "approved"}
        /\ Return(c, "token_not_approved")
        /\ UNCHANGED grant
     \/ /\ row.status = "approved"
        /\ ToolOf[row.hash.body] # ToolOf[Body(c)]
        /\ Return(c, "approval_mismatch")
        /\ UNCHANGED grant
     \/ /\ row.status = "approved"
        /\ ToolOf[row.hash.body] = ToolOf[Body(c)]
        /\ grant' = [grant EXCEPT ![c] = req[c].token]
        /\ Goto(c, "risk")
        /\ UNCHANGED answer
  /\ UNCHANGED <<executions, begun, mode, req, audit, stripeVars, rec, faults>>

\* scoreRisk runs for risk-scored tools that are not pre-approved.  Its score
\* depends on Stripe and on the audit log, so any outcome may come; it throws
\* on a transient Stripe error, and then the call fails closed.
RiskOutcomes(c) ==
  IF Body(c) \in RiskScored /\ grant[c] = NoToken
  THEN {"allow", "flag", "block", "failure"}
  ELSE {"unscored"}

\* Mutant: only the risk engine asks for approvals.
RequiresApprovalOnFlag(c, risk) ==
  grant[c] = NoToken /\ risk = "flag" /\ Body(c) \in ApprovalEligible

RequiresApproval(c, risk) ==
  /\ grant[c] = NoToken
  /\ Body(c) \in AlwaysGated \/ (risk = "flag" /\ Body(c) \in ApprovalEligible)

\* Mutant: STRIPE_DRY_RUN is not looked at.
ScoreRiskNoDryRun(c) ==
  /\ pc[c] = "risk"
  /\ \E risk \in RiskOutcomes(c) :
       \/ risk = "failure" /\ AuditAndReturn(c, "error")
       \/ risk = "block" /\ AuditAndReturn(c, "risk_blocked")
       \/ /\ risk \notin {"failure", "block"}
          /\ Goto(c, IF RequiresApproval(c, risk) THEN "approve" ELSE "begin")
          /\ UNCHANGED answer
  /\ UNCHANGED <<storeVars, mode, req, grant, audit, stripeVars, rec, faults>>

ScoreRisk(c) ==
  /\ pc[c] = "risk"
  /\ \E risk \in RiskOutcomes(c) :
       \/ risk = "failure" /\ AuditAndReturn(c, "error")
       \/ risk = "block" /\ AuditAndReturn(c, "risk_blocked")
       \/ /\ risk \notin {"failure", "block"}
          /\ mode[c] = "dry_run"
          /\ AuditAndReturn(c, "simulated")
       \/ /\ risk \notin {"failure", "block"}
          /\ mode[c] = "live"
          /\ Goto(c, IF RequiresApproval(c, risk) THEN "approve" ELSE "begin")
          /\ UNCHANGED answer
  /\ UNCHANGED <<storeVars, mode, req, grant, audit, stripeVars, rec, faults>>

RequestApproval(c) ==
  /\ pc[c] = "approve"
  /\ CreateApproval(c, req[c].request)
  /\ AuditAndReturn(c, "approval_required")
  /\ UNCHANGED <<executions, begun, mode, req, grant, audit, stripeVars, rec, faults>>

----------------------------------------------------------------------------
\* beginExecution: the lookup, then the transaction.
LookupFree(c) ==
  /\ pc[c] = "begin"
  /\ BeginLookup(c, req[c].request, grant[c])
  /\ Goto(c, "transaction")
  /\ UNCHANGED <<mode, req, grant, answer, audit, stripeVars, rec, faults>>

LookupConflict(c) ==
  /\ pc[c] = "begin"
  /\ \E e \in RowsWith(Key(c)) : Return(c, Conflict(e, req[c].request))
  /\ UNCHANGED <<storeVars, mode, req, grant, audit, stripeVars, rec, faults>>

Refuse(c) ==
  /\ pc[c] = "transaction"
  /\ BeginRefused(c)
  /\ Return(c, TokenVerdict(c))
  /\ UNCHANGED <<mode, req, grant, audit, stripeVars, rec, faults>>

\* Mutant: the loser of the race on the UNIQUE index executes as well.
LoseRaceProceeds(c) ==
  /\ pc[c] = "transaction"
  /\ BeginDuplicate(c)
  /\ Goto(c, "stripe")
  /\ UNCHANGED <<mode, req, grant, answer, audit, stripeVars, rec, faults>>

LoseRace(c) ==
  /\ pc[c] = "transaction"
  /\ BeginDuplicate(c)
  /\ \E e \in RowsWith(Key(c)) : Return(c, Conflict(e, req[c].request))
  /\ UNCHANGED <<mode, req, grant, audit, stripeVars, rec, faults>>

Begin(c) ==
  /\ pc[c] = "transaction"
  /\ BeginCommit(c)
  /\ Goto(c, "stripe")
  /\ UNCHANGED <<mode, req, grant, answer, audit, stripeVars, rec, faults>>

\* Mutant: the mutation is performed although its row may be missing.
BeginThrowsProceeds(c) ==
  /\ pc[c] = "transaction"
  /\ faults < MaxFaults
  /\ faults' = faults + 1
  /\ BeginCommit(c) \/ BeginRefused(c) \/ BeginAborted(c)
  /\ Goto(c, "stripe")
  /\ UNCHANGED <<mode, req, grant, answer, audit, stripeVars, rec>>

\* The database operation fails for its caller: beginExecution is outside the
\* try block, so the middleware throws, whether the transaction committed
\* (timed out after the fact) or not.
BeginThrows(c) ==
  /\ pc[c] = "transaction"
  /\ faults < MaxFaults
  /\ faults' = faults + 1
  /\ BeginCommit(c) \/ BeginRefused(c) \/ BeginAborted(c)
  /\ Return(c, "thrown")
  /\ UNCHANGED <<mode, req, grant, audit, stripeVars, rec>>

\* The same of the operations before the transaction.
StepThrows(c) ==
  /\ faults < MaxFaults
  /\ faults' = faults + 1
  /\ \/ /\ pc[c] = "received" /\ PresentsToken(c)
        /\ ExpireStaleApprovals \/ UNCHANGED approvals
     \/ /\ pc[c] = "approve"
        /\ CreateApproval(c, req[c].request) \/ UNCHANGED approvals
     \/ pc[c] = "begin" /\ UNCHANGED approvals
  /\ Return(c, "thrown")
  /\ UNCHANGED <<executions, begun, mode, req, grant, audit, stripeVars, rec>>

----------------------------------------------------------------------------
\* Stripe keeps one payload per idempotency key and answers a repetition of
\* it from its cache.  The answer "ok" says that it did; "terminal" is one of
\* the errors isStripeTerminalError names (the key may have been revoked, so
\* it says nothing of an earlier attempt); "unknown" is everything else,
\* among it a lost answer and the refusal of another payload under the key.
\* Stripe forgets a key after a day or more; it is kept here, which assumes that
\* RECONCILIATION_MAX_AGE_HOURS, 24 unless configured, is no longer than that.
StripeRequest(key, payload, outcome) ==
  LET done == stripe[key]
      fresh == done = {}
  IN
  /\ sent' = [sent EXCEPT ![key] = @ \cup {payload}]
  /\ \/ /\ fresh
        /\ outcome \in {"ok", "unknown"}
        /\ stripe' = [stripe EXCEPT ![key] = {payload}]
     \/ done = {payload} /\ outcome = "ok" /\ UNCHANGED stripe
     \/ outcome \in {"terminal", "unknown"} /\ UNCHANGED stripe

\* Mutant: an answer that was lost is taken for a success.
CallStripeOptimistic(c) ==
  /\ pc[c] = "stripe"
  /\ \/ \E outcome \in {"ok", "unknown"} :
          /\ StripeRequest(Key(c), Payload(Body(c)), outcome)
          /\ Goto(c, "settle_completed")
     \/ StripeRequest(Key(c), Payload(Body(c)), "terminal") /\ Goto(c, "settle_failed")
  /\ UNCHANGED <<storeVars, mode, req, grant, answer, audit, rec, faults>>

\* operation({ idempotencyKey }); where control goes depends on its outcome.
CallStripe(c) ==
  /\ pc[c] = "stripe"
  /\ \/ StripeRequest(Key(c), Payload(Body(c)), "ok") /\ Goto(c, "settle_completed")
     \/ StripeRequest(Key(c), Payload(Body(c)), "terminal") /\ Goto(c, "settle_failed")
     \/ StripeRequest(Key(c), Payload(Body(c)), "unknown") /\ Goto(c, "settle_unknown")
  /\ UNCHANGED <<storeVars, mode, req, grant, answer, audit, rec, faults>>

\* Mutant: an unknown outcome is stored as a completion.
SettledStatusOptimistic(state) ==
  IF state = "settle_failed" THEN "failed_terminal" ELSE "completed"

SettledStatus(state) ==
  CASE state = "settle_completed" -> "completed"
    [] state = "settle_failed" -> "failed_terminal"
    [] state = "settle_unknown" -> "unknown_outcome"

Settle(c) ==
  /\ pc[c] \in {"settle_completed", "settle_failed", "settle_unknown"}
  /\ UpdateExecutionStatus(c, SettledStatus(pc[c]))
  /\ AuditAndReturn(c, IF pc[c] = "settle_completed" THEN "success" ELSE "error")
  /\ UNCHANGED <<mode, req, grant, audit, stripeVars, rec, faults>>

\* The status update fails for its caller, applied or not.  After a success
\* the catch block takes the database error for an unknown outcome; inside
\* the catch block the error leaves the middleware.
SettleFails(c) ==
  /\ pc[c] \in {"settle_completed", "settle_failed", "settle_unknown"}
  /\ faults < MaxFaults
  /\ faults' = faults + 1
  /\ \/ UpdateExecutionStatus(c, SettledStatus(pc[c]))
     \/ UNCHANGED storeVars
  /\ IF pc[c] = "settle_completed"
     THEN Goto(c, "settle_unknown") /\ UNCHANGED answer
     ELSE Return(c, "thrown")
  /\ UNCHANGED <<mode, req, grant, audit, stripeVars, rec>>

\* writeAuditEntry never throws: the entry reaches the database or the
\* fallback file, or both fail and it is lost; then the answer goes out.
WriteAudit(c) ==
  /\ pc[c] = "audit"
  /\ \/ /\ audit' = [audit EXCEPT ![c] = @ \cup {AuditOutcome(answer[c])}]
        /\ UNCHANGED faults
     \/ /\ faults < MaxFaults
        /\ faults' = faults + 1
        /\ UNCHANGED audit
  /\ Goto(c, "answered")
  /\ UNCHANGED <<storeVars, mode, req, grant, answer, stripeVars, rec>>

\* The server process of a call dies.
Crash(c) ==
  /\ pc[c] \notin {"idle", "answered", "crashed"}
  /\ Goto(c, "crashed")
  /\ begun' = [begun EXCEPT ![c] = NoBegin]
  /\ UNCHANGED <<approvals, executions, mode, req, grant, answer, audit,
                 stripeVars, rec, faults>>

----------------------------------------------------------------------------
\* runReconciliationCycle, one process per reconciler.  The decisions of a
\* cycle rest on the rows and the time read by FindUnknown; the rows are
\* then worked off one by one, without reading them again.
Sweep(r) ==
  /\ rec[r].at = "idle"
  /\ SweepStaleExecutions
  /\ rec' = [rec EXCEPT ![r].at = "find"]
  /\ UNCHANGED <<callVars, stripeVars, faults>>

\* Mutant: RECONCILIATION_MAX_AGE_HOURS is not looked at.
TooOldNever(row) == FALSE

TooOld(row) == row.age > MaxAgeTicks
RetryDue(row) == row.attempted => row.idle >= RetryTicks

FindUnknown(r) ==
  LET found == FindUnknownOutcomes
      old == {e \in found : TooOld(executions[e])}
      due == {e \in found \ old : RetryDue(executions[e])}
  IN
  /\ rec[r].at = "find"
  /\ rec' = [rec EXCEPT ![r] =
       [at |-> "loop", cancel |-> old, retry |-> due, row |-> NoToken]]
  /\ UNCHANGED <<storeVars, callVars, stripeVars, faults>>

CancelRow(r) ==
  /\ rec[r].at = "loop"
  /\ \E e \in rec[r].cancel :
       /\ UpdateExecutionStatus(e, "cancelled")
       /\ rec' = [rec EXCEPT ![r].cancel = @ \ {e}]
  /\ UNCHANGED <<callVars, stripeVars, faults>>

\* Mutant: an attempt marks the row as executing again.
AttemptRowReopens(r) ==
  /\ rec[r].at = "loop"
  /\ \E e \in rec[r].retry :
       /\ UpdateExecutionStatus(e, "executing")
       /\ rec' = [rec EXCEPT ![r].retry = @ \ {e}, ![r].at = "replay", ![r].row = e]
  /\ UNCHANGED <<callVars, stripeVars, faults>>

\* canReplayExecution refuses purges after the attempt is recorded.
AttemptRow(r) ==
  /\ rec[r].at = "loop"
  /\ \E e \in rec[r].retry :
       /\ RecordReconcileAttempt(e)
       /\ rec' = [rec EXCEPT
            ![r].retry = @ \ {e},
            ![r].at = IF executions[e].hash.body \in PurgeBodies THEN "loop" ELSE "replay",
            ![r].row = IF executions[e].hash.body \in PurgeBodies THEN NoToken ELSE e]
  /\ UNCHANGED <<callVars, stripeVars, faults>>

\* A database failure costs the row its turn: the catch goes to the next one.
SkipRow(r) ==
  /\ rec[r].at = "loop"
  /\ faults < MaxFaults
  /\ faults' = faults + 1
  /\ \E e \in rec[r].cancel \cup rec[r].retry :
       /\ \/ UNCHANGED storeVars
          \/ e \in rec[r].cancel /\ UpdateExecutionStatus(e, "cancelled")
          \/ e \in rec[r].retry /\ RecordReconcileAttempt(e)
       /\ rec' = [rec EXCEPT ![r].cancel = @ \ {e}, ![r].retry = @ \ {e}]
  /\ UNCHANGED <<callVars, stripeVars>>

\* replayStripeMutation.  The replay of a rewritten body reads the customer
\* first and reports success without a request when it is already deleted.
Replay(r) ==
  LET hash == executions[rec[r].row].hash
      payload == ReplayPayload(hash.body)
  IN
  /\ rec[r].at = "replay"
  /\ \/ /\ StripeRequest(hash.key, payload, "ok")
        /\ rec' = [rec EXCEPT ![r].at = "completed"]
     \/ /\ StripeRequest(hash.key, payload, "terminal")
        /\ rec' = [rec EXCEPT ![r].at = "failed_terminal"]
     \/ /\ StripeRequest(hash.key, payload, "unknown")
        /\ rec' = [rec EXCEPT ![r].at = "loop", ![r].row = NoToken]
     \/ /\ hash.body \in Rewritten
        /\ rec' = [rec EXCEPT ![r].at = "completed"]
        /\ UNCHANGED stripeVars
  /\ UNCHANGED <<storeVars, callVars, faults>>

SettleReplay(r) ==
  /\ rec[r].at \in {"completed", "failed_terminal"}
  /\ UpdateExecutionStatus(rec[r].row, rec[r].at)
  /\ rec' = [rec EXCEPT ![r].at = "loop", ![r].row = NoToken]
  /\ UNCHANGED <<callVars, stripeVars, faults>>

SettleReplayFails(r) ==
  /\ rec[r].at \in {"completed", "failed_terminal"}
  /\ faults < MaxFaults
  /\ faults' = faults + 1
  /\ UNCHANGED storeVars \/ UpdateExecutionStatus(rec[r].row, rec[r].at)
  /\ rec' = [rec EXCEPT ![r].at = "loop", ![r].row = NoToken]
  /\ UNCHANGED <<callVars, stripeVars>>

EndCycle(r) ==
  /\ rec[r].at = "loop"
  /\ rec[r].cancel = {} /\ rec[r].retry = {}
  /\ rec' = [rec EXCEPT ![r] = IdleRec]
  /\ UNCHANGED <<storeVars, callVars, stripeVars, faults>>

\* The reconciler's process dies and is started again; or the sweep or the
\* search fails and ends the cycle.
RecCrash(r) ==
  /\ rec[r].at # "idle"
  /\ faults < MaxFaults
  /\ faults' = faults + 1
  /\ rec' = [rec EXCEPT ![r] = IdleRec]
  /\ UNCHANGED <<storeVars, callVars, stripeVars>>

----------------------------------------------------------------------------
\* The approval server: an authenticated human approves or rejects, or looks.
ApprovalServer ==
  /\ \/ \E t \in Calls : ApproveToken(t) \/ RejectToken(t)
     \/ ExpireStaleApprovals
  /\ approvals' # approvals
  /\ UNCHANGED <<executions, begun, callVars, stripeVars, rec, faults>>

Tick ==
  /\ StoreTick
  /\ storeVars' # storeVars
  /\ UNCHANGED <<callVars, stripeVars, rec, faults>>

CallStep(c) ==
  \/ Submit(c) \/ SkipTokenGate(c) \/ CheckToken(c) \/ ScoreRisk(c)
  \/ RequestApproval(c) \/ LookupFree(c) \/ LookupConflict(c) \/ Refuse(c)
  \/ LoseRace(c) \/ Begin(c) \/ BeginThrows(c) \/ StepThrows(c)
  \/ CallStripe(c) \/ Settle(c) \/ SettleFails(c) \/ WriteAudit(c) \/ Crash(c)

\* What a reconciler does of its own accord, and what befalls it.
RecWork(r) ==
  \/ Sweep(r) \/ FindUnknown(r) \/ CancelRow(r) \/ AttemptRow(r)
  \/ Replay(r) \/ SettleReplay(r) \/ EndCycle(r)
RecFault(r) == SkipRow(r) \/ SettleReplayFails(r) \/ RecCrash(r)

Next ==
  \/ \E c \in Calls : CallStep(c)
  \/ \E r \in Reconcilers : RecWork(r) \/ RecFault(r)
  \/ ApprovalServer
  \/ Tick

Spec == Init /\ [][Next]_vars

\* Time passes and the reconciliation timer is re-armed after every cycle
\* (reconciliation/scheduler.ts).  Nothing is assumed of agents, humans,
\* Stripe or the processes that run the calls.
FairSpec ==
  /\ Spec
  /\ WF_vars(Tick)
  /\ \A r \in Reconcilers : WF_vars(RecWork(r))

----------------------------------------------------------------------------
\* Whatever reaches Stripe, from the pipeline or from a replay, is the body
\* some execution row claims under that key.
OnlyClaimsReachStripe ==
  \A k \in Keys : \A p \in sent[k] :
    \E e \in RowsWith(k) : executions[e].hash.body = p.body

\* A body that always needs approval takes effect only if a human approved a
\* token for exactly this body and key, and that token is spent
\* (shouldRequireApproval, getApproval, beginExecution and the replay).
GatedEffectApproved ==
  \A k \in Keys : \A p \in stripe[k] : p.body \in AlwaysGated =>
    \E t \in Calls :
      /\ approvals[t].status = "consumed"
      /\ approvals[t].decided
      /\ approvals[t].hash = RequestHash(k, p.body)

\* At most one call at a time is past beginExecution with a given key, and it
\* is the one whose row holds the key.
Executing(c) ==
  pc[c] \in {"stripe", "settle_completed", "settle_failed", "settle_unknown"}
SingleExecutor ==
  \A c \in Calls : Executing(c) =>
    RowsWith(Key(c)) = {c} /\ executions[c].hash = req[c].request

\* Whoever is told of a success, the agent by its answer or an auditor by the
\* log, can rely on it: Stripe performed exactly the body that was asked for
\* (the order of operation, updateExecutionStatus and writeAuditEntry).
SuccessIsReal ==
  \A c \in Calls : answer[c] = "success" \/ "success" \in audit[c] =>
    Payload(Body(c)) \in stripe[Key(c)]

\* A call that is refused has claimed nothing and spent nothing: neither a row
\* nor a token is left behind by a policy error.
Refusals == Answers \ {"none", "success", "error", "thrown"}
RefusalLeavesNoTrace ==
  \A c \in Calls : answer[c] \in Refusals =>
    /\ ~Exists(c)
    /\ \A t \in Calls : approvals[t].status = "consumed" =>
         \E e \in Calls \ {c} : Exists(e) /\ executions[e].token = t

\* A completed row took effect at Stripe, whoever completed it, the pipeline
\* or the reconciler, unless its replay may succeed without a request.
CompletedTookEffect ==
  \A e \in Calls :
    /\ Exists(e) /\ executions[e].status = "completed"
    /\ executions[e].hash.body \notin Rewritten
    => stripe[executions[e].hash.key] # {}

\* A call to a server under STRIPE_READ_ONLY or STRIPE_DRY_RUN claims nothing,
\* mints nothing and costs nothing, also if it presents a token that a human
\* has approved: a token is spent, and a request reaches Stripe, only for the
\* row of a call to a live server (validateReadOnly and the dry-run branch of
\* executeStripeOperation, next to live servers on the same database).
OnlyLiveCallsAct ==
  /\ \A c \in Calls : mode[c] # "live" =>
       ~Exists(c) /\ approvals[c].status = "absent"
  /\ \A t \in Calls : approvals[t].status = "consumed" =>
       \E c \in Calls : mode[c] = "live" /\ Exists(c) /\ executions[c].token = t
  /\ \A k \in Keys : \A p \in sent[k] :
       \E c \in RowsWith(k) : mode[c] = "live" /\ executions[c].hash.body = p.body

----------------------------------------------------------------------------
\* The inductive invariant behind the properties above.  A call's place in the
\* pipeline says what it holds in the store and at Stripe.
Gated(c) == Body(c) \in AlwaysGated => grant[c] # NoToken

\* A call is in the transaction exactly while the store holds its begin.
BeginInv(c) ==
  /\ Begun(c) <=> pc[c] = "transaction"
  /\ Begun(c) => begun[c].hash = req[c].request /\ begun[c].token = grant[c]
  /\ pc[c] \in {"begin", "transaction"} => Gated(c)

\* Only a call past its transaction has a row, and the row is its request's.
RowInv(c) ==
  /\ Executing(c) => Exists(c)
  /\ Exists(c) =>
       /\ Executing(c) \/ pc[c] \in {"audit", "answered", "crashed"}
       /\ executions[c].hash = req[c].request
       /\ executions[c].token = grant[c]
       /\ Gated(c)

\* What a call returns and logs fits what it has done.
AnswerInv(c) ==
  /\ pc[c] \notin {"answered", "crashed"} => audit[c] = {}
  /\ pc[c] \notin {"audit", "answered", "crashed"} => answer[c] = "none"
  /\ pc[c] = "audit" =>
       answer[c] \in {"success", "error", "read_only", "risk_blocked",
                      "approval_required", "simulated"}
  /\ answer[c] \in Refusals => ~Exists(c)
  /\ pc[c] = "settle_completed" \/ answer[c] = "success" \/ "success" \in audit[c] =>
       Payload(Body(c)) \in stripe[Key(c)]

CallInv(c) ==
  /\ pc[c] # "idle" => req[c] \in CallRequests
  /\ BeginInv(c)
  /\ RowInv(c)
  /\ AnswerInv(c)

\* A reconciler replays a row that is there, and completes one that had an
\* effect.
RecInv(r) ==
  rec[r].at \in {"replay", "completed", "failed_terminal"} =>
    /\ rec[r].row \in Calls
    /\ Exists(rec[r].row)
    /\ rec[r].at = "completed" =>
         LET hash == executions[rec[r].row].hash IN
         hash.body \in Rewritten \/ stripe[hash.key] # {}

\* What took effect was sent.
EffectsWereSent == \A k \in Keys : stripe[k] \subseteq sent[k]

\* A call to a server that is not live gets no further than its answer, and
\* leaves nothing behind.
InertPlaces == {"idle", "received", "risk", "audit", "answered", "crashed"}
InertCalls ==
  \A c \in Calls : mode[c] # "live" =>
    pc[c] \in InertPlaces /\ ~Exists(c) /\ approvals[c].status = "absent"

PipelineInv ==
  /\ PipelineTypeOK
  /\ StoreInv
  /\ \A c \in Calls : CallInv(c)
  /\ \A r \in Reconcilers : RecInv(r)
  /\ EffectsWereSent
  /\ OnlyClaimsReachStripe
  /\ CompletedTookEffect
  /\ InertCalls

----------------------------------------------------------------------------
\* The refinement mapping to what the server promises.
OfferState(status) ==
  CASE status = "pending" -> "open"
    [] status = "approved" -> "granted"
    [] status = "consumed" -> "spent"
    [] status = "expired" -> "void"

Offer(t) ==
  IF approvals[t].status = "absent" THEN [state |-> "none"]
  ELSE [state |-> OfferState(approvals[t].status), request |-> approvals[t].hash]

ClaimOf(c) ==
  IF Exists(c) THEN [claimed |-> TRUE, request |-> executions[c].hash]
  ELSE [claimed |-> FALSE]

EffectsUnder(key) == {p.body : p \in stripe[key]}

Promise == INSTANCE OnceOnly WITH
  offers <- [t \in Calls |-> Offer(t)],
  claims <- [c \in Calls |-> ClaimOf(c)],
  effects <- [k \in Keys |-> EffectsUnder(k)]

\* Every step of the pipeline, the reconciler and the approval server is a
\* step of the promise or none at all.
KeepsPromise == Promise!Spec

\* The pipeline uses the store as the most general client may.
UsesStore == StoreSpec

\* An unknown outcome is not left unknown: the reconciler resolves or, past
\* the maximum age, cancels it, even if Stripe never answers.
UnknownIsResolved ==
  \A e \in Calls :
    (executions[e].status = "unknown_outcome")
      ~> (executions[e].status \in TerminalStatuses)

\* A key is not blocked for ever by a server that died or hangs: an execution
\* that is not a purge leaves "executing".
StaleIsSwept ==
  \A e \in Calls :
    (Exists(e) /\ executions[e].status = "executing"
       /\ executions[e].hash.body \notin PurgeBodies)
      ~> (executions[e].status # "executing")

----------------------------------------------------------------------------
\* Statements of the repository that the code does not keep.

\* README.md: "Every executed operation is durably logged".
ExecutedIsAudited ==
  \A c \in Calls :
    /\ pc[c] \in {"answered", "crashed"}
    /\ Exists(c) /\ executions[c].status = "completed"
    => audit[c] # {}

\* index.ts: "MODE: DRY-RUN (Mutations simulated, no API calls)", "MODE:
\* READ-ONLY (Mutations completely blocked)".  While no live server is at work
\* nothing is sent to Stripe.
AtRest(s) ==
  /\ s \in Calls => pc[s] \in {"idle", "answered", "crashed"}
  /\ s \in Reconcilers => rec[s].at = "idle"
InertUnlessLive ==
  [][(\A s \in Servers : mode[s] = "live" => AtRest(s)) => UNCHANGED sent]_vars

\* replay.ts: reconciliation re-issues "the original Stripe mutation with the
\* same idempotency key".
ReplayIsOriginal ==
  \A k \in Keys : \A p, q \in sent[k] : p = q
=============================================================================
