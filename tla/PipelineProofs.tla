--------------------------- MODULE PipelineProofs ---------------------------
(***************************************************************************)
(* Proofs about the whole pipeline for any number of calls, keys, bodies,  *)
(* reconcilers and faults: that it uses the store as StoreProofs assumes,  *)
(* that PipelineInv is inductive, the safety properties that follow from   *)
(* it, and that the pipeline implements the promise of OnceOnly.           *)
(***************************************************************************)
EXTENDS Pipeline, StoreProofs

USE PipelineAssumption

----------------------------------------------------------------------------
(* What the steps do to the store.                                         *)

\* A status the pipeline or the reconciler writes is one the store accepts.
LEMMA SettledStatuses ==
  ASSUME NEW state \in {"settle_completed", "settle_failed", "settle_unknown"}
  PROVE  SettledStatus(state) \in Statuses \ {"executing"}
BY DEF SettledStatus, Statuses

\* Before its transaction a call touches the approvals only, and no row.
LEMMA EarlyStoreStep ==
  ASSUME PipelineInv, NEW c \in Calls,
         \/ Submit(c) \/ SkipTokenGate(c) \/ CheckToken(c) \/ ScoreRisk(c)
         \/ RequestApproval(c) \/ LookupConflict(c) \/ StepThrows(c)
         \/ CallStripe(c) \/ WriteAudit(c)
  PROVE  /\ ApprovalCall(c) \/ UNCHANGED storeVars
         /\ UNCHANGED <<executions, begun>>
<1>1. pc[c] # "idle" => req[c].request \in Requests
  BY DEF PipelineInv, CallInv, CallRequests
<1>2. CASE Submit(c) \/ SkipTokenGate(c) \/ ScoreRisk(c) \/ LookupConflict(c)
           \/ CallStripe(c) \/ WriteAudit(c)
  BY <1>2 DEF Submit, SkipTokenGate, ScoreRisk, LookupConflict, CallStripe, WriteAudit,
              storeVars
<1>3. CASE CheckToken(c)
  BY <1>3 DEF CheckToken, ApprovalCall
<1>4. CASE RequestApproval(c)
  BY <1>1, <1>4 DEF RequestApproval, ApprovalCall
<1>5. CASE StepThrows(c)
  BY <1>1, <1>5 DEF StepThrows, ApprovalCall, storeVars
<1>6. QED BY <1>2, <1>3, <1>4, <1>5

\* The lookup, the transaction and a death before it commits begin executions.
LEMMA BeginStoreStep ==
  ASSUME PipelineInv, NEW c \in Calls,
         \/ LookupFree(c) \/ Refuse(c) \/ LoseRace(c) \/ Begin(c)
         \/ BeginThrows(c) \/ Crash(c)
  PROVE  BeginCall(c) \/ UNCHANGED storeVars
<1>1. pc[c] # "idle" => req[c].request \in Requests
  BY DEF PipelineInv, CallInv, CallRequests
<1>2. grant[c] \in Tokens /\ begun[c] \in BeginArgs \cup {NoBegin}
  BY DEF PipelineInv, PipelineTypeOK, StoreTypeOK
<1>3. CASE LookupFree(c)
  BY <1>1, <1>2, <1>3 DEF LookupFree, BeginCall
<1>4. CASE Refuse(c) \/ LoseRace(c) \/ Begin(c) \/ BeginThrows(c)
  BY <1>4 DEF Refuse, LoseRace, Begin, BeginThrows, BeginCall
<1>5. CASE Crash(c)
  <2>1. CASE Begun(c)
    BY <1>5, <2>1 DEF Crash, BeginCall, BeginAborted
  <2>2. CASE ~Begun(c)
    <3>1. begun[c] = NoBegin
      BY <1>2, <2>2 DEF Begun, BeginArgs
    <3>2. begun' = begun
      BY <1>5, <3>1 DEF Crash, PipelineInv, PipelineTypeOK, StoreTypeOK
    <3>3. QED BY <1>5, <3>2 DEF Crash, storeVars
  <2>3. QED BY <2>1, <2>2
<1>6. QED BY <1>3, <1>4, <1>5

\* Settling updates the call's row.
LEMMA SettleStoreStep ==
  ASSUME NEW c \in Calls, Settle(c) \/ SettleFails(c)
  PROVE  \/ UpdateExecutionStatus(c, SettledStatus(pc[c])) /\ UpdateCall(c)
         \/ UNCHANGED storeVars
BY SettledStatuses DEF Settle, SettleFails, UpdateCall

\* A reconciler sweeps, or updates a row.
LEMMA RecStoreStep ==
  ASSUME PipelineInv, NEW r \in Reconcilers, RecWork(r) \/ RecFault(r)
  PROVE  /\ \/ \E e \in Calls : UpdateCall(e)
            \/ SweepStaleExecutions
            \/ UNCHANGED storeVars
         /\ UNCHANGED <<approvals, begun>>
<1>1. /\ rec[r].cancel \subseteq Calls
      /\ rec[r].retry \subseteq Calls
      /\ rec[r].at \in {"completed", "failed_terminal"} => rec[r].row \in Calls
  BY DEF PipelineInv, PipelineTypeOK, RecRows, RecInv
<1>2. \A e : UpdateExecutionStatus(e, "cancelled") => UpdateCall(e)
  BY DEF UpdateCall, Statuses
<1>3. \A e : RecordReconcileAttempt(e) => UpdateCall(e)
  BY DEF UpdateCall
<1>4. \A e : UpdateCall(e) => UNCHANGED <<approvals, begun>>
  BY DEF UpdateCall, UpdateExecutionStatus, RecordReconcileAttempt
<1>5. CASE Sweep(r)
  BY <1>5 DEF Sweep, SweepStaleExecutions
<1>6. CASE FindUnknown(r) \/ Replay(r) \/ EndCycle(r) \/ RecCrash(r)
  BY <1>6 DEF FindUnknown, Replay, EndCycle, RecCrash, storeVars
<1>7. CASE CancelRow(r) \/ AttemptRow(r) \/ SkipRow(r)
  BY <1>1, <1>2, <1>3, <1>4, <1>7 DEF CancelRow, AttemptRow, SkipRow, storeVars
<1>8. CASE SettleReplay(r) \/ SettleReplayFails(r)
  <2>1. \/ UNCHANGED storeVars
        \/ UpdateExecutionStatus(rec[r].row, rec[r].at)
    BY <1>8 DEF SettleReplay, SettleReplayFails
  <2>2. rec[r].row \in Calls /\ rec[r].at \in Statuses \ {"executing"}
    BY <1>1, <1>8 DEF SettleReplay, SettleReplayFails, Statuses
  <2>3. QED BY <1>4, <2>1, <2>2 DEF UpdateCall, storeVars
<1>9. QED BY <1>5, <1>6, <1>7, <1>8 DEF RecWork, RecFault

\* Deciding, or looking, at the approval server is a call of the store.
LEMMA ApprovalServerStoreStep ==
  ASSUME PipelineInv, ApprovalServer
  PROVE  \E t \in Calls : ApprovalCall(t)
<1>1. CASE \E t \in Calls : ApproveToken(t) \/ RejectToken(t)
  BY <1>1 DEF ApprovalServer, ApprovalCall
<1>2. CASE ExpireStaleApprovals
  <2>1. \E t \in Calls : TRUE
    <3>1. approvals = [t \in Calls |-> approvals[t]]
      BY DEF PipelineInv, PipelineTypeOK, StoreTypeOK, ApprovalsTypeOK
    <3>2. Expired(approvals) # approvals
      BY <1>2 DEF ApprovalServer, ExpireStaleApprovals
    <3>3. QED BY <3>1, <3>2 DEF Expired
  <2>2. QED BY <1>2, <2>1 DEF ApprovalServer, ApprovalCall
<1>3. QED BY <1>1, <1>2 DEF ApprovalServer

\* The pipeline, the reconcilers, the approval server and the clock use the
\* store as its most general client may.
LEMMA StepUsesStore ==
  ASSUME PipelineInv, [Next]_vars
  PROVE  [StoreNext]_storeVars
<1>1. ASSUME NEW c \in Calls, CallStep(c) PROVE [StoreNext]_storeVars
  BY <1>1, EarlyStoreStep, BeginStoreStep, SettleStoreStep DEF CallStep, StoreNext
<1>2. ASSUME NEW r \in Reconcilers, RecWork(r) \/ RecFault(r)
      PROVE  [StoreNext]_storeVars
  BY <1>2, RecStoreStep DEF StoreNext
<1>3. CASE ApprovalServer
  BY <1>3, ApprovalServerStoreStep DEF StoreNext
<1>4. CASE Tick
  BY <1>4 DEF Tick, StoreNext
<1>5. CASE UNCHANGED vars
  BY <1>5 DEF vars, storeVars
<1>6. QED BY <1>1, <1>2, <1>3, <1>4, <1>5 DEF Next

\* So the store's own invariant holds after every step, and no step takes a
\* claim back.
LEMMA StepKeepsStore ==
  ASSUME PipelineInv, [Next]_vars
  PROVE  StoreInv' /\ ClaimsStand
<1>1. StoreInv
  BY DEF PipelineInv
<1>2. QED BY <1>1, StepUsesStore, StoreInvInductive, ClaimsStay

----------------------------------------------------------------------------
(* What the steps do to Stripe, and who else is affected.                  *)

Keyed(c) == pc[c] # "idle" => Key(c) \in Keys /\ Body(c) \in Bodies

\* A call that has been submitted has an idempotency key and a body.
LEMMA RequestsAreKeyed ==
  ASSUME PipelineInv, NEW c \in Calls
  PROVE  Keyed(c)
BY DEF PipelineInv, CallInv, CallRequests, Requests, Keyed, Key, Body

\* A request adds its payload to what was sent, and takes effect only under a
\* key that had no effect before.
LEMMA StripeRequestEffect ==
  ASSUME NEW key \in Keys, NEW payload \in Payloads, NEW outcome,
         stripe \in [Keys -> SUBSET Payloads], sent \in [Keys -> SUBSET Payloads],
         StripeRequest(key, payload, outcome)
  PROVE  /\ stripe' \in [Keys -> SUBSET Payloads]
         /\ sent' \in [Keys -> SUBSET Payloads]
         /\ \A k \in Keys : stripe[k] \subseteq stripe'[k]
         /\ \A k \in Keys : stripe'[k] # stripe[k] => k = key /\ stripe[k] = {}
                                                      /\ stripe'[k] = {payload}
         /\ sent'[key] = sent[key] \cup {payload}
         /\ \A k \in Keys \ {key} : sent'[k] = sent[k]
         /\ outcome = "ok" => payload \in stripe'[key]
BY DEF StripeRequest

\* A replay's payload is of the row's body.
LEMMA ReplayPayloadType ==
  ASSUME NEW body \in Bodies
  PROVE  ReplayPayload(body) \in Payloads /\ ReplayPayload(body).body = body
<1>1. CASE body \in Rewritten
  BY <1>1 DEF ReplayPayload, Payloads
<1>2. CASE body \notin Rewritten
  BY <1>2 DEF ReplayPayload, Payloads
<1>3. QED BY <1>1, <1>2

\* A request for what an execution row claims, by its call or by a reconciler.
SendsFor(e, payload, outcome) ==
  /\ Exists(e)
  /\ executions[e].hash.body = payload.body
  /\ executions[e].hash.key \in Keys
  /\ StripeRequest(executions[e].hash.key, payload, outcome)
  /\ UNCHANGED storeVars

\* Only such requests reach Stripe.
LEMMA WhoSends ==
  ASSUME PipelineInv, [Next]_vars
  PROVE  \/ UNCHANGED stripeVars
         \/ \E e \in Calls, payload \in Payloads, outcome \in {"ok", "terminal", "unknown"} :
              SendsFor(e, payload, outcome)
<1>1. ASSUME NEW c \in Calls, CallStripe(c)
      PROVE  \E e \in Calls, payload \in Payloads, outcome \in {"ok", "terminal", "unknown"} :
               SendsFor(e, payload, outcome)
  <2>1. pc[c] = "stripe" /\ UNCHANGED storeVars
    BY <1>1 DEF CallStripe
  <2>2. Exists(c) /\ executions[c].hash = req[c].request
    BY <2>1 DEF PipelineInv, CallInv, RowInv, Executing
  <2>3. Key(c) \in Keys /\ Body(c) \in Bodies
    BY <2>1, RequestsAreKeyed DEF Keyed
  <2>4. PICK outcome \in {"ok", "terminal", "unknown"} :
          StripeRequest(Key(c), Payload(Body(c)), outcome)
    BY <1>1 DEF CallStripe
  <2>5. Payload(Body(c)) \in Payloads /\ Payload(Body(c)).body = Body(c)
    BY <2>3 DEF Payload, Payloads
  <2>6. SendsFor(c, Payload(Body(c)), outcome)
    BY <2>1, <2>2, <2>3, <2>4, <2>5 DEF SendsFor, Key, Body
  <2>7. QED BY <2>5, <2>6
<1>2. ASSUME NEW r \in Reconcilers, Replay(r), ~UNCHANGED stripeVars
      PROVE  \E e \in Calls, payload \in Payloads, outcome \in {"ok", "terminal", "unknown"} :
               SendsFor(e, payload, outcome)
  <2> DEFINE hash == executions[rec[r].row].hash
  <2>1. rec[r].row \in Calls /\ Exists(rec[r].row) /\ UNCHANGED storeVars
    BY <1>2 DEF Replay, PipelineInv, RecInv
  <2>2. hash \in Requests
    BY <2>1 DEF PipelineInv, StoreInv, StoreTypeOK, ExecutionRows, NoExecution, Exists
  <2>3. PICK outcome \in {"ok", "terminal", "unknown"} :
          StripeRequest(hash.key, ReplayPayload(hash.body), outcome)
    BY <1>2 DEF Replay
  <2>4. /\ ReplayPayload(hash.body) \in Payloads
        /\ ReplayPayload(hash.body).body = hash.body
        /\ hash.key \in Keys
    BY <2>2, ReplayPayloadType DEF Requests
  <2>5. SendsFor(rec[r].row, ReplayPayload(hash.body), outcome)
    BY <2>1, <2>3, <2>4 DEF SendsFor
  <2>6. QED BY <2>1, <2>4, <2>5
<1>3. ASSUME NEW c \in Calls, CallStep(c), ~CallStripe(c) PROVE UNCHANGED stripeVars
  BY <1>3 DEF CallStep, Submit, SkipTokenGate, CheckToken, ScoreRisk, RequestApproval,
              LookupFree, LookupConflict, Refuse, LoseRace, Begin, BeginThrows, StepThrows,
              Settle, SettleFails, WriteAudit, Crash
<1>4. ASSUME NEW r \in Reconcilers, RecWork(r) \/ RecFault(r), ~Replay(r)
      PROVE  UNCHANGED stripeVars
  BY <1>4 DEF RecWork, RecFault, Sweep, FindUnknown, CancelRow, AttemptRow, SettleReplay,
              EndCycle, SkipRow, SettleReplayFails, RecCrash
<1>5. CASE ApprovalServer \/ Tick \/ UNCHANGED vars
  BY <1>5 DEF ApprovalServer, Tick, vars
<1>6. QED BY <1>1, <1>2, <1>3, <1>4, <1>5 DEF Next

\* Nothing that took effect or was sent is ever taken back, and everything new
\* is the body of a row that is there.
LEMMA StripeGrows ==
  ASSUME PipelineInv, [Next]_vars
  PROVE  /\ stripe' \in [Keys -> SUBSET Payloads]
         /\ sent' \in [Keys -> SUBSET Payloads]
         /\ \A k \in Keys : stripe[k] \subseteq stripe'[k]
         /\ \A k \in Keys : stripe'[k] \ stripe[k] \subseteq sent'[k]
         /\ \A k \in Keys : sent[k] \subseteq sent'[k]
         /\ \A k \in Keys : \A p \in sent'[k] \ sent[k] :
              \E e \in RowsWith(k) : executions[e].hash.body = p.body
<1>1. stripe \in [Keys -> SUBSET Payloads] /\ sent \in [Keys -> SUBSET Payloads]
  BY DEF PipelineInv, PipelineTypeOK
<1>2. CASE UNCHANGED stripeVars
  BY <1>1, <1>2 DEF stripeVars
<1>3. ASSUME NEW e \in Calls, NEW payload \in Payloads, NEW outcome,
             SendsFor(e, payload, outcome)
      PROVE  /\ stripe' \in [Keys -> SUBSET Payloads]
             /\ sent' \in [Keys -> SUBSET Payloads]
             /\ \A k \in Keys : stripe[k] \subseteq stripe'[k]
             /\ \A k \in Keys : stripe'[k] \ stripe[k] \subseteq sent'[k]
             /\ \A k \in Keys : sent[k] \subseteq sent'[k]
             /\ \A k \in Keys : \A p \in sent'[k] \ sent[k] :
                  \E f \in RowsWith(k) : executions[f].hash.body = p.body
  <2> DEFINE key == executions[e].hash.key
  <2>1. e \in RowsWith(key)
    BY <1>3 DEF SendsFor, RowsWith
  <2> HIDE DEF key
  <2>2. /\ stripe' \in [Keys -> SUBSET Payloads]
        /\ sent' \in [Keys -> SUBSET Payloads]
        /\ \A k \in Keys : stripe[k] \subseteq stripe'[k]
        /\ \A k \in Keys : stripe'[k] # stripe[k] => k = key /\ stripe'[k] = {payload}
        /\ sent'[key] = sent[key] \cup {payload}
        /\ \A k \in Keys \ {key} : sent'[k] = sent[k]
    BY <1>1, <1>3, StripeRequestEffect DEF SendsFor, key
  <2>3. \A k \in Keys : stripe'[k] \ stripe[k] \subseteq sent'[k]
    BY <2>2
  <2>4. \A k \in Keys : sent[k] \subseteq sent'[k]
    BY <2>2
  <2>5. \A k \in Keys : \A p \in sent'[k] \ sent[k] : k = key /\ p = payload
    BY <2>2
  <2>6. QED BY <1>3, <2>1, <2>2, <2>3, <2>4, <2>5 DEF SendsFor
<1>4. QED BY <1>2, <1>3, WhoSends

----------------------------------------------------------------------------
(* A step of one actor leaves the calls of the others alone.               *)

Untouched(d) ==
  /\ pc'[d] = pc[d] /\ req'[d] = req[d] /\ grant'[d] = grant[d]
  /\ answer'[d] = answer[d] /\ audit'[d] = audit[d] /\ begun'[d] = begun[d]
  /\ Exists(d)' <=> Exists(d)
  /\ Exists(d) => /\ executions'[d].hash = executions[d].hash
                  /\ executions'[d].token = executions[d].token

\* A step of one call leaves every other call, its row and its begin message
\* untouched: another key, or a begin that is refused.
LEMMA CallsAreApart ==
  ASSUME PipelineInv, NEW c \in Calls, CallStep(c), NEW d \in Calls \ {c}
  PROVE  Untouched(d)
<1> USE DEF PipelineInv, PipelineTypeOK, StoreTypeOK
<1>1. CASE \/ Submit(c) \/ SkipTokenGate(c) \/ CheckToken(c) \/ ScoreRisk(c)
           \/ RequestApproval(c) \/ LookupConflict(c) \/ StepThrows(c)
           \/ CallStripe(c) \/ WriteAudit(c)
  <2>1. UNCHANGED <<executions, begun>>
    BY <1>1, EarlyStoreStep
  <2>2. /\ pc'[d] = pc[d] /\ req'[d] = req[d] /\ grant'[d] = grant[d]
        /\ answer'[d] = answer[d] /\ audit'[d] = audit[d]
    BY <1>1 DEF Submit, SkipTokenGate, CheckToken, ScoreRisk, RequestApproval,
                LookupConflict, StepThrows, CallStripe, WriteAudit, Goto, Return,
                AuditAndReturn
  <2>3. QED BY <2>1, <2>2 DEF Untouched, Exists
<1>2. CASE LookupFree(c) \/ Refuse(c) \/ LoseRace(c) \/ Begin(c) \/ BeginThrows(c) \/ Crash(c)
  <2>1. begun'[d] = begun[d] /\ executions'[d] = executions[d]
    BY <1>2 DEF LookupFree, Refuse, LoseRace, Begin, BeginThrows, Crash, BeginLookup,
                BeginRefused, BeginDuplicate, BeginCommit, BeginAborted
  <2>2. /\ pc'[d] = pc[d] /\ req'[d] = req[d] /\ grant'[d] = grant[d]
        /\ answer'[d] = answer[d] /\ audit'[d] = audit[d]
    BY <1>2 DEF LookupFree, Refuse, LoseRace, Begin, BeginThrows, Crash, Goto, Return
  <2>3. QED BY <2>1, <2>2 DEF Untouched, Exists
<1>3. CASE Settle(c) \/ SettleFails(c)
  <2>1. begun'[d] = begun[d] /\ executions'[d] = executions[d]
    BY <1>3 DEF Settle, SettleFails, UpdateExecutionStatus, storeVars
  <2>2. /\ pc'[d] = pc[d] /\ req'[d] = req[d] /\ grant'[d] = grant[d]
        /\ answer'[d] = answer[d] /\ audit'[d] = audit[d]
    BY <1>3 DEF Settle, SettleFails, Goto, Return, AuditAndReturn
  <2>3. QED BY <2>1, <2>2 DEF Untouched, Exists
<1>4. QED BY <1>1, <1>2, <1>3 DEF CallStep

\* So does a step of a reconciler, of the approval server, of the clock, and a
\* stutter, except for the status of a row.
LEMMA OthersLeaveCalls ==
  ASSUME PipelineInv,
         \/ \E r \in Reconcilers : RecWork(r) \/ RecFault(r)
         \/ ApprovalServer
         \/ Tick
         \/ UNCHANGED vars,
         NEW d \in Calls
  PROVE  Untouched(d)
<1>1. UNCHANGED callVars
  BY DEF RecWork, RecFault, Sweep, FindUnknown, CancelRow, AttemptRow, Replay, SettleReplay,
         EndCycle, SkipRow, SettleReplayFails, RecCrash, ApprovalServer, Tick, vars
<1>2. ClaimsNothing /\ UNCHANGED begun
  <2>1. StoreTypeOK /\ ApprovedWasDecided
    BY DEF PipelineInv, StoreInv
  <2>2. CASE \E r \in Reconcilers : RecWork(r) \/ RecFault(r)
    BY <2>1, <2>2, RecStoreStep, RowStepClaimsNothing
  <2>3. CASE ApprovalServer
    BY <2>1, <2>3, ApprovalServerStoreStep, ApprovalCallClaimsNothing DEF ApprovalCall
  <2>4. CASE Tick
    BY <2>1, <2>4, RowStepClaimsNothing DEF Tick, StoreTick
  <2>5. CASE UNCHANGED vars
    BY <2>1, <2>5, RowStepClaimsNothing DEF vars, storeVars
  <2>6. QED BY <2>2, <2>3, <2>4, <2>5
<1>3. QED BY <1>1, <1>2 DEF Untouched, callVars, ClaimsNothing

\* What holds of a call goes on to hold while others move.
LEMMA UntouchedKeepsInv ==
  ASSUME PipelineInv, [Next]_vars, NEW d \in Calls, Untouched(d)
  PROVE  CallInv(d)'
<1>1. CallInv(d) /\ Keyed(d)
  BY RequestsAreKeyed DEF PipelineInv
<1>2. /\ BeginInv(d)'
      /\ pc'[d] # "idle" => req'[d] \in CallRequests
  BY <1>1 DEF CallInv, BeginInv, Untouched, Begun, Gated, Body
<1>3. RowInv(d)'
  BY <1>1 DEF CallInv, RowInv, Untouched, Gated, Body, Executing
<1>4. AnswerInv(d)'
  <2>1. /\ pc'[d] \notin {"answered", "crashed"} => audit'[d] = {}
        /\ pc'[d] \notin {"audit", "answered", "crashed"} => answer'[d] = "none"
        /\ pc'[d] = "audit" =>
             answer'[d] \in {"success", "error", "read_only", "risk_blocked",
                             "approval_required", "simulated"}
        /\ answer'[d] \in Refusals => ~Exists(d)'
    BY <1>1 DEF CallInv, AnswerInv, Untouched
  <2>2. ASSUME pc'[d] = "settle_completed" \/ answer'[d] = "success" \/ "success" \in audit'[d]
        PROVE  Payload(Body(d)') \in stripe'[Key(d)']
    <3>1. pc[d] # "idle" /\ Payload(Body(d)) \in stripe[Key(d)]
      BY <1>1, <2>2 DEF CallInv, AnswerInv, Untouched
    <3>2. stripe[Key(d)] \subseteq stripe'[Key(d)]
      BY <1>1, <3>1, StripeGrows DEF Keyed
    <3>3. Body(d)' = Body(d) /\ Key(d)' = Key(d)
      BY DEF Untouched, Body, Key
    <3>4. QED BY <3>1, <3>2, <3>3
  <2>3. QED BY <2>1, <2>2 DEF AnswerInv, Payload
<1>5. QED BY <1>2, <1>3, <1>4 DEF CallInv

----------------------------------------------------------------------------
(* A step of a call keeps what holds of the call.                          *)

\* A call without a row may go on, or end, with any answer but a success.
LEMMA MoveWithoutRow ==
  ASSUME NEW c \in Calls, ~Begun(c)', ~Exists(c)', audit'[c] = {}, req'[c] \in CallRequests,
         \/ pc'[c] \in {"received", "risk", "approve"} /\ answer'[c] = "none"
         \/ pc'[c] = "begin" /\ Gated(c)' /\ answer'[c] = "none"
         \/ /\ pc'[c] = "audit"
            /\ answer'[c] \in {"error", "read_only", "risk_blocked",
                               "approval_required", "simulated"}
         \/ pc'[c] \in {"answered", "crashed"} /\ answer'[c] # "success"
  PROVE  CallInv(c)'
BY DEF CallInv, BeginInv, RowInv, AnswerInv, Executing

\* A call with a row may go on to settle and to answer what it settled.
LEMMA MoveWithRow ==
  ASSUME NEW c \in Calls, ~Begun(c)', Exists(c)', req'[c] \in CallRequests,
         executions'[c].hash = req'[c].request, executions'[c].token = grant'[c], Gated(c)',
         \/ Executing(c)' /\ answer'[c] = "none"
         \/ pc'[c] = "audit" /\ answer'[c] \in {"success", "error"}
         \/ pc'[c] \in {"answered", "crashed"} /\ answer'[c] \notin Refusals,
         audit'[c] = {},
         pc'[c] = "settle_completed" \/ answer'[c] = "success" =>
           Payload(Body(c)') \in stripe'[Key(c)']
  PROVE  CallInv(c)'
BY DEF CallInv, BeginInv, RowInv, AnswerInv, Executing, Payload, Refusals

\* Until its begin is answered a call has no row, no audit entry and no answer.
LEMMA NoRowBeforeBegin ==
  ASSUME PipelineInv, NEW c \in Calls,
         pc[c] \in {"idle", "received", "risk", "approve", "begin", "transaction"}
  PROVE  /\ ~Exists(c) /\ audit[c] = {} /\ answer[c] = "none"
         /\ Begun(c) <=> pc[c] = "transaction"
BY DEF PipelineInv, CallInv, BeginInv, RowInv, AnswerInv, Executing

\* While it executes a call has a row, for its own request and with its token.
LEMMA RowWhileExecuting ==
  ASSUME PipelineInv, NEW c \in Calls, Executing(c)
  PROVE  /\ Exists(c) /\ ~Begun(c) /\ audit[c] = {} /\ answer[c] = "none"
         /\ req[c] \in CallRequests /\ executions[c].hash = req[c].request
         /\ executions[c].token = grant[c] /\ Gated(c)
BY DEF PipelineInv, CallInv, BeginInv, RowInv, AnswerInv, Executing

\* The steps before the transaction.
LEMMA EarlyStepKeepsCall ==
  ASSUME PipelineInv, [Next]_vars, NEW c \in Calls,
         \/ Submit(c) \/ SkipTokenGate(c) \/ CheckToken(c) \/ ScoreRisk(c)
         \/ RequestApproval(c) \/ LookupConflict(c) \/ StepThrows(c)
  PROVE  CallInv(c)'
<1>1. pc[c] \in {"idle", "received", "risk", "approve", "begin"}
  BY DEF Submit, SkipTokenGate, CheckToken, ScoreRisk, RequestApproval, LookupConflict,
         StepThrows
<1>2. /\ pc \in [Calls -> CallStates] /\ req \in [Calls -> CallRequests \cup {NoRequest}]
      /\ answer \in [Calls -> Answers] /\ mode[c] \in {"live", "read_only", "dry_run"}
      /\ grant \in [Calls -> Tokens]
  BY DEF PipelineInv, PipelineTypeOK, Servers
<1>3. ~Begun(c)' /\ ~Exists(c)' /\ audit'[c] = {}
  <2>1. ~Begun(c) /\ ~Exists(c) /\ audit[c] = {}
    BY <1>1, NoRowBeforeBegin
  <2>2. UNCHANGED <<executions, begun>>
    BY EarlyStoreStep
  <2>3. UNCHANGED audit
    BY DEF Submit, SkipTokenGate, CheckToken, ScoreRisk, RequestApproval, LookupConflict,
           StepThrows
  <2>4. QED BY <2>1, <2>2, <2>3 DEF Begun, Exists
<1>4. answer[c] = "none"
  BY <1>1, NoRowBeforeBegin
<1>5. pc[c] # "idle" => req[c] \in CallRequests
  BY DEF PipelineInv, CallInv
<1>6. CASE Submit(c)
  <2>1. req'[c] \in CallRequests
    BY <1>2, <1>6 DEF Submit
  <2>2. \/ pc'[c] = "audit" /\ answer'[c] = "read_only"
        \/ pc'[c] = "received" /\ answer'[c] = "none"
    BY <1>2, <1>4, <1>6 DEF Submit, Goto, AuditAndReturn
  <2>3. QED BY <1>3, <2>1, <2>2, MoveWithoutRow
<1>7. CASE SkipTokenGate(c)
  <2>1. req'[c] \in CallRequests /\ pc'[c] = "risk" /\ answer'[c] = "none"
    BY <1>2, <1>4, <1>5, <1>7 DEF SkipTokenGate, Goto
  <2>2. QED BY <1>3, <2>1, MoveWithoutRow
<1>8. CASE CheckToken(c)
  <2>1. req'[c] \in CallRequests
    BY <1>5, <1>8 DEF CheckToken
  <2>2. \/ pc'[c] = "answered" /\ answer'[c] # "success"
        \/ pc'[c] = "risk" /\ answer'[c] = "none"
    BY <1>2, <1>4, <1>8 DEF CheckToken, Goto, Return
  <2>3. QED BY <1>3, <2>1, <2>2, MoveWithoutRow
<1>9. CASE ScoreRisk(c)
  <2>1. req'[c] = req[c] /\ grant'[c] = grant[c] /\ req[c] \in CallRequests
    BY <1>5, <1>9 DEF ScoreRisk
  <2>2. \/ pc'[c] = "audit" /\ answer'[c] \in {"error", "risk_blocked", "simulated"}
        \/ /\ answer'[c] = "none"
           /\ \E risk \in RiskOutcomes(c) :
                pc'[c] = IF RequiresApproval(c, risk) THEN "approve" ELSE "begin"
    BY <1>2, <1>4, <1>9 DEF ScoreRisk, Goto, AuditAndReturn
  <2>3. CASE pc'[c] = "audit" /\ answer'[c] \in {"error", "risk_blocked", "simulated"}
    BY <1>3, <2>1, <2>3, MoveWithoutRow
  <2>4. ASSUME answer'[c] = "none", NEW risk \in RiskOutcomes(c),
               pc'[c] = IF RequiresApproval(c, risk) THEN "approve" ELSE "begin"
        PROVE  CallInv(c)'
    <3>1. ~RequiresApproval(c, risk) => Gated(c)'
      BY <2>1 DEF RequiresApproval, Gated, Body
    <3>2. QED BY <1>3, <2>1, <2>4, <3>1, MoveWithoutRow
  <2>5. QED BY <2>2, <2>3, <2>4
<1>10. CASE RequestApproval(c)
  <2>1. req'[c] \in CallRequests /\ pc'[c] = "audit" /\ answer'[c] = "approval_required"
    BY <1>2, <1>5, <1>10 DEF RequestApproval, Goto, AuditAndReturn
  <2>2. QED BY <1>3, <2>1, MoveWithoutRow
<1>11. CASE LookupConflict(c)
  <2>1. req'[c] \in CallRequests /\ pc'[c] = "answered" /\ answer'[c] # "success"
    BY <1>2, <1>5, <1>11 DEF LookupConflict, Goto, Return, Conflict
  <2>2. QED BY <1>3, <2>1, MoveWithoutRow
<1>12. CASE StepThrows(c)
  <2>1. req'[c] \in CallRequests /\ pc'[c] = "answered" /\ answer'[c] = "thrown"
    BY <1>2, <1>5, <1>12 DEF StepThrows, Goto, Return
  <2>2. QED BY <1>3, <2>1, MoveWithoutRow
<1>13. QED BY <1>6, <1>7, <1>8, <1>9, <1>10, <1>11, <1>12

\* The lookup and the transaction, however it ends.
LEMMA BeginStepKeepsCall ==
  ASSUME PipelineInv, [Next]_vars, NEW c \in Calls,
         \/ LookupFree(c) \/ Refuse(c) \/ LoseRace(c) \/ Begin(c) \/ BeginThrows(c)
  PROVE  CallInv(c)'
<1>1. pc[c] \in {"begin", "transaction"}
  BY DEF LookupFree, Refuse, LoseRace, Begin, BeginThrows
<1>2. /\ pc \in [Calls -> CallStates] /\ answer \in [Calls -> Answers]
      /\ begun \in [Calls -> BeginArgs \cup {NoBegin}]
      /\ executions \in [Calls -> ExecutionRows \cup {NoExecution}]
  BY DEF PipelineInv, PipelineTypeOK, StoreTypeOK
<1>3. /\ ~Exists(c) /\ audit[c] = {} /\ answer[c] = "none"
      /\ Begun(c) <=> pc[c] = "transaction"
  BY <1>1, NoRowBeforeBegin
<1>4. req[c] \in CallRequests /\ Gated(c)
  BY <1>1 DEF PipelineInv, CallInv, BeginInv
<1>5. UNCHANGED <<req, grant, audit>>
  BY DEF LookupFree, Refuse, LoseRace, Begin, BeginThrows
<1>6. Gated(c)'
  BY <1>4, <1>5 DEF Gated, Body
<1>7. CASE LookupFree(c)
  <2>1. begun'[c] = [stage |-> "looked_up", hash |-> req[c].request, token |-> grant[c]]
    BY <1>2, <1>7 DEF LookupFree, BeginLookup
  <2>2. pc'[c] = "transaction" /\ answer'[c] = "none" /\ ~Exists(c)'
    BY <1>2, <1>3, <1>7 DEF LookupFree, Goto, BeginLookup, Exists
  <2>3. Begun(c)' /\ begun'[c].hash = req[c].request /\ begun'[c].token = grant[c]
    BY <2>1 DEF Begun
  <2>4. QED BY <1>3, <1>4, <1>5, <1>6, <2>2, <2>3
            DEF CallInv, BeginInv, RowInv, AnswerInv, Executing, Refusals
<1>8. ASSUME BeginRefused(c) \/ BeginDuplicate(c) \/ BeginAborted(c)
      PROVE  ~Begun(c)' /\ ~Exists(c)'
  BY <1>2, <1>3, <1>8 DEF BeginRefused, BeginDuplicate, BeginAborted, Begun, NoBegin, Exists
<1>9. ASSUME BeginCommit(c)
      PROVE  /\ ~Begun(c)' /\ Exists(c)'
             /\ executions'[c].hash = req[c].request
             /\ executions'[c].token = grant[c]
  <2>1. begun[c].hash = req[c].request /\ begun[c].token = grant[c]
    BY <1>9 DEF BeginCommit, PipelineInv, CallInv, BeginInv
  <2>2. executions'[c] = NewExecution(c) /\ begun'[c] = NoBegin
    BY <1>2, <1>9 DEF BeginCommit
  <2>3. QED BY <2>1, <2>2 DEF NewExecution, Exists, Begun, NoBegin
<1>10. CASE Refuse(c)
  <2>1. pc'[c] = "answered" /\ answer'[c] # "success"
    BY <1>2, <1>10 DEF Refuse, Goto, Return, TokenVerdict, ConsumeResult
  <2>2. QED BY <1>3, <1>4, <1>5, <1>8, <1>10, <2>1, MoveWithoutRow DEF Refuse
<1>11. CASE LoseRace(c)
  <2>1. pc'[c] = "answered" /\ answer'[c] # "success"
    BY <1>2, <1>11 DEF LoseRace, Goto, Return, Conflict
  <2>2. QED BY <1>3, <1>4, <1>5, <1>8, <1>11, <2>1, MoveWithoutRow DEF LoseRace
<1>12. CASE Begin(c)
  <2>1. pc'[c] = "stripe" /\ answer'[c] = "none"
    BY <1>2, <1>3, <1>12 DEF Begin, Goto
  <2>2. QED BY <1>3, <1>4, <1>5, <1>6, <1>9, <1>12, <2>1, MoveWithRow DEF Begin, Executing
<1>13. CASE BeginThrows(c)
  <2>1. pc'[c] = "answered" /\ answer'[c] = "thrown"
    BY <1>2, <1>13 DEF BeginThrows, Goto, Return
  <2>2. CASE BeginCommit(c)
    BY <1>3, <1>4, <1>5, <1>6, <1>9, <2>1, <2>2, MoveWithRow DEF Refusals
  <2>3. CASE BeginRefused(c) \/ BeginAborted(c)
    BY <1>3, <1>4, <1>5, <1>8, <2>1, <2>3, MoveWithoutRow
  <2>4. QED BY <1>13, <2>2, <2>3 DEF BeginThrows
<1>14. QED BY <1>7, <1>10, <1>11, <1>12, <1>13

\* The request to Stripe, and what is written after it.
LEMMA LateStepKeepsCall ==
  ASSUME PipelineInv, [Next]_vars, NEW c \in Calls,
         CallStripe(c) \/ Settle(c) \/ SettleFails(c)
  PROVE  CallInv(c)'
<1>1. Executing(c)
  BY DEF CallStripe, Settle, SettleFails, Executing
<1>2. /\ pc \in [Calls -> CallStates] /\ answer \in [Calls -> Answers]
      /\ stripe \in [Keys -> SUBSET Payloads] /\ sent \in [Keys -> SUBSET Payloads]
  BY DEF PipelineInv, PipelineTypeOK
<1>3. /\ Exists(c) /\ ~Begun(c) /\ audit[c] = {} /\ answer[c] = "none"
      /\ req[c] \in CallRequests /\ executions[c].hash = req[c].request
      /\ executions[c].token = grant[c] /\ Gated(c)
  BY <1>1, RowWhileExecuting
<1>4. UNCHANGED <<req, grant, audit, begun>>
  BY DEF CallStripe, Settle, SettleFails, UpdateExecutionStatus, storeVars
<1>5. /\ ~Begun(c)' /\ Exists(c)' /\ Gated(c)' /\ audit'[c] = {}
      /\ req'[c] \in CallRequests
      /\ executions'[c].hash = req'[c].request
      /\ executions'[c].token = grant'[c]
      /\ Key(c)' = Key(c) /\ Body(c)' = Body(c)
  <2>1. ClaimsStand
    BY StepKeepsStore
  <2>2. /\ Exists(c)' /\ executions'[c].hash = executions[c].hash
        /\ executions'[c].token = executions[c].token
    BY <1>3, <2>1 DEF ClaimsStand, Exists
  <2>3. QED BY <1>3, <1>4, <2>2 DEF Begun, Gated, Body, Key
<1>6. Key(c) \in Keys /\ Payload(Body(c)) \in Payloads
  BY <1>3 DEF CallRequests, Requests, Key, Body, Payload, Payloads
<1>7. CASE CallStripe(c)
  <2>1. answer'[c] = "none"
    BY <1>3, <1>7 DEF CallStripe
  <2>2. CASE StripeRequest(Key(c), Payload(Body(c)), "ok") /\ Goto(c, "settle_completed")
    <3>1. pc'[c] = "settle_completed"
      BY <1>2, <2>2 DEF Goto
    <3>2. Payload(Body(c)) \in stripe'[Key(c)]
      BY <1>2, <1>6, <2>2, StripeRequestEffect
    <3>3. QED BY <1>5, <2>1, <3>1, <3>2, MoveWithRow DEF Executing
  <2>3. CASE Goto(c, "settle_failed") \/ Goto(c, "settle_unknown")
    <3>1. pc'[c] \in {"settle_failed", "settle_unknown"}
      BY <1>2, <2>3 DEF Goto
    <3>2. QED BY <1>5, <2>1, <3>1, MoveWithRow DEF Executing
  <2>4. QED BY <1>7, <2>2, <2>3 DEF CallStripe
<1>8. pc[c] = "settle_completed" => Payload(Body(c)) \in stripe[Key(c)]
  BY DEF PipelineInv, CallInv, AnswerInv
<1>9. stripe[Key(c)] \subseteq stripe'[Key(c)]
  BY <1>6, StripeGrows
<1>10. CASE Settle(c)
  <2>1. /\ pc'[c] = "audit"
        /\ answer'[c] = IF pc[c] = "settle_completed" THEN "success" ELSE "error"
    BY <1>2, <1>10 DEF Settle, Goto, AuditAndReturn
  <2>2. answer'[c] = "success" => Payload(Body(c)) \in stripe'[Key(c)]
    BY <1>8, <1>9, <2>1
  <2>3. QED BY <1>5, <2>1, <2>2, MoveWithRow
<1>11. CASE SettleFails(c)
  <2>1. \/ pc'[c] = "settle_unknown" /\ answer'[c] = "none"
        \/ pc'[c] = "answered" /\ answer'[c] = "thrown"
    BY <1>2, <1>3, <1>11 DEF SettleFails, Goto, Return
  <2>2. QED BY <1>5, <2>1, MoveWithRow DEF Executing, Refusals
<1>12. QED BY <1>7, <1>10, <1>11

\* The audit entry, and death at any point.
LEMMA EndKeepsCall ==
  ASSUME PipelineInv, [Next]_vars, NEW c \in Calls, WriteAudit(c) \/ Crash(c)
  PROVE  CallInv(c)'
<1>1. /\ pc \in [Calls -> CallStates] /\ audit \in [Calls -> SUBSET AuditOutcomes]
      /\ begun \in [Calls -> BeginArgs \cup {NoBegin}]
  BY DEF PipelineInv, PipelineTypeOK, StoreTypeOK
<1>2. CallInv(c)
  BY DEF PipelineInv
<1>3. /\ pc[c] # "idle" /\ pc'[c] \in {"answered", "crashed"}
      /\ UNCHANGED <<executions, req, grant, answer, stripe>>
  BY <1>1 DEF WriteAudit, Crash, Goto, storeVars, stripeVars
<1>4. ~Begun(c)'
  <2>1. CASE WriteAudit(c)
    BY <1>2, <2>1 DEF WriteAudit, CallInv, BeginInv, Begun, storeVars
  <2>2. CASE Crash(c)
    BY <1>1, <2>2 DEF Crash, Begun, NoBegin
  <2>3. QED BY <2>1, <2>2
<1>5. "success" \in audit'[c] => answer[c] = "success" \/ "success" \in audit[c]
  <2>1. CASE WriteAudit(c)
    <3>1. answer[c] \in {"success", "error", "read_only", "risk_blocked",
                         "approval_required", "simulated"}
      BY <1>2, <2>1 DEF WriteAudit, CallInv, AnswerInv
    <3>2. AuditOutcome(answer[c]) = "success" => answer[c] = "success"
      BY <3>1 DEF AuditOutcome
    <3>3. audit'[c] \subseteq audit[c] \cup {AuditOutcome(answer[c])}
      BY <1>1, <2>1 DEF WriteAudit
    <3>4. QED BY <3>2, <3>3
  <2>2. CASE Crash(c)
    BY <2>2 DEF Crash
  <2>3. QED BY <2>1, <2>2
<1>6. /\ BeginInv(c)'
      /\ pc'[c] # "idle" => req'[c] \in CallRequests
  BY <1>2, <1>3, <1>4 DEF CallInv, BeginInv
<1>7. RowInv(c)'
  BY <1>2, <1>3 DEF CallInv, RowInv, Executing, Exists, Gated, Body
<1>8. AnswerInv(c)'
  BY <1>2, <1>3, <1>5 DEF CallInv, AnswerInv, Exists, Body, Key, Payload
<1>9. QED BY <1>6, <1>7, <1>8 DEF CallInv

\* So what holds of every call holds of it after every step.
LEMMA CallsKeepInv ==
  ASSUME PipelineInv, [Next]_vars, NEW d \in Calls
  PROVE  CallInv(d)'
<1>1. CASE CallStep(d)
  BY <1>1, EarlyStepKeepsCall, BeginStepKeepsCall, LateStepKeepsCall, EndKeepsCall
     DEF CallStep
<1>2. ASSUME NEW c \in Calls \ {d}, CallStep(c) PROVE CallInv(d)'
  BY <1>2, CallsAreApart, UntouchedKeepsInv
<1>3. CASE \/ \E r \in Reconcilers : RecWork(r) \/ RecFault(r)
           \/ ApprovalServer
           \/ Tick
           \/ UNCHANGED vars
  BY <1>3, OthersLeaveCalls, UntouchedKeepsInv
<1>4. QED BY <1>1, <1>2, <1>3 DEF Next

----------------------------------------------------------------------------
(* The types.                                                              *)

\* A step of a call keeps the types of what calls consist of.
LEMMA CallStepTypes ==
  ASSUME PipelineInv, [Next]_vars, NEW c \in Calls, CallStep(c)
  PROVE  /\ mode' \in [Servers -> Modes]
         /\ pc' \in [Calls -> CallStates]
         /\ req' \in [Calls -> CallRequests \cup {NoRequest}]
         /\ grant' \in [Calls -> Tokens]
         /\ answer' \in [Calls -> Answers]
         /\ audit' \in [Calls -> SUBSET AuditOutcomes]
         /\ rec' \in [Reconcilers -> RecRows]
         /\ faults' \in 0..MaxFaults
<1>1. /\ mode \in [Servers -> Modes]
      /\ pc \in [Calls -> CallStates]
      /\ req \in [Calls -> CallRequests \cup {NoRequest}]
      /\ grant \in [Calls -> Tokens]
      /\ answer \in [Calls -> Answers]
      /\ audit \in [Calls -> SUBSET AuditOutcomes]
      /\ rec \in [Reconcilers -> RecRows]
      /\ faults \in 0..MaxFaults
  BY DEF PipelineInv, PipelineTypeOK
<1>2. pc[c] # "idle" => req[c].token \in Tokens
  BY DEF PipelineInv, CallInv, CallRequests
<1>3. pc[c] = "audit" => AuditOutcome(answer[c]) \in AuditOutcomes
  BY DEF PipelineInv, CallInv, AnswerInv, AuditOutcome, AuditOutcomes
<1>4. \A e \in Calls, hash \in Requests : Conflict(e, hash) \in Answers
  BY DEF Conflict, Answers, Conflicts
<1>5. TokenVerdict(c) # "ok" => TokenVerdict(c) \in Answers
  BY DEF TokenVerdict, ConsumeResult, Answers, ConsumeFailures
<1>6. CASE Submit(c) \/ SkipTokenGate(c) \/ ScoreRisk(c) \/ RequestApproval(c)
  BY <1>1, <1>6 DEF Submit, SkipTokenGate, ScoreRisk, RequestApproval, Goto,
              AuditAndReturn, CallStates, Answers
<1>7. CASE CheckToken(c)
  BY <1>1, <1>2, <1>7 DEF CheckToken, Goto, Return, CallStates, Answers
<1>8. CASE LookupFree(c) \/ Begin(c) \/ CallStripe(c) \/ Crash(c)
  BY <1>1, <1>8 DEF LookupFree, Begin, CallStripe, Crash, Goto, CallStates
<1>9. CASE LookupConflict(c) \/ LoseRace(c)
  <2>1. req[c].request \in Requests
    BY <1>9 DEF PipelineInv, CallInv, CallRequests, LookupConflict, LoseRace
  <2>2. PICK e \in Calls : Return(c, Conflict(e, req[c].request))
    BY <1>9 DEF LookupConflict, LoseRace, RowsWith
  <2>3. Conflict(e, req[c].request) \in Answers
    BY <1>4, <2>1
  <2>4. QED BY <1>1, <1>9, <2>2, <2>3 DEF LookupConflict, LoseRace, Goto, Return, CallStates
<1>10. CASE Refuse(c)
  <2>1. TokenVerdict(c) \in Answers
    BY <1>5, <1>10 DEF Refuse, BeginRefused
  <2>2. QED BY <1>1, <1>10, <2>1 DEF Refuse, Goto, Return, CallStates
<1>11. CASE BeginThrows(c) \/ StepThrows(c) \/ SettleFails(c) \/ Settle(c)
  BY <1>1, <1>11 DEF BeginThrows, StepThrows, SettleFails, Settle, Goto, Return,
               AuditAndReturn, CallStates, Answers
<1>12. CASE WriteAudit(c)
  <2>1. AuditOutcome(answer[c]) \in AuditOutcomes
    BY <1>3, <1>12 DEF WriteAudit
  <2>2. QED BY <1>1, <1>12, <2>1 DEF WriteAudit, Goto, CallStates
<1>13. QED
  BY <1>6, <1>7, <1>8, <1>9, <1>10, <1>11, <1>12 DEF CallStep

\* How a reconciler's own record changes, action by action.
LEMMA RecStepRecord ==
  ASSUME PipelineInv, NEW r \in Reconcilers, RecWork(r) \/ RecFault(r)
  PROVE  /\ rec' \in [Reconcilers -> RecRows]
         /\ \A s \in Reconcilers \ {r} : rec'[s] = rec[s]
         /\ rec'[r].at \in {"replay", "completed", "failed_terminal"} =>
              /\ rec'[r].row \in Calls
              /\ Exists(rec'[r].row)
         /\ rec'[r].at = "completed" => Replay(r)
<1>1. rec \in [Reconcilers -> RecRows]
  BY DEF PipelineInv, PipelineTypeOK
<1>2. ASSUME NEW row, row \in RecRows, rec' = [rec EXCEPT ![r] = row],
             row.at \in {"replay", "completed", "failed_terminal"} =>
               row.row \in Calls /\ Exists(row.row),
             row.at = "completed" => Replay(r)
      PROVE  /\ rec' \in [Reconcilers -> RecRows]
             /\ \A s \in Reconcilers \ {r} : rec'[s] = rec[s]
             /\ rec'[r].at \in {"replay", "completed", "failed_terminal"} =>
                  /\ rec'[r].row \in Calls
                  /\ Exists(rec'[r].row)
             /\ rec'[r].at = "completed" => Replay(r)
  BY <1>1, <1>2
<1>3. /\ rec[r] \in RecRows
      /\ rec[r].at \in {"replay", "completed", "failed_terminal"} =>
           rec[r].row \in Calls /\ Exists(rec[r].row)
  BY <1>1 DEF PipelineInv, RecInv
<1>4. CASE Sweep(r)
  <2>1. rec' = [rec EXCEPT ![r] = [rec[r] EXCEPT !.at = "find"]]
    BY <1>4 DEF Sweep
  <2>2. [rec[r] EXCEPT !.at = "find"] \in RecRows /\ [rec[r] EXCEPT !.at = "find"].at = "find"
    BY <1>3 DEF RecRows
  <2>3. QED BY <1>2, <2>1, <2>2
<1>5. CASE FindUnknown(r)
  <2>1. PICK old \in SUBSET Calls, due \in SUBSET Calls :
          rec' = [rec EXCEPT ![r] =
            [at |-> "loop", cancel |-> old, retry |-> due, row |-> NoToken]]
    BY <1>5 DEF FindUnknown, FindUnknownOutcomes
  <2>2. [at |-> "loop", cancel |-> old, retry |-> due, row |-> NoToken] \in RecRows
    BY DEF RecRows, Tokens
  <2>3. QED BY <1>2, <2>1, <2>2
<1>6. CASE CancelRow(r)
  <2>1. PICK e \in rec[r].cancel :
          rec' = [rec EXCEPT ![r] = [rec[r] EXCEPT !.cancel = rec[r].cancel \ {e}]]
    BY <1>6 DEF CancelRow
  <2> DEFINE row == [rec[r] EXCEPT !.cancel = rec[r].cancel \ {e}]
  <2>2. row \in RecRows /\ row.at = "loop"
    BY <1>3, <1>6 DEF RecRows, CancelRow
  <2>3. QED BY <1>2, <2>1, <2>2
<1>7. CASE AttemptRow(r)
  <2>1. PICK e \in rec[r].retry :
          /\ RecordReconcileAttempt(e)
          /\ rec' = [rec EXCEPT
               ![r].retry = @ \ {e},
               ![r].at = IF executions[e].hash.body \in PurgeBodies THEN "loop" ELSE "replay",
               ![r].row = IF executions[e].hash.body \in PurgeBodies THEN NoToken ELSE e]
    BY <1>7 DEF AttemptRow
  <2>2. e \in Calls /\ Exists(e)
    BY <1>3, <2>1 DEF RecRows, RecordReconcileAttempt
  <2> DEFINE retry == rec[r].retry \ {e}
             at == IF executions[e].hash.body \in PurgeBodies THEN "loop" ELSE "replay"
             token == IF executions[e].hash.body \in PurgeBodies THEN NoToken ELSE e
             row == [rec[r] EXCEPT !.retry = retry, !.at = at, !.row = token]
  <2>3. rec' = [rec EXCEPT ![r] = row]
    <3> DEFINE new == [rec EXCEPT ![r].retry = retry, ![r].at = at, ![r].row = token]
    <3>1. rec' = new
      BY <2>1
    <3> HIDE DEF retry, at, token
    <3>2. new[r] = [rec[r] EXCEPT !.retry = retry, !.at = at, !.row = token]
      BY <1>1 DEF RecRows
    <3>3. \A s \in Reconcilers \ {r} : new[s] = rec[s]
      BY <1>1
    <3>4. new = [s \in Reconcilers |-> new[s]]
      BY <1>1
    <3> HIDE DEF new
    <3>5. QED BY <1>1, <3>1, <3>2, <3>3, <3>4
  <2>4. /\ retry \in SUBSET Calls /\ at \in {"loop", "replay"} /\ token \in Tokens
        /\ at = "replay" => token = e
    BY <1>3, <2>2 DEF RecRows, Tokens
  <2>5. row \in RecRows /\ row.at = at /\ row.row = token
    <3> HIDE DEF retry, at, token
    <3>1. QED BY <1>3, <2>4 DEF RecRows
  <2> HIDE DEF retry, at, token, row
  <2>6. QED BY <1>2, <2>2, <2>3, <2>4, <2>5
<1>8. CASE SkipRow(r)
  <2>1. PICK e : rec' = [rec EXCEPT ![r] =
          [rec[r] EXCEPT !.cancel = rec[r].cancel \ {e}, !.retry = rec[r].retry \ {e}]]
    BY <1>1, <1>8 DEF SkipRow, RecRows
  <2> DEFINE row == [rec[r] EXCEPT !.cancel = rec[r].cancel \ {e},
                                   !.retry = rec[r].retry \ {e}]
  <2>2. row \in RecRows /\ row.at = "loop"
    BY <1>3, <1>8 DEF RecRows, SkipRow
  <2>3. QED BY <1>2, <2>1, <2>2
<1>9. CASE Replay(r)
  <2>1. PICK at \in {"completed", "failed_terminal"} :
          \/ rec' = [rec EXCEPT ![r] = [rec[r] EXCEPT !.at = at]]
          \/ rec' = [rec EXCEPT ![r] = [rec[r] EXCEPT !.at = "loop", !.row = NoToken]]
    BY <1>1, <1>9 DEF Replay
  <2>2. /\ [rec[r] EXCEPT !.at = at] \in RecRows
        /\ [rec[r] EXCEPT !.at = at].row = rec[r].row
    BY <1>3 DEF RecRows
  <2>3. /\ [rec[r] EXCEPT !.at = "loop", !.row = NoToken] \in RecRows
        /\ [rec[r] EXCEPT !.at = "loop", !.row = NoToken].at = "loop"
    BY <1>3 DEF RecRows, Tokens
  <2>4. rec[r].row \in Calls /\ Exists(rec[r].row)
    BY <1>3, <1>9 DEF Replay
  <2>5. QED BY <1>2, <1>9, <2>1, <2>2, <2>3, <2>4
<1>10. CASE SettleReplay(r) \/ SettleReplayFails(r)
  <2>1. rec' = [rec EXCEPT ![r] = [rec[r] EXCEPT !.at = "loop", !.row = NoToken]]
    BY <1>1, <1>10 DEF SettleReplay, SettleReplayFails
  <2>2. /\ [rec[r] EXCEPT !.at = "loop", !.row = NoToken] \in RecRows
        /\ [rec[r] EXCEPT !.at = "loop", !.row = NoToken].at = "loop"
    BY <1>3 DEF RecRows, Tokens
  <2>3. QED BY <1>2, <2>1, <2>2
<1>11. CASE EndCycle(r) \/ RecCrash(r)
  <2>1. rec' = [rec EXCEPT ![r] = IdleRec]
    BY <1>11 DEF EndCycle, RecCrash
  <2>2. IdleRec \in RecRows /\ IdleRec.at = "idle"
    BY DEF IdleRec, RecRows, Tokens
  <2>3. QED BY <1>2, <2>1, <2>2
<1>12. QED
  BY <1>4, <1>5, <1>6, <1>7, <1>8, <1>9, <1>10, <1>11 DEF RecWork, RecFault

\* Every step keeps the types.
LEMMA PipelineTypeInductive ==
  ASSUME PipelineInv, [Next]_vars
  PROVE  PipelineTypeOK'
<1>1. /\ mode \in [Servers -> Modes]
      /\ pc \in [Calls -> CallStates]
      /\ req \in [Calls -> CallRequests \cup {NoRequest}]
      /\ grant \in [Calls -> Tokens]
      /\ answer \in [Calls -> Answers]
      /\ audit \in [Calls -> SUBSET AuditOutcomes]
      /\ rec \in [Reconcilers -> RecRows]
      /\ faults \in 0..MaxFaults
  BY DEF PipelineInv, PipelineTypeOK
<1>2. /\ StoreTypeOK'
      /\ stripe' \in [Keys -> SUBSET Payloads]
      /\ sent' \in [Keys -> SUBSET Payloads]
  BY StepKeepsStore, StripeGrows DEF StoreInv
<1>3. ASSUME NEW c \in Calls, CallStep(c) PROVE PipelineTypeOK'
  BY <1>2, <1>3, CallStepTypes DEF PipelineTypeOK
<1>4. ASSUME NEW r \in Reconcilers, RecWork(r) \/ RecFault(r) PROVE PipelineTypeOK'
  <2>1. rec' \in [Reconcilers -> RecRows]
    BY <1>4, RecStepRecord
  <2>2. CASE RecWork(r)
    <3>1. UNCHANGED <<callVars, faults>>
      BY <2>2 DEF RecWork, Sweep, FindUnknown, CancelRow, AttemptRow, Replay, SettleReplay,
                  EndCycle
    <3>2. QED BY <1>1, <1>2, <2>1, <3>1 DEF PipelineTypeOK, callVars
  <2>3. CASE RecFault(r)
    <3>1. UNCHANGED callVars /\ faults < MaxFaults /\ faults' = faults + 1
      BY <2>3 DEF RecFault, SkipRow, SettleReplayFails, RecCrash
    <3>2. faults' \in 0..MaxFaults
      BY <1>1, <3>1
    <3>3. QED BY <1>1, <1>2, <2>1, <3>1, <3>2 DEF PipelineTypeOK, callVars
  <2>4. QED BY <1>4, <2>2, <2>3
<1>5. CASE ApprovalServer \/ Tick \/ UNCHANGED vars
  <2>1. UNCHANGED <<callVars, rec, faults>>
    BY <1>5 DEF ApprovalServer, Tick, vars
  <2>2. QED BY <1>1, <1>2, <2>1 DEF PipelineTypeOK, callVars
<1>6. QED BY <1>3, <1>4, <1>5 DEF Next

----------------------------------------------------------------------------
(* The reconcilers, and the rows that are completed.                       *)

\* Every step keeps what a reconciler knows of the row it works on.
LEMMA RecsKeepInv ==
  ASSUME PipelineInv, [Next]_vars, NEW s \in Reconcilers
  PROVE  RecInv(s)'
<1> DEFINE Held(at, row) ==
      at \in {"replay", "completed", "failed_terminal"} =>
        /\ row \in Calls
        /\ Exists(row)
        /\ at = "completed" =>
             \/ executions[row].hash.body \in Rewritten
             \/ stripe'[executions[row].hash.key] # {}
<1>1. ASSUME Held(rec'[s].at, rec'[s].row)
      PROVE  RecInv(s)'
  <2>1. ClaimsStand
    BY StepKeepsStore
  <2>2. QED BY <1>1, <2>1 DEF RecInv, ClaimsStand, Exists
<1>2. ASSUME NEW row \in Calls, Exists(row)
      PROVE  executions[row].hash.key \in Keys /\ executions[row].hash.body \in Bodies
  BY <1>2 DEF PipelineInv, PipelineTypeOK, StoreTypeOK, ExecutionRows, NoExecution, Exists,
              Requests
<1>3. ASSUME rec'[s] = rec[s] PROVE RecInv(s)'
  <2>1. RecInv(s) /\ \A k \in Keys : stripe[k] \subseteq stripe'[k]
    BY StripeGrows DEF PipelineInv
  <2>2. Held(rec[s].at, rec[s].row)
    BY <1>2, <2>1 DEF RecInv
  <2>3. QED BY <1>1, <1>3, <2>2
<1>4. ASSUME RecWork(s) \/ RecFault(s) PROVE RecInv(s)'
  <2>1. /\ rec'[s].at \in {"replay", "completed", "failed_terminal"} =>
             rec'[s].row \in Calls /\ Exists(rec'[s].row)
        /\ rec'[s].at = "completed" => Replay(s)
    BY <1>4, RecStepRecord
  <2>2. ASSUME rec'[s].at = "completed"
        PROVE  \/ executions[rec'[s].row].hash.body \in Rewritten
               \/ stripe'[executions[rec'[s].row].hash.key] # {}
    <3> DEFINE hash == executions[rec[s].row].hash
    <3>1. Replay(s)
      BY <2>1, <2>2
    <3>2. rec \in [Reconcilers -> RecRows]
      BY DEF PipelineInv, PipelineTypeOK
    <3>3. \/ StripeRequest(hash.key, ReplayPayload(hash.body), "ok")
          \/ hash.body \in Rewritten
      BY <2>2, <3>1, <3>2 DEF Replay, RecRows
    <3>4. rec'[s].row = rec[s].row
      BY <2>2, <3>1, <3>2 DEF Replay, RecRows
    <3>5. hash.key \in Keys /\ hash.body \in Bodies
      BY <1>2, <2>1, <2>2, <3>4
    <3>6. CASE StripeRequest(hash.key, ReplayPayload(hash.body), "ok")
      <4>1. stripe \in [Keys -> SUBSET Payloads] /\ sent \in [Keys -> SUBSET Payloads]
        BY DEF PipelineInv, PipelineTypeOK
      <4>2. ReplayPayload(hash.body) \in Payloads
        BY <3>5, ReplayPayloadType
      <4> HIDE DEF hash
      <4>3. ReplayPayload(hash.body) \in stripe'[hash.key]
        BY <3>5, <3>6, <4>1, <4>2, StripeRequestEffect
      <4>4. QED BY <3>4, <4>3 DEF hash
    <3>7. QED BY <3>3, <3>4, <3>6
  <2>3. QED BY <1>1, <2>1, <2>2
<1>5. ASSUME NEW r \in Reconcilers \ {s}, RecWork(r) \/ RecFault(r) PROVE RecInv(s)'
  BY <1>3, <1>5, RecStepRecord
<1>6. CASE \E c \in Calls : CallStep(c)
  <2>1. UNCHANGED rec
    BY <1>6 DEF CallStep, Submit, SkipTokenGate, CheckToken, ScoreRisk, RequestApproval,
         LookupFree, LookupConflict, Refuse, LoseRace, Begin, BeginThrows, StepThrows,
         CallStripe, Settle, SettleFails, WriteAudit, Crash
  <2>2. QED BY <1>3, <2>1
<1>7. CASE ApprovalServer \/ Tick \/ UNCHANGED vars
  BY <1>3, <1>7 DEF ApprovalServer, Tick, vars
<1>8. QED BY <1>4, <1>5, <1>6, <1>7 DEF Next

\* A row is completed by its call after a success, or by a reconciler that
\* completed its replay.
LEMMA WhoCompletes ==
  ASSUME PipelineInv, [Next]_vars, NEW e \in Calls, executions'[e].status = "completed"
  PROVE  \/ executions[e].status = "completed"
         \/ pc[e] = "settle_completed"
         \/ \E r \in Reconcilers : rec[r].at = "completed" /\ rec[r].row = e
<1>1. executions \in [Calls -> ExecutionRows \cup {NoExecution}]
  BY DEF PipelineInv, PipelineTypeOK, StoreTypeOK
<1>2. ASSUME NEW f \in Calls, NEW status, UpdateExecutionStatus(f, status)
      PROVE  /\ f # e => executions[e].status = "completed"
             /\ status # "completed" => executions[e].status = "completed"
  BY <1>1, <1>2 DEF UpdateExecutionStatus
<1>3. ASSUME NEW f \in Calls, RecordReconcileAttempt(f)
      PROVE  executions[e].status = "completed"
  BY <1>1, <1>3 DEF RecordReconcileAttempt, ExecutionRows, Exists, NoExecution
<1>4. CASE UNCHANGED executions
  BY <1>4
<1>5. ASSUME NEW c \in Calls, CallStep(c)
      PROVE  executions[e].status = "completed" \/ pc[e] = "settle_completed"
  <2>1. CASE BeginCommit(c)
    <3>1. executions'[c].status = "executing"
      BY <1>1, <2>1 DEF BeginCommit, NewExecution
    <3>2. QED BY <1>1, <2>1, <3>1 DEF BeginCommit
  <2>2. CASE Settle(c) \/ SettleFails(c)
    <3>1. CASE UpdateExecutionStatus(c, SettledStatus(pc[c]))
      <4>1. SettledStatus(pc[c]) = "completed" => pc[c] = "settle_completed"
        BY <2>2 DEF Settle, SettleFails, SettledStatus
      <4>2. QED BY <1>2, <3>1, <4>1
    <3>2. QED BY <1>4, <2>2, <3>1, SettleStoreStep DEF storeVars
  <2>3. CASE LookupFree(c) \/ Refuse(c) \/ LoseRace(c) \/ Begin(c) \/ BeginThrows(c) \/ Crash(c)
    BY <1>4, <2>1, <2>3 DEF LookupFree, Refuse, LoseRace, Begin, BeginThrows, Crash,
       BeginLookup, BeginRefused, BeginDuplicate, BeginAborted
  <2>4. QED BY <1>4, <1>5, <2>2, <2>3, EarlyStoreStep DEF CallStep
<1>6. ASSUME NEW r \in Reconcilers, RecWork(r) \/ RecFault(r)
      PROVE  executions[e].status = "completed" \/ (rec[r].at = "completed" /\ rec[r].row = e)
  <2>1. /\ rec[r].cancel \subseteq Calls
        /\ rec[r].retry \subseteq Calls
        /\ rec[r].at \in {"completed", "failed_terminal"} => rec[r].row \in Calls
    BY DEF PipelineInv, PipelineTypeOK, RecRows, RecInv
  <2>2. CASE Sweep(r)
    BY <1>1, <2>2 DEF Sweep, SweepStaleExecutions, ExecutionRows, NoExecution, Exists
  <2>3. CASE CancelRow(r) \/ AttemptRow(r) \/ SkipRow(r)
    <3>1. \/ \E f \in rec[r].cancel : UpdateExecutionStatus(f, "cancelled")
          \/ \E f \in rec[r].retry : RecordReconcileAttempt(f)
          \/ UNCHANGED storeVars
      BY <2>3 DEF CancelRow, AttemptRow, SkipRow
    <3>2. "cancelled" # "completed"
      OBVIOUS
    <3>3. ASSUME NEW f \in rec[r].cancel, UpdateExecutionStatus(f, "cancelled")
          PROVE  executions[e].status = "completed"
      BY <1>2, <2>1, <3>2, <3>3
    <3>4. ASSUME NEW f \in rec[r].retry, RecordReconcileAttempt(f)
          PROVE  executions[e].status = "completed"
      BY <1>3, <2>1, <3>4
    <3>5. QED BY <1>4, <3>1, <3>3, <3>4 DEF storeVars
  <2>4. CASE SettleReplay(r) \/ SettleReplayFails(r)
    <3>1. UNCHANGED storeVars \/ UpdateExecutionStatus(rec[r].row, rec[r].at)
      BY <2>4 DEF SettleReplay, SettleReplayFails
    <3>2. rec[r].row \in Calls
      BY <2>1, <2>4 DEF SettleReplay, SettleReplayFails
    <3>3. QED BY <1>2, <1>4, <3>1, <3>2 DEF storeVars
  <2>5. CASE FindUnknown(r) \/ Replay(r) \/ EndCycle(r) \/ RecCrash(r)
    BY <1>4, <2>5 DEF FindUnknown, Replay, EndCycle, RecCrash, storeVars
  <2>6. QED BY <1>6, <2>2, <2>3, <2>4, <2>5 DEF RecWork, RecFault
<1>7. CASE Tick
  <2>1. executions'[e] = AgedExecutions[e]
    BY <1>7 DEF Tick, StoreTick
  <2>2. executions'[e].status = executions[e].status
    BY <1>1, <2>1 DEF AgedExecutions, ExecutionRows, NoExecution, Exists
  <2>3. QED BY <2>2
<1>8. CASE ApprovalServer \/ UNCHANGED vars
  BY <1>4, <1>8 DEF ApprovalServer, vars, storeVars
<1>9. QED BY <1>5, <1>6, <1>7, <1>8 DEF Next

\* A row becomes completed only after Stripe was seen to have the effect, and an
\* effect stays.
LEMMA CompletionInductive ==
  ASSUME PipelineInv, [Next]_vars
  PROVE  CompletedTookEffect'
<1>1. SUFFICES ASSUME NEW e \in Calls, Exists(e)', executions'[e].status = "completed",
                      executions'[e].hash.body \notin Rewritten
               PROVE  stripe'[executions'[e].hash.key] # {}
  BY DEF CompletedTookEffect
<1>2. \/ executions[e].status = "completed"
      \/ pc[e] = "settle_completed"
      \/ \E r \in Reconcilers : rec[r].at = "completed" /\ rec[r].row = e
  BY <1>1, WhoCompletes
<1>3. Exists(e)
  <2>1. pc[e] = "settle_completed" => Exists(e)
    BY DEF PipelineInv, CallInv, RowInv, Executing
  <2>2. \A r \in Reconcilers : rec[r].at = "completed" /\ rec[r].row = e => Exists(e)
    BY DEF PipelineInv, RecInv
  <2>3. QED BY <1>2, <2>1, <2>2 DEF Exists
<1>4. executions'[e].hash = executions[e].hash
  BY <1>3, StepKeepsStore DEF ClaimsStand
<1>5. executions[e].hash.key \in Keys
  BY <1>3 DEF PipelineInv, PipelineTypeOK, StoreTypeOK, ExecutionRows, NoExecution, Exists,
              Requests
<1>6. stripe[executions[e].hash.key] # {}
  <2>1. CASE executions[e].status = "completed"
    BY <1>1, <1>3, <1>4, <2>1 DEF PipelineInv, CompletedTookEffect
  <2>2. CASE pc[e] = "settle_completed"
    BY <1>3, <2>2 DEF PipelineInv, CallInv, RowInv, AnswerInv, Key
  <2>3. ASSUME NEW r \in Reconcilers, rec[r].at = "completed", rec[r].row = e
        PROVE  stripe[executions[e].hash.key] # {}
    BY <1>1, <1>4, <2>3 DEF PipelineInv, RecInv
  <2>4. QED BY <1>2, <2>1, <2>2, <2>3
<1>7. QED BY <1>4, <1>5, <1>6, StripeGrows

----------------------------------------------------------------------------
(* Stripe, and servers that are not live.                                  *)

\* What takes effect was sent, and what was sent some row claims.
LEMMA EffectsInductive ==
  ASSUME PipelineInv, [Next]_vars
  PROVE  EffectsWereSent' /\ OnlyClaimsReachStripe'
<1>1. /\ \A k \in Keys : stripe'[k] \ stripe[k] \subseteq sent'[k]
      /\ \A k \in Keys : sent[k] \subseteq sent'[k]
      /\ \A k \in Keys : \A p \in sent'[k] \ sent[k] :
           \E e \in RowsWith(k) : executions[e].hash.body = p.body
  BY StripeGrows
<1>2. EffectsWereSent'
  BY <1>1 DEF PipelineInv, EffectsWereSent
<1>3. ASSUME NEW k \in Keys, NEW p \in sent'[k]
      PROVE  \E e \in RowsWith(k)' : executions'[e].hash.body = p.body
  <2>1. PICK e \in RowsWith(k) : executions[e].hash.body = p.body
    BY <1>1, <1>3 DEF PipelineInv, OnlyClaimsReachStripe
  <2>2. e \in RowsWith(k)' /\ executions'[e].hash = executions[e].hash
    BY <2>1, StepKeepsStore DEF RowsWith, ClaimsStand, Exists
  <2>3. QED BY <2>1, <2>2
<1>4. QED BY <1>2, <1>3 DEF OnlyClaimsReachStripe

\* A call gets its row in the transaction and nowhere else.
LEMMA WhoBegins ==
  ASSUME PipelineInv, [Next]_vars, NEW c \in Calls, Exists(c)'
  PROVE  Exists(c) \/ pc[c] = "transaction"
<1>1. ASSUME Untouched(c) PROVE Exists(c)
  BY <1>1 DEF Untouched
<1>2. CASE CallStep(c)
  <2>1. CASE \/ Submit(c) \/ SkipTokenGate(c) \/ CheckToken(c) \/ ScoreRisk(c)
             \/ RequestApproval(c) \/ LookupConflict(c) \/ StepThrows(c)
             \/ CallStripe(c) \/ WriteAudit(c)
    BY <2>1, EarlyStoreStep DEF Exists
  <2>2. CASE LookupFree(c) \/ Crash(c)
    BY <2>2 DEF LookupFree, BeginLookup, Crash, Exists
  <2>3. CASE Refuse(c) \/ LoseRace(c) \/ Begin(c) \/ BeginThrows(c)
    BY <2>3 DEF Refuse, LoseRace, Begin, BeginThrows
  <2>4. CASE Settle(c) \/ SettleFails(c)
    BY <2>4, RowWhileExecuting DEF Settle, SettleFails, Executing
  <2>5. QED BY <1>2, <2>1, <2>2, <2>3, <2>4 DEF CallStep
<1>3. QED BY <1>1, <1>2, CallsAreApart, OthersLeaveCalls DEF Next

\* A token row appears only where its call asks for approval.
LEMMA WhoMints ==
  ASSUME PipelineInv, [Next]_vars, NEW c \in Calls, approvals[c].status = "absent",
         approvals'[c].status # "absent"
  PROVE  pc[c] = "approve"
<1>1. approvals[c] = NoApproval /\ approvals \in [Calls -> ApprovalRows \cup {NoApproval}]
  BY DEF PipelineInv, PipelineTypeOK, StoreTypeOK, ApprovalsTypeOK, ApprovalRows
<1>2. Expired(approvals)[c] = approvals[c] /\ AgedApprovals[c] = approvals[c]
  BY <1>1 DEF Expired, AgedApprovals, NoApproval
<1>3. ASSUME NEW t \in Calls, NEW verdict, Decide(t, verdict)
      PROVE  approvals'[c] = approvals[c]
  <2>1. Expired(approvals) \in [Calls -> ApprovalRows \cup {NoApproval}]
    BY <1>1, ExpiredType DEF ApprovalsTypeOK
  <2>2. CASE t = c
    <3>1. Expired(approvals)[t].status # "pending"
      BY <1>1, <1>2, <2>2 DEF NoApproval
    <3>2. QED BY <1>2, <1>3, <3>1 DEF Decide
  <2>3. CASE t # c
    BY <1>2, <1>3, <2>1, <2>3 DEF Decide
  <2>4. QED BY <2>2, <2>3
<1>4. ASSUME NEW d \in Calls, ApprovalCall(d), \A hash : ~CreateApproval(d, hash) \/ d # c
      PROVE  approvals'[c] = approvals[c]
  <2>1. ASSUME NEW hash, CreateApproval(d, hash), d # c
        PROVE  approvals'[c] = approvals[c]
    BY <1>1, <2>1 DEF CreateApproval
  <2>2. CASE ExpireStaleApprovals
    BY <1>2, <2>2 DEF ExpireStaleApprovals
  <2>3. QED
    BY <1>3, <1>4, <2>1, <2>2 DEF ApprovalCall, ApproveToken, RejectToken
<1>5. ASSUME NEW d \in Calls, BeginCall(d) PROVE approvals'[c].status = "absent"
  <2>1. ASSUME NEW t, approvals' = RefusedRows(t) PROVE approvals'[c].status = "absent"
    BY <1>1, <2>1 DEF RefusedRows, NoApproval
  <2>2. ASSUME NEW t, approvals' = ConsumedRows(t), approvals[t].status # "absent"
        PROVE  approvals'[c].status = "absent"
    <3>1. t # c
      BY <1>1, <2>2 DEF NoApproval
    <3>2. QED BY <1>1, <2>2, <3>1 DEF ConsumedRows, NoApproval
  <2>3. CASE BeginCommit(d)
    <3>1. CASE begun[d].token = NoToken
      BY <2>3, <3>1 DEF BeginCommit
    <3>2. CASE begun[d].token # NoToken
      <4>1. approvals' = ConsumedRows(begun[d].token)
        BY <2>3, <3>2 DEF BeginCommit
      <4>2. ConsumeResult(begun[d].token, begun[d].hash) = "ok"
        BY <2>3, <3>2 DEF BeginCommit, TokenVerdict
      <4>3. approvals[begun[d].token].status # "absent"
        BY <4>2 DEF ConsumeResult
      <4>4. QED BY <2>2, <4>1, <4>3
    <3>3. QED BY <3>1, <3>2
  <2>4. CASE BeginRefused(d)
    BY <2>1, <2>4 DEF BeginRefused
  <2>5. QED
    BY <1>5, <2>3, <2>4 DEF BeginCall, BeginLookup, BeginDuplicate, BeginAborted
<1>6. CASE UNCHANGED approvals
  BY <1>6
<1>7. ASSUME NEW d \in Calls, CallStep(d) PROVE pc[c] = "approve"
  <2>1. CASE \/ Submit(d) \/ SkipTokenGate(d) \/ CheckToken(d) \/ ScoreRisk(d)
             \/ RequestApproval(d) \/ LookupConflict(d) \/ StepThrows(d)
             \/ CallStripe(d) \/ WriteAudit(d)
    <3>1. ApprovalCall(d) \/ UNCHANGED approvals
      BY <2>1, EarlyStoreStep DEF storeVars
    <3>2. CASE d = c
      <4>1. \/ pc[d] = "approve"
            \/ UNCHANGED approvals
            \/ ExpireStaleApprovals
        BY <2>1 DEF Submit, SkipTokenGate, CheckToken, ScoreRisk, RequestApproval,
           LookupConflict, StepThrows, CallStripe, WriteAudit, storeVars
      <4>2. ~ExpireStaleApprovals
        BY <1>1, <1>2 DEF ExpireStaleApprovals
      <4>3. QED BY <1>6, <3>2, <4>1, <4>2
    <3>3. CASE d # c
      BY <1>4, <1>6, <3>1, <3>3
    <3>4. QED BY <3>2, <3>3
  <2>2. CASE LookupFree(d) \/ Refuse(d) \/ LoseRace(d) \/ Begin(d) \/ BeginThrows(d) \/ Crash(d)
    BY <1>5, <1>6, <2>2, BeginStoreStep DEF storeVars
  <2>3. CASE Settle(d) \/ SettleFails(d)
    BY <1>6, <2>3 DEF Settle, SettleFails, UpdateExecutionStatus, storeVars
  <2>4. QED BY <1>7, <2>1, <2>2, <2>3 DEF CallStep
<1>8. CASE \E r \in Reconcilers : RecWork(r) \/ RecFault(r)
  BY <1>6, <1>8, RecStoreStep
<1>9. CASE ApprovalServer
  <2>1. CASE \E t \in Calls : ApproveToken(t) \/ RejectToken(t)
    BY <1>3, <2>1 DEF ApproveToken, RejectToken
  <2>2. CASE ExpireStaleApprovals
    BY <1>2, <2>2 DEF ExpireStaleApprovals
  <2>3. QED BY <1>9, <2>1, <2>2 DEF ApprovalServer
<1>10. CASE Tick \/ UNCHANGED vars
  BY <1>2, <1>6, <1>10 DEF Tick, StoreTick, vars, storeVars
<1>11. QED BY <1>7, <1>8, <1>9, <1>10 DEF Next

\* A call to a server that is not live never gets as far as the gate, and so
\* never mints a token or claims a key.
LEMMA InertCallsInductive ==
  ASSUME PipelineInv, [Next]_vars
  PROVE  InertCalls'
<1>1. mode' = mode
  BY DEF Next, CallStep, Submit, SkipTokenGate, CheckToken, ScoreRisk, RequestApproval,
         LookupFree, LookupConflict, Refuse, LoseRace, Begin, BeginThrows, StepThrows,
         CallStripe, Settle, SettleFails, WriteAudit, Crash,
         RecWork, RecFault, Sweep, FindUnknown, CancelRow, AttemptRow, Replay, SettleReplay,
         EndCycle, SkipRow, SettleReplayFails, RecCrash, ApprovalServer, Tick, vars, callVars
<1>2. SUFFICES ASSUME NEW d \in Calls, mode[d] # "live"
               PROVE  /\ pc'[d] \in InertPlaces
                      /\ ~Exists(d)' /\ approvals'[d].status = "absent"
  BY <1>1 DEF InertCalls
<1>3. pc[d] \in InertPlaces /\ ~Exists(d) /\ approvals[d].status = "absent"
  BY <1>2 DEF PipelineInv, InertCalls
<1>4. ASSUME Untouched(d) PROVE pc'[d] \in InertPlaces
  BY <1>3, <1>4 DEF Untouched
<1>5. CASE CallStep(d)
  <2>1. pc \in [Calls -> CallStates]
    BY DEF PipelineInv, PipelineTypeOK
  <2>2. \/ Submit(d) \/ SkipTokenGate(d) \/ CheckToken(d) \/ ScoreRisk(d)
        \/ StepThrows(d) \/ WriteAudit(d) \/ Crash(d)
    BY <1>3, <1>5 DEF CallStep, RequestApproval, LookupFree, LookupConflict, Refuse,
       LoseRace, Begin, BeginThrows, CallStripe, Settle, SettleFails, InertPlaces
  <2>3. pc'[d] \in InertPlaces
    BY <1>2, <2>1, <2>2 DEF Submit, SkipTokenGate, CheckToken, ScoreRisk, StepThrows,
       WriteAudit, Crash, Goto, Return, AuditAndReturn, InertPlaces
  <2>4. QED BY <1>3, <2>3, WhoBegins, WhoMints DEF InertPlaces
<1>6. pc'[d] \in InertPlaces
  BY <1>4, <1>5, CallsAreApart, OthersLeaveCalls DEF Next
<1>7. QED BY <1>3, <1>6, WhoBegins, WhoMints DEF InertPlaces

----------------------------------------------------------------------------
(* The inductive invariant and what follows from it.                       *)

\* Every step keeps the invariant.
LEMMA PipelineInvInductive ==
  ASSUME PipelineInv, [Next]_vars
  PROVE  PipelineInv'
<1>1. PipelineTypeOK'
  BY PipelineTypeInductive
<1>2. StoreInv'
  BY StepKeepsStore
<1>3. (\A c \in Calls : CallInv(c))'
  BY CallsKeepInv
<1>4. (\A r \in Reconcilers : RecInv(r))'
  BY RecsKeepInv
<1>5. EffectsWereSent' /\ OnlyClaimsReachStripe'
  BY EffectsInductive
<1>6. CompletedTookEffect'
  BY CompletionInductive
<1>7. InertCalls'
  BY InertCallsInductive
<1>8. QED BY <1>1, <1>2, <1>3, <1>4, <1>5, <1>6, <1>7 DEF PipelineInv

\* And it holds at the start.
LEMMA InitPipelineInv ==
  ASSUME Init
  PROVE  PipelineInv
<1>1. StoreInv
  BY DEF Init, InitStore, InitApprovals, StoreTypeOK, ApprovalsTypeOK, StoreInv,
         BegunHasNoRow, UniqueKey, ApprovedWasDecided, RowTokenConsumed,
         ConsumedTokenBoughtOneRow, Exists, Begun, NoApproval, NoExecution, NoBegin
<1>2. PipelineTypeOK
  BY <1>1 DEF Init, StoreInv, PipelineTypeOK, CallStates, Answers, Tokens, IdleRec, RecRows
<1>3. \A c \in Calls : ~Exists(c) /\ ~Begun(c) /\ approvals[c].status = "absent"
  BY DEF Init, InitStore, InitApprovals, Exists, Begun, NoApproval, NoExecution, NoBegin
<1>4. \A c \in Calls : CallInv(c)
  BY <1>3 DEF Init, CallInv, BeginInv, RowInv, AnswerInv, Executing, Refusals
<1>5. \A r \in Reconcilers : RecInv(r)
  BY DEF Init, RecInv, IdleRec
<1>6. EffectsWereSent /\ OnlyClaimsReachStripe /\ CompletedTookEffect
  BY <1>3 DEF Init, EffectsWereSent, OnlyClaimsReachStripe, CompletedTookEffect
<1>7. InertCalls
  BY <1>3 DEF Init, InertCalls, InertPlaces
<1>8. QED BY <1>1, <1>2, <1>4, <1>5, <1>6, <1>7 DEF PipelineInv

\* In every reachable state a call's place in executeStripeOperation says what
\* it holds in approvals.db and at Stripe.
THEOREM PipelineInvariant == Spec => []PipelineInv
<1>1. Init => PipelineInv
  BY InitPipelineInv
<1>2. PipelineInv /\ [Next]_vars => PipelineInv'
  BY PipelineInvInductive
<1>3. QED BY <1>1, <1>2, PTL DEF Spec

\* The variables of the pipeline hold values of the declared shape.
THEOREM PipelineTypeCorrect == Spec => []PipelineTypeOK
<1>1. PipelineInv => PipelineTypeOK
  BY DEF PipelineInv
<1>2. QED BY <1>1, PipelineInvariant, PTL

\* The pipeline, the reconcilers and the approval server call the store as its
\* most general client may: the theorems of StoreProofs hold of them.
THEOREM PipelineUsesStore == Spec => UsesStore
<1>1. Init => InitStore
  BY DEF Init
<1>2. PipelineInv /\ [Next]_vars => [StoreNext]_storeVars
  BY StepUsesStore
<1>3. QED BY <1>1, <1>2, PipelineInvariant, PTL DEF Spec, UsesStore, StoreSpec

\* Whatever reaches Stripe, from a call or from a replay, some execution row
\* claims under that idempotency key.
THEOREM ClaimedBeforeSent == Spec => []OnlyClaimsReachStripe
<1>1. PipelineInv => OnlyClaimsReachStripe
  BY DEF PipelineInv
<1>2. QED BY <1>1, PipelineInvariant, PTL

\* At most one call at a time is past beginExecution with a key.
THEOREM ExecutorsAreAlone == Spec => []SingleExecutor
<1>1. ASSUME PipelineInv PROVE SingleExecutor
  <2>1. SUFFICES ASSUME NEW c \in Calls, Executing(c)
                 PROVE  RowsWith(Key(c)) = {c} /\ executions[c].hash = req[c].request
    BY DEF SingleExecutor
  <2>2. Exists(c) /\ executions[c].hash = req[c].request
    BY <1>1, <2>1, RowWhileExecuting
  <2>3. c \in RowsWith(Key(c))
    BY <2>2 DEF RowsWith, Key
  <2>4. \A e \in RowsWith(Key(c)) : e = c
    BY <1>1, <2>2 DEF PipelineInv, StoreInv, UniqueKey, RowsWith, Key
  <2>5. QED BY <2>2, <2>3, <2>4
<1>2. QED BY <1>1, PipelineInvariant, PTL

\* A gated body takes effect only under a consumed token that a human decided
\* for exactly this key and body, however it got to Stripe.
THEOREM GatedEffectsAreApproved == Spec => []GatedEffectApproved
<1>1. ASSUME PipelineInv PROVE GatedEffectApproved
  <2>1. SUFFICES ASSUME NEW k \in Keys, NEW p \in stripe[k], p.body \in AlwaysGated
                 PROVE  \E t \in Calls :
                          /\ approvals[t].status = "consumed"
                          /\ approvals[t].decided
                          /\ approvals[t].hash = RequestHash(k, p.body)
    BY DEF GatedEffectApproved
  <2>2. p \in sent[k]
    BY <1>1 DEF PipelineInv, EffectsWereSent
  <2>3. PICK e \in RowsWith(k) : executions[e].hash.body = p.body
    BY <1>1, <2>2 DEF PipelineInv, OnlyClaimsReachStripe
  <2>4. e \in Calls /\ Exists(e) /\ executions[e].hash.key = k
    BY <2>3 DEF RowsWith
  <2>5. executions[e] \in ExecutionRows
    BY <1>1, <2>4 DEF PipelineInv, StoreInv, StoreTypeOK, Exists, NoExecution
  <2>6. executions[e].hash = RequestHash(k, p.body)
    BY <2>3, <2>4, <2>5 DEF ExecutionRows, Requests, RequestHash
  <2>7. executions[e].token # NoToken
    BY <1>1, <2>1, <2>3, <2>4 DEF PipelineInv, CallInv, RowInv, Gated, Body
  <2>8. executions[e].token \in Calls
    BY <2>5, <2>7 DEF ExecutionRows, Tokens
  <2>9. QED BY <1>1, <2>4, <2>6, <2>7, <2>8 DEF PipelineInv, StoreInv, RowTokenConsumed
<1>2. QED BY <1>1, PipelineInvariant, PTL

\* An answer or an audit entry "success" is true of Stripe.
THEOREM SuccessesAreReal == Spec => []SuccessIsReal
<1>1. PipelineInv => SuccessIsReal
  BY DEF PipelineInv, CallInv, AnswerInv, SuccessIsReal
<1>2. QED BY <1>1, PipelineInvariant, PTL

\* A refused call leaves neither a row nor a spent token.
THEOREM RefusalsLeaveNoTrace == Spec => []RefusalLeavesNoTrace
<1>1. ASSUME PipelineInv PROVE RefusalLeavesNoTrace
  <2>1. SUFFICES ASSUME NEW c \in Calls, answer[c] \in Refusals
                 PROVE  /\ ~Exists(c)
                        /\ \A t \in Calls : approvals[t].status = "consumed" =>
                             \E e \in Calls \ {c} : Exists(e) /\ executions[e].token = t
    BY DEF RefusalLeavesNoTrace
  <2>2. ~Exists(c)
    BY <1>1, <2>1 DEF PipelineInv, CallInv, AnswerInv
  <2>3. QED BY <1>1, <2>2 DEF PipelineInv, StoreInv, ConsumedTokenBoughtOneRow
<1>2. QED BY <1>1, PipelineInvariant, PTL

\* A completed row took effect, whoever completed it.
THEOREM CompletionsTookEffect == Spec => []CompletedTookEffect
<1>1. PipelineInv => CompletedTookEffect
  BY DEF PipelineInv
<1>2. QED BY <1>1, PipelineInvariant, PTL

\* Calls to read-only and dry-run servers cost nothing and cause nothing, next to
\* live servers on the same database and whatever token they present.
THEOREM OnlyLiveServersAct == Spec => []OnlyLiveCallsAct
<1>1. ASSUME PipelineInv PROVE OnlyLiveCallsAct
  <2>1. \A c \in Calls : Exists(c) => mode[c] = "live"
    BY <1>1 DEF PipelineInv, InertCalls
  <2>2. \A c \in Calls : mode[c] # "live" => ~Exists(c) /\ approvals[c].status = "absent"
    BY <1>1 DEF PipelineInv, InertCalls
  <2>3. ASSUME NEW t \in Calls, approvals[t].status = "consumed"
        PROVE  \E c \in Calls : mode[c] = "live" /\ Exists(c) /\ executions[c].token = t
    BY <1>1, <2>1, <2>3 DEF PipelineInv, StoreInv, ConsumedTokenBoughtOneRow
  <2>4. ASSUME NEW k \in Keys, NEW p \in sent[k]
        PROVE  \E c \in RowsWith(k) :
                 mode[c] = "live" /\ executions[c].hash.body = p.body
    <3>1. PICK c \in RowsWith(k) : executions[c].hash.body = p.body
      BY <1>1, <2>4 DEF PipelineInv, OnlyClaimsReachStripe
    <3>2. QED BY <2>1, <3>1 DEF RowsWith
  <2>5. QED BY <2>2, <2>3, <2>4 DEF OnlyLiveCallsAct
<1>2. QED BY <1>1, PipelineInvariant, PTL

\* What the store's theorems say holds of the whole pipeline.
THEOREM StoreHolds ==
  Spec => /\ [](UniqueKey /\ RowTokenConsumed /\ ConsumedTokenBoughtOneRow)
          /\ ClaimIsPermanent
          /\ TokenLivesUntilExpiry
<1>1. QED
  BY PipelineUsesStore, KeysAreUnique, RowsArePaidFor, TokensBuyOnce,
     ClaimsArePermanent, TokensLiveUntilExpiry, PTL DEF UsesStore

----------------------------------------------------------------------------
(* The pipeline implements the promise of OnceOnly.                        *)

\* How an approval may change while nothing is made or claimed.
RowMoves(t) ==
  \/ approvals[t].status = "absent" /\ approvals'[t].status = "absent"
  \/ /\ approvals[t].status # "absent"
     /\ approvals'[t].hash = approvals[t].hash
     /\ \/ approvals'[t].status = approvals[t].status
        \/ approvals[t].status \in {"pending", "approved"} /\ approvals'[t].status = "expired"
        \/ approvals[t].status = "pending" /\ approvals'[t].status = "approved"

\* A move of an approval row decides its offer, voids it, or leaves it as it is.
LEMMA OfferOfRow ==
  ASSUME NEW t \in Calls, StoreTypeOK, RowMoves(t)
  PROVE  \/ Offer(t)' = Offer(t)
         \/ /\ Offer(t).state \in {"open", "granted"}
            /\ Offer(t)' = [Offer(t) EXCEPT !.state = "void"]
         \/ /\ Offer(t).state = "open"
            /\ Offer(t)' = [Offer(t) EXCEPT !.state = "granted"]
<1>1. CASE approvals[t].status = "absent"
  BY <1>1 DEF RowMoves, Offer
<1>2. CASE approvals[t].status # "absent"
  <2>1. /\ approvals[t].status \in {"pending", "approved", "consumed", "expired"}
        /\ approvals'[t].hash = approvals[t].hash
        /\ approvals'[t].status # "absent"
    BY <1>2 DEF RowMoves, StoreTypeOK, ApprovalsTypeOK, ApprovalRows, NoApproval
  <2>2. /\ Offer(t) = [state |-> OfferState(approvals[t].status),
                       request |-> approvals[t].hash]
        /\ Offer(t)' = [state |-> OfferState(approvals'[t].status),
                        request |-> approvals[t].hash]
    BY <1>2, <2>1 DEF Offer, OfferState
  <2>3. OfferState("pending") = "open" /\ OfferState("approved") = "granted"
          /\ OfferState("expired") = "void"
    BY DEF OfferState
  <2>4. CASE approvals'[t].status = approvals[t].status
    BY <2>2, <2>4
  <2>5. CASE /\ approvals[t].status \in {"pending", "approved"}
             /\ approvals'[t].status = "expired"
    BY <2>2, <2>3, <2>5
  <2>6. CASE approvals[t].status = "pending" /\ approvals'[t].status = "approved"
    BY <2>2, <2>3, <2>6
  <2>7. QED BY <1>2, <2>4, <2>5, <2>6 DEF RowMoves
<1>3. QED BY <1>1, <1>2

\* Such changes are a Decide of the promise.
LEMMA RowsMovingIsDecide ==
  ASSUME StoreTypeOK, \A t \in Calls : RowMoves(t),
         \A c \in Calls : ClaimOf(c)' = ClaimOf(c), UNCHANGED stripe
  PROVE  Promise!Decide
<1> DEFINE lapsed == {t \in Calls : /\ Offer(t).state \in {"open", "granted"}
                                    /\ Offer(t)' = [Offer(t) EXCEPT !.state = "void"]}
           granted == {t \in Calls \ lapsed :
                         /\ Offer(t).state = "open"
                         /\ Offer(t)' = [Offer(t) EXCEPT !.state = "granted"]}
<1>1. \A t \in Calls : Offer(t)' = IF t \in lapsed THEN [Offer(t) EXCEPT !.state = "void"]
                                   ELSE IF t \in granted
                                        THEN [Offer(t) EXCEPT !.state = "granted"]
                                        ELSE Offer(t)
  BY OfferOfRow
<1> DEFINE offers == [t \in Calls |-> Offer(t)]
<1>2. /\ lapsed \in SUBSET {t \in Calls : offers[t].state \in {"open", "granted"}}
      /\ granted \in SUBSET {t \in Calls \ lapsed : offers[t].state = "open"}
  OBVIOUS
<1> HIDE DEF lapsed, granted
<1>3. offers' = [t \in Calls |->
                   IF t \in lapsed THEN [offers[t] EXCEPT !.state = "void"]
                   ELSE IF t \in granted THEN [offers[t] EXCEPT !.state = "granted"]
                   ELSE offers[t]]
  BY <1>1
<1>4. /\ [c \in Calls |-> ClaimOf(c)]' = [c \in Calls |-> ClaimOf(c)]
      /\ [k \in Keys |-> EffectsUnder(k)]' = [k \in Keys |-> EffectsUnder(k)]
  BY DEF EffectsUnder
<1>5. QED BY <1>2, <1>3, <1>4, Zenon DEF Promise!Decide

\* Expiry, a decision, time and a refused token move the rows so.
LEMMA RowsMove ==
  ASSUME StoreTypeOK,
         \/ ExpireStaleApprovals
         \/ \E t \in Calls : ApproveToken(t) \/ RejectToken(t)
         \/ approvals' = AgedApprovals
         \/ \E t \in Calls : approvals' = RefusedRows(t)
         \/ UNCHANGED approvals,
         NEW u \in Calls
  PROVE  RowMoves(u)
<1>1. approvals \in [Calls -> ApprovalRows \cup {NoApproval}]
  BY DEF StoreTypeOK, ApprovalsTypeOK
<1>2. \/ Expired(approvals)[u] = approvals[u]
      \/ /\ approvals[u] \in ApprovalRows
         /\ approvals[u].status \in {"pending", "approved"}
         /\ Expired(approvals)[u].status = "expired"
         /\ Expired(approvals)[u].hash = approvals[u].hash
  BY <1>1 DEF Expired, ApprovalRows, NoApproval
<1>3. CASE ExpireStaleApprovals
  BY <1>2, <1>3 DEF ExpireStaleApprovals, RowMoves
<1>4. ASSUME NEW t \in Calls, NEW verdict \in {"approved", "expired"}, Decide(t, verdict)
      PROVE  RowMoves(u)
  <2> DEFINE rows == Expired(approvals)
             decided == [rows[t] EXCEPT !.status = verdict, !.decided = TRUE]
  <2>1. rows \in [Calls -> ApprovalRows \cup {NoApproval}]
    BY <1>1, ExpiredType DEF ApprovalsTypeOK
  <2>2. approvals' = IF rows[t].status = "pending"
                     THEN [rows EXCEPT ![t] = decided] ELSE rows
    BY <1>4 DEF Decide
  <2>3. rows[t].status = "pending" =>
          /\ decided.status = verdict /\ decided.hash = rows[t].hash
          /\ approvals[t] = rows[t]
    <3>1. rows[t].status = "pending" => rows[t] \in ApprovalRows
      BY <2>1 DEF NoApproval
    <3>2. rows[t].status = "pending" => approvals[t] = rows[t]
      BY DEF Expired
    <3> HIDE DEF rows
    <3>3. QED BY <3>1, <3>2 DEF ApprovalRows
  <2>4. \/ rows[u] = approvals[u]
        \/ /\ approvals[u].status \in {"pending", "approved"}
           /\ rows[u].status = "expired"
           /\ rows[u].hash = approvals[u].hash
    BY <1>2
  <2> HIDE DEF rows, decided
  <2>5. CASE rows[t].status = "pending" /\ u = t
    <3>1. approvals'[u] = decided
      BY <2>1, <2>2, <2>5
    <3>2. QED BY <1>4, <2>3, <2>5, <3>1 DEF RowMoves
  <2>6. CASE ~(rows[t].status = "pending" /\ u = t)
    <3>1. approvals'[u] = rows[u]
      BY <2>1, <2>2, <2>6
    <3>2. QED BY <2>4, <3>1 DEF RowMoves
  <2>7. QED BY <2>5, <2>6
<1>5. CASE approvals' = AgedApprovals
  BY <1>1, <1>5 DEF AgedApprovals, RowMoves, ApprovalRows, NoApproval
<1>6. ASSUME NEW t \in Calls, approvals' = RefusedRows(t)
      PROVE  RowMoves(u)
  BY <1>1, <1>6 DEF RefusedRows, RowMoves, ApprovalRows, NoApproval
<1>7. CASE UNCHANGED approvals
  BY <1>7 DEF RowMoves
<1>8. QED BY <1>3, <1>4, <1>5, <1>6, <1>7 DEF ApproveToken, RejectToken

\* A step that claims nothing leaves the claims of the promise as they are.
LEMMA ClaimsUnmoved ==
  ASSUME ClaimsNothing, NEW c \in Calls
  PROVE  ClaimOf(c)' = ClaimOf(c)
BY DEF ClaimsNothing, ClaimOf

\* Minting a token makes an offer.
LEMMA CreateIsMake ==
  ASSUME StoreTypeOK, NEW t \in Calls, NEW hash \in Requests, CreateApproval(t, hash),
         UNCHANGED <<executions, stripe>>
  PROVE  Promise!Make(t)
<1> DEFINE offers == [u \in Calls |-> Offer(u)]
           offer == [state |-> "open", request |-> hash]
<1>1. offers[t] = [state |-> "none"]
  BY DEF CreateApproval, NoApproval, Offer
<1>2. offers' = [offers EXCEPT ![t] = offer]
  <2>1. approvals'[t].status = "pending" /\ approvals'[t].hash = hash
    BY DEF CreateApproval, StoreTypeOK, ApprovalsTypeOK
  <2>2. Offer(t)' = offer
    BY <2>1 DEF Offer, OfferState
  <2>3. \A u \in Calls \ {t} : Offer(u)' = Offer(u)
    <3>1. \A u \in Calls \ {t} : approvals'[u] = approvals[u]
      BY DEF CreateApproval, StoreTypeOK, ApprovalsTypeOK
    <3>2. QED BY <3>1 DEF Offer
  <2> HIDE DEF offer
  <2>4. QED BY <2>2, <2>3
<1>3. hash \in Promise!Requests
  BY DEF Requests, Promise!Requests
<1>4. /\ [c \in Calls |-> ClaimOf(c)]' = [c \in Calls |-> ClaimOf(c)]
      /\ [k \in Keys |-> EffectsUnder(k)]' = [k \in Keys |-> EffectsUnder(k)]
  BY DEF EffectsUnder, ClaimOf, Exists
<1>5. QED BY <1>1, <1>2, <1>3, <1>4, Zenon DEF Promise!Make, Promise!NoOffer

\* Consuming an approved token spends its offer.
LEMMA SpendingAnOffer ==
  ASSUME StoreTypeOK, NEW t \in Calls, approvals[t].status = "approved",
         approvals' = [approvals EXCEPT ![t].status = "consumed"]
  PROVE  [u \in Calls |-> Offer(u)]' = [[u \in Calls |-> Offer(u)] EXCEPT ![t].state = "spent"]
<1>1. approvals[t] \in ApprovalRows
  BY DEF StoreTypeOK, ApprovalsTypeOK, NoApproval
<1>2. approvals'[t].status = "consumed" /\ approvals'[t].hash = approvals[t].hash
  BY <1>1 DEF StoreTypeOK, ApprovalsTypeOK, ApprovalRows
<1>3. Offer(t) = [state |-> "granted", request |-> approvals[t].hash]
  BY DEF Offer, OfferState
<1>4. Offer(t)' = [state |-> "spent", request |-> approvals[t].hash]
  BY <1>2 DEF Offer, OfferState
<1>5. Offer(t)' = [Offer(t) EXCEPT !.state = "spent"]
  BY <1>3, <1>4
<1>6. \A u \in Calls \ {t} : Offer(u)' = Offer(u)
  <2>1. \A u \in Calls \ {t} : approvals'[u] = approvals[u]
    BY DEF StoreTypeOK, ApprovalsTypeOK
  <2>2. QED BY <2>1 DEF Offer
<1>7. QED BY <1>5, <1>6

\* A committed begin is a claim, paid for by a granted offer if gated.
LEMMA CommitIsClaim ==
  ASSUME PipelineInv, NEW c \in Calls, BeginCommit(c), UNCHANGED stripe
  PROVE  Promise!Claim(c)
<1> DEFINE offers == [t \in Calls |-> Offer(t)]
           claims == [d \in Calls |-> ClaimOf(d)]
           request == begun[c].hash
           token == begun[c].token
           claim == [claimed |-> TRUE, request |-> request]
<1>1. /\ executions \in [Calls -> ExecutionRows \cup {NoExecution}]
      /\ approvals \in [Calls -> ApprovalRows \cup {NoApproval}]
      /\ begun[c] \in BeginArgs
  BY DEF PipelineInv, StoreInv, StoreTypeOK, ApprovalsTypeOK, BeginCommit, Begun, NoBegin
<1>2. request \in Requests /\ request \in Promise!Requests /\ token \in Tokens
  BY <1>1 DEF BeginArgs, Requests, Promise!Requests
<1>3. ~Exists(c)
  BY DEF BeginCommit, PipelineInv, StoreInv, BegunHasNoRow
<1>4. claims[c] = [claimed |-> FALSE]
  BY <1>3 DEF ClaimOf
<1>5. \A d \in Calls : claims[d].claimed => claims[d].request.key # request.key
  <2>1. \A d \in Calls : Exists(d) => executions[d].hash.key # request.key
    BY DEF BeginCommit, RowsWith
  <2>2. \A d \in Calls : Exists(d) => claims[d].request = executions[d].hash
    BY DEF ClaimOf
  <2>3. \A d \in Calls : ~Exists(d) => claims[d].claimed = FALSE
    BY DEF ClaimOf
  <2>4. QED BY <2>1, <2>2, <2>3
<1>6. claims' = [claims EXCEPT ![c] = claim]
  <2>1. executions'[c] = NewExecution(c)
    BY <1>1 DEF BeginCommit
  <2>2. Exists(c)' /\ executions'[c].hash = request
    BY <2>1 DEF NewExecution, Exists
  <2>3. ClaimOf(c)' = claim
    BY <2>2 DEF ClaimOf
  <2>4. \A d \in Calls \ {c} : executions'[d] = executions[d]
    BY <1>1 DEF BeginCommit
  <2>5. \A d \in Calls \ {c} : ClaimOf(d)' = ClaimOf(d)
    BY <2>4 DEF ClaimOf, Exists
  <2> HIDE DEF claim
  <2>6. QED BY <2>3, <2>5
<1>7. [k \in Keys |-> EffectsUnder(k)]' = [k \in Keys |-> EffectsUnder(k)]
  BY DEF EffectsUnder
<1>8. CASE token = NoToken
  <2>1. request.body \notin AlwaysGated
    BY <1>8 DEF PipelineInv, CallInv, BeginInv, Gated, Body, BeginCommit
  <2>2. offers' = offers
    BY <1>8 DEF BeginCommit, Offer
  <2>3. QED
    BY <1>2, <1>4, <1>5, <1>6, <1>7, <2>1, <2>2, ZenonT(40)
       DEF Promise!Claim, Promise!Free, Promise!NoClaim, Promise!Claimed
<1>9. CASE token # NoToken
  <2>1. token \in Calls
    BY <1>2, <1>9 DEF Tokens
  <2>2. approvals[token].status = "approved" /\ approvals[token].hash = request
    <3>1. ConsumeResult(token, request) = "ok"
      BY <1>9 DEF BeginCommit, TokenVerdict
    <3>2. approvals[token] \in ApprovalRows \cup {NoApproval}
      BY <1>1, <2>1
    <3> HIDE DEF token, request
    <3>3. QED BY <3>1, <3>2 DEF ConsumeResult, ApprovalRows, NoApproval
  <2>3. offers[token] = [state |-> "granted", request |-> request]
    BY <2>1, <2>2 DEF Offer, OfferState
  <2>4. offers' = [offers EXCEPT ![token].state = "spent"]
    <3>1. approvals' = [approvals EXCEPT ![token].status = "consumed"]
      BY <1>9 DEF BeginCommit, ConsumedRows
    <3>2. StoreTypeOK
      BY DEF PipelineInv, StoreInv
    <3> HIDE DEF token
    <3>3. QED BY <2>1, <2>2, <3>1, <3>2, SpendingAnOffer
  <2>5. QED
    BY <1>2, <1>4, <1>5, <1>6, <1>7, <2>1, <2>3, <2>4, ZenonT(40)
       DEF Promise!Claim, Promise!Free, Promise!NoClaim, Promise!Claimed
<1>10. QED BY <1>8, <1>9

\* A request to Stripe performs what its row claims, or changes nothing.
LEMMA SendIsPerform ==
  ASSUME PipelineInv, NEW e \in Calls, NEW payload \in Payloads, NEW outcome,
         SendsFor(e, payload, outcome)
  PROVE  Promise!Perform(e) \/ UNCHANGED Promise!abstractVars
<1> DEFINE key == executions[e].hash.key
           claims == [d \in Calls |-> ClaimOf(d)]
           effects == [k \in Keys |-> EffectsUnder(k)]
<1>1. stripe \in [Keys -> SUBSET Payloads] /\ sent \in [Keys -> SUBSET Payloads]
  BY DEF PipelineInv, PipelineTypeOK
<1>2. key \in Keys /\ Exists(e) /\ executions[e].hash.body = payload.body
        /\ UNCHANGED <<approvals, executions>>
  BY DEF SendsFor, storeVars
<1>3. [t \in Calls |-> Offer(t)]' = [t \in Calls |-> Offer(t)] /\ claims' = claims
  BY <1>2 DEF Offer, ClaimOf, Exists
<1>4. \A k \in Keys : stripe'[k] # stripe[k] => k = key /\ stripe[k] = {}
                                                /\ stripe'[k] = {payload}
  BY <1>1, <1>2, StripeRequestEffect DEF SendsFor
<1>5. claims[e] = [claimed |-> TRUE, request |-> executions[e].hash]
  BY <1>2 DEF ClaimOf
<1>6. CASE stripe'[key] = stripe[key]
  <2>1. effects' = effects
    BY <1>4, <1>6 DEF EffectsUnder
  <2>2. QED BY <1>3, <2>1 DEF Promise!abstractVars
<1>7. CASE stripe'[key] # stripe[key]
  <2>1. stripe[key] = {} /\ stripe'[key] = {payload}
    BY <1>2, <1>4, <1>7
  <2>2. \A k \in Keys \ {key} : stripe'[k] = stripe[k]
    BY <1>4
  <2>3. effects[key] = {}
    BY <1>2, <2>1 DEF EffectsUnder
  <2>4. effects' = [effects EXCEPT ![key] = {executions[e].hash.body}]
    <3>1. {p.body : p \in {payload}} = {payload.body}
      OBVIOUS
    <3>2. \A k \in Keys : EffectsUnder(k)' = IF k = key THEN {payload.body}
                                             ELSE EffectsUnder(k)
      BY <2>1, <2>2, <3>1 DEF EffectsUnder
    <3> HIDE DEF key
    <3>3. QED BY <1>2, <3>2
  <2>5. claims[e].claimed = TRUE /\ claims[e].request = executions[e].hash
    BY <1>5
  <2>6. QED BY <1>3, <2>3, <2>4, <2>5 DEF Promise!Perform
<1>8. QED BY <1>6, <1>7

\* Every step of the store is a step of the promise.
LEMMA StoreStepKeepsPromise ==
  ASSUME PipelineInv, [StoreNext]_storeVars, UNCHANGED stripe
  PROVE  Promise!Next
<1>1. StoreTypeOK /\ ApprovedWasDecided
  BY DEF PipelineInv, StoreInv
<1>2. ASSUME ClaimsNothing,
             \/ ExpireStaleApprovals
             \/ \E t \in Calls : ApproveToken(t) \/ RejectToken(t)
             \/ approvals' = AgedApprovals
             \/ \E t \in Calls : approvals' = RefusedRows(t)
             \/ UNCHANGED approvals
      PROVE  Promise!Next
  <2>1. \A u \in Calls : RowMoves(u)
    BY <1>1, <1>2, RowsMove
  <2>2. \A c \in Calls : ClaimOf(c)' = ClaimOf(c)
    BY <1>2, ClaimsUnmoved
  <2>3. Promise!Decide
    BY <1>1, <2>1, <2>2, RowsMovingIsDecide
  <2>4. QED BY <2>3 DEF Promise!Next
<1>3. ASSUME NEW t \in Calls, ApprovalCall(t) PROVE Promise!Next
  <2>1. ClaimsNothing
    BY <1>1, <1>3, ApprovalCallClaimsNothing
  <2>2. CASE \E hash \in Requests : CreateApproval(t, hash)
    <3>1. Promise!Make(t)
      BY <1>1, <1>3, <2>2, CreateIsMake DEF ApprovalCall
    <3>2. QED BY <3>1 DEF Promise!Next
  <2>3. CASE ExpireStaleApprovals \/ ApproveToken(t) \/ RejectToken(t)
    BY <1>2, <2>1, <2>3
  <2>4. QED BY <1>3, <2>2, <2>3 DEF ApprovalCall
<1>4. ASSUME NEW c \in Calls, BeginCommit(c) PROVE Promise!Next
  <2>1. Promise!Claim(c)
    BY <1>4, CommitIsClaim
  <2>2. QED BY <2>1 DEF Promise!Next
<1>5. ASSUME NEW c \in Calls, BeginCall(c), ~BeginCommit(c) PROVE Promise!Next
  <2>1. ClaimsNothing
    BY <1>1, <1>5, FailedBeginClaimsNothing DEF BeginCall
  <2>2. UNCHANGED approvals \/ \E t \in Calls : approvals' = RefusedRows(t)
    <3>1. CASE BeginRefused(c)
      <4>1. begun[c].token \in Calls
        BY <1>1, <3>1 DEF BeginRefused, TokenVerdict, StoreTypeOK, BeginArgs, NoBegin, Begun,
                          Tokens
      <4>2. QED BY <3>1, <4>1 DEF BeginRefused
    <3>2. QED
      BY <1>5, <3>1 DEF BeginCall, BeginLookup, BeginDuplicate, BeginAborted
  <2>3. QED BY <1>2, <2>1, <2>2
<1>6. CASE \/ \E e \in Calls : UpdateCall(e)
           \/ SweepStaleExecutions
           \/ StoreTick
           \/ UNCHANGED storeVars
  <2>1. ClaimsNothing
    BY <1>1, <1>6, RowStepClaimsNothing
  <2>2. UNCHANGED approvals \/ approvals' = AgedApprovals
    BY <1>6 DEF UpdateCall, UpdateExecutionStatus, RecordReconcileAttempt,
                SweepStaleExecutions, StoreTick, storeVars
  <2>3. QED BY <1>2, <2>1, <2>2
<1>7. QED BY <1>3, <1>4, <1>5, <1>6 DEF StoreNext

\* For any number of calls, keys, bodies and reconcilers: a key is claimed at
\* most once, a gated request only by spending an offer granted for it, and
\* Stripe performs claimed requests only, each at most once.
THEOREM PipelineKeepsPromise == Spec => KeepsPromise
<1>1. Init => Promise!Init
  <2>1. SUFFICES ASSUME Init PROVE Promise!Init
    OBVIOUS
  <2>2. \A c \in Calls : Offer(c) = [state |-> "none"] /\ ClaimOf(c) = [claimed |-> FALSE]
    BY <2>1 DEF Init, InitStore, InitApprovals, NoApproval, NoExecution, Offer, ClaimOf, Exists
  <2>3. \A k \in Keys : EffectsUnder(k) = {}
    BY <2>1 DEF Init, EffectsUnder
  <2>4. QED BY <2>2, <2>3 DEF Promise!Init, Promise!NoOffer, Promise!NoClaim
<1>2. PipelineInv /\ [Next]_vars => [Promise!Next]_(Promise!abstractVars)
  <2>1. SUFFICES ASSUME PipelineInv, [Next]_vars
                 PROVE  [Promise!Next]_(Promise!abstractVars)
    OBVIOUS
  <2>2. CASE UNCHANGED stripeVars
    <3>1. UNCHANGED stripe
      BY <2>2 DEF stripeVars
    <3>2. Promise!Next
      BY <2>1, <3>1, StepUsesStore, StoreStepKeepsPromise
    <3>3. QED BY <3>2
  <2>3. ASSUME NEW e \in Calls, NEW payload \in Payloads, NEW outcome,
               SendsFor(e, payload, outcome)
        PROVE  [Promise!Next]_(Promise!abstractVars)
    <3>1. Promise!Perform(e) \/ UNCHANGED Promise!abstractVars
      BY <2>1, <2>3, SendIsPerform
    <3>2. CASE Promise!Perform(e)
      <4>1. Promise!Next
        BY <3>2 DEF Promise!Next
      <4>2. QED BY <4>1
    <3>3. QED BY <3>1, <3>2
  <2>4. QED BY <2>1, <2>2, <2>3, WhoSends
<1>3. QED BY <1>1, <1>2, PipelineInvariant, PTL DEF Spec, KeepsPromise, Promise!Spec
=============================================================================
