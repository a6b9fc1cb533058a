---------------------------- MODULE StoreProofs ----------------------------
(***************************************************************************)
(* Proofs about approvals.db for any number of calls, keys and bodies and  *)
(* under its most general client.                                          *)
(***************************************************************************)
EXTENDS ExecutionStore, TLAPS

USE ApprovalAssumption, ExecutionAssumption

\* expireStaleApprovals keeps the table well typed.
LEMMA ExpiredType ==
  ASSUME ApprovalsTypeOK
  PROVE  Expired(approvals) \in [Calls -> ApprovalRows \cup {NoApproval}]
BY DEF ApprovalsTypeOK, Expired, ApprovalRows, NoApproval, PastExpiry

\* So do minting, deciding and looking at tokens.
LEMMA ApprovalCallType ==
  ASSUME ApprovalsTypeOK, NEW t \in Calls, ApprovalCall(t)
  PROVE  ApprovalsTypeOK'
<1>1. CASE \E hash \in Requests : CreateApproval(t, hash)
  BY <1>1 DEF CreateApproval, ApprovalsTypeOK, ApprovalRows, NoApproval
<1>2. CASE ExpireStaleApprovals
  BY <1>2, ExpiredType DEF ExpireStaleApprovals, ApprovalsTypeOK
<1>3. ASSUME NEW verdict \in {"approved", "expired"}, Decide(t, verdict)
      PROVE  ApprovalsTypeOK'
  <2> DEFINE rows == Expired(approvals)
             decided == [rows[t] EXCEPT !.status = verdict, !.decided = TRUE]
  <2>1. rows \in [Calls -> ApprovalRows \cup {NoApproval}]
    BY ExpiredType
  <2>2. approvals' = IF rows[t].status = "pending"
                     THEN [rows EXCEPT ![t] = decided] ELSE rows
    BY <1>3 DEF Decide
  <2>3. rows[t].status = "pending" => decided \in ApprovalRows
    <3> HIDE DEF rows
    <3>1. rows[t].status = "pending" => rows[t] \in ApprovalRows
      BY <2>1 DEF NoApproval
    <3>2. QED BY <1>3, <3>1 DEF ApprovalRows
  <2>4. QED
    <3> HIDE DEF rows, decided
    <3>1. QED BY <2>1, <2>2, <2>3 DEF ApprovalsTypeOK
<1>4. QED
  BY <1>1, <1>2, <1>3 DEF ApprovalCall, ApproveToken, RejectToken

\* So does the clock, on both tables.
LEMMA AgedType ==
  ASSUME StoreTypeOK
  PROVE  /\ AgedApprovals \in [Calls -> ApprovalRows \cup {NoApproval}]
         /\ AgedExecutions \in [Calls -> ExecutionRows \cup {NoExecution}]
<1>1. AgedApprovals \in [Calls -> ApprovalRows \cup {NoApproval}]
  BY DEF StoreTypeOK, ApprovalsTypeOK, AgedApprovals, ApprovalRows, NoApproval, PastExpiry
<1>2. AgedExecutions \in [Calls -> ExecutionRows \cup {NoExecution}]
  <2>1. ASSUME NEW e \in Calls, Exists(e)
        PROVE  AgedExecutions[e] \in ExecutionRows
    <3> DEFINE row == executions[e]
               age == IF row.age <= StaleTicks \/ row.age <= MaxAgeTicks
                      THEN row.age + 1 ELSE row.age
               idle == IF row.attempted /\ row.idle < RetryTicks
                       THEN row.idle + 1 ELSE row.idle
    <3>1. row \in ExecutionRows
      BY <2>1 DEF StoreTypeOK, Exists, NoExecution
    <3>2. age \in Nat /\ idle \in Nat
      BY <3>1 DEF ExecutionRows
    <3>3. AgedExecutions[e] = [row EXCEPT !.age = age, !.idle = idle]
      BY <2>1 DEF AgedExecutions
    <3>4. QED
      <4> HIDE DEF row, age, idle
      <4>1. QED BY <3>1, <3>2, <3>3 DEF ExecutionRows
  <2>2. ASSUME NEW e \in Calls, ~Exists(e)
        PROVE  AgedExecutions[e] \in ExecutionRows \cup {NoExecution}
    BY <2>2 DEF AgedExecutions, StoreTypeOK
  <2>3. AgedExecutions = [e \in Calls |-> AgedExecutions[e]]
    BY DEF AgedExecutions
  <2>4. QED BY <2>1, <2>2, <2>3
<1>3. QED BY <1>1, <1>2

\* The type invariant is inductive by itself.
LEMMA TypeInductive ==
  ASSUME StoreTypeOK, [StoreNext]_storeVars
  PROVE  StoreTypeOK'
<1> USE DEF StoreTypeOK
<1>1. ASSUME NEW c \in Calls, ApprovalCall(c) PROVE StoreTypeOK'
  BY <1>1, ApprovalCallType DEF ApprovalCall
<1>2. ASSUME NEW c \in Calls, BeginCall(c) PROVE StoreTypeOK'
  <2> USE DEF BeginArgs, NoBegin
  <2>1. CASE \E hash \in Requests, token \in Tokens : BeginLookup(c, hash, token)
    BY <2>1 DEF BeginLookup, ApprovalsTypeOK
  <2>2. CASE BeginRefused(c)
    BY <2>2 DEF BeginRefused, RefusedRows, ApprovalsTypeOK, ApprovalRows,
                NoApproval, TokenVerdict, Begun, Tokens
  <2>3. CASE BeginDuplicate(c)
    BY <2>3 DEF BeginDuplicate, ApprovalsTypeOK
  <2>4. CASE BeginCommit(c)
    <3>1. NewExecution(c) \in ExecutionRows
      BY <2>4 DEF BeginCommit, Begun, NewExecution, ExecutionRows, Statuses
    <3>2. ApprovalsTypeOK'
      BY <2>4 DEF BeginCommit, ConsumedRows, ApprovalsTypeOK, ApprovalRows,
                  NoApproval, TokenVerdict, ConsumeResult, Begun, Tokens
    <3>3. QED BY <2>4, <3>1, <3>2 DEF BeginCommit
  <2>5. CASE BeginAborted(c)
    BY <2>5 DEF BeginAborted, ApprovalsTypeOK
  <2>6. QED BY <1>2, <2>1, <2>2, <2>3, <2>4, <2>5 DEF BeginCall
<1>3. ASSUME NEW e \in Calls, UpdateCall(e) PROVE StoreTypeOK'
  <2>1. Exists(e) /\ executions[e] \in ExecutionRows
    BY <1>3 DEF UpdateCall, UpdateExecutionStatus, RecordReconcileAttempt, Exists,
                NoExecution
  <2>2. CASE \E status \in Statuses \ {"executing"} : UpdateExecutionStatus(e, status)
    BY <2>1, <2>2 DEF UpdateExecutionStatus, ExecutionRows, ApprovalsTypeOK
  <2>3. CASE RecordReconcileAttempt(e)
    BY <2>1, <2>3 DEF RecordReconcileAttempt, ExecutionRows, ApprovalsTypeOK
  <2>4. QED BY <1>3, <2>2, <2>3 DEF UpdateCall
<1>4. CASE SweepStaleExecutions
  BY <1>4 DEF SweepStaleExecutions, Exists, ExecutionRows, NoExecution, Statuses,
              ApprovalsTypeOK
<1>5. CASE StoreTick
  BY <1>5, AgedType DEF StoreTick, ApprovalsTypeOK
<1>6. CASE UNCHANGED storeVars
  BY <1>6 DEF storeVars, ApprovalsTypeOK
<1>7. QED
  BY <1>1, <1>2, <1>3, <1>4, <1>5, <1>6 DEF StoreNext

\* The tables hold rows of the declared shape, whatever is called.
THEOREM StoreTypeCorrect == StoreSpec => []StoreTypeOK
<1>1. InitStore => StoreTypeOK
  BY DEF InitStore, InitApprovals, StoreTypeOK, ApprovalsTypeOK
<1>2. StoreTypeOK /\ [StoreNext]_storeVars => StoreTypeOK'
  BY TypeInductive
<1>3. QED BY <1>1, <1>2, PTL DEF StoreSpec

----------------------------------------------------------------------------
\* A step that claims nothing: rows keep existence, request and token, tokens
\* that are consumed stay as they are and no other becomes consumed.
ClaimsNothing ==
  /\ \A e \in Calls :
       /\ Exists(e)' <=> Exists(e)
       /\ Exists(e) => /\ executions'[e].hash = executions[e].hash
                       /\ executions'[e].token = executions[e].token
  /\ \A t \in Calls :
       /\ approvals'[t].status = "consumed" <=> approvals[t].status = "consumed"
       /\ approvals[t].status = "consumed" =>
            /\ approvals'[t].decided = approvals[t].decided
            /\ approvals'[t].hash = approvals[t].hash

\* Such a step preserves every relation between rows and tokens.
LEMMA ClaimsNothingPreserves ==
  ASSUME StoreInv, ClaimsNothing
  PROVE  UniqueKey' /\ RowTokenConsumed' /\ ConsumedTokenBoughtOneRow'
<1>1. UniqueKey'
  BY DEF StoreInv, UniqueKey, ClaimsNothing
<1>2. RowTokenConsumed'
  <2>1. ASSUME NEW e \in Calls, Exists(e)', executions'[e].token # NoToken
        PROVE  /\ approvals'[executions'[e].token].status = "consumed"
               /\ approvals'[executions'[e].token].decided
               /\ approvals'[executions'[e].token].hash = executions'[e].hash
    <3>1. Exists(e) /\ executions'[e].token = executions[e].token
                    /\ executions'[e].hash = executions[e].hash
      BY <2>1 DEF ClaimsNothing
    <3>2. executions[e].token \in Calls
      BY <2>1, <3>1 DEF StoreInv, StoreTypeOK, ExecutionRows, NoExecution, Exists, Tokens
    <3>3. /\ approvals[executions[e].token].status = "consumed"
          /\ approvals[executions[e].token].decided
          /\ approvals[executions[e].token].hash = executions[e].hash
      BY <2>1, <3>1 DEF StoreInv, RowTokenConsumed
    <3>4. QED BY <3>1, <3>2, <3>3 DEF ClaimsNothing
  <2>2. QED BY <2>1 DEF RowTokenConsumed
<1>3. ConsumedTokenBoughtOneRow'
  BY DEF StoreInv, ConsumedTokenBoughtOneRow, ClaimsNothing
<1>4. QED BY <1>1, <1>2, <1>3

\* Expiry, decisions and time leave consumed tokens alone.
LEMMA ApprovalCallClaimsNothing ==
  ASSUME StoreTypeOK, ApprovedWasDecided, NEW t \in Calls, ApprovalCall(t)
  PROVE  ClaimsNothing /\ ApprovedWasDecided'
<1> DEFINE Kept(rows) == \A u \in Calls :
             /\ rows[u].status = "consumed" <=> approvals[u].status = "consumed"
             /\ approvals[u].status = "consumed" => rows[u] = approvals[u]
           Decided(rows) == \A u \in Calls :
             rows[u].status \in {"approved", "consumed"} => rows[u].decided
<1>1. ASSUME Kept(approvals'), Decided(approvals')
      PROVE  ClaimsNothing /\ ApprovedWasDecided'
  BY <1>1 DEF ApprovalCall, ClaimsNothing, ApprovedWasDecided, Exists
<1>2. \A u \in Calls : approvals[u] \in ApprovalRows \cup {NoApproval}
  BY DEF StoreTypeOK, ApprovalsTypeOK
<1>3. Kept(Expired(approvals)) /\ Decided(Expired(approvals))
  BY <1>2 DEF Expired, ApprovedWasDecided, ApprovalRows, NoApproval
<1>4. CASE \E hash \in Requests : CreateApproval(t, hash)
  BY <1>1, <1>4 DEF CreateApproval, NoApproval, ApprovedWasDecided, StoreTypeOK,
                    ApprovalsTypeOK
<1>5. CASE ExpireStaleApprovals
  BY <1>1, <1>3, <1>5 DEF ExpireStaleApprovals
<1>6. ASSUME NEW verdict \in {"approved", "expired"}, Decide(t, verdict)
      PROVE  Kept(approvals') /\ Decided(approvals')
  <2> DEFINE rows == Expired(approvals)
             decided == [rows[t] EXCEPT !.status = verdict, !.decided = TRUE]
  <2>1. rows \in [Calls -> ApprovalRows \cup {NoApproval}]
    BY ExpiredType DEF StoreTypeOK
  <2>2. approvals' = IF rows[t].status = "pending"
                     THEN [rows EXCEPT ![t] = decided] ELSE rows
    BY <1>6 DEF Decide
  <2>3. rows[t].status = "pending" => decided.status = verdict /\ decided.decided
    <3> HIDE DEF rows
    <3>1. rows[t].status = "pending" => rows[t] \in ApprovalRows
      BY <2>1 DEF NoApproval
    <3>2. QED BY <3>1 DEF ApprovalRows
  <2>4. Kept(rows) /\ Decided(rows)
    BY <1>3
  <2>5. QED
    <3> HIDE DEF rows, decided
    <3>1. QED BY <1>6, <2>1, <2>2, <2>3, <2>4
<1>7. QED
  BY <1>1, <1>4, <1>5, <1>6 DEF ApprovalCall, ApproveToken, RejectToken

\* Updates, attempts, sweeps and the clock change no claim.
LEMMA RowStepClaimsNothing ==
  ASSUME StoreTypeOK, ApprovedWasDecided,
         \/ \E e \in Calls : UpdateCall(e)
         \/ SweepStaleExecutions
         \/ StoreTick
         \/ UNCHANGED storeVars
  PROVE  ClaimsNothing /\ ApprovedWasDecided'
<1>1. \A e \in Calls : executions[e] \in ExecutionRows \cup {NoExecution}
  BY DEF StoreTypeOK
<1>2. ASSUME NEW e \in Calls, UpdateCall(e)
      PROVE  ClaimsNothing /\ ApprovedWasDecided'
  <2>1. Exists(e) /\ executions[e] \in ExecutionRows /\ UNCHANGED approvals
    BY <1>1, <1>2 DEF UpdateCall, UpdateExecutionStatus, RecordReconcileAttempt,
                      Exists, NoExecution
  <2>2. CASE \E status \in Statuses \ {"executing"} : UpdateExecutionStatus(e, status)
    BY <2>1, <2>2 DEF UpdateExecutionStatus, ExecutionRows, Exists, ClaimsNothing,
                      ApprovedWasDecided, StoreTypeOK, Statuses
  <2>3. CASE RecordReconcileAttempt(e)
    BY <2>1, <2>3 DEF RecordReconcileAttempt, ExecutionRows, Exists, ClaimsNothing,
                      ApprovedWasDecided, StoreTypeOK
  <2>4. QED BY <1>2, <2>2, <2>3 DEF UpdateCall
<1>3. CASE SweepStaleExecutions
  BY <1>1, <1>3 DEF SweepStaleExecutions, Exists, ExecutionRows, NoExecution,
                    ClaimsNothing, ApprovedWasDecided
<1>4. CASE StoreTick
  <2>1. \A t \in Calls :
          /\ approvals'[t].status = approvals[t].status
          /\ approvals'[t].decided = approvals[t].decided
          /\ approvals[t].status = "consumed" => approvals'[t].hash = approvals[t].hash
    BY <1>4 DEF StoreTick, AgedApprovals, StoreTypeOK, ApprovalsTypeOK, ApprovalRows,
                NoApproval
  <2>2. \A e \in Calls : Exists(e)' <=> Exists(e)
    BY <1>1, <1>4 DEF StoreTick, AgedExecutions, ExecutionRows, NoExecution, Exists
  <2>3. QED BY <1>1, <1>4, <2>1, <2>2
            DEF StoreTick, AgedExecutions, ExecutionRows, NoExecution, ClaimsNothing,
                ApprovedWasDecided, Exists
<1>5. CASE UNCHANGED storeVars
  BY <1>5 DEF storeVars, ClaimsNothing, ApprovedWasDecided, Exists
<1>6. QED BY <1>2, <1>3, <1>4, <1>5

\* So does a begin that does not commit, whatever it writes to its token.
LEMMA FailedBeginClaimsNothing ==
  ASSUME StoreTypeOK, ApprovedWasDecided, NEW c \in Calls,
         \/ \E hash \in Requests, token \in Tokens : BeginLookup(c, hash, token)
         \/ BeginRefused(c)
         \/ BeginDuplicate(c)
         \/ BeginAborted(c)
  PROVE  ClaimsNothing /\ ApprovedWasDecided'
<1>1. ASSUME UNCHANGED <<approvals, executions>>
      PROVE  ClaimsNothing /\ ApprovedWasDecided'
  BY <1>1 DEF ClaimsNothing, ApprovedWasDecided, Exists
<1>2. CASE BeginRefused(c)
  BY <1>2 DEF BeginRefused, RefusedRows, StoreTypeOK, ApprovalsTypeOK, ApprovalRows,
              NoApproval, ClaimsNothing, ApprovedWasDecided, Exists
<1>3. QED
  BY <1>1, <1>2 DEF BeginLookup, BeginDuplicate, BeginAborted

\* A committed transaction spends an approved token of this very request and
\* takes a key that no row has.
LEMMA BeginCommitPreserves ==
  ASSUME StoreInv, NEW c \in Calls, BeginCommit(c)
  PROVE  /\ UniqueKey' /\ ApprovedWasDecided'
         /\ RowTokenConsumed' /\ ConsumedTokenBoughtOneRow'
<1> DEFINE token == begun[c].token
           hash == begun[c].hash
<1>1. begun[c] \in BeginArgs
  BY DEF StoreInv, StoreTypeOK, BeginCommit, Begun, NoBegin
<1>2. token \in Tokens /\ hash \in Requests
  BY <1>1 DEF BeginArgs
<1>3. /\ executions'[c] = NewExecution(c)
      /\ \A e \in Calls \ {c} : executions'[e] = executions[e]
  BY DEF BeginCommit, StoreInv, StoreTypeOK
<1>4. /\ executions'[c].hash = hash /\ executions'[c].token = token
      /\ Exists(c)'
  BY <1>3 DEF NewExecution, Exists
<1>5. \A e \in Calls \ {c} : Exists(e)' <=> Exists(e)
  BY <1>3 DEF Exists
<1>6. \A e \in Calls : Exists(e) => executions[e].hash.key # hash.key
  BY DEF BeginCommit, RowsWith
<1>7. token # NoToken =>
        /\ token \in Calls
        /\ approvals[token].status = "approved"
        /\ approvals[token] \in ApprovalRows
        /\ approvals[token].hash = hash
        /\ approvals[token].decided
  <2>1. SUFFICES ASSUME token # NoToken PROVE token \in Calls
             /\ approvals[token].status = "approved"
             /\ approvals[token] \in ApprovalRows
             /\ approvals[token].hash = hash
             /\ approvals[token].decided
    OBVIOUS
  <2>2. token \in Calls
    BY <1>2, <2>1 DEF Tokens
  <2>3. ConsumeResult(token, hash) = "ok"
    BY <2>1 DEF BeginCommit, TokenVerdict
  <2>4. approvals[token] \in ApprovalRows \cup {NoApproval}
    BY <2>2 DEF StoreInv, StoreTypeOK, ApprovalsTypeOK
  <2>5. approvals[token].status = "approved" /\ approvals[token].hash = hash
    <3> HIDE DEF token, hash
    <3>1. QED BY <2>3, <2>4 DEF ConsumeResult, ApprovalRows, NoApproval
  <2>6. QED
    BY <2>2, <2>4, <2>5 DEF NoApproval, StoreInv, ApprovedWasDecided
<1>8. \A t \in Calls : t # token => approvals'[t] = approvals[t]
  BY DEF BeginCommit, ConsumedRows, StoreInv, StoreTypeOK, ApprovalsTypeOK
<1>9. token # NoToken =>
        /\ approvals'[token].status = "consumed"
        /\ approvals'[token].hash = hash
        /\ approvals'[token].decided
  BY <1>7 DEF BeginCommit, ConsumedRows, StoreInv, StoreTypeOK, ApprovalsTypeOK,
              ApprovalRows
<1>10. \A e \in Calls : Exists(e) /\ token # NoToken => executions[e].token # token
  <2>1. ASSUME NEW e \in Calls, Exists(e), token # NoToken, executions[e].token = token
        PROVE  FALSE
    BY <1>7, <2>1 DEF StoreInv, RowTokenConsumed
  <2>2. QED BY <2>1
<1> HIDE DEF token, hash
<1>11. UniqueKey'
  BY <1>3, <1>4, <1>5, <1>6 DEF UniqueKey, StoreInv
<1>12. ApprovedWasDecided'
  BY <1>2, <1>8, <1>9 DEF ApprovedWasDecided, StoreInv, Tokens
<1>13. RowTokenConsumed'
  <2>1. ASSUME NEW e \in Calls, Exists(e)', executions'[e].token # NoToken
        PROVE  /\ approvals'[executions'[e].token].status = "consumed"
               /\ approvals'[executions'[e].token].decided
               /\ approvals'[executions'[e].token].hash = executions'[e].hash
    <3>1. CASE e = c
      BY <1>4, <1>9, <2>1, <3>1
    <3>2. CASE e # c
      <4>1. Exists(e) /\ executions'[e] = executions[e]
        BY <1>3, <1>5, <2>1, <3>2
      <4>2. executions[e].token \in Calls /\ executions[e].token # token
        BY <1>10, <2>1, <4>1 DEF StoreInv, StoreTypeOK, ExecutionRows, NoExecution,
                                 Exists, Tokens
      <4>3. QED BY <1>8, <2>1, <4>1, <4>2 DEF StoreInv, RowTokenConsumed
    <3>3. QED BY <3>1, <3>2
  <2>2. QED BY <2>1 DEF RowTokenConsumed
<1>14. ConsumedTokenBoughtOneRow'
  <2>1. ASSUME NEW t \in Calls, approvals'[t].status = "consumed"
        PROVE  /\ \E e \in Calls : Exists(e)' /\ executions'[e].token = t
               /\ \A e, f \in Calls :
                    /\ Exists(e)' /\ executions'[e].token = t
                    /\ Exists(f)' /\ executions'[f].token = t
                    => e = f
    <3>1. CASE t = token
      <4>1. token # NoToken
        BY <2>1, <3>1
      <4>2. \A e \in Calls \ {c} : Exists(e)' => executions'[e].token # t
        BY <1>3, <1>5, <1>10, <3>1, <4>1
      <4>3. QED BY <1>4, <3>1, <4>2
    <3>2. CASE t # token
      <4>1. approvals[t].status = "consumed"
        BY <1>8, <2>1, <3>2
      <4>2. PICK e \in Calls : Exists(e) /\ executions[e].token = t
        BY <4>1 DEF StoreInv, ConsumedTokenBoughtOneRow
      <4>3. ~Exists(c)
        BY DEF BeginCommit, StoreInv, BegunHasNoRow
      <4>4. e # c /\ Exists(e)' /\ executions'[e].token = t
        BY <1>3, <1>5, <4>2, <4>3
      <4>5. \A f \in Calls : Exists(f)' /\ executions'[f].token = t =>
              Exists(f) /\ executions[f].token = t
        BY <1>3, <1>4, <1>5, <3>2
      <4>6. QED BY <4>1, <4>4, <4>5 DEF StoreInv, ConsumedTokenBoughtOneRow
    <3>3. QED BY <3>1, <3>2
  <2>2. QED BY <2>1 DEF ConsumedTokenBoughtOneRow
<1>15. QED BY <1>11, <1>12, <1>13, <1>14

\* StoreInv is inductive: only a committed begin claims anything.
LEMMA StoreInvInductive ==
  ASSUME StoreInv, [StoreNext]_storeVars
  PROVE  StoreInv'
<1>1. StoreTypeOK'
  BY TypeInductive DEF StoreInv
<1>2. ASSUME ClaimsNothing, ApprovedWasDecided',
             \A c \in Calls : Begun(c)' => Begun(c) \/ ~Exists(c)
      PROVE  StoreInv'
  <2>1. BegunHasNoRow'
    BY <1>2 DEF StoreInv, BegunHasNoRow, ClaimsNothing
  <2>2. QED BY <1>1, <1>2, <2>1, ClaimsNothingPreserves DEF StoreInv
<1>3. ASSUME NEW c \in Calls, ApprovalCall(c) PROVE StoreInv'
  <2>1. ClaimsNothing /\ ApprovedWasDecided'
    BY <1>3, ApprovalCallClaimsNothing DEF StoreInv
  <2>2. QED BY <1>2, <1>3, <2>1 DEF ApprovalCall, Begun
<1>4. ASSUME NEW c \in Calls, BeginCommit(c) PROVE StoreInv'
  <2>1. BegunHasNoRow'
    <3>1. \A d \in Calls \ {c} : begun'[d] = begun[d] /\ executions'[d] = executions[d]
      BY <1>4 DEF BeginCommit, StoreInv, StoreTypeOK
    <3>2. ~Begun(c)'
      BY <1>4 DEF BeginCommit, Begun, NoBegin, StoreInv, StoreTypeOK
    <3>3. QED BY <3>1, <3>2 DEF StoreInv, BegunHasNoRow, Begun, Exists
  <2>2. QED BY <1>1, <1>4, <2>1, BeginCommitPreserves DEF StoreInv
<1>5. ASSUME NEW c \in Calls, BeginCall(c), ~BeginCommit(c) PROVE StoreInv'
  <2>1. ClaimsNothing /\ ApprovedWasDecided'
    BY <1>5, FailedBeginClaimsNothing DEF StoreInv, BeginCall
  <2>2. \A d \in Calls : Begun(d)' => Begun(d) \/ ~Exists(d)
    <3>1. CASE \E hash \in Requests, token \in Tokens : BeginLookup(c, hash, token)
      BY <3>1 DEF BeginLookup, Begun, StoreInv, StoreTypeOK
    <3>2. CASE BeginRefused(c) \/ BeginDuplicate(c) \/ BeginAborted(c)
      BY <3>2 DEF BeginRefused, BeginDuplicate, BeginAborted, Begun, NoBegin,
                  StoreInv, StoreTypeOK
    <3>3. QED BY <1>5, <3>1, <3>2 DEF BeginCall
  <2>3. QED BY <1>2, <2>1, <2>2
<1>6. CASE \/ \E e \in Calls : UpdateCall(e)
           \/ SweepStaleExecutions
           \/ StoreTick
           \/ UNCHANGED storeVars
  <2>1. ClaimsNothing /\ ApprovedWasDecided'
    BY <1>6, RowStepClaimsNothing DEF StoreInv
  <2>2. UNCHANGED begun
    BY <1>6 DEF UpdateCall, UpdateExecutionStatus, RecordReconcileAttempt,
                SweepStaleExecutions, StoreTick, storeVars
  <2>3. QED BY <1>2, <2>1, <2>2 DEF Begun
<1>7. QED
  BY <1>3, <1>4, <1>5, <1>6 DEF StoreNext

\* The tables agree with each other in every reachable state.
THEOREM StoreInvariant == StoreSpec => []StoreInv
<1>1. InitStore => StoreInv
  BY DEF InitStore, InitApprovals, StoreTypeOK, ApprovalsTypeOK, StoreInv, BegunHasNoRow,
         UniqueKey, ApprovedWasDecided, RowTokenConsumed, ConsumedTokenBoughtOneRow,
         Exists, Begun, NoApproval, NoExecution, NoBegin
<1>2. StoreInv /\ [StoreNext]_storeVars => StoreInv'
  BY StoreInvInductive
<1>3. QED BY <1>1, <1>2, PTL DEF StoreSpec

\* For any number of processes, no idempotency key has two execution rows.
THEOREM KeysAreUnique == StoreSpec => []UniqueKey
<1>1. StoreInv => UniqueKey
  BY DEF StoreInv
<1>2. QED BY <1>1, StoreInvariant, PTL

\* Every row that names a token was paid for with it, by a human's decision on
\* that very request.
THEOREM RowsArePaidFor == StoreSpec => []RowTokenConsumed
<1>1. StoreInv => RowTokenConsumed
  BY DEF StoreInv
<1>2. QED BY <1>1, StoreInvariant, PTL

\* Every consumed token bought one execution, not none and not two.
THEOREM TokensBuyOnce == StoreSpec => []ConsumedTokenBoughtOneRow
<1>1. StoreInv => ConsumedTokenBoughtOneRow
  BY DEF StoreInv
<1>2. QED BY <1>1, StoreInvariant, PTL

\* A row keeps what it claims and never returns to "executing".
ClaimsStand ==
  \A e \in Calls : Exists(e) =>
    /\ executions'[e].status # "absent"
    /\ executions'[e].hash = executions[e].hash
    /\ executions'[e].token = executions[e].token
    /\ executions'[e].status = "executing" => executions[e].status = "executing"

\* No step of the store takes a claim back.
LEMMA ClaimsStay ==
  ASSUME StoreInv, [StoreNext]_storeVars
  PROVE  ClaimsStand
<1> USE DEF ClaimsStand
<1>1. ASSUME NEW c \in Calls, ApprovalCall(c) PROVE ClaimsStand
  BY <1>1 DEF ApprovalCall, Exists
<1>2. ASSUME NEW c \in Calls, BeginCall(c) PROVE ClaimsStand
  <2>1. CASE BeginCommit(c)
    <3>1. \A e \in Calls \ {c} : executions'[e] = executions[e]
      BY <2>1 DEF BeginCommit, StoreInv, StoreTypeOK
    <3>2. ~Exists(c)
      BY <2>1 DEF BeginCommit, StoreInv, BegunHasNoRow
    <3>3. QED BY <3>1, <3>2 DEF Exists
  <2>2. CASE UNCHANGED executions
    BY <2>2 DEF Exists
  <2>3. QED BY <1>2, <2>1, <2>2
            DEF BeginCall, BeginLookup, BeginRefused, BeginDuplicate, BeginAborted
<1>3. ASSUME NEW e \in Calls, UpdateCall(e) PROVE ClaimsStand
  <2>1. Exists(e) /\ executions[e] \in ExecutionRows
    BY <1>3 DEF UpdateCall, UpdateExecutionStatus, RecordReconcileAttempt,
                      StoreInv, StoreTypeOK, Exists, NoExecution
  <2>2. CASE \E status \in Statuses \ {"executing"} : UpdateExecutionStatus(e, status)
    BY <2>1, <2>2 DEF UpdateExecutionStatus, ExecutionRows, Exists, StoreInv,
                            StoreTypeOK, Statuses
  <2>3. CASE RecordReconcileAttempt(e)
    BY <2>1, <2>3 DEF RecordReconcileAttempt, ExecutionRows, Exists, StoreInv,
                            StoreTypeOK
  <2>4. QED BY <1>3, <2>2, <2>3 DEF UpdateCall
<1>4. ASSUME SweepStaleExecutions PROVE ClaimsStand
  BY <1>4 DEF SweepStaleExecutions, StoreInv, StoreTypeOK, ExecutionRows,
                    NoExecution, Exists
<1>5. ASSUME StoreTick PROVE ClaimsStand
  <2>1. ASSUME NEW e \in Calls, Exists(e)
        PROVE  /\ executions'[e].status = executions[e].status
               /\ executions'[e].hash = executions[e].hash
               /\ executions'[e].token = executions[e].token
    <3>1. executions[e] \in ExecutionRows
      BY <2>1 DEF StoreInv, StoreTypeOK, Exists, NoExecution
    <3>2. QED BY <1>5, <2>1, <3>1 DEF StoreTick, AgedExecutions, ExecutionRows
  <2>2. QED BY <2>1 DEF Exists
<1>6. CASE UNCHANGED storeVars
  BY <1>6 DEF storeVars, Exists
<1>7. QED
  BY <1>1, <1>2, <1>3, <1>4, <1>5, <1>6 DEF StoreNext

\* So it is in every behaviour of the store.
THEOREM ClaimsArePermanent == StoreSpec => ClaimIsPermanent
<1>1. StoreInv /\ [StoreNext]_storeVars => ClaimsStand
  BY ClaimsStay
<1>2. QED
  BY <1>1, StoreInvariant, PTL DEF StoreSpec, ClaimIsPermanent, ClaimsStand

\* How one step may change an approval, with regard to its expiry.
LivesUntilExpiry ==
  \A t \in Calls : approvals[t].status # "absent" =>
    /\ approvals[t].age > ExpiryTicks =>
         approvals'[t].status \in {approvals[t].status, "expired"}
    /\ approvals[t].age <= ExpiryTicks /\ approvals[t].status # "expired"
         /\ approvals'[t].status = "expired" =>
         approvals[t].status = "pending" /\ approvals'[t].decided
    /\ approvals[t].status \in {"consumed", "expired"} =>
         approvals'[t].status = approvals[t].status

\* Only the spending of a token makes a row consumed, and that is refused past
\* its expiry; every other write expires what is past it and nothing else.
LEMMA TokensLive ==
  ASSUME StoreInv, [StoreNext]_storeVars
  PROVE  LivesUntilExpiry
<1> USE ApprovalAssumption DEF LivesUntilExpiry, PastExpiry
<1>1. /\ approvals \in [Calls -> ApprovalRows \cup {NoApproval}]
      /\ \A t \in Calls : approvals[t].status # "absent" => approvals[t] \in ApprovalRows
  BY DEF StoreInv, StoreTypeOK, ApprovalsTypeOK, NoApproval
<1>2. CASE approvals' = approvals
  BY <1>2
<1>3. ASSUME NEW t \in Calls PROVE Expired(approvals)[t] =
        IF approvals[t].status \in {"pending", "approved"} /\ approvals[t].age > ExpiryTicks
        THEN [approvals[t] EXCEPT !.status = "expired"] ELSE approvals[t]
  BY DEF Expired
<1>31. ASSUME NEW t \in Calls, approvals[t].status # "absent"
       PROVE  /\ approvals[t].age \in Nat
              /\ IF approvals[t].status \in {"pending", "approved"} /\ approvals[t].age > ExpiryTicks
                 THEN Expired(approvals)[t].status = "expired"
                 ELSE Expired(approvals)[t] = approvals[t]
  <2>1. approvals[t] \in ApprovalRows
    BY <1>1, <1>31
  <2>2. [approvals[t] EXCEPT !.status = "expired"].status = "expired"
    BY <2>1 DEF ApprovalRows
  <2>3. QED BY <1>3, <2>1, <2>2 DEF ApprovalRows
<1>4. CASE approvals' = Expired(approvals)
  BY <1>31, <1>4
<1>5. ASSUME NEW t \in Calls, NEW verdict \in {"approved", "expired"}, Decide(t, verdict)
      PROVE  LivesUntilExpiry
  <2>1. CASE Expired(approvals)[t].status # "pending"
    BY <1>4, <1>5, <2>1 DEF Decide
  <2>2. CASE Expired(approvals)[t].status = "pending"
    <3>1. /\ approvals' = [Expired(approvals) EXCEPT ![t].status = verdict, ![t].decided = TRUE]
          /\ Expired(approvals) = [u \in Calls |-> Expired(approvals)[u]]
      BY <1>5, <2>2 DEF Decide, Expired
    <3>2. \A u \in Calls \ {t} : approvals'[u] = Expired(approvals)[u]
      BY <3>1
    <3>3. /\ approvals[t].status = "pending" /\ ~(approvals[t].age > ExpiryTicks)
          /\ Expired(approvals)[t] = approvals[t]
      BY <1>1, <1>3, <2>2 DEF ApprovalRows
    <3>4. approvals'[t] = [approvals[t] EXCEPT !.status = verdict, !.decided = TRUE]
      BY <3>1, <3>3
    <3>5. /\ approvals'[t].status = verdict /\ approvals'[t].decided
      BY <1>1, <3>3, <3>4 DEF ApprovalRows
    <3>6. QED BY <1>31, <3>2, <3>3, <3>5
  <2>3. QED BY <2>1, <2>2
<1>6. ASSUME NEW t \in Calls, ApprovalCall(t) PROVE LivesUntilExpiry
  <2>1. CASE \E hash \in Requests : CreateApproval(t, hash)
    BY <1>1, <2>1 DEF CreateApproval, NoApproval
  <2>2. CASE ExpireStaleApprovals
    BY <1>4, <2>2 DEF ExpireStaleApprovals
  <2>3. CASE ApproveToken(t) \/ RejectToken(t)
    BY <1>5, <2>3 DEF ApproveToken, RejectToken
  <2>4. QED BY <1>6, <2>1, <2>2, <2>3 DEF ApprovalCall
<1>7. ASSUME NEW c \in Calls, BeginRefused(c) PROVE LivesUntilExpiry
  BY <1>1, <1>2, <1>7 DEF BeginRefused, RefusedRows, ApprovalRows
<1>8. ASSUME NEW c \in Calls, BeginCommit(c) PROVE LivesUntilExpiry
  <2>1. CASE begun[c].token = NoToken
    BY <1>2, <1>8, <2>1 DEF BeginCommit
  <2>2. CASE begun[c].token # NoToken
    <3>1. ConsumeResult(begun[c].token, begun[c].hash) = "ok"
      BY <1>8, <2>2 DEF BeginCommit, TokenVerdict
    <3>2. begun[c].token \in Calls
      <4>1. begun[c] \in BeginArgs
        BY <1>8 DEF BeginCommit, Begun, StoreInv, StoreTypeOK, NoBegin
      <4>2. QED BY <2>2, <4>1 DEF BeginArgs, Tokens
    <3>3. /\ approvals[begun[c].token].status = "approved"
          /\ ~(approvals[begun[c].token].age > ExpiryTicks)
      BY <1>1, <3>1, <3>2 DEF ConsumeResult, ApprovalRows
    <3>4. approvals' = [approvals EXCEPT ![begun[c].token].status = "consumed"]
      BY <1>8, <2>2 DEF BeginCommit, ConsumedRows
    <3>5. QED BY <1>1, <3>2, <3>3, <3>4 DEF ApprovalRows
  <2>3. QED BY <2>1, <2>2
<1>9. ASSUME StoreTick PROVE LivesUntilExpiry
  <2>1. ASSUME NEW t \in Calls, approvals[t].status # "absent"
        PROVE  approvals'[t].status = approvals[t].status
    BY <1>1, <1>9, <2>1 DEF StoreTick, AgedApprovals, ApprovalRows
  <2>2. QED BY <2>1
<1>10. QED
  BY <1>2, <1>6, <1>7, <1>8, <1>9
     DEF StoreNext, BeginCall, BeginLookup, BeginDuplicate, BeginAborted, UpdateCall,
         UpdateExecutionStatus, RecordReconcileAttempt, SweepStaleExecutions, storeVars

\* A token is spent only before it expires, and before that nothing but a
\* rejection voids it, for any number of clients and any expiry time.
THEOREM TokensLiveUntilExpiry == StoreSpec => TokenLivesUntilExpiry
<1>1. StoreInv /\ [StoreNext]_storeVars => LivesUntilExpiry
  BY TokensLive
<1>2. QED
  BY <1>1, StoreInvariant, PTL DEF StoreSpec, TokenLivesUntilExpiry, LivesUntilExpiry
=============================================================================
