--------------------------- MODULE ApprovalStore ---------------------------
(***************************************************************************)
(* The approvals table (approval/store.worker.ts): tokens that an agent is *)
(* given when a mutation needs a human decision, that a human approves or  *)
(* rejects over HTTP, and that the pipeline consumes when it starts the    *)
(* mutation.                                                               *)
(*                                                                         *)
(* A token is named by the tool call that minted it (the code draws a      *)
(* random UUID per createApproval).  A request hash is the record of the   *)
(* two things it is computed from: the idempotency key and the request     *)
(* body (tool, operation and canonical parameters).  Wall-clock time is an *)
(* age per row that saturates one tick after the last instant any code     *)
(* compares it with.                                                       *)
(***************************************************************************)
EXTENDS Naturals

CONSTANTS
  Calls,        \* identities of tool calls; a call mints at most one token
  Keys,         \* idempotency keys
  Bodies,       \* tool + operation + canonical parameters
  NoToken,      \* the absent approval token (null)
  ExpiryTicks   \* APPROVAL_EXPIRY_MINUTES

ASSUME ApprovalAssumption ==
  /\ NoToken \notin Calls
  /\ ExpiryTicks \in Nat

VARIABLE approvals

Requests == [key : Keys, body : Bodies]
Tokens == Calls \cup {NoToken}

ApprovalRows ==
  [status : {"pending", "approved", "consumed", "expired"},
   hash : Requests, age : Nat, decided : BOOLEAN]

NoApproval == [status |-> "absent"]

PastExpiry(row) == row.age > ExpiryTicks

\* A request hash is equal exactly when key and body are.
RequestHash(key, body) == [key |-> key, body |-> body]

InitApprovals == approvals = [t \in Calls |-> NoApproval]

ApprovalsTypeOK == approvals \in [Calls -> ApprovalRows \cup {NoApproval}]

----------------------------------------------------------------------------
\* expireStaleApprovals: pending and approved rows past their expiry.
Expired(rows) ==
  [t \in Calls |->
     IF rows[t].status \in {"pending", "approved"} /\ PastExpiry(rows[t])
     THEN [rows[t] EXCEPT !.status = "expired"]
     ELSE rows[t]]

CreateApproval(t, hash) ==
  /\ approvals[t] = NoApproval
  /\ approvals' = [approvals EXCEPT ![t] =
       [status |-> "pending", hash |-> hash, age |-> 0, decided |-> FALSE]]

\* getApproval expires before it reads, so the caller sees GetApproval(t).
GetApproval(t) == Expired(approvals)[t]

ExpireStaleApprovals == approvals' = Expired(approvals)

\* The UPDATE of approveToken and rejectToken touches a pending row only.
Decide(t, verdict) ==
  LET rows == Expired(approvals) IN
  approvals' = IF rows[t].status = "pending"
               THEN [rows EXCEPT ![t].status = verdict, ![t].decided = TRUE]
               ELSE rows

ApproveToken(t) == Decide(t, "approved")
\* Mutant: a rejection writes a status of its own.
RejectTokenAsRejected(t) == Decide(t, "rejected")
RejectToken(t) == Decide(t, "expired")

\* Mutant: the token is good for any request.
ConsumeResultAnyHash(t, hash) ==
  CASE approvals[t].status = "absent"   -> "not_found"
    [] approvals[t].status = "consumed" -> "already_consumed"
    [] approvals[t].status = "pending"  -> "not_approved"
    [] approvals[t].status = "expired" \/ PastExpiry(approvals[t]) -> "expired"
    [] OTHER -> "ok"

\* Mutant: an approval that was good when it was looked up is consumed.
ConsumeResultAnyTime(t, hash) ==
  CASE approvals[t].status = "absent"   -> "not_found"
    [] approvals[t].status = "consumed" -> "already_consumed"
    [] approvals[t].status = "expired"  -> "expired"
    [] approvals[t].status = "pending"  -> "not_approved"
    [] approvals[t].status = "approved" /\ approvals[t].hash # hash -> "hash_mismatch"
    [] OTHER -> "ok"

\* What consumeApprovalInTransaction returns, in the order of its checks.
ConsumeResult(t, hash) ==
  LET row == approvals[t] IN
  CASE row.status = "absent"   -> "not_found"
    [] row.status = "consumed" -> "already_consumed"
    [] row.status = "expired"  -> "expired"
    [] row.status = "pending"  -> "not_approved"
    [] row.status = "approved" /\ PastExpiry(row) -> "expired"
    [] row.status = "approved" /\ ~PastExpiry(row) /\ row.hash # hash
         -> "hash_mismatch"
    [] OTHER -> "ok"

\* The rows a refusing consumption leaves: an approved row found past its
\* expiry is marked expired, and that write is committed.
RefusedRows(t) ==
  IF approvals[t].status = "approved" /\ PastExpiry(approvals[t])
  THEN [approvals EXCEPT ![t].status = "expired"]
  ELSE approvals

ConsumedRows(t) == [approvals EXCEPT ![t].status = "consumed"]

AgedApprovals ==
  [t \in Calls |->
     IF approvals[t].status # "absent" /\ ~PastExpiry(approvals[t])
     THEN [approvals[t] EXCEPT !.age = @ + 1]
     ELSE approvals[t]]
=============================================================================
