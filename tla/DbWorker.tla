------------------------------ MODULE DbWorker ------------------------------
(***************************************************************************)
(* How a server process reaches SQLite (worker/db): runDbOp posts numbered *)
(* messages to a worker thread and races the answer against a timer of     *)
(* fifteen seconds; the worker runs one operation at a time, in the order  *)
(* of its message queue; a worker that died is noticed later, its callers  *)
(* are rejected, and the next message starts a new one; a shutdown closes  *)
(* the databases and terminates the worker.  A second signal during a      *)
(* shutdown is left out.                                                   *)
(*                                                                         *)
(* An operation is its number.  Operations of the stores run synchronously *)
(* and to the end: no message, a cancellation included, is read while one  *)
(* runs, so isCancelled and the second look at cancelledOps never fire.    *)
(* Most are one statement or one transaction (createApproval,              *)
(* beginExecution, updateExecutionStatus, writeAuditEntry and others):     *)
(* these are Atomic.  The others (approveToken and rejectToken, which read *)
(* the row back after their UPDATE, getApproval, pruneAuditLog) commit     *)
(* statement by statement and may throw after the first; of them "applied" *)
(* says that something was written.                                        *)
(***************************************************************************)
EXTENDS Naturals, Sequences

CONSTANTS
  MaxOps,      \* bound: operations sent
  Atomic,      \* the operations that are one statement or one transaction
  MaxDeaths    \* bound: deaths of the worker thread

ASSUME DbWorkerAssumption == MaxOps \in Nat /\ MaxDeaths \in Nat

VARIABLES
  sent,        \* messageIdCounter
  pending,     \* the keys of pendingRequests
  outcome,     \* what each caller's promise came to
  worker,      \* "none", "running", or "dead" and not yet noticed
  inbox,       \* messages posted to the worker
  cancelled,   \* the worker's cancelledOps
  replies,     \* answers posted by the worker
  applied,     \* operations that took effect in the database, in order
  shutdown,    \* stage of shutdownDbWorker
  closing,     \* the number of its closeAllDatabases request, or 0
  deaths

clientVars == <<sent, pending, outcome, shutdown, closing>>
workerVars == <<cancelled, replies, applied>>
vars == <<clientVars, worker, inbox, workerVars, deaths>>

Ops == 1..MaxOps
Outcomes == {"none", "waiting", "resolved", "rejected", "timeout", "crashed"}
Messages == [type : {"op", "cancel"}, id : Ops]
Replies == [id : Ops, kind : {"result", "error"}]
Stages == {"off", "closing", "terminating", "exited"}

OpMessage(i) == [type |-> "op", id |-> i]
CancelMessage(i) == [type |-> "cancel", id |-> i]
Applied(i) == \E n \in DOMAIN applied : applied[n] = i

WorkerTypeOK ==
  /\ sent \in 0..MaxOps
  /\ pending \subseteq Ops
  /\ outcome \in [Ops -> Outcomes]
  /\ worker \in {"none", "running", "dead"}
  /\ inbox \in Seq(Messages)
  /\ cancelled \subseteq Ops
  /\ replies \in Seq(Replies)
  /\ applied \in Seq(Ops)
  /\ shutdown \in Stages
  /\ closing \in 0..MaxOps
  /\ deaths \in 0..MaxDeaths

Init ==
  /\ sent = 0 /\ pending = {} /\ outcome = [i \in Ops |-> "none"]
  /\ worker = "none" /\ inbox = <<>> /\ cancelled = {} /\ replies = <<>>
  /\ applied = <<>>
  /\ shutdown = "off" /\ closing = 0
  /\ deaths = 0

Alive == shutdown # "exited"

----------------------------------------------------------------------------
\* Mutant: a cancellation overtakes the operations that wait.
PostUrgent(message) ==
  /\ inbox' = IF message.type = "cancel" THEN <<message>> \o inbox
              ELSE Append(inbox, message)
  /\ worker' = IF worker = "none" THEN "running" ELSE worker

\* getDbWorker().postMessage: starts a worker when there is none.  What is
\* posted to a dead worker is lost with its inbox.
Post(message) ==
  /\ inbox' = Append(inbox, message)
  /\ worker' = IF worker = "none" THEN "running" ELSE worker

Send(i) ==
  /\ i = sent + 1
  /\ sent' = i
  /\ pending' = pending \cup {i}
  /\ outcome' = [outcome EXCEPT ![i] = "waiting"]
  /\ Post(OpMessage(i))

RunDbOp ==
  /\ Alive
  /\ \E i \in Ops : Send(i)
  /\ UNCHANGED <<shutdown, closing, workerVars, deaths>>

\* The timer of a request that is not settled yet fires.
TimeOut(i) ==
  /\ Alive
  /\ outcome[i] = "waiting"
  /\ pending' = pending \ {i}
  /\ outcome' = [outcome EXCEPT ![i] = "timeout"]
  /\ Post(CancelMessage(i))
  /\ UNCHANGED <<sent, shutdown, closing, workerVars, deaths>>

\* The "message" handler; answers nobody waits for any more are dropped.
ReceiveReply ==
  LET reply == Head(replies) IN
  /\ Alive
  /\ replies # <<>>
  /\ replies' = Tail(replies)
  /\ IF reply.id \in pending
     THEN /\ pending' = pending \ {reply.id}
          /\ outcome' = [outcome EXCEPT ![reply.id] =
                           IF reply.kind = "result" THEN "resolved" ELSE "rejected"]
     ELSE UNCHANGED <<pending, outcome>>
  /\ UNCHANGED <<sent, shutdown, closing, worker, inbox, cancelled, applied, deaths>>

\* Mutant: the callers that wait are not rejected but sent again.
HandleCrashResends ==
  /\ Alive
  /\ worker = "dead"
  /\ \E i \in pending :
       /\ pending = {i}
       /\ inbox' = <<OpMessage(i)>>
  /\ worker' = "running" /\ cancelled' = {} /\ replies' = <<>>
  /\ UNCHANGED <<clientVars, applied, deaths>>

\* Mutant: the map is cleared and nobody rejected.
HandleCrashForgets ==
  /\ Alive
  /\ worker = "dead"
  /\ pending' = {}
  /\ worker' = "none" /\ inbox' = <<>> /\ cancelled' = {} /\ replies' = <<>>
  /\ UNCHANGED <<sent, outcome, shutdown, closing, applied, deaths>>

\* handleCrash.  Every caller that waits is rejected, so the answers still
\* under way find nobody; what was posted is gone with the thread.
HandleCrash ==
  /\ Alive
  /\ worker = "dead"
  /\ outcome' = [i \in Ops |-> IF i \in pending THEN "crashed" ELSE outcome[i]]
  /\ pending' = {}
  /\ worker' = "none" /\ inbox' = <<>> /\ cancelled' = {} /\ replies' = <<>>
  /\ UNCHANGED <<sent, shutdown, closing, applied, deaths>>

----------------------------------------------------------------------------
\* The worker's message handler.
ReadCancel ==
  /\ Alive
  /\ worker = "running" /\ inbox # <<>>
  /\ Head(inbox).type = "cancel"
  /\ cancelled' = cancelled \cup {Head(inbox).id}
  /\ inbox' = Tail(inbox)
  /\ UNCHANGED <<clientVars, worker, replies, applied, deaths>>

\* The operation commits and answers; or it has written and then throws,
\* unless it is atomic; or it throws and has no effect; it does not run at all
\* when its cancellation was read before it.
Execute ==
  LET i == Head(inbox).id IN
  /\ Alive
  /\ worker = "running" /\ inbox # <<>>
  /\ Head(inbox).type = "op"
  /\ inbox' = Tail(inbox)
  /\ \/ /\ i \notin cancelled
        /\ applied' = Append(applied, i)
        /\ replies' = Append(replies, [id |-> i, kind |-> "result"])
     \/ /\ i \notin cancelled \cup Atomic
        /\ applied' = Append(applied, i)
        /\ replies' = Append(replies, [id |-> i, kind |-> "error"])
     \/ /\ replies' = Append(replies, [id |-> i, kind |-> "error"])
        /\ UNCHANGED applied
  /\ cancelled' = cancelled \ {i}
  /\ UNCHANGED <<clientVars, worker, deaths>>

\* The thread dies, idle, or inside an operation that may have committed.
Die ==
  /\ Alive
  /\ worker = "running"
  /\ deaths < MaxDeaths
  /\ deaths' = deaths + 1
  /\ worker' = "dead"
  /\ \/ UNCHANGED <<inbox, applied>>
     \/ /\ inbox # <<>>
        /\ Head(inbox).type = "op" /\ Head(inbox).id \notin cancelled
        /\ applied' = Append(applied, Head(inbox).id)
        /\ inbox' = Tail(inbox)
  /\ UNCHANGED <<clientVars, cancelled, replies>>

----------------------------------------------------------------------------
\* shutdownDbWorker: close the databases through the worker's own queue,
\* terminate the thread, exit.  Without a worker there is nothing to close.
StartShutdown ==
  /\ shutdown = "off"
  /\ IF worker = "none"
     THEN shutdown' = "exited" /\ UNCHANGED <<sent, pending, outcome, closing, worker, inbox>>
     ELSE /\ \E i \in Ops : Send(i)
          /\ closing' = sent + 1
          /\ shutdown' = "closing"
  /\ UNCHANGED <<workerVars, deaths>>

\* Mutant: the databases are not waited for.
TerminateAtOnce ==
  /\ shutdown = "closing"
  /\ shutdown' = "terminating"
  /\ UNCHANGED <<sent, pending, outcome, closing, worker, inbox, workerVars, deaths>>

Terminate ==
  /\ shutdown = "closing"
  /\ outcome[closing] = "resolved"
  /\ shutdown' = "terminating"
  /\ UNCHANGED <<sent, pending, outcome, closing, worker, inbox, workerVars, deaths>>

\* The worker is gone and the process exits; or closing failed, and the
\* process dies of the unhandled rejection.
Exit ==
  /\ \/ shutdown = "terminating"
     \/ shutdown = "closing" /\ outcome[closing] \in {"rejected", "timeout", "crashed"}
  /\ shutdown' = "exited"
  /\ UNCHANGED <<sent, pending, outcome, closing, worker, inbox, workerVars, deaths>>

ClientNext ==
  \/ RunDbOp
  \/ \E i \in Ops : TimeOut(i)
  \/ ReceiveReply \/ HandleCrash
  \/ StartShutdown \/ Terminate \/ Exit
ThreadNext == ReadCancel \/ Execute \/ Die

Next == ClientNext \/ ThreadNext

Spec == Init /\ [][Next]_vars

----------------------------------------------------------------------------
\* What the callers may rely on: operations take effect in order and at most
\* once, a resolved call has taken effect, a rejected one takes none any more,
\* and none at all if it is atomic, whatever times out, crashes or is shut down
\* (runDbOp, handleCrash and the worker's handler).
Contract == INSTANCE DbCalls WITH
  outcome <- [i \in Ops |->
    IF outcome[i] \in {"timeout", "crashed"} THEN "lost" ELSE outcome[i]]

KeepsContract == Contract!Spec

\* Termination costs no caller its answer: when the thread is terminated,
\* every call made before the shutdown has been answered (shutdownDbWorker
\* closes the databases through the same queue).
ShutdownDrains ==
  shutdown = "terminating" =>
    \A i \in Ops : i < closing => outcome[i] \notin {"none", "waiting"}

\* A cancellation comes too late for its operation: it is always queued
\* behind it, so no operation is ever skipped (runDbOp's timer posts to the
\* queue the operation is in, and the worker reads it in order).
CancelledIsPast ==
  /\ \A i \in cancelled, n \in DOMAIN inbox : inbox[n] # OpMessage(i)
  /\ \A m, n \in DOMAIN inbox :
       inbox[m].type = "cancel" /\ inbox[n].type = "op" /\ m < n
         => inbox[m].id # inbox[n].id

\* Whoever still waits can still be answered: no promise is forgotten by a
\* crash or by an answer that went astray.
WaitingIsPending == pending = {i \in Ops : outcome[i] = "waiting"}

----------------------------------------------------------------------------
\* The inductive invariant behind the contract and the drain.

\* Numbers are given out in order, and a call is pending while it waits.
Numbered ==
  /\ \A i \in Ops : outcome[i] = "none" <=> i > sent
  /\ \A i \in cancelled : i <= sent
  /\ \A n \in DOMAIN applied : applied[n] <= sent
  /\ \A n \in DOMAIN replies : replies[n].id <= sent
  /\ \A n \in DOMAIN inbox : inbox[n].id <= sent
  /\ closing <= sent

\* The queue holds operations in their order, behind all that ran.
QueueInOrder ==
  /\ \A m, n \in DOMAIN inbox :
       inbox[m].type = "op" /\ inbox[n].type = "op" /\ m < n
         => inbox[m].id < inbox[n].id
  /\ \A n \in DOMAIN inbox : inbox[n].type = "op" =>
       /\ \A a \in DOMAIN applied : applied[a] < inbox[n].id
       /\ \A r \in DOMAIN replies : replies[r].id < inbox[n].id
       /\ outcome[inbox[n].id] \notin {"resolved", "rejected"}

\* Answers tell what happened, and are given in order.
RepliesTell ==
  /\ \A m, n \in DOMAIN replies : m < n => replies[m].id < replies[n].id
  /\ \A n \in DOMAIN replies :
       /\ replies[n].kind = "result" => Applied(replies[n].id)
       /\ replies[n].kind = "error" /\ replies[n].id \in Atomic =>
            ~Applied(replies[n].id)

InQueue(i) == \E n \in DOMAIN inbox : inbox[n] = OpMessage(i)
Replied(i) == \E n \in DOMAIN replies : replies[n].id = i

\* Who waits is in the queue, or has its answer under way, or lost it with
\* the thread, and then no later call was answered before.
WaitingAccounted ==
  /\ worker = "none" => pending = {} /\ inbox = <<>> /\ replies = <<>>
  /\ \A i \in Ops : outcome[i] = "waiting" =>
       /\ worker = "running" => InQueue(i) \/ Replied(i)
       /\ Replied(i) \/ \A n \in DOMAIN replies : replies[n].id < i

AnsweredInOrder ==
  \A i, j \in Ops :
    i < j /\ outcome[j] \in {"resolved", "rejected"} => outcome[i] # "waiting"

ClosingCalled ==
  /\ shutdown = "closing" => closing \in Ops
  /\ shutdown = "terminating" => closing \in Ops /\ outcome[closing] = "resolved"

WorkerInv ==
  /\ WorkerTypeOK /\ Numbered /\ WaitingIsPending /\ QueueInOrder
  /\ RepliesTell /\ CancelledIsPast /\ WaitingAccounted /\ AnsweredInOrder
  /\ ClosingCalled
=============================================================================
