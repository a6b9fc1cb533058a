--------------------------- MODULE DbWorkerProofs ---------------------------
(***************************************************************************)
(* Proofs about DbWorker for any number of operations and of deaths of the *)
(* thread: the inductive invariant, the drain at shutdown, the uselessness *)
(* of cancellations, and that the worker keeps the contract of DbCalls.    *)
(***************************************************************************)
EXTENDS DbWorker, TLAPS

\* What appending a message or an answer does to a queue.
LEMMA AppendProperties ==
  ASSUME NEW S, NEW s \in Seq(S), NEW e \in S
  PROVE  /\ Append(s, e) \in Seq(S)
         /\ DOMAIN s = 1..Len(s) /\ Len(s) \in Nat
         /\ DOMAIN Append(s, e) = 1..(Len(s) + 1)
         /\ Append(s, e)[Len(s) + 1] = e
         /\ \A n \in DOMAIN s : Append(s, e)[n] = s[n]
OBVIOUS

\* What taking the first message or answer does to it.
LEMMA TailProperties ==
  ASSUME NEW S, NEW s \in Seq(S), s # <<>>
  PROVE  /\ Tail(s) \in Seq(S) /\ Head(s) \in S /\ Head(s) = s[1]
         /\ Len(s) \in Nat /\ Len(s) >= 1
         /\ DOMAIN s = 1..Len(s)
         /\ DOMAIN Tail(s) = 1..(Len(s) - 1)
         /\ \A n \in DOMAIN Tail(s) : Tail(s)[n] = s[n + 1]
OBVIOUS

\* The types of what the queues hold.
LEMMA QueueTypes ==
  ASSUME WorkerTypeOK
  PROVE  /\ MaxOps \in Nat /\ sent \in Nat
         /\ \A i \in Ops : i \in Nat
         /\ \A n \in DOMAIN inbox :
              inbox[n] \in Messages /\ inbox[n].id \in Ops /\ inbox[n].id \in Nat
         /\ \A n \in DOMAIN replies :
              replies[n] \in Replies /\ replies[n].id \in Ops /\ replies[n].id \in Nat
         /\ \A n \in DOMAIN applied : applied[n] \in Ops /\ applied[n] \in Nat
<1>1. MaxOps \in Nat /\ sent \in Nat /\ \A i \in Ops : i \in Nat
  BY DbWorkerAssumption DEF WorkerTypeOK, Ops
<1>2. \A n \in DOMAIN inbox : inbox[n] \in Messages
  BY DEF WorkerTypeOK
<1>3. \A n \in DOMAIN replies : replies[n] \in Replies
  BY DEF WorkerTypeOK
<1>4. \A n \in DOMAIN applied : applied[n] \in Ops
  BY DEF WorkerTypeOK
<1>5. \A m \in Messages : m.id \in Ops
  BY DEF Messages
<1>6. \A r \in Replies : r.id \in Ops
  BY DEF Replies
<1>7. QED BY <1>1, <1>2, <1>3, <1>4, <1>5, <1>6

\* The initial state satisfies the invariant.
LEMMA InitWorkerInv ==
  ASSUME Init PROVE WorkerInv
BY DbWorkerAssumption DEF Init, WorkerInv, WorkerTypeOK, Numbered, WaitingIsPending,
   QueueInOrder, RepliesTell, CancelledIsPast, WaitingAccounted, AnsweredInOrder,
   ClosingCalled, Ops, Outcomes, Stages, Messages, Replies, Applied

\* A new request, whoever sends it, keeps everything about the queue.
LEMMA SendPreserves ==
  ASSUME WorkerInv, NEW i \in Ops, Send(i), UNCHANGED <<workerVars, deaths>>,
         shutdown' \in Stages, closing' \in 0..i,
         \/ closing' = closing /\ shutdown' = shutdown
         \/ closing' = i /\ shutdown' = "closing"
  PROVE  WorkerInv'
<1> USE DEF WorkerInv, Send, Post, workerVars
<1>0. /\ i = sent + 1 /\ sent' = i /\ i \in Nat /\ sent \in Nat /\ MaxOps \in Nat
      /\ OpMessage(i) \in Messages
      /\ outcome' = [outcome EXCEPT ![i] = "waiting"] /\ outcome \in [Ops -> Outcomes]
  BY DbWorkerAssumption DEF WorkerTypeOK, Ops, Messages, OpMessage
<1>t. /\ \A n \in DOMAIN inbox : inbox[n].id \in Nat
      /\ \A n \in DOMAIN replies : replies[n].id \in Nat
      /\ \A n \in DOMAIN applied : applied[n] \in Nat
      /\ \A j \in Ops : j \in Nat
  BY QueueTypes
<1>1. /\ inbox' \in Seq(Messages)
      /\ DOMAIN inbox = 1..Len(inbox) /\ Len(inbox) \in Nat
      /\ DOMAIN inbox' = 1..(Len(inbox) + 1)
      /\ inbox'[Len(inbox) + 1] = OpMessage(i)
      /\ \A n \in DOMAIN inbox : inbox'[n] = inbox[n]
  BY <1>0, AppendProperties DEF WorkerTypeOK
<1>2. WorkerTypeOK'
  BY <1>0, <1>1 DEF WorkerTypeOK, Ops, Outcomes
<1>3. Numbered'
  <2>1. \A j \in Ops : outcome'[j] = "none" <=> j > sent'
    BY <1>0 DEF Numbered, Ops
  <2>2. \A n \in DOMAIN inbox' : inbox'[n].id <= sent'
    <3>1. \A n \in DOMAIN inbox : inbox[n].id \in Nat /\ inbox[n].id <= sent
      BY <1>t DEF Numbered
    <3>2. QED BY <3>1, <1>0, <1>1 DEF OpMessage
  <2>3. closing' <= sent'
    BY <1>0 DEF Numbered, WorkerTypeOK
  <2>4. /\ \A j \in cancelled : j \in Nat /\ j <= sent
        /\ \A n \in DOMAIN applied : applied[n] \in Nat /\ applied[n] <= sent
        /\ \A n \in DOMAIN replies : replies[n].id \in Nat /\ replies[n].id <= sent
    BY <1>t DEF Numbered, WorkerTypeOK
  <2>5. QED BY <2>1, <2>2, <2>3, <2>4, <1>0 DEF Numbered
<1>4. WaitingIsPending'
  BY <1>0 DEF WaitingIsPending
<1>5. QueueInOrder'
  <2>1. ASSUME NEW m \in DOMAIN inbox', NEW n \in DOMAIN inbox', m < n,
               inbox'[m].type = "op", inbox'[n].type = "op"
        PROVE  inbox'[m].id < inbox'[n].id
    <3>1. m \in DOMAIN inbox
      BY <2>1, <1>1
    <3>2. CASE n \in DOMAIN inbox
      BY <2>1, <3>1, <3>2, <1>1 DEF QueueInOrder
    <3>3. CASE n = Len(inbox) + 1
      BY <3>1, <3>3, <1>0, <1>1, <1>t DEF Numbered, OpMessage
    <3>4. QED BY <3>2, <3>3, <2>1, <1>1
  <2>2. ASSUME NEW n \in DOMAIN inbox', inbox'[n].type = "op"
        PROVE  /\ \A a \in DOMAIN applied : applied[a] < inbox'[n].id
               /\ \A r \in DOMAIN replies : replies[r].id < inbox'[n].id
               /\ outcome'[inbox'[n].id] \notin {"resolved", "rejected"}
    <3>1. CASE n \in DOMAIN inbox
      <4>1. /\ inbox'[n] = inbox[n] /\ inbox[n].type = "op"
            /\ inbox[n].id \in Ops
        BY <2>2, <3>1, <1>1, QueueTypes
      <4>2. QED BY <4>1, <3>1, <1>0 DEF QueueInOrder
    <3>2. CASE n = Len(inbox) + 1
      <4>1. inbox'[n].id = i
        BY <3>2, <1>1 DEF OpMessage
      <4>2. QED BY <4>1, <1>0, <1>t DEF Numbered
    <3>3. QED BY <3>1, <3>2, <2>2, <1>1
  <2>3. QED BY <2>1, <2>2 DEF QueueInOrder
<1>6. RepliesTell'
  BY DEF RepliesTell, Applied
<1>7. CancelledIsPast'
  BY <1>0, <1>1 DEF CancelledIsPast, Numbered, OpMessage
<1>8. WaitingAccounted'
  <2>1. worker' # "none"
    BY DEF WorkerTypeOK
  <2>2. InQueue(i)'
    BY <1>0, <1>1 DEF InQueue
  <2>3. \A n \in DOMAIN replies : replies[n].id < i
    BY <1>0, <1>t DEF Numbered
  <2>4. ASSUME NEW j \in Ops, j # i, outcome[j] = "waiting", worker' = "running"
        PROVE  InQueue(j)' \/ Replied(j)
    <3>1. worker = "running"
      BY <2>4 DEF WaitingAccounted, WaitingIsPending, WorkerTypeOK
    <3>2. CASE InQueue(j)
      BY <3>2, <1>1 DEF InQueue
    <3>3. QED BY <3>1, <3>2, <2>4 DEF WaitingAccounted
  <2>5. QED BY <2>1, <2>2, <2>3, <2>4, <1>0 DEF WaitingAccounted, Replied
<1>9. AnsweredInOrder'
  BY <1>0 DEF AnsweredInOrder, Numbered, Ops
<1>10. ClosingCalled'
  BY <1>0 DEF ClosingCalled, Numbered, Ops, WorkerTypeOK
<1>11. QED BY <1>2, <1>3, <1>4, <1>5, <1>6, <1>7, <1>8, <1>9, <1>10

\* A timer that fires queues a cancellation behind everything.
LEMMA TimeOutPreserves ==
  ASSUME WorkerInv, NEW i \in Ops, TimeOut(i)
  PROVE  WorkerInv'
<1> USE DEF WorkerInv, TimeOut, Post, workerVars
<1>0. /\ outcome[i] = "waiting" /\ i <= sent /\ i \in pending
      /\ CancelMessage(i) \in Messages
      /\ outcome' = [outcome EXCEPT ![i] = "timeout"] /\ outcome \in [Ops -> Outcomes]
      /\ worker \in {"running", "dead"} /\ worker' = worker
  BY QueueTypes DEF WorkerTypeOK, Messages, CancelMessage, Numbered, WaitingIsPending,
     WaitingAccounted
<1>t. /\ \A n \in DOMAIN inbox : inbox[n].id \in Nat /\ inbox[n].id \in Ops
      /\ \A n \in DOMAIN replies : replies[n].id \in Nat
      /\ \A j \in Ops : j \in Nat
  BY QueueTypes
<1>1. /\ inbox' \in Seq(Messages)
      /\ DOMAIN inbox = 1..Len(inbox) /\ Len(inbox) \in Nat
      /\ DOMAIN inbox' = 1..(Len(inbox) + 1)
      /\ inbox'[Len(inbox) + 1] = CancelMessage(i)
      /\ \A n \in DOMAIN inbox : inbox'[n] = inbox[n]
  BY <1>0, AppendProperties DEF WorkerTypeOK
<1>op. \A n \in DOMAIN inbox' : inbox'[n].type = "op" =>
         n \in DOMAIN inbox /\ inbox'[n] = inbox[n]
  BY <1>1 DEF CancelMessage
<1>2. WorkerTypeOK'
  BY <1>0, <1>1 DEF WorkerTypeOK, Outcomes
<1>3. Numbered'
  <2>1. \A n \in DOMAIN inbox' : inbox'[n].id <= sent'
    BY <1>0, <1>1 DEF Numbered, CancelMessage
  <2>2. \A j \in Ops : outcome'[j] = "none" <=> j > sent'
    BY <1>0 DEF Numbered
  <2>3. QED BY <2>1, <2>2 DEF Numbered
<1>4. WaitingIsPending'
  BY <1>0 DEF WaitingIsPending
<1>5. QueueInOrder'
  <2>1. \A m, n \in DOMAIN inbox' :
          inbox'[m].type = "op" /\ inbox'[n].type = "op" /\ m < n
            => inbox'[m].id < inbox'[n].id
    BY <1>op DEF QueueInOrder
  <2>2. ASSUME NEW n \in DOMAIN inbox', inbox'[n].type = "op"
        PROVE  /\ \A a \in DOMAIN applied : applied[a] < inbox'[n].id
               /\ \A r \in DOMAIN replies : replies[r].id < inbox'[n].id
               /\ outcome'[inbox'[n].id] \notin {"resolved", "rejected"}
    BY <2>2, <1>op, <1>0, <1>t DEF QueueInOrder
  <2>3. QED BY <2>1, <2>2 DEF QueueInOrder
<1>6. RepliesTell'
  BY DEF RepliesTell, Applied
<1>7. CancelledIsPast'
  <2>1. ASSUME NEW m \in DOMAIN inbox', NEW n \in DOMAIN inbox', m < n,
               inbox'[m].type = "cancel", inbox'[n].type = "op"
        PROVE  inbox'[m].id # inbox'[n].id
    <3>1. n \in DOMAIN inbox /\ m \in DOMAIN inbox
      BY <2>1, <1>1, <1>op
    <3>2. QED BY <2>1, <3>1, <1>1 DEF CancelledIsPast
  <2>2. ASSUME NEW j \in cancelled', NEW n \in DOMAIN inbox', inbox'[n] = OpMessage(j)
        PROVE  FALSE
    BY <2>2, <1>op DEF CancelledIsPast, OpMessage
  <2>3. QED BY <2>1, <2>2 DEF CancelledIsPast
<1>8. WaitingAccounted'
  <2>1. \A j \in Ops : InQueue(j) => InQueue(j)'
    BY <1>1 DEF InQueue
  <2>2. QED BY <2>1, <1>0 DEF WaitingAccounted, Replied
<1>9. AnsweredInOrder'
  BY <1>0 DEF AnsweredInOrder
<1>10. ClosingCalled'
  BY <1>0 DEF ClosingCalled
<1>11. QED BY <1>2, <1>3, <1>4, <1>5, <1>6, <1>7, <1>8, <1>9, <1>10

\* An answer that arrives settles the first call that waits, or nobody.
LEMMA ReceiveReplyPreserves ==
  ASSUME WorkerInv, ReceiveReply
  PROVE  WorkerInv'
<1> DEFINE i == replies[1].id
           new == IF replies[1].kind = "result" THEN "resolved" ELSE "rejected"
<1> USE DEF WorkerInv
<1>0. /\ replies # <<>> /\ Head(replies) = replies[1] /\ i \in Ops
      /\ replies' \in Seq(Replies) /\ Len(replies) \in Nat /\ Len(replies) >= 1
      /\ DOMAIN replies = 1..Len(replies)
      /\ DOMAIN replies' = 1..(Len(replies) - 1)
      /\ \A n \in DOMAIN replies' : replies'[n] = replies[n + 1] /\ n + 1 \in DOMAIN replies
  BY TailProperties, QueueTypes DEF ReceiveReply, WorkerTypeOK
<1>1. /\ UNCHANGED <<sent, shutdown, closing, worker, inbox, cancelled, applied, deaths>>
      /\ i \in pending => /\ pending' = pending \ {i}
                          /\ outcome' = [outcome EXCEPT ![i] = new]
      /\ i \notin pending => UNCHANGED <<pending, outcome>>
  BY <1>0 DEF ReceiveReply
<1>t. /\ \A n \in DOMAIN inbox : inbox[n].id \in Nat /\ inbox[n].id \in Ops
      /\ \A n \in DOMAIN replies : replies[n].id \in Nat
      /\ \A j \in Ops : j \in Nat
  BY QueueTypes
<1>c. \A j \in Ops : \/ outcome'[j] = outcome[j]
                     \/ j = i /\ outcome[i] = "waiting" /\ outcome'[i] = new
  <2> HIDE DEF new
  <2>1. CASE i \in pending
    BY <2>1, <1>0, <1>1 DEF WorkerTypeOK, WaitingIsPending
  <2>2. CASE i \notin pending
    BY <2>2, <1>1
  <2>3. QED BY <2>1, <2>2
<1>d. outcome'[i] # "waiting"
  <2>1. CASE i \in pending
    BY <2>1, <1>0, <1>1 DEF WorkerTypeOK
  <2>2. CASE i \notin pending
    BY <2>2, <1>0, <1>1 DEF WaitingIsPending
  <2>3. QED BY <2>1, <2>2
<1>2. WorkerTypeOK'
  BY <1>0, <1>1 DEF WorkerTypeOK, Outcomes
<1>3. Numbered'
  BY <1>0, <1>1, <1>c DEF Numbered
<1>4. WaitingIsPending'
  BY <1>0, <1>1 DEF WaitingIsPending, WorkerTypeOK
<1>5. QueueInOrder'
  <2>1. ASSUME NEW n \in DOMAIN inbox', inbox'[n].type = "op"
        PROVE  /\ \A a \in DOMAIN applied' : applied'[a] < inbox'[n].id
               /\ \A r \in DOMAIN replies' : replies'[r].id < inbox'[n].id
               /\ outcome'[inbox'[n].id] \notin {"resolved", "rejected"}
    <3>1. i < inbox[n].id /\ outcome[inbox[n].id] \notin {"resolved", "rejected"}
      BY <2>1, <1>0, <1>1 DEF QueueInOrder
    <3>2. inbox[n].id \in Ops /\ inbox[n].id # i
      BY <2>1, <3>1, <1>0, <1>1, <1>t
    <3>3. outcome'[inbox[n].id] = outcome[inbox[n].id]
      BY <3>2, <1>c
    <3>4. /\ \A a \in DOMAIN applied' : applied'[a] < inbox'[n].id
          /\ \A r \in DOMAIN replies' : replies'[r].id < inbox'[n].id
      BY <2>1, <1>0, <1>1 DEF QueueInOrder
    <3>5. inbox' = inbox
      BY <1>1
    <3>6. outcome'[inbox'[n].id] \notin {"resolved", "rejected"}
      BY <3>1, <3>3, <3>5
    <3>7. QED BY <3>4, <3>6
  <2>2. QED BY <2>1, <1>1 DEF QueueInOrder
<1>6. RepliesTell'
  BY SMTT(40), <1>0, <1>1 DEF RepliesTell, Applied
<1>7. CancelledIsPast'
  BY <1>1 DEF CancelledIsPast
<1>f. \A n \in DOMAIN replies : n # 1 => i < replies[n].id
  BY <1>0 DEF RepliesTell
<1>8. WaitingAccounted'
  <2>1. ASSUME NEW j \in Ops, outcome'[j] = "waiting"
        PROVE  /\ worker' = "running" => InQueue(j)' \/ Replied(j)'
               /\ Replied(j)' \/ \A n \in DOMAIN replies' : replies'[n].id < j
    <3>1. outcome[j] = "waiting" /\ j # i
      BY <2>1, <1>c, <1>d
    <3>2. Replied(j) => Replied(j)'
      <4>1. ASSUME NEW n \in DOMAIN replies, replies[n].id = j
            PROVE  n - 1 \in DOMAIN replies' /\ replies'[n - 1] = replies[n]
        BY <4>1, <3>1, <1>0
      <4>2. QED BY <4>1 DEF Replied
    <3>3. InQueue(j)' <=> InQueue(j)
      BY <1>1 DEF InQueue
    <3>4. QED BY <3>1, <3>2, <3>3, <1>0, <1>1 DEF WaitingAccounted
  <2>2. worker' = "none" => pending' = {} /\ inbox' = <<>> /\ replies' = <<>>
    BY <1>0, <1>1 DEF WaitingAccounted
  <2>3. QED BY <2>1, <2>2 DEF WaitingAccounted
<1>9. AnsweredInOrder'
  <2>1. ASSUME NEW j \in Ops, j < i, outcome[j] = "waiting" PROVE FALSE
    <3>1. \A n \in DOMAIN replies : j < replies[n].id
      BY <2>1, <1>f, <1>t, <1>0
    <3>2. QED BY <2>1, <3>1, <1>0, <1>t DEF WaitingAccounted, Replied
  <2>2. ASSUME NEW j \in Ops, NEW k \in Ops, j < k,
               outcome'[k] \in {"resolved", "rejected"}, outcome'[j] = "waiting"
        PROVE  FALSE
    <3>1. outcome[j] = "waiting"
      BY <2>2, <1>c
    <3>2. CASE outcome'[k] = outcome[k]
      BY <2>2, <3>1, <3>2 DEF AnsweredInOrder
    <3>3. CASE k = i
      BY <2>1, <2>2, <3>1, <3>3
    <3>4. QED BY <3>2, <3>3, <1>c
  <2>3. QED BY <2>2 DEF AnsweredInOrder
<1>10. ClosingCalled'
  BY <1>1, <1>c DEF ClosingCalled
<1>11. QED BY <1>2, <1>3, <1>4, <1>5, <1>6, <1>7, <1>8, <1>9, <1>10

\* Noticing a crash settles everybody who waits.
LEMMA HandleCrashPreserves ==
  ASSUME WorkerInv, HandleCrash
  PROVE  WorkerInv'
<1> USE DEF WorkerInv, HandleCrash
<1>1. /\ \A i \in Ops : outcome'[i] = IF outcome[i] = "waiting" THEN "crashed" ELSE outcome[i]
      /\ pending' = {} /\ DOMAIN inbox' = {} /\ DOMAIN replies' = {}
  BY DEF WaitingIsPending
<1>2. WorkerTypeOK'
  BY DEF WorkerTypeOK, Outcomes
<1>3. Numbered'
  BY <1>1 DEF Numbered, WorkerTypeOK
<1>4. WaitingIsPending'
  BY <1>1 DEF WaitingIsPending
<1>5. QueueInOrder' /\ RepliesTell' /\ CancelledIsPast'
  BY <1>1 DEF QueueInOrder, RepliesTell, CancelledIsPast
<1>6. WaitingAccounted' /\ AnsweredInOrder' /\ ClosingCalled'
  BY <1>1 DEF WaitingAccounted, AnsweredInOrder, ClosingCalled
<1>7. QED BY <1>2, <1>3, <1>4, <1>5, <1>6

\* The thread takes the first message.
LEMMA TakeMessage ==
  ASSUME WorkerInv, inbox # <<>>, inbox' = Tail(inbox)
  PROVE  /\ Head(inbox) = inbox[1] /\ inbox[1] \in Messages /\ inbox[1].id \in Ops
         /\ 1 \in DOMAIN inbox
         /\ inbox' \in Seq(Messages)
         /\ DOMAIN inbox \subseteq Nat
         /\ \A n \in DOMAIN inbox' : n \in Nat /\ n + 1 \in DOMAIN inbox /\ inbox'[n] = inbox[n + 1]
         /\ \A n \in DOMAIN inbox : n # 1 =>
              1 < n /\ n - 1 \in DOMAIN inbox' /\ inbox'[n - 1] = inbox[n]
<1>1. inbox \in Seq(Messages)
  BY DEF WorkerInv, WorkerTypeOK
<1>2. /\ Head(inbox) = inbox[1] /\ inbox[1] \in Messages /\ inbox' \in Seq(Messages)
      /\ Len(inbox) \in Nat /\ Len(inbox) >= 1
      /\ DOMAIN inbox = 1..Len(inbox)
      /\ DOMAIN inbox' = 1..(Len(inbox) - 1)
      /\ \A n \in DOMAIN inbox' : inbox'[n] = inbox[n + 1]
  BY <1>1, TailProperties
<1>3. \A n \in DOMAIN inbox : n # 1 =>
        1 < n /\ n - 1 \in DOMAIN inbox' /\ inbox'[n - 1] = inbox[n]
  BY <1>2
<1>4. \A n \in DOMAIN inbox' : n \in Nat /\ n + 1 \in DOMAIN inbox
  BY <1>2
<1>5. QED BY <1>2, <1>3, <1>4 DEF Messages

\* Of the queue that is left everything holds that held of the whole.
LEMMA TakePreservesQueue ==
  ASSUME WorkerInv, inbox # <<>>, inbox' = Tail(inbox),
         UNCHANGED <<sent, pending, outcome, shutdown, closing>>
  PROVE  /\ \A n \in DOMAIN inbox' : inbox'[n].id <= sent
         /\ \A m, n \in DOMAIN inbox' :
              inbox'[m].type = "op" /\ inbox'[n].type = "op" /\ m < n
                => inbox'[m].id < inbox'[n].id
         /\ \A m, n \in DOMAIN inbox' :
              inbox'[m].type = "cancel" /\ inbox'[n].type = "op" /\ m < n
                => inbox'[m].id # inbox'[n].id
         /\ \A i \in Ops : InQueue(i) => InQueue(i)' \/ inbox[1] = OpMessage(i)
         /\ WaitingIsPending' /\ AnsweredInOrder' /\ ClosingCalled'
<1>1. \A m, n \in DOMAIN inbox' : m < n <=> m + 1 < n + 1
  BY TakeMessage
<1>2. \A i \in Ops : InQueue(i) => InQueue(i)' \/ inbox[1] = OpMessage(i)
  <2>1. ASSUME NEW i \in Ops, NEW n \in DOMAIN inbox, inbox[n] = OpMessage(i), n # 1
        PROVE  InQueue(i)'
    <3>1. n - 1 \in DOMAIN inbox' /\ inbox'[n - 1] = OpMessage(i)
      BY <2>1, TakeMessage
    <3>2. QED BY <3>1 DEF InQueue, OpMessage
  <2>2. QED BY <2>1 DEF InQueue
<1>3. \A n \in DOMAIN inbox' : inbox'[n].id <= sent
  BY TakeMessage DEF WorkerInv, Numbered
<1>4. ASSUME NEW m \in DOMAIN inbox', NEW n \in DOMAIN inbox', m < n
      PROVE  /\ inbox'[m].type = "op" /\ inbox'[n].type = "op"
                  => inbox'[m].id < inbox'[n].id
             /\ inbox'[m].type = "cancel" /\ inbox'[n].type = "op"
                  => inbox'[m].id # inbox'[n].id
  BY <1>1, <1>4, TakeMessage DEF WorkerInv, QueueInOrder, CancelledIsPast
<1>5. WaitingIsPending' /\ AnsweredInOrder' /\ ClosingCalled'
  BY DEF WorkerInv, WaitingIsPending, AnsweredInOrder, ClosingCalled
<1>6. QED BY <1>2, <1>3, <1>4, <1>5

\* The thread reads a cancellation: its operation is not in the queue.
LEMMA ReadCancelPreserves ==
  ASSUME WorkerInv, ReadCancel
  PROVE  WorkerInv'
<1> DEFINE i == inbox[1].id
<1>0. /\ inbox # <<>> /\ inbox' = Tail(inbox) /\ worker = "running"
      /\ inbox[1].type = "cancel" /\ cancelled' = cancelled \cup {i}
      /\ UNCHANGED <<sent, pending, outcome, shutdown, closing, worker, replies, applied, deaths>>
  <2>1. inbox # <<>> /\ inbox' = Tail(inbox)
    BY DEF ReadCancel
  <2>2. Head(inbox) = inbox[1]
    BY <2>1, TakeMessage
  <2>3. QED BY <2>1, <2>2 DEF ReadCancel, clientVars
<1>t. /\ i \in Ops /\ 1 \in DOMAIN inbox /\ inbox' \in Seq(Messages)
      /\ \A n \in DOMAIN inbox' : n \in Nat /\ n + 1 \in DOMAIN inbox /\ inbox'[n] = inbox[n + 1]
  BY <1>0, TakeMessage
<1>q. /\ \A n \in DOMAIN inbox' : inbox'[n].id <= sent
      /\ \A m, n \in DOMAIN inbox' :
           inbox'[m].type = "op" /\ inbox'[n].type = "op" /\ m < n
             => inbox'[m].id < inbox'[n].id
      /\ \A m, n \in DOMAIN inbox' :
           inbox'[m].type = "cancel" /\ inbox'[n].type = "op" /\ m < n
             => inbox'[m].id # inbox'[n].id
      /\ \A j \in Ops : InQueue(j) => InQueue(j)' \/ inbox[1] = OpMessage(j)
      /\ WaitingIsPending' /\ AnsweredInOrder' /\ ClosingCalled'
  BY <1>0, TakePreservesQueue
<1>2. WorkerTypeOK'
  BY <1>0, <1>t DEF WorkerInv, WorkerTypeOK
<1>3. Numbered'
  BY <1>0, <1>t, <1>q DEF WorkerInv, Numbered
<1>5. QueueInOrder'
  BY <1>0, <1>t, <1>q DEF WorkerInv, QueueInOrder
<1>6. RepliesTell'
  BY <1>0 DEF WorkerInv, RepliesTell, Applied
<1>7. CancelledIsPast'
  <2>1. ASSUME NEW j \in cancelled', NEW n \in DOMAIN inbox', inbox'[n] = OpMessage(j)
        PROVE  FALSE
    <3>1. /\ n + 1 \in DOMAIN inbox /\ inbox[n + 1] = OpMessage(j) /\ 1 < n + 1
      BY <2>1, <1>t
    <3>2. CASE j \in cancelled
      BY <3>1, <3>2 DEF WorkerInv, CancelledIsPast
    <3>3. CASE j = i
      BY <3>1, <3>3, <1>0, <1>t DEF WorkerInv, CancelledIsPast, OpMessage
    <3>4. QED BY <2>1, <3>2, <3>3, <1>0
  <2>2. QED BY <2>1, <1>q DEF CancelledIsPast
<1>8. WaitingAccounted'
  <2>1. \A j \in Ops : inbox[1] # OpMessage(j)
    BY <1>0 DEF OpMessage
  <2>2. QED BY <2>1, <1>0, <1>q DEF WorkerInv, WaitingAccounted, Replied
<1>9. QED BY <1>2, <1>3, <1>5, <1>6, <1>7, <1>8, <1>q DEF WorkerInv

\* What is known of the operation at the head of the queue.
LEMMA HeadOperation ==
  ASSUME WorkerInv, inbox # <<>>, Head(inbox).type = "op"
  PROVE  LET i == Head(inbox).id IN
         /\ i \in Ops /\ i <= sent /\ Head(inbox) = OpMessage(i) /\ inbox[1] = OpMessage(i)
         /\ \A a \in DOMAIN applied : applied[a] < i
         /\ \A r \in DOMAIN replies : replies[r].id < i
         /\ ~Applied(i) /\ ~Replied(i)
         /\ outcome[i] \in {"waiting", "timeout", "crashed"}
         /\ \A n \in DOMAIN inbox : n # 1 /\ inbox[n].type = "op" => i < inbox[n].id
<1> DEFINE i == inbox[1].id
<1>1. /\ Head(inbox) = inbox[1] /\ inbox[1] \in Messages /\ i \in Ops /\ i \in Nat
      /\ 1 \in DOMAIN inbox /\ inbox[1].type = "op"
      /\ Len(inbox) \in Nat /\ DOMAIN inbox = 1..Len(inbox)
  <2>1. inbox \in Seq(Messages) /\ \A j \in Ops : j \in Nat
    BY QueueTypes DEF WorkerInv, WorkerTypeOK
  <2>2. Head(inbox) = inbox[1] /\ inbox[1] \in Messages /\ Len(inbox) >= 1
        /\ Len(inbox) \in Nat /\ DOMAIN inbox = 1..Len(inbox)
    BY <2>1, TailProperties
  <2>3. QED BY <2>1, <2>2 DEF Messages
<1>2. inbox[1] = OpMessage(i)
  BY <1>1 DEF Messages, OpMessage
<1>3. i <= sent
  BY <1>1 DEF WorkerInv, Numbered
<1>4. /\ \A a \in DOMAIN applied : applied[a] < i
      /\ \A r \in DOMAIN replies : replies[r].id < i
      /\ outcome[i] \notin {"resolved", "rejected"}
  BY <1>1 DEF WorkerInv, QueueInOrder
<1>5. ~Applied(i) /\ ~Replied(i)
  BY <1>4, <1>1 DEF Applied, Replied
<1>6. outcome[i] \in {"waiting", "timeout", "crashed"}
  BY <1>1, <1>3, <1>4 DEF WorkerInv, Numbered, WorkerTypeOK, Outcomes
<1>7. \A n \in DOMAIN inbox : n # 1 /\ inbox[n].type = "op" => i < inbox[n].id
  BY <1>1 DEF WorkerInv, QueueInOrder
<1>8. QED BY <1>1, <1>2, <1>3, <1>4, <1>5, <1>6, <1>7

\* An operation that takes effect is the latest one that did.
LEMMA TakesEffect ==
  ASSUME applied \in Seq(Ops), NEW i \in Ops, \A j \in Ops : j \in Nat,
         \A a \in DOMAIN applied : applied[a] < i,
         applied' = Append(applied, i)
  PROVE  /\ applied' \in Seq(Ops)
         /\ \A j \in Ops : Applied(j)' <=> Applied(j) \/ j = i
         /\ \A n \in DOMAIN applied' : applied'[n] <= i
<1>1. /\ applied' \in Seq(Ops)
      /\ DOMAIN applied = 1..Len(applied) /\ Len(applied) \in Nat
      /\ DOMAIN applied' = 1..(Len(applied) + 1)
      /\ applied'[Len(applied) + 1] = i
      /\ \A n \in DOMAIN applied : applied'[n] = applied[n]
  BY AppendProperties
<1>2. /\ \A n \in DOMAIN applied' : n \in DOMAIN applied \/ n = Len(applied) + 1
      /\ \A n \in DOMAIN applied : n \in DOMAIN applied' /\ applied'[n] = applied[n]
      /\ Len(applied) + 1 \in DOMAIN applied'
  BY <1>1
<1>3. \A n \in DOMAIN applied' : applied'[n] <= i
  BY <1>1, <1>2
<1>4. ASSUME NEW j \in Ops PROVE Applied(j)' <=> Applied(j) \/ j = i
  BY <1>1, <1>2 DEF Applied
<1>5. QED BY <1>1, <1>3, <1>4

\* Running an operation, with or without success, and answering.
LEMMA ExecutePreserves ==
  ASSUME WorkerInv, Execute
  PROVE  WorkerInv'
<1>p. PICK i \in Ops : i = Head(inbox).id
  BY HeadOperation DEF Execute
<1>0. /\ inbox # <<>> /\ inbox' = Tail(inbox) /\ worker = "running"
      /\ Head(inbox) = inbox[1] /\ inbox[1] = OpMessage(i)
      /\ i \in Ops /\ i \in Nat /\ i <= sent
      /\ \A a \in DOMAIN applied : applied[a] < i
      /\ \A r \in DOMAIN replies : replies[r].id < i
      /\ ~Applied(i)
      /\ \A n \in DOMAIN inbox : n # 1 /\ inbox[n].type = "op" => i < inbox[n].id
  <2>1. inbox # <<>> /\ inbox' = Tail(inbox) /\ worker = "running" /\ Head(inbox).type = "op"
    BY DEF Execute
  <2>2. Head(inbox) = inbox[1]
    BY <2>1, TakeMessage
  <2>3. \A j \in Ops : j \in Nat
    BY QueueTypes DEF WorkerInv
  <2>4. QED BY <1>p, <2>1, <2>2, <2>3, HeadOperation
<1>1. \E kind \in {"result", "error"} :
        /\ replies' = Append(replies, [id |-> i, kind |-> kind])
        /\ applied' = Append(applied, i) \/ applied' = applied
        /\ kind = "result" => applied' = Append(applied, i)
        /\ kind = "error" /\ i \in Atomic => applied' = applied
  BY <1>0, <1>p DEF Execute
<1>2. PICK kind \in {"result", "error"} :
        /\ replies' = Append(replies, [id |-> i, kind |-> kind])
        /\ applied' = Append(applied, i) \/ applied' = applied
        /\ kind = "result" => applied' = Append(applied, i)
        /\ kind = "error" /\ i \in Atomic => applied' = applied
  BY <1>1
<1>3. /\ cancelled' = cancelled \ {i}
      /\ UNCHANGED <<sent, pending, outcome, shutdown, closing, worker, deaths>>
  BY <1>0, <1>p DEF Execute, clientVars
<1>t. /\ \A n \in DOMAIN inbox : inbox[n].id \in Nat /\ inbox[n].id \in Ops
      /\ \A n \in DOMAIN replies : replies[n].id \in Nat
      /\ \A n \in DOMAIN applied : applied[n] \in Nat
      /\ \A j \in Ops : j \in Nat
      /\ 1 \in DOMAIN inbox /\ inbox' \in Seq(Messages) /\ DOMAIN inbox \subseteq Nat
      /\ \A n \in DOMAIN inbox' : n \in Nat /\ n + 1 \in DOMAIN inbox /\ inbox'[n] = inbox[n + 1]
  BY <1>0, TakeMessage, QueueTypes DEF WorkerInv
<1>r. /\ replies' \in Seq(Replies)
      /\ DOMAIN replies = 1..Len(replies) /\ Len(replies) \in Nat
      /\ DOMAIN replies' = 1..(Len(replies) + 1)
      /\ Len(replies) + 1 \in DOMAIN replies'
      /\ replies'[Len(replies) + 1].id = i /\ replies'[Len(replies) + 1].kind = kind
      /\ \A n \in DOMAIN replies : n \in DOMAIN replies' /\ replies'[n] = replies[n]
      /\ \A n \in DOMAIN replies' : n \in DOMAIN replies \/ n = Len(replies) + 1
  <2>1. replies \in Seq(Replies) /\ [id |-> i, kind |-> kind] \in Replies
    BY <1>0 DEF WorkerInv, WorkerTypeOK, Replies
  <2>2. /\ replies' \in Seq(Replies)
        /\ DOMAIN replies = 1..Len(replies) /\ Len(replies) \in Nat
        /\ DOMAIN replies' = 1..(Len(replies) + 1)
        /\ replies'[Len(replies) + 1] = [id |-> i, kind |-> kind]
        /\ \A n \in DOMAIN replies : replies'[n] = replies[n]
    BY <2>1, <1>2, AppendProperties
  <2>3. QED BY <2>2
<1>a. /\ applied' \in Seq(Ops)
      /\ \A j \in Ops : j # i => (Applied(j)' <=> Applied(j))
      /\ kind = "result" => Applied(i)'
      /\ kind = "error" /\ i \in Atomic => ~Applied(i)'
      /\ \A n \in DOMAIN applied' : applied'[n] <= i
  <2>1. applied \in Seq(Ops)
    BY DEF WorkerInv, WorkerTypeOK
  <2>2. CASE applied' = Append(applied, i)
    <3>1. /\ applied' \in Seq(Ops)
          /\ \A j \in Ops : Applied(j)' <=> Applied(j) \/ j = i
          /\ \A n \in DOMAIN applied' : applied'[n] <= i
      BY <2>1, <2>2, <1>0, <1>t, TakesEffect
    <3>2. applied # applied'
      BY <2>1, <2>2, AppendProperties
    <3>3. QED BY <3>1, <3>2, <1>0, <1>2
  <2>3. CASE applied' = applied /\ applied # Append(applied, i)
    <3>1. kind = "error"
      BY <1>2, <2>3
    <3>2. \A j \in Ops : Applied(j)' <=> Applied(j)
      BY <2>3 DEF Applied
    <3>3. \A n \in DOMAIN applied' : applied'[n] <= i
      BY <2>3, <1>0, <1>t
    <3>4. QED BY <3>1, <3>2, <3>3, <2>1, <2>3, <1>0
  <2>4. QED BY <2>2, <2>3, <1>2
<1>q. /\ \A n \in DOMAIN inbox' : inbox'[n].id <= sent
      /\ \A m, n \in DOMAIN inbox' :
           inbox'[m].type = "op" /\ inbox'[n].type = "op" /\ m < n
             => inbox'[m].id < inbox'[n].id
      /\ \A m, n \in DOMAIN inbox' :
           inbox'[m].type = "cancel" /\ inbox'[n].type = "op" /\ m < n
             => inbox'[m].id # inbox'[n].id
      /\ \A j \in Ops : InQueue(j) => InQueue(j)' \/ inbox[1] = OpMessage(j)
      /\ WaitingIsPending' /\ AnsweredInOrder' /\ ClosingCalled'
  BY <1>0, <1>3, TakePreservesQueue
<1>4. WorkerTypeOK'
  BY <1>3, <1>t, <1>r, <1>a DEF WorkerInv, WorkerTypeOK
<1>5. Numbered'
  <2>1. \A n \in DOMAIN replies' : replies'[n].id <= sent
    BY <1>0, <1>r DEF WorkerInv, Numbered
  <2>2. \A n \in DOMAIN applied' : applied'[n] <= sent
    <3>1. sent \in Nat /\ \A n \in DOMAIN applied' : applied'[n] \in Nat
      BY SMTT(40), <1>4, <1>3, QueueTypes DEF WorkerTypeOK, WorkerInv, Ops
    <3>2. QED BY <3>1, <1>a, <1>0
  <2>3. QED BY <2>1, <2>2, <1>q, <1>3 DEF WorkerInv, Numbered
<1>6. QueueInOrder'
  <2>1. ASSUME NEW n \in DOMAIN inbox', inbox'[n].type = "op"
        PROVE  /\ \A a \in DOMAIN applied' : applied'[a] < inbox'[n].id
               /\ \A r \in DOMAIN replies' : replies'[r].id < inbox'[n].id
               /\ outcome'[inbox'[n].id] \notin {"resolved", "rejected"}
    <3>1. /\ n + 1 \in DOMAIN inbox /\ inbox'[n] = inbox[n + 1] /\ n + 1 # 1
          /\ i < inbox[n + 1].id /\ inbox[n + 1].id \in Nat
      BY <2>1, <1>0, <1>t
    <3>2. \A a \in DOMAIN applied' : applied'[a] \in Nat
      BY <1>a, <1>t
    <3>3. \A a \in DOMAIN applied' : applied'[a] < inbox'[n].id
      BY <3>1, <3>2, <1>a, <1>0
    <3>4. \A r \in DOMAIN replies' : replies'[r].id < inbox'[n].id
      BY SMTT(40), <3>1, <1>r, <1>0, <1>t
    <3>5. outcome[inbox[n + 1].id] \notin {"resolved", "rejected"}
      BY <3>1, <2>1 DEF WorkerInv, QueueInOrder
    <3>6. QED BY <3>1, <3>3, <3>4, <3>5, <1>3
  <2>2. QED BY <2>1, <1>q DEF QueueInOrder
<1>7. RepliesTell'
  <2>1. \A n \in DOMAIN replies : replies[n].id \in Ops /\ replies[n].id # i
    BY <1>0, <1>t, QueueTypes DEF WorkerInv
  <2>2. ASSUME NEW n \in DOMAIN replies'
        PROVE  (/\ replies[n].kind = "result" => Applied(replies[n].id)
                /\ replies[n].kind = "error" /\ replies[n].id \in Atomic =>
                     ~Applied(replies[n].id))'
    <3>1. CASE n \in DOMAIN replies
      <4>1. PICK j \in Ops : j = replies[n].id /\ j # i
        BY <3>1, <2>1
      <4>2. replies'[n] = replies[n]
        BY <3>1, <1>r
      <4>3. Applied(j)' <=> Applied(j)
        BY <4>1, <1>a
      <4>4. /\ replies[n].kind = "result" => Applied(j)
            /\ replies[n].kind = "error" /\ j \in Atomic => ~Applied(j)
        BY <3>1, <4>1 DEF WorkerInv, RepliesTell
      <4>5. QED BY <4>1, <4>2, <4>3, <4>4 DEF Applied
    <3>2. CASE n = Len(replies) + 1
      <4>1. /\ kind = "result" => Applied(i)'
            /\ kind = "error" /\ i \in Atomic => ~Applied(i)'
        BY <1>a
      <4>2. replies'[n].id = i /\ replies'[n].kind = kind
        BY <3>2, <1>r
      <4>3. QED BY <4>1, <4>2 DEF Applied
    <3>3. QED BY <3>1, <3>2, <1>r
  <2>3. ASSUME NEW m \in DOMAIN replies', NEW n \in DOMAIN replies', m < n
        PROVE  replies'[m].id < replies'[n].id
    <3>1. m \in DOMAIN replies
      BY <2>3, <1>r
    <3>2. CASE n \in DOMAIN replies
      BY <2>3, <3>1, <3>2, <1>r DEF WorkerInv, RepliesTell
    <3>3. CASE n = Len(replies) + 1
      BY <3>1, <3>3, <1>r, <1>0
    <3>4. QED BY <2>3, <3>2, <3>3, <1>r
  <2>4. QED BY <2>2, <2>3 DEF RepliesTell
<1>8. CancelledIsPast'
  <2>1. ASSUME NEW j \in cancelled', NEW n \in DOMAIN inbox', inbox'[n] = OpMessage(j)
        PROVE  FALSE
    BY <2>1, <1>t, <1>3 DEF WorkerInv, CancelledIsPast
  <2>2. QED BY <2>1, <1>q DEF CancelledIsPast
<1>9. WaitingAccounted'
  <2>2. \A j \in Ops : Replied(j) \/ j = i => Replied(j)'
    BY <1>r DEF Replied
  <2>3. \A j \in Ops : inbox[1] = OpMessage(j) => j = i
    BY <1>0 DEF OpMessage
  <2>4. ASSUME NEW j \in Ops, outcome[j] = "waiting"
        PROVE  /\ InQueue(j)' \/ Replied(j)'
               /\ Replied(j)' \/ \A n \in DOMAIN replies' : replies'[n].id < j
    <3>1. CASE Replied(j) \/ j = i
      BY <3>1, <2>2
    <3>2. CASE ~Replied(j) /\ j # i
      <4>1. InQueue(j) /\ InQueue(j)'
        BY <3>2, <2>3, <2>4, <1>0, <1>q DEF WorkerInv, WaitingAccounted
      <4>2. PICK n \in DOMAIN inbox : inbox[n] = OpMessage(j)
        BY <4>1 DEF InQueue
      <4>3. i < j
        BY <4>2, <2>3, <3>2, <1>0 DEF OpMessage
      <4>4. \A m \in DOMAIN replies' : replies'[m].id < j
        BY <4>3, <1>r, <1>0, <1>t
      <4>5. QED BY <4>1, <4>4
    <3>3. QED BY <3>1, <3>2
  <2>5. QED BY <2>4, <1>3, <1>0 DEF WaitingAccounted
<1>10. QED BY <1>4, <1>5, <1>6, <1>7, <1>8, <1>9, <1>q DEF WorkerInv

\* The thread dies, perhaps after its operation took effect.
LEMMA DiePreserves ==
  ASSUME WorkerInv, Die
  PROVE  WorkerInv'
<1>0. /\ worker = "running" /\ worker' = "dead" /\ deaths' = deaths + 1 /\ deaths < MaxDeaths
      /\ UNCHANGED <<sent, pending, outcome, shutdown, closing, cancelled, replies>>
  BY DEF Die, clientVars
<1>d. deaths' \in 0..MaxDeaths
  BY <1>0, DbWorkerAssumption DEF WorkerInv, WorkerTypeOK
<1>1. CASE UNCHANGED <<inbox, applied>>
  BY <1>0, <1>1, <1>d DEF WorkerInv, WorkerTypeOK, Numbered, WaitingIsPending, QueueInOrder,
     RepliesTell, CancelledIsPast, WaitingAccounted, AnsweredInOrder, ClosingCalled,
     Applied, Replied
<1>2. CASE /\ inbox # <<>> /\ Head(inbox).type = "op"
           /\ applied' = Append(applied, Head(inbox).id) /\ inbox' = Tail(inbox)
  <2>1. PICK i \in Ops : i = Head(inbox).id
    BY <1>2, HeadOperation
  <2>2. /\ i <= sent /\ inbox[1] = OpMessage(i) /\ i \in Nat /\ applied' = Append(applied, i)
        /\ \A a \in DOMAIN applied : applied[a] < i
        /\ \A r \in DOMAIN replies : replies[r].id < i
        /\ \A n \in DOMAIN inbox : n # 1 /\ inbox[n].type = "op" => i < inbox[n].id
    BY <1>2, <2>1, HeadOperation, QueueTypes DEF WorkerInv
  <2>3. /\ inbox' \in Seq(Messages)
        /\ \A n \in DOMAIN inbox' : n \in Nat /\ n + 1 \in DOMAIN inbox /\ inbox'[n] = inbox[n + 1]
        /\ \A n \in DOMAIN inbox : inbox[n].id \in Nat /\ inbox[n].id \in Ops
        /\ \A n \in DOMAIN replies : replies[n].id \in Nat /\ replies[n].id \in Ops
        /\ \A j \in Ops : j \in Nat
        /\ sent \in Nat
    BY <1>2, TakeMessage, QueueTypes DEF WorkerInv
  <2>4. /\ applied' \in Seq(Ops)
        /\ \A j \in Ops : Applied(j)' <=> Applied(j) \/ j = i
        /\ \A n \in DOMAIN applied' : applied'[n] <= i /\ applied'[n] \in Nat
    <3>1. applied \in Seq(Ops)
      BY DEF WorkerInv, WorkerTypeOK
    <3>2. /\ applied' \in Seq(Ops)
          /\ \A j \in Ops : Applied(j)' <=> Applied(j) \/ j = i
          /\ \A n \in DOMAIN applied' : applied'[n] <= i
      BY <3>1, <2>2, <2>3, TakesEffect
    <3>3. QED BY <3>2, <2>3
  <2>q. /\ \A n \in DOMAIN inbox' : inbox'[n].id <= sent
        /\ \A m, n \in DOMAIN inbox' :
             inbox'[m].type = "op" /\ inbox'[n].type = "op" /\ m < n
               => inbox'[m].id < inbox'[n].id
        /\ \A m, n \in DOMAIN inbox' :
             inbox'[m].type = "cancel" /\ inbox'[n].type = "op" /\ m < n
               => inbox'[m].id # inbox'[n].id
        /\ WaitingIsPending' /\ AnsweredInOrder' /\ ClosingCalled'
    BY <1>0, <1>2, TakePreservesQueue
  <2>5. WorkerTypeOK'
    BY <1>0, <1>d, <2>3, <2>4 DEF WorkerInv, WorkerTypeOK
  <2>6. Numbered'
    <3>1. \A n \in DOMAIN applied' : applied'[n] <= sent
      BY <2>2, <2>3, <2>4
    <3>2. QED BY <3>1, <2>q, <1>0 DEF WorkerInv, Numbered
  <2>7. QueueInOrder'
    <3>1. ASSUME NEW n \in DOMAIN inbox', inbox'[n].type = "op"
          PROVE  /\ \A a \in DOMAIN applied' : applied'[a] < inbox'[n].id
                 /\ \A r \in DOMAIN replies' : replies'[r].id < inbox'[n].id
                 /\ outcome'[inbox'[n].id] \notin {"resolved", "rejected"}
      <4>1. /\ n + 1 \in DOMAIN inbox /\ inbox'[n] = inbox[n + 1] /\ n + 1 # 1
            /\ i < inbox[n + 1].id /\ inbox[n + 1].id \in Nat
        BY <3>1, <2>2, <2>3
      <4>2. \A a \in DOMAIN applied' : applied'[a] < inbox'[n].id
        BY <4>1, <2>2, <2>4
      <4>3. /\ \A r \in DOMAIN replies : replies[r].id < inbox[n + 1].id
            /\ outcome[inbox[n + 1].id] \notin {"resolved", "rejected"}
        BY <3>1, <4>1 DEF WorkerInv, QueueInOrder
      <4>4. QED BY <4>1, <4>2, <4>3, <1>0
    <3>2. QED BY <3>1, <2>q DEF QueueInOrder
  <2>8. RepliesTell'
    <3>1. \A n \in DOMAIN replies : replies[n].id # i /\ replies[n].id \in Ops
      BY <2>2, <2>3
    <3>2. ASSUME NEW n \in DOMAIN replies
          PROVE  (/\ replies[n].kind = "result" => Applied(replies[n].id)
                  /\ replies[n].kind = "error" /\ replies[n].id \in Atomic =>
                       ~Applied(replies[n].id))'
      <4>1. PICK j \in Ops : j = replies[n].id /\ j # i
        BY <3>1
      <4>2. Applied(j)' <=> Applied(j)
        BY <4>1, <2>4
      <4>3. /\ replies[n].kind = "result" => Applied(j)
            /\ replies[n].kind = "error" /\ j \in Atomic => ~Applied(j)
        BY <4>1 DEF WorkerInv, RepliesTell
      <4>4. QED BY <4>1, <4>2, <4>3, <1>0 DEF Applied
    <3>3. QED BY <3>2, <1>0 DEF WorkerInv, RepliesTell
  <2>9. CancelledIsPast'
    <3>1. ASSUME NEW j \in cancelled, NEW n \in DOMAIN inbox', inbox'[n] = OpMessage(j)
          PROVE  FALSE
      BY <3>1, <2>3 DEF WorkerInv, CancelledIsPast
    <3>2. QED BY <3>1, <2>q, <1>0 DEF CancelledIsPast
  <2>10. WaitingAccounted'
    BY <1>0 DEF WorkerInv, WaitingAccounted, Replied
  <2>11. QED BY <2>5, <2>6, <2>7, <2>8, <2>9, <2>10, <2>q DEF WorkerInv
<1>3. QED BY <1>1, <1>2 DEF Die

\* The stages of the shutdown.
LEMMA TerminatePreserves ==
  ASSUME WorkerInv, Terminate
  PROVE  WorkerInv'
<1>1. ClosingCalled'
  BY DEF WorkerInv, ClosingCalled, Terminate
<1>2. QED BY <1>1 DEF WorkerInv, Terminate, workerVars, WorkerTypeOK, Stages, Numbered,
  WaitingIsPending, QueueInOrder, RepliesTell, CancelledIsPast, WaitingAccounted,
  AnsweredInOrder, Applied, InQueue, Replied

\* The exit of the process changes nothing but the stage of the shutdown.
LEMMA ExitPreserves ==
  ASSUME WorkerInv, shutdown' = "exited",
         UNCHANGED <<sent, pending, outcome, closing, worker, inbox, workerVars, deaths>>
  PROVE  WorkerInv'
<1>1. ClosingCalled'
  BY DEF ClosingCalled
<1>2. QED BY <1>1 DEF WorkerInv, workerVars, WorkerTypeOK, Stages, Numbered,
  WaitingIsPending, QueueInOrder, RepliesTell, CancelledIsPast, WaitingAccounted,
  AnsweredInOrder, Applied, InQueue, Replied

\* A shutdown asks the worker to close, through its queue.
LEMMA StartShutdownPreserves ==
  ASSUME WorkerInv, StartShutdown
  PROVE  WorkerInv'
<1>1. CASE worker = "none"
  BY <1>1, ExitPreserves DEF StartShutdown
<1>2. CASE worker # "none"
  <2>1. PICK i \in Ops : Send(i)
    BY <1>2 DEF StartShutdown
  <2>2. i = sent + 1 /\ i \in Nat
    BY <2>1, DbWorkerAssumption DEF Send, Ops
  <2>3. closing' = i /\ shutdown' = "closing" /\ UNCHANGED <<workerVars, deaths>>
    BY <1>2, <2>2 DEF StartShutdown
  <2>4. QED BY <2>1, <2>2, <2>3, SendPreserves DEF Stages
<1>3. QED BY <1>1, <1>2

\* A call of runDbOp is a send by a process that is alive.
LEMMA RunDbOpPreserves ==
  ASSUME WorkerInv, RunDbOp
  PROVE  WorkerInv'
<1>1. PICK i \in Ops : Send(i)
  BY DEF RunDbOp
<1>2. UNCHANGED <<shutdown, closing, workerVars, deaths>> /\ i = sent + 1
  BY <1>1 DEF RunDbOp, Send
<1>3. closing \in 0..i /\ shutdown \in Stages
  BY <1>2, DbWorkerAssumption DEF WorkerInv, WorkerTypeOK, Numbered
<1>4. QED BY <1>1, <1>2, <1>3, SendPreserves DEF workerVars

\* Every step keeps the invariant.
LEMMA WorkerInvInductive ==
  ASSUME WorkerInv, [Next]_vars
  PROVE  WorkerInv'
<1>1. CASE RunDbOp
  BY <1>1, RunDbOpPreserves
<1>2. CASE \E i \in Ops : TimeOut(i)
  BY <1>2, TimeOutPreserves
<1>3. CASE ReceiveReply
  BY <1>3, ReceiveReplyPreserves
<1>4. CASE HandleCrash
  BY <1>4, HandleCrashPreserves
<1>5. CASE StartShutdown
  BY <1>5, StartShutdownPreserves
<1>6. CASE Terminate
  BY <1>6, TerminatePreserves
<1>7. CASE Exit
  BY <1>7, ExitPreserves DEF Exit
<1>8. CASE ReadCancel
  BY <1>8, ReadCancelPreserves
<1>9. CASE Execute
  BY <1>9, ExecutePreserves
<1>10. CASE Die
  BY <1>10, DiePreserves
<1>11. CASE UNCHANGED vars
  BY <1>11 DEF vars, clientVars, workerVars, WorkerInv, WorkerTypeOK, Numbered,
     WaitingIsPending, QueueInOrder, RepliesTell, CancelledIsPast, WaitingAccounted,
     AnsweredInOrder, ClosingCalled, Applied, InQueue, Replied
<1>12. QED
  BY <1>1, <1>2, <1>3, <1>4, <1>5, <1>6, <1>7, <1>8, <1>9, <1>10, <1>11
     DEF Next, ClientNext, ThreadNext

\* The invariant holds for every number of operations and of deaths.
THEOREM WorkerInvariant == Spec => []WorkerInv
<1>1. Init => WorkerInv
  BY InitWorkerInv
<1>2. WorkerInv /\ [Next]_vars => WorkerInv'
  BY WorkerInvInductive
<1>3. QED BY <1>1, <1>2, PTL DEF Spec

\* No cancellation ever reaches its operation in time.
THEOREM CancellationsAreVain == Spec => []CancelledIsPast
<1>1. WorkerInv => CancelledIsPast
  BY DEF WorkerInv
<1>2. QED BY <1>1, WorkerInvariant, PTL

\* When the thread is terminated, all who called before the shutdown know how
\* their calls ended.
THEOREM ShutdownDrainsAlways == Spec => []ShutdownDrains
<1>1. ASSUME WorkerInv, shutdown = "terminating", NEW i \in Ops, i < closing
      PROVE  outcome[i] \notin {"none", "waiting"}
  <2>1. closing \in Ops /\ outcome[closing] = "resolved"
    BY <1>1 DEF WorkerInv, ClosingCalled
  <2>2. outcome[i] # "waiting"
    BY <1>1, <2>1 DEF WorkerInv, AnsweredInOrder
  <2>3. i \in Nat /\ closing \in Nat /\ sent \in Nat /\ closing <= sent
    BY <1>1, QueueTypes, <2>1 DEF WorkerInv, Numbered
  <2>4. outcome[i] # "none"
    BY <1>1, <2>3 DEF WorkerInv, Numbered
  <2>5. QED BY <2>2, <2>4
<1>2. WorkerInv => ShutdownDrains
  BY <1>1 DEF ShutdownDrains
<1>3. QED BY <1>2, WorkerInvariant, PTL

----------------------------------------------------------------------------
\* The refinement: what the contract sees of a call.
Seen(i) == IF outcome[i] \in {"timeout", "crashed"} THEN "lost" ELSE outcome[i]

\* A new request is a call.
LEMMA SendIsCall ==
  ASSUME WorkerInv, NEW i \in Ops, Send(i), UNCHANGED applied
  PROVE  Contract!Call(i)
<1>1. /\ i = sent + 1 /\ sent \in Nat /\ \A j \in Ops : j \in Nat
      /\ outcome' = [outcome EXCEPT ![i] = "waiting"] /\ outcome \in [Ops -> Outcomes]
  BY QueueTypes DEF WorkerInv, WorkerTypeOK, Send
<1>2. \A j \in Ops : Seen(j) = "none" <=> j >= i
  BY <1>1 DEF WorkerInv, Numbered, Seen
<1>3. \A j \in Ops : Seen(j)' = IF j = i THEN "waiting" ELSE Seen(j)
  BY <1>1 DEF Seen
<1>4. QED BY <1>2, <1>3 DEF Contract!Call, Contract!Ops, Ops, Seen

\* A timeout, or a crash that is noticed, loses calls that wait.
LEMMA LosingIsLose ==
  ASSUME WorkerInv, UNCHANGED applied, NEW lost \in SUBSET Ops,
         \A i \in lost : outcome[i] = "waiting" /\ outcome'[i] \in {"timeout", "crashed"},
         \A i \in Ops : i \notin lost => outcome'[i] = outcome[i]
  PROVE  Contract!Lose
<1>1. \A i \in Ops : Seen(i)' = IF i \in lost THEN "lost" ELSE Seen(i)
  BY DEF Seen
<1>2. lost \in SUBSET {i \in Ops : Seen(i) = "waiting"}
  BY DEF Seen
<1>3. QED BY <1>1, <1>2 DEF Contract!Lose, Contract!Ops, Ops, Seen

\* An operation that commits takes effect after all that did before.
LEMMA CommitIsTakeEffect ==
  ASSUME WorkerInv, inbox # <<>>, Head(inbox).type = "op",
         applied' = Append(applied, Head(inbox).id), UNCHANGED outcome
  PROVE  Contract!TakeEffect(Head(inbox).id)
<1>1. /\ Head(inbox).id \in Ops
      /\ \A a \in DOMAIN applied : applied[a] < Head(inbox).id
      /\ outcome[Head(inbox).id] \in {"waiting", "timeout", "crashed"}
  BY HeadOperation
<1>2. QED BY <1>1 DEF Contract!TakeEffect, Contract!Ops, Ops

\* An answer resolves or rejects its call truthfully, or finds nobody.
LEMMA ReplyIsAnswer ==
  ASSUME WorkerInv, ReceiveReply
  PROVE  \/ \E i \in Ops : Contract!Resolve(i) \/ Contract!Reject(i)
         \/ UNCHANGED <<outcome, applied>>
<1>1. CASE Head(replies).id \notin pending
  BY <1>1 DEF ReceiveReply
<1>2. CASE Head(replies).id \in pending
  <2>1. PICK i \in Ops : i = Head(replies).id /\ outcome[i] = "waiting"
    BY <1>2 DEF WorkerInv, WaitingIsPending
  <2>2. replies # <<>> /\ Head(replies) = replies[1] /\ 1 \in DOMAIN replies
    <3>1. replies \in Seq(Replies) /\ replies # <<>>
      BY DEF WorkerInv, WorkerTypeOK, ReceiveReply
    <3>2. QED BY <3>1, TailProperties
  <2>3. /\ Head(replies).kind = "result" => Applied(i)
        /\ Head(replies).kind = "error" /\ i \in Atomic => ~Applied(i)
        /\ Head(replies).kind \in {"result", "error"}
    <3>1. Head(replies) \in Replies
      BY <2>2, QueueTypes DEF WorkerInv
    <3>2. QED BY <3>1, <2>1, <2>2 DEF WorkerInv, RepliesTell, Replies
  <2>4. /\ UNCHANGED applied /\ outcome \in [Ops -> Outcomes]
        /\ outcome' = [outcome EXCEPT ![i] =
                          IF Head(replies).kind = "result" THEN "resolved" ELSE "rejected"]
    BY <1>2, <2>1 DEF ReceiveReply, WorkerInv, WorkerTypeOK
  <2>5. CASE Head(replies).kind = "result"
    <3>1. \A j \in Ops : Seen(j)' = IF j = i THEN "resolved" ELSE Seen(j)
      BY <2>3, <2>4, <2>5 DEF Seen
    <3>2. Contract!Resolve(i)
      BY <2>1, <2>3, <2>4, <2>5, <3>1
         DEF Contract!Resolve, Contract!Applied, Contract!Ops, Ops, Seen, Applied
    <3>3. QED BY <3>2
  <2>6. CASE Head(replies).kind = "error"
    <3>1. \A j \in Ops : Seen(j)' = IF j = i THEN "rejected" ELSE Seen(j)
      BY <2>3, <2>4, <2>6 DEF Seen
    <3>2. Contract!Reject(i)
      BY <2>1, <2>3, <2>4, <2>6, <3>1
         DEF Contract!Reject, Contract!Applied, Contract!Ops, Ops, Seen, Applied
    <3>3. QED BY <3>2
  <2>7. QED BY <2>3, <2>5, <2>6
<1>3. QED BY <1>1, <1>2

\* Every step of the worker protocol is a step of its contract, or none.
LEMMA StepKeepsContract ==
  ASSUME WorkerInv, [Next]_vars
  PROVE  [Contract!Next]_(Contract!abstractVars)
<1> USE DEF Contract!Next, Contract!abstractVars, Contract!Ops, Ops
<1>s. UNCHANGED <<outcome, applied>> => UNCHANGED Contract!abstractVars
  OBVIOUS
<1>1. CASE RunDbOp
  <2>1. PICK i \in Ops : Send(i)
    BY <1>1 DEF RunDbOp
  <2>2. Contract!Call(i)
    BY <1>1, <2>1, SendIsCall DEF RunDbOp, workerVars
  <2>3. QED BY <2>2
<1>2. ASSUME NEW i \in Ops, TimeOut(i) PROVE Contract!Next
  <2>1. Contract!Lose
    <3>1. /\ outcome[i] = "waiting" /\ outcome'[i] = "timeout"
          /\ \A j \in Ops : j \notin {i} => outcome'[j] = outcome[j]
          /\ UNCHANGED applied
      BY <1>2 DEF TimeOut, workerVars, WorkerInv, WorkerTypeOK
    <3>2. {i} \in SUBSET Ops
      OBVIOUS
    <3>3. QED BY <3>1, <3>2, LosingIsLose
  <2>2. QED BY <2>1
<1>3. CASE ReceiveReply
  BY <1>3, <1>s, ReplyIsAnswer
<1>4. CASE HandleCrash
  <2>1. Contract!Lose
    <3>1. /\ pending \in SUBSET Ops /\ UNCHANGED applied
          /\ \A j \in pending : outcome[j] = "waiting" /\ outcome'[j] \in {"timeout", "crashed"}
          /\ \A j \in Ops : j \notin pending => outcome'[j] = outcome[j]
      BY <1>4 DEF HandleCrash, WorkerInv, WorkerTypeOK, WaitingIsPending
    <3>2. QED BY <3>1, LosingIsLose
  <2>2. QED BY <2>1
<1>5. CASE StartShutdown
  <2>1. CASE worker = "none"
    BY <1>5, <2>1, <1>s DEF StartShutdown, workerVars
  <2>2. CASE worker # "none"
    <3>1. PICK i \in Ops : Send(i)
      BY <1>5, <2>2 DEF StartShutdown
    <3>2. Contract!Call(i)
      BY <1>5, <3>1, SendIsCall DEF StartShutdown, workerVars
    <3>3. QED BY <3>2
  <2>3. QED BY <2>1, <2>2
<1>6. CASE Terminate \/ Exit \/ ReadCancel \/ UNCHANGED vars
  BY <1>6, <1>s DEF Terminate, Exit, ReadCancel, vars, clientVars, workerVars
<1>7. CASE Execute
  <2>1. CASE UNCHANGED applied
    BY <1>7, <2>1, <1>s DEF Execute, clientVars
  <2>2. CASE applied' = Append(applied, Head(inbox).id)
    <3>1. Head(inbox).id \in Ops /\ Contract!TakeEffect(Head(inbox).id)
      BY <1>7, <2>2, CommitIsTakeEffect, HeadOperation DEF Execute, clientVars
    <3>2. QED BY <3>1
  <2>3. QED BY <1>7, <2>1, <2>2 DEF Execute
<1>8. CASE Die
  <2>1. CASE UNCHANGED applied
    BY <1>8, <2>1, <1>s DEF Die, clientVars
  <2>2. CASE /\ inbox # <<>> /\ Head(inbox).type = "op"
             /\ applied' = Append(applied, Head(inbox).id)
    <3>1. Head(inbox).id \in Ops /\ Contract!TakeEffect(Head(inbox).id)
      BY <1>8, <2>2, CommitIsTakeEffect, HeadOperation DEF Die, clientVars
    <3>2. QED BY <3>1
  <2>3. QED BY <1>8, <2>1, <2>2 DEF Die
<1>9. QED
  BY <1>1, <1>2, <1>3, <1>4, <1>5, <1>6, <1>7, <1>8 DEF Next, ClientNext, ThreadNext

\* The worker keeps the contract its callers rely on.
THEOREM WorkerKeepsContract == Spec => KeepsContract
<1>1. Init => Contract!Init
  BY DEF Init, Contract!Init, Contract!Ops, Ops
<1>2. WorkerInv /\ [Next]_vars => [Contract!Next]_(Contract!abstractVars)
  BY StepKeepsContract
<1>3. QED BY <1>1, <1>2, WorkerInvariant, PTL DEF Spec, KeepsContract, Contract!Spec
=============================================================================
