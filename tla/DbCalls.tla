------------------------------ MODULE DbCalls -------------------------------
(***************************************************************************)
(* What the stores may rely on when they call the database of a server     *)
(* process, with none of the mechanism: operations take effect in the      *)
(* order they were called, each at most once; a call that resolves has     *)
(* taken effect; one that the operation itself rejected will take none any *)
(* more, and has taken none if it is atomic, that is one statement or one  *)
(* transaction; a call that is lost to its caller (a timeout, a crash of   *)
(* the worker thread) may or may not have taken effect, or may still do so.*)
(***************************************************************************)
EXTENDS Naturals, Sequences

CONSTANTS
  MaxOps,   \* bound: operations called
  Atomic    \* the operations that are one statement or one transaction

Ops == 1..MaxOps

VARIABLES
  outcome,   \* per call: what its caller has seen
  applied    \* the operations that took effect, in order

abstractVars == <<outcome, applied>>

Applied(i) == \E n \in DOMAIN applied : applied[n] = i

Init ==
  /\ outcome = [i \in Ops |-> "none"]
  /\ applied = <<>>

Call(i) ==
  /\ \A j \in Ops : outcome[j] = "none" <=> j >= i
  /\ outcome' = [outcome EXCEPT ![i] = "waiting"]
  /\ UNCHANGED applied

\* Even when its caller has given up on it.
TakeEffect(i) ==
  /\ outcome[i] \in {"waiting", "lost"}
  /\ \A n \in DOMAIN applied : applied[n] < i
  /\ applied' = Append(applied, i)
  /\ UNCHANGED outcome

Resolve(i) ==
  /\ outcome[i] = "waiting" /\ Applied(i)
  /\ outcome' = [outcome EXCEPT ![i] = "resolved"]
  /\ UNCHANGED applied

Reject(i) ==
  /\ outcome[i] = "waiting"
  /\ i \in Atomic => ~Applied(i)
  /\ outcome' = [outcome EXCEPT ![i] = "rejected"]
  /\ UNCHANGED applied

Lose ==
  /\ \E lost \in SUBSET {i \in Ops : outcome[i] = "waiting"} :
       outcome' = [i \in Ops |-> IF i \in lost THEN "lost" ELSE outcome[i]]
  /\ UNCHANGED applied

Next ==
  \/ \E i \in Ops : Call(i) \/ TakeEffect(i) \/ Resolve(i) \/ Reject(i)
  \/ Lose

Spec == Init /\ [][Next]_abstractVars
=============================================================================
