-------------------------------- MODULE Purge ---------------------------------
(***************************************************************************)
(* purge_expired_customers (tools/customers.ts): a search collects the     *)
(* archived customers whose day has come, and a few workers that share one *)
(* index (utils/stripe-throttle.ts) delete them one by one, each under a   *)
(* key derived from the call's own (utils/idempotency.ts).  Meanwhile      *)
(* customers are archived, restored and deleted by other calls, another    *)
(* purge runs, answers of Stripe get lost and servers crash.               *)
(*                                                                         *)
(* The search reads customer by customer, in any order, as its pages come. *)
(***************************************************************************)
EXTENDS Naturals, Sequences, FiniteSets, Functions

CONSTANTS
  Customers,
  Purges,          \* calls of the tool, each with an idempotency key of its own
  Concurrency,     \* STRIPE_WRITE_CONCURRENCY
  MaxRetries,      \* maxNetworkRetries of the Stripe client
  Nobody

ASSUME PurgeAssumption ==
  /\ Nobody \notin Purges /\ Nobody \notin Customers
  /\ Concurrency \in Nat \ {0} /\ MaxRetries \in Nat

VARIABLES
  expired,    \* the archived customers whose delete_after has passed
  tomb,       \* per customer: the key of the request that deleted it
  purge,      \* per call: the state of its operation
  worker      \* per call: its workers

vars == <<expired, tomb, purge, worker>>

Workers == 1..Concurrency
Keys == [base : Purges \cup {Nobody}, scope : Customers \cup {Nobody}]
Alive == [base |-> Nobody, scope |-> Nobody]
Stages == {"idle", "search", "write", "returned", "failed", "dead"}
PurgeRows ==
  [at : Stages, mode : {"dry", "live"}, unseen : SUBSET Customers,
   found : Seq(Customers), index : Nat,
   deleted : [Customers -> Nat], errors : [Customers -> Nat]]
WorkerRows == [at : {"next", "calling", "done"}, item : Nat, tries : 0..MaxRetries]

None == [c \in Customers |-> 0]
NewPurge(at, mode, unseen) ==
  [at |-> at, mode |-> mode, unseen |-> unseen, found |-> <<>>, index |-> 0,
   deleted |-> None, errors |-> None]
Off == [at |-> "done", item |-> 0, tries |-> 0]
Ready == [at |-> "next", item |-> 0, tries |-> 0]

Init ==
  /\ expired \in SUBSET Customers
  /\ tomb = [c \in Customers |-> Alive]
  /\ purge = [p \in Purges |-> NewPurge("idle", "dry", {})]
  /\ worker = [p \in Purges |-> [w \in Workers |-> Off]]

Gone(c) == tomb[c] # Alive
Become(p, row) == purge' = [purge EXCEPT ![p] = row]
Turn(p, w, row) == worker' = [worker EXCEPT ![p] = [worker[p] EXCEPT ![w] = row]]

----------------------------------------------------------------------------
\* What else happens to customers.  The day of one comes; a search that runs read
\* the clock before, and will not take it.
Expire(c) ==
  /\ ~Gone(c) /\ c \notin expired
  /\ expired' = expired \cup {c}
  /\ purge' = [p \in Purges |-> [purge[p] EXCEPT !.unseen = @ \ {c}]]
  /\ UNCHANGED <<tomb, worker>>

\* One is restored, or archived anew.
Spare(c) ==
  /\ ~Gone(c) /\ c \in expired
  /\ expired' = expired \ {c}
  /\ UNCHANGED <<tomb, purge, worker>>

\* delete_customer, or a human at the dashboard.
DeleteElsewhere(c) ==
  /\ ~Gone(c)
  /\ tomb' = [tomb EXCEPT ![c] = [base |-> Nobody, scope |-> c]]
  /\ UNCHANGED <<expired, purge, worker>>

----------------------------------------------------------------------------
\* The search.
Start(p) ==
  /\ purge[p].at = "idle"
  /\ \E mode \in {"dry", "live"} : Become(p, NewPurge("search", mode, Customers))
  /\ UNCHANGED <<expired, tomb, worker>>

Examine(p, c) ==
  /\ purge[p].at = "search"
  /\ c \in purge[p].unseen
  /\ Become(p, [purge[p] EXCEPT
       !.unseen = @ \ {c},
       !.found = IF c \in expired /\ ~Gone(c) THEN Append(@, c) ELSE @])
  /\ UNCHANGED <<expired, tomb, worker>>

SearchFails(p) ==
  /\ purge[p].at = "search"
  /\ Become(p, [purge[p] EXCEPT !.at = "failed"])
  /\ UNCHANGED <<expired, tomb, worker>>

\* A dry run returns the list; forEachStripeWrite starts no more workers than
\* there are customers.
SearchDone(p) ==
  LET row == purge[p]
      write == row.mode = "live" /\ row.found # <<>> IN
  /\ row.at = "search" /\ row.unseen = {}
  /\ Become(p, [row EXCEPT !.at = IF write THEN "write" ELSE "returned"])
  /\ worker' = [worker EXCEPT ![p] =
       [w \in Workers |-> IF write /\ w <= Len(row.found) THEN Ready ELSE Off]]
  /\ UNCHANGED <<expired, tomb>>

----------------------------------------------------------------------------
\* The workers.

\* Mutant: the index is read, and moves on only when nothing is left to do.
TakeTwice(p, w) ==
  LET next == purge[p].index + 1 IN
  /\ purge[p].at = "write" /\ worker[p][w].at = "next"
  /\ IF next <= Len(purge[p].found)
     THEN Turn(p, w, [at |-> "calling", item |-> next, tries |-> 0]) /\ UNCHANGED purge
     ELSE Turn(p, w, Off) /\ Become(p, [purge[p] EXCEPT !.index = next])
  /\ UNCHANGED <<expired, tomb>>

\* Mutant: the loop has no way out.
TakeNoBreak(p, w) ==
  LET next == purge[p].index + 1 IN
  /\ purge[p].at = "write" /\ worker[p][w].at = "next"
  /\ next <= Len(purge[p].found)
  /\ Become(p, [purge[p] EXCEPT !.index = next])
  /\ Turn(p, w, [at |-> "calling", item |-> next, tries |-> 0])
  /\ UNCHANGED <<expired, tomb>>

\* const current = index++
Take(p, w) ==
  LET next == purge[p].index + 1 IN
  /\ purge[p].at = "write" /\ worker[p][w].at = "next"
  /\ Become(p, [purge[p] EXCEPT !.index = next])
  /\ Turn(p, w, IF next <= Len(purge[p].found)
                THEN [at |-> "calling", item |-> next, tries |-> 0] ELSE Off)
  /\ UNCHANGED <<expired, tomb>>

\* Mutant: one key for all the requests of a call.
DeriveKeyShared(base, scope) == [base |-> base, scope |-> Nobody]

DeriveKey(base, scope) == [base |-> base, scope |-> scope]

\* Stripe deletes the customer; or repeats what it answered under this key; or
\* does nothing, because of a fault or because the customer is gone.  Any answer
\* may get lost (an answer the client repeats the request for counts as lost).
StripeDeletes(c, key, answer) ==
  \/ ~Gone(c) /\ answer \in {"ok", "lost"} /\ tomb' = [tomb EXCEPT ![c] = key]
  \/ key \in Range(tomb) /\ answer \in {"ok", "lost"} /\ UNCHANGED tomb
  \/ answer \in {"error", "lost"} /\ UNCHANGED tomb

\* Mutant: a lost answer is asked for again without end.
AgainForEver(call, answer) == answer = "lost"

Again(call, answer) == answer = "lost" /\ call.tries < MaxRetries

OneMore(list, c) == [list EXCEPT ![c] = list[c] + 1]

Request(p, w, answer) ==
  LET call == worker[p][w]
      c == purge[p].found[call.item] IN
  /\ purge[p].at = "write" /\ call.at = "calling"
  /\ StripeDeletes(c, DeriveKey(p, c), answer)
  /\ IF Again(call, answer)
     THEN /\ Turn(p, w, [call EXCEPT !.tries = @ + 1])
          /\ UNCHANGED purge
     ELSE /\ Turn(p, w, Ready)
          /\ Become(p, IF answer = "ok"
                       THEN [purge[p] EXCEPT !.deleted = OneMore(@, c)]
                       ELSE [purge[p] EXCEPT !.errors = OneMore(@, c)])
  /\ UNCHANGED expired

\* Promise.all(workers)
Return(p) ==
  /\ purge[p].at = "write"
  /\ \A w \in Workers : worker[p][w].at = "done"
  /\ Become(p, [purge[p] EXCEPT !.at = "returned"])
  /\ UNCHANGED <<expired, tomb, worker>>

Crash(p) ==
  /\ purge[p].at \in {"search", "write"}
  /\ Become(p, [purge[p] EXCEPT !.at = "dead"])
  /\ UNCHANGED <<expired, tomb, worker>>

SearchStep(p) == (\E c \in Customers : Examine(p, c)) \/ SearchFails(p) \/ SearchDone(p)

WorkerStep(p, w) ==
  Take(p, w) \/ \E answer \in {"ok", "error", "lost"} : Request(p, w, answer)

World == \E c \in Customers : Expire(c) \/ Spare(c) \/ DeleteElsewhere(c)

Next ==
  \/ World
  \/ \E p \in Purges :
       Start(p) \/ SearchStep(p) \/ (\E w \in Workers : WorkerStep(p, w)) \/ Return(p) \/ Crash(p)

\* Requests time out and timers fire; the search has so many pages.
Fairness ==
  \A p \in Purges :
    /\ WF_vars(SearchStep(p)) /\ WF_vars(Return(p))
    /\ \A w \in Workers : WF_vars(WorkerStep(p, w))

Spec == Init /\ [][Next]_vars /\ Fairness

----------------------------------------------------------------------------
Calling(p, w) == worker[p][w].at = "calling"
InHand(p) == {worker[p][w].item : w \in {v \in Workers : Calling(p, v)}}
RemovedBy(p, c) == tomb[c].base = p
Reported(p, c) == purge[p].deleted[c] + purge[p].errors[c]

PurgeTypeOK ==
  /\ expired \in SUBSET Customers
  /\ tomb \in [Customers -> Keys]
  /\ purge \in [Purges -> PurgeRows]
  /\ worker \in [Purges -> [Workers -> WorkerRows]]

\* No two workers hold the same customer, and every customer the shared index
\* has passed is either in the hand of one of them or in the report, once
\* (const current = index++ in forEachStripeWrite).
NoneTwiceNoneSkipped ==
  \A p \in Purges :
    /\ \A w, v \in Workers :
         Calling(p, w) /\ Calling(p, v) /\ worker[p][w].item = worker[p][v].item => w = v
    /\ \A n \in DOMAIN purge[p].found :
         Reported(p, purge[p].found[n]) =
           IF n <= purge[p].index /\ n \notin InHand(p) THEN 1 ELSE 0

\* A report is exact: a customer it calls deleted was deleted by this very call,
\* what it deleted had been found by its search, every customer it found is told
\* of once, and a dry run deletes none (purgeExpiredCustomers).
ReportIsExact ==
  \A p \in Purges, c \in Customers :
    /\ purge[p].deleted[c] > 0 => RemovedBy(p, c)
    /\ RemovedBy(p, c) => purge[p].mode = "live" /\ c \in Range(purge[p].found)
    /\ Reported(p, c) > 0 => c \in Range(purge[p].found)
    /\ purge[p].at = "returned" /\ purge[p].mode = "live" /\ c \in Range(purge[p].found)
         => Reported(p, c) = 1

\* Whatever becomes of the single requests, a purge that has begun to delete
\* comes to its end (the catch in each request, Promise.all).
PurgeReturns ==
  \A p \in Purges : purge[p].at = "write" ~> purge[p].at \in {"returned", "dead"}
=============================================================================
