------------------------------ MODULE RiskEngine ------------------------------
(***************************************************************************)
(* scoreRisk (risk/engine.ts) in one server process: concurrent calls add  *)
(* up points from the audit log (how often lately?) and from facts about   *)
(* the customer that Stripe tells and two LRU caches keep for ten minutes. *)
(* Each await is a step boundary; Stripe reads what it answers some time   *)
(* before the answer arrives.                                              *)
(*                                                                         *)
(* The factors that come from the request and the clock (amount, off-hours,*)
(* refund parameters, account age) are points chosen when a call starts.   *)
(* A call that is allowed may end in the audit log as a success; so may a  *)
(* call with an approved token, which is not scored.                       *)
(***************************************************************************)
EXTENDS Naturals, SequencesExt, FiniteSets

CONSTANTS
  Calls, Customers, NoCustomer,
  BasePoints,                       \* what request and clock may add up to
  BlockThreshold, FlagThreshold,    \* RISK_BLOCK_THRESHOLD, RISK_FLAG_THRESHOLD
  DayTicks, MonthTicks,             \* the two velocity windows
  DayMax, MonthMax,                 \* RISK_VELOCITY_24H_MAX, RISK_VELOCITY_30D_MAX
  MaxItems, Ttl,                    \* of the caches
  Latency,                          \* how long an answer of Stripe may take to arrive
  MaxTime                           \* bound: the clock

ASSUME RiskAssumption ==
  /\ NoCustomer \notin Customers
  /\ BasePoints \subseteq Nat
  /\ BlockThreshold \in Nat /\ FlagThreshold \in Nat
  /\ DayTicks \in Nat /\ MonthTicks \in Nat /\ DayMax \in Nat /\ MonthMax \in Nat
  /\ MaxItems \in Nat \ {0} /\ Ttl \in Nat /\ Latency \in Nat /\ MaxTime \in Nat

VARIABLES
  now,
  calls,    \* per call: its step and what it has gathered
  cache     \* customerCache and refundStatsCache, least recently used first

vars == <<now, calls, cache>>

Windows == {"velocity_24h", "velocity_30d"}
WindowTicks(w) == IF w = "velocity_24h" THEN DayTicks ELSE MonthTicks
VelocityMax(w) == IF w = "velocity_24h" THEN DayMax ELSE MonthMax
VelocityPoints(w) == IF w = "velocity_24h" THEN 15 ELSE 10

Lookups == {"customer", "charges"}
Facts == {"plain", "suspect", "deleted"}   \* "suspect": archived; many refunds
Entries == [customer : Customers, fact : Facts, expires : Nat, asOf : 0..MaxTime]

Working == Windows \cup Lookups
Asking == {"ask_customer", "ask_charges"}
Told == {"told_customer", "told_charges"}
Outcomes == {"allow", "flag", "block", "failed"}
Stages == {"idle", "decide", "logged"} \cup Working \cup Asking \cup Told \cup Outcomes

CallRows ==
  [at : Stages, customer : Customers \cup {NoCustomer}, operation : {"refund", "other"},
   since : 0..MaxTime, before : SUBSET Calls, points : Nat, velocity : SUBSET Windows,
   asOf : 0..MaxTime,
   evaluated : {"yes", "no"}, loggedAt : 0..MaxTime]

Idle ==
  [at |-> "idle", customer |-> NoCustomer, operation |-> "other", since |-> 0,
   before |-> {}, points |-> 0, velocity |-> {}, asOf |-> 0, evaluated |-> "yes", loggedAt |-> 0]

\* Types, with the promise of LRUCache: a customer once, and maxItems at most.
RiskTypeOK ==
  /\ now \in 0..MaxTime
  /\ calls \in [Calls -> CallRows]
  /\ cache \in [Lookups -> Seq(Entries)]
  /\ \A l \in Lookups :
       /\ Len(cache[l]) <= MaxItems
       /\ \A m, n \in DOMAIN cache[l] :
            cache[l][m].customer = cache[l][n].customer => m = n

Init ==
  /\ now = 0
  /\ calls = [c \in Calls |-> Idle]
  /\ cache = [l \in Lookups |-> <<>>]

Become(c, call) == calls' = [calls EXCEPT ![c] = call]
Logged == {c \in Calls : calls[c].at = "logged"}

----------------------------------------------------------------------------
\* LRUCache.
Places(entries, customer) == {n \in DOMAIN entries : entries[n].customer = customer}

\* delete
Without(entries, customer) ==
  IF Places(entries, customer) = {} THEN entries
  ELSE RemoveAt(entries, CHOOSE n \in Places(entries, customer) : TRUE)

Fresh(entries, customer) ==
  {n \in Places(entries, customer) : now <= entries[n].expires}

\* Mutant: using an entry prolongs its life.
CacheGetSlides(entries, customer) ==
  Without(entries, customer) \o
    (IF Fresh(entries, customer) = {} THEN <<>>
     ELSE <<[entries[CHOOSE n \in Fresh(entries, customer) : TRUE]
               EXCEPT !.expires = now + Ttl]>>)

\* get: an expired entry is dropped, a fresh one becomes the latest used.
CacheGet(entries, customer) ==
  Without(entries, customer) \o
    (IF Fresh(entries, customer) = {} THEN <<>>
     ELSE <<entries[CHOOSE n \in Fresh(entries, customer) : TRUE]>>)

\* Mutant: the oldest entry goes one entry too late.
CacheSetLate(entries, entry) ==
  Append(IF Len(Without(entries, entry.customer)) > MaxItems THEN Tail(entries)
         ELSE Without(entries, entry.customer), entry)

\* set: a new customer pushes the least recently used one out of a full cache.
CacheSet(entries, entry) ==
  Append(IF Places(entries, entry.customer) = {} /\ Len(entries) >= MaxItems
         THEN Tail(entries) ELSE Without(entries, entry.customer), entry)

\* The ways to list a set of places in order: there is one.
Listings(places) ==
  {list \in [1..Cardinality(places) -> places] :
     \A m, n \in DOMAIN list : m < n => list[m] < list[n]}

\* sweep: the entries that have not expired stay, in their order.
Sweep(l) ==
  LET kept == {n \in DOMAIN cache[l] : now <= cache[l][n].expires} IN
  /\ kept # DOMAIN cache[l]
  /\ \E list \in Listings(kept) :
       cache' = [cache EXCEPT ![l] = [n \in DOMAIN list |-> cache[l][list[n]]]]
  /\ UNCHANGED <<now, calls>>

----------------------------------------------------------------------------
\* A call comes, with a token that was approved or to be scored.
Start(c) ==
  /\ calls[c].at = "idle"
  /\ \E customer \in Customers \cup {NoCustomer}, operation \in {"refund", "other"},
        points \in BasePoints, scored \in BOOLEAN :
       Become(c, [Idle EXCEPT
         !.at = IF ~scored THEN "allow"
                ELSE IF customer = NoCustomer THEN "decide" ELSE "velocity_24h",
         !.customer = customer, !.operation = operation, !.points = points,
         !.since = now, !.before = Logged,
         !.velocity = IF scored THEN {} ELSE Windows])
  /\ UNCHANGED <<now, cache>>

\* countRecentOperations, for the window as it was when the call started.
RecentOperations(c, w) ==
  {d \in Logged :
     /\ calls[d].customer = calls[c].customer /\ calls[d].operation = calls[c].operation
     /\ calls[d].loggedAt + WindowTicks(w) > calls[c].since}

\* Mutant: one operation more is let through.
TooManyByOne(c, w) == Cardinality(RecentOperations(c, w)) > VelocityMax(w)

TooMany(c, w) == Cardinality(RecentOperations(c, w)) >= VelocityMax(w)

CheckVelocity(c, w) ==
  /\ calls[c].at = w
  /\ Become(c, [calls[c] EXCEPT
       !.at = IF w = "velocity_24h" THEN "velocity_30d" ELSE "customer",
       !.points = @ + (IF TooMany(c, w) THEN VelocityPoints(w) ELSE 0),
       !.velocity = IF TooMany(c, w) THEN @ \cup {w} ELSE @,
       !.since = IF w = "velocity_24h" THEN @ ELSE 0])
  /\ UNCHANGED <<now, cache>>

\* What a fact about the customer does to the score, and what comes next.
Learn(c, l, fact) ==
  Become(c, [calls[c] EXCEPT
    !.at = IF l = "customer" /\ fact # "deleted" /\ calls[c].operation = "refund"
           THEN "charges" ELSE "decide",
    !.points = @ + (IF fact = "suspect" THEN 15 ELSE 0),
    !.asOf = 0])

LookUp(c, l) ==
  LET entries == CacheGet(cache[l], calls[c].customer) IN
  /\ calls[c].at = l
  /\ cache' = [cache EXCEPT ![l] = entries]
  /\ IF Fresh(cache[l], calls[c].customer) # {}
     THEN Learn(c, l, entries[Len(entries)].fact)
     ELSE Become(c, [calls[c] EXCEPT
            !.at = IF l = "customer" THEN "ask_customer" ELSE "ask_charges"])
  /\ UNCHANGED now

\* Stripe looks the customer, or its charges, up.
StripeReads(c) ==
  /\ calls[c].at \in Asking
  /\ Become(c, [calls[c] EXCEPT
       !.at = IF @ = "ask_customer" THEN "told_customer" ELSE "told_charges",
       !.asOf = now])
  /\ UNCHANGED <<now, cache>>

\* Mutant: as many points as get a call flagged.
FailurePointsFlag == FlagThreshold

FailurePoints == BlockThreshold

\* The answer arrives, whatever it is: a fact is cached and used; a transient
\* error fails the call, any other costs it the points that get it blocked.
Answered(c, l) ==
  LET call == calls[c] IN
  /\ call.at = (IF l = "customer" THEN "told_customer" ELSE "told_charges")
  /\ \/ \E fact \in Facts :
          /\ fact = "deleted" => l = "customer"
          /\ cache' = [cache EXCEPT ![l] = CacheSet(@,
               [customer |-> call.customer, fact |-> fact,
                expires |-> now + Ttl, asOf |-> call.asOf])]
          /\ Learn(c, l, fact)
     \/ /\ Become(c, [Idle EXCEPT !.at = "failed", !.evaluated = "no"])
        /\ UNCHANGED cache
     \/ /\ Become(c, [Idle EXCEPT !.at = "decide", !.evaluated = "no",
                                  !.points = call.points + FailurePoints])
        /\ UNCHANGED cache
  /\ UNCHANGED now

\* What is forgotten of a call that ends without the operation.
Ended(c, outcome) == [Idle EXCEPT !.at = outcome, !.evaluated = calls[c].evaluated]

Decide(c) ==
  /\ calls[c].at = "decide"
  /\ Become(c,
       IF calls[c].points >= BlockThreshold THEN Ended(c, "block")
       ELSE IF calls[c].points >= FlagThreshold THEN Ended(c, "flag")
       ELSE [calls[c] EXCEPT !.at = "allow", !.points = 0])
  /\ UNCHANGED <<now, cache>>

\* The database fails under a count.
CountFails(c) ==
  /\ calls[c].at \in Windows
  /\ Become(c, Ended(c, "failed"))
  /\ UNCHANGED <<now, cache>>

\* The operation succeeded and its audit entry is written.
LogSuccess(c) ==
  /\ calls[c].at = "allow"
  /\ Become(c, [calls[c] EXCEPT !.at = "logged", !.loggedAt = now])
  /\ UNCHANGED <<now, cache>>

\* An answer takes no more than Latency to arrive, then it is an error.
Tick ==
  /\ now < MaxTime
  /\ \A c \in Calls : calls[c].at \in Told => now < calls[c].asOf + Latency
  /\ now' = now + 1
  /\ UNCHANGED <<calls, cache>>

CallStep(c) ==
  \/ Start(c) \/ Decide(c) \/ StripeReads(c) \/ CountFails(c) \/ LogSuccess(c)
  \/ \E w \in Windows : CheckVelocity(c, w)
  \/ \E l \in Lookups : LookUp(c, l) \/ Answered(c, l)

Next == (\E c \in Calls : CallStep(c)) \/ (\E l \in Lookups : Sweep(l)) \/ Tick

Spec == Init /\ [][Next]_vars

----------------------------------------------------------------------------
\* A score rests on nothing older than the cache's time to live and one
\* request, however the lookups of concurrent calls overtake each other
\* (LRUCache.get and set, checkCustomerFactors, checkRefundRatio).
FactsAreRecent ==
  \A l \in Lookups : \A n \in DOMAIN cache[l] :
    now <= cache[l][n].expires => now <= cache[l][n].asOf + Latency + Ttl

\* Whose customer could not be looked up neither runs nor gets to the humans,
\* whatever the thresholds are (the catch blocks of both lookups, scoreRisk).
FailClosed ==
  \A c \in Calls : calls[c].evaluated = "no" => calls[c].at \in {"decide", "block", "failed"}

\* Of scored operations that follow each other no more than the limit get
\* into any window without the velocity factor; only calls that overlap can
\* slip through together (checkVelocity, countRecentOperations).
Unnoticed(w, customer, operation, time) ==
  {c \in Logged :
     /\ calls[c].customer = customer /\ calls[c].operation = operation
     /\ w \notin calls[c].velocity
     /\ calls[c].loggedAt <= time /\ calls[c].loggedAt + WindowTicks(w) > time}
VelocityHolds ==
  \A w \in Windows, e \in Logged :
    LET burst == Unnoticed(w, calls[e].customer, calls[e].operation, calls[e].loggedAt) IN
    \/ calls[e].customer = NoCustomer
    \/ Cardinality(burst) <= VelocityMax(w)
    \/ \E c, d \in burst : c # d /\ c \notin calls[d].before /\ d \notin calls[c].before

----------------------------------------------------------------------------
\* Inductive invariant.

\* Who looks a customer up has one.
LookupsHaveCustomer ==
  \A c \in Calls : calls[c].at \in Working \cup Asking \cup Told => calls[c].customer # NoCustomer

\* Every entry, fresh or not, was read at most a request before it was stored,
\* and an answer under way is no older than that.
EntriesAreRecent ==
  /\ \A l \in Lookups : \A n \in DOMAIN cache[l] :
       cache[l][n].expires <= cache[l][n].asOf + Latency + Ttl
  /\ \A c \in Calls : calls[c].at \in Told => now <= calls[c].asOf + Latency

\* A failed lookup that awaits its decision has the points of a block.
FailuresAreBlocks ==
  \A c \in Calls :
    calls[c].evaluated = "no" =>
      /\ calls[c].at \in {"decide", "block", "failed"}
      /\ calls[c].at = "decide" => calls[c].points >= BlockThreshold

\* Who came before whom: a call follows those that were logged when it started,
\* and all that these follow.
CallsAreOrdered ==
  /\ IsFiniteSet(Logged)
  /\ \A c \in Calls :
       /\ calls[c].before \subseteq Logged \ {c}
       /\ calls[c].since <= now /\ calls[c].loggedAt <= now
       /\ \A d \in calls[c].before : calls[d].before \subseteq calls[c].before

\* The calls that c follows and that are alike in a window that ends at time.
Predecessors(c, w, time) ==
  {d \in calls[c].before :
     /\ calls[d].customer = calls[c].customer /\ calls[d].operation = calls[c].operation
     /\ calls[d].loggedAt + WindowTicks(w) > time}

\* Has passed the check of the window without its factor.
PassedQuietly(c, w) ==
  /\ calls[c].customer # NoCustomer /\ w \notin calls[c].velocity
  /\ calls[c].at \notin {"idle", "velocity_24h"}
  /\ w = "velocity_30d" => calls[c].at # "velocity_30d"

\* Whoever passed a window quietly follows fewer calls than its limit, in this
\* window and in any later one.
PredecessorsAreFew ==
  \A c \in Calls, w \in Windows : PassedQuietly(c, w) =>
    \A time \in 0..MaxTime :
      time >= (IF calls[c].at = "logged" THEN calls[c].loggedAt ELSE now) =>
        Cardinality(Predecessors(c, w, time)) < VelocityMax(w)

RiskInv ==
  /\ RiskTypeOK /\ LookupsHaveCustomer
  /\ EntriesAreRecent /\ FailuresAreBlocks
  /\ CallsAreOrdered /\ PredecessorsAreFew
=============================================================================
