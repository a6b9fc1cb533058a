------------------------------ MODULE RiskProofs ------------------------------
(***************************************************************************)
(* Proofs about RiskEngine, for every number of calls and customers, every *)
(* capacity and time to live of the caches and every threshold and limit.  *)
(***************************************************************************)
EXTENDS RiskEngine, SequenceTheorems, FiniteSetTheorems, WellFoundedInduction, TLAPS

USE RiskAssumption

----------------------------------------------------------------------------
\* LRUCache.

\* What one cache promises: its types, its size, a customer once, and no entry
\* that lives on for longer than its time after it was read.
GoodCache(entries) ==
  /\ entries \in Seq(Entries)
  /\ Len(entries) <= MaxItems
  /\ \A m, n \in DOMAIN entries : entries[m].customer = entries[n].customer => m = n
  /\ \A n \in DOMAIN entries : entries[n].expires <= entries[n].asOf + Latency + Ttl

\* The entries without the i-th are those before it and those after it.
LEMMA RemoveAtElements ==
  ASSUME NEW S, NEW s \in Seq(S), NEW i \in DOMAIN s
  PROVE  /\ RemoveAt(s, i) \in Seq(S)
         /\ Len(RemoveAt(s, i)) = Len(s) - 1
         /\ \A n \in 1..(Len(s) - 1) : RemoveAt(s, i)[n] = s[IF n < i THEN n ELSE n + 1]
<1> DEFINE front == SubSeq(s, 1, i - 1)
           back == SubSeq(s, i + 1, Len(s))
<1>1. i \in 1..Len(s) /\ Len(s) \in Nat
  BY LenProperties
<1>2. /\ front \in Seq(S) /\ Len(front) = i - 1
      /\ \A n \in 1..(i - 1) : front[n] = s[n]
  BY <1>1, SubSeqProperties
<1>3. /\ back \in Seq(S) /\ Len(back) = Len(s) - i
      /\ \A n \in 1..(Len(s) - i) : back[n] = s[i + n]
  BY <1>1, SubSeqProperties
<1> DEFINE joined == front \o back
           size == Len(s)
<1>4. RemoveAt(s, i) = joined
  BY DEF RemoveAt
<1> HIDE DEF front, back
<1>5. /\ joined \in Seq(S) /\ Len(joined) = Len(front) + Len(back)
      /\ \A n \in 1..(Len(front) + Len(back)) :
           joined[n] = IF n <= Len(front) THEN front[n] ELSE back[n - Len(front)]
  <2>1. front \in Seq(S) /\ back \in Seq(S)
    BY <1>2, <1>3
  <2> QED
    BY <2>1, ConcatProperties, SMTT(40)
<1> HIDE DEF joined, size
<1>6. size \in Nat /\ i \in 1..size /\ size = Len(s)
  BY <1>1 DEF size
<1>7. Len(front) = i - 1 /\ Len(back) = size - i /\ Len(joined) = size - 1
  <2>1. Len(front) = i - 1 /\ Len(back) = size - i
    BY <1>2, <1>3, <1>6
  <2>2. Len(joined) = (i - 1) + (size - i)
    BY <1>5, <2>1
  <2>3. (i - 1) + (size - i) = size - 1
    BY <1>6
  <2> QED
    BY <2>1, <2>2, <2>3
<1>8. \A n \in 1..(size - 1) : joined[n] = IF n <= i - 1 THEN front[n] ELSE back[n - (i - 1)]
  BY <1>5, <1>6, <1>7
<1>9. ASSUME NEW n \in 1..(size - 1)
      PROVE  joined[n] = s[IF n < i THEN n ELSE n + 1]
  <2>1. CASE n < i
    <3>1. joined[n] = front[n] /\ n \in 1..(i - 1)
      BY <2>1, <1>6, <1>8
    <3> QED
      BY <3>1, <2>1, <1>2
  <2>2. CASE ~(n < i)
    <3>1. joined[n] = back[n - (i - 1)] /\ n - (i - 1) \in 1..(size - i)
      BY <2>2, <1>6, <1>8
    <3>2. back[n - (i - 1)] = s[i + (n - (i - 1))]
      BY <3>1, <1>3, <1>6
    <3>3. i + (n - (i - 1)) = n + 1
      BY <1>6
    <3> QED
      BY <3>1, <3>2, <3>3, <2>2
  <2> QED
    BY <2>1, <2>2
<1> QED
  BY <1>4, <1>5, <1>6, <1>7, <1>9

\* Deleting a customer leaves a good cache that has no entry of it.
LEMMA WithoutIsGood ==
  ASSUME NEW entries, GoodCache(entries), NEW customer
  PROVE  /\ GoodCache(Without(entries, customer))
         /\ Places(Without(entries, customer), customer) = {}
         /\ Places(entries, customer) # {} =>
              Len(Without(entries, customer)) = Len(entries) - 1
         /\ \A n \in DOMAIN Without(entries, customer) : \E m \in DOMAIN entries :
              Without(entries, customer)[n] = entries[m]
<1>1. CASE Places(entries, customer) = {}
  BY <1>1 DEF Without
<1>2. CASE Places(entries, customer) # {}
  <2> DEFINE i == CHOOSE n \in Places(entries, customer) : TRUE
             rest == RemoveAt(entries, i)
             From(n) == IF n < i THEN n ELSE n + 1
  <2>1. Without(entries, customer) = rest
    BY <1>2 DEF Without
  <2>2. i \in DOMAIN entries /\ entries[i].customer = customer
    BY <1>2 DEF Places
  <2>3. entries \in Seq(Entries) /\ Len(entries) \in Nat /\ DOMAIN entries = 1..Len(entries)
    BY LenProperties DEF GoodCache
  <2>4. /\ rest \in Seq(Entries) /\ Len(rest) = Len(entries) - 1
        /\ \A n \in 1..(Len(entries) - 1) : rest[n] = entries[From(n)]
    BY <2>2, <2>3, RemoveAtElements
  <2> HIDE DEF i, rest
  <2>5. DOMAIN rest = 1..(Len(entries) - 1)
    BY <2>4, LenProperties
  <2>6. /\ \A n \in DOMAIN rest : From(n) \in DOMAIN entries /\ From(n) # i
        /\ \A m, n \in DOMAIN rest : From(m) = From(n) => m = n
    BY <2>2, <2>3, <2>5
  <2>7. \A n \in DOMAIN rest : rest[n] = entries[From(n)]
    BY <2>4, <2>5
  <2> HIDE DEF From
  <2>8. GoodCache(rest)
    BY <2>3, <2>4, <2>6, <2>7 DEF GoodCache
  <2>9. Places(rest, customer) = {}
    BY <2>2, <2>6, <2>7 DEF GoodCache, Places
  <2> QED
    BY <2>1, <2>4, <2>6, <2>7, <2>8, <2>9
<1> QED
  BY <1>1, <1>2

\* An entry for a customer that has none goes into a cache that is not full.
LEMMA AppendIsGood ==
  ASSUME NEW entries, GoodCache(entries), NEW entry \in Entries,
         entry.expires <= entry.asOf + Latency + Ttl,
         Places(entries, entry.customer) = {}, Len(entries) < MaxItems
  PROVE  GoodCache(Append(entries, entry))
<1>1. /\ entries \in Seq(Entries) /\ Len(entries) \in Nat
      /\ DOMAIN entries = 1..Len(entries)
  BY LenProperties DEF GoodCache
<1> DEFINE longer == Append(entries, entry)
<1>2. /\ longer \in Seq(Entries) /\ Len(longer) = Len(entries) + 1
      /\ \A n \in 1..Len(entries) : longer[n] = entries[n]
      /\ longer[Len(entries) + 1] = entry
  BY <1>1, AppendProperties
<1> HIDE DEF longer
<1>3. DOMAIN longer = 1..(Len(entries) + 1)
  BY <1>2, LenProperties
<1>4. Len(longer) <= MaxItems
  BY <1>1, <1>2
<1>5. \A n \in DOMAIN longer : (n \in DOMAIN entries /\ longer[n] = entries[n])
                            \/ (n = Len(entries) + 1 /\ longer[n] = entry)
  BY <1>1, <1>2, <1>3
<1>6. \A n \in DOMAIN entries : entries[n].customer # entry.customer
  BY DEF Places
<1>7. \A m, n \in DOMAIN longer : longer[m].customer = longer[n].customer => m = n
  BY <1>5, <1>6 DEF GoodCache
<1>8. \A n \in DOMAIN longer : longer[n].expires <= longer[n].asOf + Latency + Ttl
  BY <1>5 DEF GoodCache
<1> QED
  BY <1>2, <1>4, <1>7, <1>8 DEF GoodCache, longer

\* get keeps a cache good and forgets nothing fresh; what it found is its last.
LEMMA CacheGetIsGood ==
  ASSUME NEW entries, GoodCache(entries), NEW customer
  PROVE  GoodCache(CacheGet(entries, customer))
<1> DEFINE rest == Without(entries, customer)
<1>1. GoodCache(rest) /\ Places(rest, customer) = {}
  BY WithoutIsGood
<1>2. CASE Fresh(entries, customer) = {}
  <2>1. CacheGet(entries, customer) = rest \o <<>>
    BY <1>2 DEF CacheGet
  <2>2. rest \o <<>> = rest
    BY <1>1, ConcatEmptySeq DEF GoodCache
  <2> QED
    BY <2>1, <2>2, <1>1
<1>3. CASE Fresh(entries, customer) # {}
  <2> DEFINE i == CHOOSE n \in Fresh(entries, customer) : TRUE
  <2>1. /\ i \in Places(entries, customer)
        /\ i \in DOMAIN entries /\ entries[i].customer = customer
    BY <1>3 DEF Fresh, Places
  <2>2. CacheGet(entries, customer) = rest \o <<entries[i]>>
    BY <1>3 DEF CacheGet
  <2> HIDE DEF i
  <2>3. entries[i] \in Entries /\ entries[i].expires <= entries[i].asOf + Latency + Ttl
    BY <2>1, ElementOfSeq, LenProperties DEF GoodCache
  <2>4. rest \o <<entries[i]>> = Append(rest, entries[i])
    BY <1>1, <2>3, AppendIsConcat DEF GoodCache
  <2>5. Len(rest) = Len(entries) - 1 /\ Len(entries) \in Nat /\ Len(entries) <= MaxItems
    BY <2>1, WithoutIsGood, LenProperties DEF GoodCache
  <2>6. Len(rest) < MaxItems
    BY <2>5
  <2> QED
    BY <1>1, <2>1, <2>2, <2>3, <2>4, <2>6, AppendIsGood
<1> QED
  BY <1>2, <1>3

\* set keeps a cache good: whichever entry goes, there is room for the new one.
LEMMA CacheSetIsGood ==
  ASSUME NEW entries, GoodCache(entries), NEW entry \in Entries,
         entry.expires <= entry.asOf + Latency + Ttl
  PROVE  GoodCache(CacheSet(entries, entry))
<1>1. /\ entries \in Seq(Entries) /\ Len(entries) \in Nat /\ Len(entries) <= MaxItems
      /\ DOMAIN entries = 1..Len(entries)
  BY LenProperties DEF GoodCache
<1>2. CASE Places(entries, entry.customer) = {} /\ Len(entries) >= MaxItems
  <2>1. entries # <<>>
    BY <1>1, <1>2
  <2>2. /\ Tail(entries) \in Seq(Entries) /\ Len(Tail(entries)) = Len(entries) - 1
        /\ \A n \in 1..Len(Tail(entries)) : Tail(entries)[n] = entries[n + 1]
    BY <1>1, <2>1, HeadTailProperties
  <2>3. DOMAIN Tail(entries) = 1..(Len(entries) - 1)
    BY <2>2, LenProperties
  <2>4. \A n \in DOMAIN Tail(entries) :
          n \in Nat /\ n + 1 \in DOMAIN entries /\ Tail(entries)[n] = entries[n + 1]
    BY <1>1, <2>2, <2>3
  <2>5. \A m, n \in DOMAIN Tail(entries) :
          Tail(entries)[m].customer = Tail(entries)[n].customer => m = n
    BY <2>4 DEF GoodCache
  <2>6. GoodCache(Tail(entries)) /\ Len(Tail(entries)) < MaxItems
    BY <1>1, <2>2, <2>4, <2>5 DEF GoodCache
  <2>7. Places(Tail(entries), entry.customer) = {}
    BY <1>2, <2>4 DEF Places
  <2> QED
    BY <1>2, <2>6, <2>7, AppendIsGood DEF CacheSet
<1>3. CASE ~(Places(entries, entry.customer) = {} /\ Len(entries) >= MaxItems)
  <2>1. /\ GoodCache(Without(entries, entry.customer))
        /\ Places(Without(entries, entry.customer), entry.customer) = {}
    BY WithoutIsGood
  <2>2. Len(Without(entries, entry.customer)) < MaxItems
    <3>1. CASE Places(entries, entry.customer) = {}
      BY <1>1, <1>3, <3>1 DEF Without
    <3>2. CASE Places(entries, entry.customer) # {}
      <4>1. Len(Without(entries, entry.customer)) = Len(entries) - 1
        BY <3>2, WithoutIsGood
      <4> QED
        BY <4>1, <1>1
    <3> QED
      BY <3>1, <3>2
  <2>3. CacheSet(entries, entry) = Append(Without(entries, entry.customer), entry)
    BY <1>3 DEF CacheSet
  <2> QED
    BY <2>1, <2>2, <2>3, AppendIsGood
<1> QED
  BY <1>2, <1>3

\* sweep keeps a cache good: what stays is listed once and in order.
LEMMA SweepIsGood ==
  ASSUME NEW entries, GoodCache(entries), NEW kept \in SUBSET DOMAIN entries,
         NEW list \in Listings(kept)
  PROVE  GoodCache([n \in DOMAIN list |-> entries[list[n]]])
<1> DEFINE size == Cardinality(kept)
           swept == [n \in DOMAIN list |-> entries[list[n]]]
<1>1. /\ entries \in Seq(Entries) /\ Len(entries) \in Nat /\ Len(entries) <= MaxItems
      /\ DOMAIN entries = 1..Len(entries)
  BY LenProperties DEF GoodCache
<1>2. IsFiniteSet(1..Len(entries)) /\ Cardinality(1..Len(entries)) = Len(entries)
  <2> DEFINE total == Len(entries)
  <2>1. total \in Nat
    BY <1>1
  <2> HIDE DEF total
  <2>2. IsFiniteSet(1..total) /\ Cardinality(1..total) = total
    BY <2>1, FS_Interval
  <2> QED
    BY <2>2 DEF total
<1>3. size \in Nat /\ size <= Len(entries)
  BY <1>1, <1>2, FS_Subset, FS_CardinalityType
<1>4. /\ list \in [1..size -> kept]
      /\ \A m, n \in 1..size : m < n => list[m] < list[n]
  BY DEF Listings
<1> HIDE DEF size
<1>5. /\ DOMAIN swept = 1..size
      /\ \A n \in 1..size : list[n] \in DOMAIN entries /\ swept[n] = entries[list[n]]
  BY <1>4
<1>6. \A n \in 1..size : swept[n] \in Entries
  BY <1>5, <1>1, ElementOfSeq
<1>7. swept \in Seq(Entries) /\ Len(swept) = size
  <2>1. swept = [n \in 1..size |-> swept[n]]
    BY <1>5
  <2> HIDE DEF swept
  <2>2. [n \in 1..size |-> swept[n]] \in Seq(Entries)
    BY <1>3, <1>6, IsASeq
  <2>3. swept \in Seq(Entries)
    BY <2>1, <2>2
  <2> QED
    BY <2>3, <1>3, <1>5, LenProperties
<1>8. \A m, n \in 1..size : list[m] = list[n] => m = n
  BY <1>1, <1>3, <1>4
<1>9. \A m, n \in DOMAIN swept : swept[m].customer = swept[n].customer => m = n
  BY <1>5, <1>8 DEF GoodCache
<1>10. \A n \in DOMAIN swept : swept[n].expires <= swept[n].asOf + Latency + Ttl
  BY <1>5 DEF GoodCache
<1> HIDE DEF swept
<1>11. GoodCache(swept)
  BY <1>1, <1>3, <1>7, <1>9, <1>10 DEF GoodCache
<1> QED
  BY <1>11 DEF swept

----------------------------------------------------------------------------
\* One call on its own, and the caches.

\* What holds of each call whatever the others do, at the given time.
GoodCall(call, time) ==
  /\ call \in CallRows
  /\ call.at \in Working \cup Asking \cup Told => call.customer # NoCustomer
  /\ call.at \in Told => time <= call.asOf + Latency
  /\ call.evaluated = "no" =>
       /\ call.at \in {"decide", "block", "failed"}
       /\ call.at = "decide" => call.points >= BlockThreshold
  /\ call.since <= time /\ call.loggedAt <= time

EachIsGood ==
  /\ now \in 0..MaxTime
  /\ DOMAIN calls = Calls /\ calls = [c \in Calls |-> calls[c]]
  /\ \A c \in Calls : GoodCall(calls[c], now)
  /\ DOMAIN cache = Lookups /\ cache = [l \in Lookups |-> cache[l]]
  /\ \A l \in Lookups : GoodCache(cache[l])

\* The stages are different words.
LEMMA StagesDiffer ==
  /\ Stages = {"idle", "decide", "logged", "velocity_24h", "velocity_30d", "customer",
               "charges", "ask_customer", "ask_charges", "told_customer", "told_charges",
               "allow", "flag", "block", "failed"}
  /\ Windows = {"velocity_24h", "velocity_30d"} /\ Lookups = {"customer", "charges"}
  /\ Working = {"velocity_24h", "velocity_30d", "customer", "charges"}
  /\ Asking = {"ask_customer", "ask_charges"} /\ Told = {"told_customer", "told_charges"}
BY DEF Stages, Working, Windows, Lookups, Asking, Told, Outcomes

\* A call that is idle, and one that has ended, is good.
LEMMA IdleIsARow ==
  /\ Idle \in CallRows
  /\ Idle.at = "idle" /\ Idle.evaluated = "yes" /\ Idle.since = 0 /\ Idle.loggedAt = 0
  /\ Idle.before = {} /\ Idle.velocity = {} /\ Idle.customer = NoCustomer
BY StagesDiffer DEF Idle, CallRows

\* So is a call that has ended without the operation.
LEMMA EndedIsGood ==
  ASSUME NEW at \in {"flag", "block", "failed"}, NEW evaluated \in {"yes", "no"},
         at = "flag" => evaluated = "yes", NEW time \in 0..MaxTime
  PROVE  GoodCall([Idle EXCEPT !.at = at, !.evaluated = evaluated], time)
<1> DEFINE call == [Idle EXCEPT !.at = at, !.evaluated = evaluated]
<1>1. call \in CallRows
  BY IdleIsARow, StagesDiffer DEF CallRows
<1>2. call.at = at /\ call.evaluated = evaluated /\ call.since = 0 /\ call.loggedAt = 0
  BY IdleIsARow DEF CallRows
<1> HIDE DEF call
<1>3. GoodCall(call, time)
  BY <1>1, <1>2, StagesDiffer DEF GoodCall
<1> QED
  BY <1>3 DEF call

\* Start leaves a good call.
LEMMA StartIsGood ==
  ASSUME EachIsGood, NEW c \in Calls, Start(c)
  PROVE  \E call : calls' = [calls EXCEPT ![c] = call] /\ GoodCall(call, now)
<1>1. PICK customer \in Customers \cup {NoCustomer}, operation \in {"refund", "other"},
           points \in BasePoints, scored \in BOOLEAN :
        calls' = [calls EXCEPT ![c] = [Idle EXCEPT
         !.at = IF ~scored THEN "allow"
                ELSE IF customer = NoCustomer THEN "decide" ELSE "velocity_24h",
         !.customer = customer, !.operation = operation, !.points = points,
         !.since = now, !.before = Logged,
         !.velocity = IF scored THEN {} ELSE Windows]]
  BY DEF Start, Become
<1> DEFINE at == IF ~scored THEN "allow"
                 ELSE IF customer = NoCustomer THEN "decide" ELSE "velocity_24h"
           velocity == IF scored THEN {} ELSE Windows
           call == [Idle EXCEPT !.at = at, !.customer = customer, !.operation = operation,
                                !.points = points, !.since = now, !.before = Logged,
                                !.velocity = velocity]
<1>2. at \in {"allow", "decide", "velocity_24h"} /\ velocity \in SUBSET Windows
  OBVIOUS
<1>3. at = "velocity_24h" => customer # NoCustomer
  OBVIOUS
<1>4. Logged \in SUBSET Calls /\ now \in 0..MaxTime /\ 0 \in 0..MaxTime /\ points \in Nat
  BY DEF Logged, EachIsGood
<1>5. calls' = [calls EXCEPT ![c] = call]
  BY <1>1
<1> HIDE DEF at, velocity
<1>6. call \in CallRows
  BY <1>2, <1>4, IdleIsARow, StagesDiffer DEF CallRows
<1>7. /\ call.at = at /\ call.customer = customer /\ call.evaluated = "yes"
      /\ call.since = now /\ call.loggedAt = 0
  BY IdleIsARow DEF CallRows
<1>8. GoodCall(call, now)
  <2> HIDE DEF call
  <2> QED
    BY <1>2, <1>3, <1>4, <1>6, <1>7, StagesDiffer DEF GoodCall
<1> QED
  BY <1>5, <1>8

\* A check of a window leaves a good call.
LEMMA CheckIsGood ==
  ASSUME EachIsGood, NEW c \in Calls, NEW w \in Windows, CheckVelocity(c, w)
  PROVE  \E call : calls' = [calls EXCEPT ![c] = call] /\ GoodCall(call, now)
<1> DEFINE old == calls[c]
           at == IF w = "velocity_24h" THEN "velocity_30d" ELSE "customer"
           points == old.points + (IF TooMany(c, w) THEN VelocityPoints(w) ELSE 0)
           velocity == IF TooMany(c, w) THEN old.velocity \cup {w} ELSE old.velocity
           since == IF w = "velocity_24h" THEN old.since ELSE 0
           call == [old EXCEPT !.at = at, !.points = points, !.velocity = velocity,
                               !.since = since]
<1>1. calls' = [calls EXCEPT ![c] = call] /\ old.at = w
  BY DEF CheckVelocity, Become
<1>2. GoodCall(old, now) /\ old \in CallRows /\ now \in 0..MaxTime
  BY DEF EachIsGood, GoodCall
<1>3. old.customer # NoCustomer /\ old.evaluated # "no"
  BY <1>1, <1>2, StagesDiffer DEF GoodCall
<1>4. /\ at \in {"velocity_30d", "customer"} /\ points \in Nat
      /\ velocity \in SUBSET Windows /\ since \in 0..MaxTime /\ since <= now
  <2>1. old.points \in Nat /\ VelocityPoints(w) \in Nat
    BY <1>2 DEF CallRows, VelocityPoints
  <2>2. old.velocity \in SUBSET Windows /\ old.since \in 0..MaxTime /\ old.since <= now
    BY <1>2 DEF CallRows, GoodCall
  <2>3. points \in Nat
    <3> HIDE DEF old
    <3> QED
      BY <2>1
  <2>4. velocity \in SUBSET Windows
    <3> HIDE DEF old
    <3> QED
      BY <2>2
  <2> QED
    BY <2>2, <2>3, <2>4, <1>2
<1> HIDE DEF at, points, velocity, since, old
<1>5. call \in CallRows
  <2>1. at \in Stages
    BY <1>4, StagesDiffer
  <2> QED
    BY <1>2, <1>4, <2>1 DEF CallRows
<1>6. /\ call.at = at /\ call.customer = old.customer /\ call.evaluated = old.evaluated
      /\ call.since = since /\ call.loggedAt = old.loggedAt
  BY <1>2 DEF CallRows
<1>7. GoodCall(call, now)
  <2> HIDE DEF call
  <2> QED
    BY <1>2, <1>3, <1>4, <1>5, <1>6, StagesDiffer DEF GoodCall
<1> QED
  BY <1>1, <1>7

\* What a fact does to a call that was looking its customer up leaves it good.
LEMMA LearnIsGood ==
  ASSUME EachIsGood, NEW c \in Calls, NEW l \in Lookups, NEW fact, Learn(c, l, fact),
         calls[c].at \in Working \cup Told
  PROVE  \E call : calls' = [calls EXCEPT ![c] = call] /\ GoodCall(call, now)
<1> DEFINE old == calls[c]
           at == IF l = "customer" /\ fact # "deleted" /\ old.operation = "refund"
                 THEN "charges" ELSE "decide"
           points == old.points + (IF fact = "suspect" THEN 15 ELSE 0)
           call == [old EXCEPT !.at = at, !.points = points, !.asOf = 0]
<1>1. calls' = [calls EXCEPT ![c] = call]
  BY DEF Learn, Become
<1>2. GoodCall(old, now) /\ old \in CallRows /\ now \in 0..MaxTime
  BY DEF EachIsGood, GoodCall
<1>3. old.customer # NoCustomer /\ old.evaluated # "no"
  BY <1>2, StagesDiffer DEF GoodCall
<1>4. at \in {"charges", "decide"} /\ points \in Nat
  BY <1>2 DEF CallRows
<1> HIDE DEF at, points, old
<1>5. call \in CallRows
  <2>1. at \in Stages /\ 0 \in 0..MaxTime
    BY <1>4, StagesDiffer
  <2> QED
    BY <1>2, <1>4, <2>1 DEF CallRows
<1>6. /\ call.at = at /\ call.customer = old.customer /\ call.evaluated = old.evaluated
      /\ call.since = old.since /\ call.loggedAt = old.loggedAt
  BY <1>2 DEF CallRows
<1>7. GoodCall(call, now)
  <2> HIDE DEF call
  <2> QED
    BY <1>2, <1>3, <1>4, <1>5, <1>6, StagesDiffer DEF GoodCall
<1> QED
  BY <1>1, <1>7

\* A call that is looking up: it learns from the cache or asks.
LEMMA LookUpIsGood ==
  ASSUME EachIsGood, NEW c \in Calls, NEW l \in Lookups, LookUp(c, l)
  PROVE  \E call : calls' = [calls EXCEPT ![c] = call] /\ GoodCall(call, now)
<1> DEFINE old == calls[c]
           entries == CacheGet(cache[l], old.customer)
           at == IF l = "customer" THEN "ask_customer" ELSE "ask_charges"
           call == [old EXCEPT !.at = at]
<1>1. CASE Fresh(cache[l], old.customer) # {}
  <2>1. Learn(c, l, entries[Len(entries)].fact)
    BY <1>1 DEF LookUp
  <2>2. old.at \in Working
    BY StagesDiffer DEF LookUp
  <2> QED
    BY <2>1, <2>2, LearnIsGood
<1>2. CASE Fresh(cache[l], old.customer) = {}
  <2>1. calls' = [calls EXCEPT ![c] = call] /\ old.at = l
    BY <1>2 DEF LookUp, Become
  <2>2. GoodCall(old, now) /\ old \in CallRows
    BY DEF EachIsGood, GoodCall
  <2>3. at \in Asking
    BY DEF Asking
  <2>4. old.customer # NoCustomer /\ old.evaluated # "no"
    BY <2>1, <2>2, StagesDiffer DEF GoodCall
  <2> HIDE DEF at, old
  <2>5. call \in CallRows
    BY <2>2, <2>3, StagesDiffer DEF CallRows
  <2>6. /\ call.at = at /\ call.customer = old.customer /\ call.evaluated = old.evaluated
        /\ call.since = old.since /\ call.loggedAt = old.loggedAt
    BY <2>2 DEF CallRows
  <2>7. GoodCall(call, now)
    <3> HIDE DEF call
    <3> QED
      BY <2>2, <2>3, <2>4, <2>5, <2>6, StagesDiffer DEF GoodCall
  <2> QED
    BY <2>1, <2>7
<1> QED
  BY <1>1, <1>2

\* What Stripe read just now is not old.
LEMMA StripeReadsIsGood ==
  ASSUME EachIsGood, NEW c \in Calls, StripeReads(c)
  PROVE  \E call : calls' = [calls EXCEPT ![c] = call] /\ GoodCall(call, now)
<1> DEFINE old == calls[c]
           at == IF old.at = "ask_customer" THEN "told_customer" ELSE "told_charges"
           call == [old EXCEPT !.at = at, !.asOf = now]
<1>1. calls' = [calls EXCEPT ![c] = call] /\ old.at \in Asking
  BY DEF StripeReads, Become
<1>2. GoodCall(old, now) /\ old \in CallRows /\ now \in 0..MaxTime
  BY DEF EachIsGood, GoodCall
<1>3. at \in Told
  BY DEF Told
<1>4. old.customer # NoCustomer /\ old.evaluated # "no"
  BY <1>1, <1>2, StagesDiffer DEF GoodCall
<1> HIDE DEF at, old
<1>5. call \in CallRows
  BY <1>2, <1>3, StagesDiffer DEF CallRows
<1>6. /\ call.at = at /\ call.customer = old.customer /\ call.evaluated = old.evaluated
      /\ call.since = old.since /\ call.loggedAt = old.loggedAt /\ call.asOf = now
  BY <1>2 DEF CallRows
<1>7. GoodCall(call, now)
  <2> HIDE DEF call
  <2> QED
    BY <1>2, <1>3, <1>4, <1>5, <1>6, StagesDiffer DEF GoodCall
<1> QED
  BY <1>1, <1>7

\* A call whose lookup failed keeps enough points for a block: no factor is
\* negative.
LEMMA AnsweredIsGood ==
  ASSUME EachIsGood, NEW c \in Calls, NEW l \in Lookups, Answered(c, l)
  PROVE  \E call : calls' = [calls EXCEPT ![c] = call] /\ GoodCall(call, now)
<1> DEFINE old == calls[c]
           failed == [Idle EXCEPT !.at = "failed", !.evaluated = "no"]
           blocked == [Idle EXCEPT !.at = "decide", !.evaluated = "no",
                                   !.points = old.points + FailurePoints]
<1>1. /\ old.at \in Told
      /\ \/ \E fact \in Facts : Learn(c, l, fact)
         \/ calls' = [calls EXCEPT ![c] = failed]
         \/ calls' = [calls EXCEPT ![c] = blocked]
  BY DEF Answered, Become, Told
<1>2. old \in CallRows /\ now \in 0..MaxTime /\ old.points \in Nat
  BY DEF EachIsGood, GoodCall, CallRows
<1>3. GoodCall(failed, now)
  BY <1>2, EndedIsGood
<1>4. GoodCall(blocked, now)
  <2> DEFINE points == old.points + FailurePoints
  <2>1. points \in Nat /\ points >= BlockThreshold
    BY <1>2 DEF FailurePoints
  <2> DEFINE call == [Idle EXCEPT !.at = "decide", !.evaluated = "no", !.points = points]
  <2> HIDE DEF points
  <2>2. call \in CallRows
    BY <2>1, IdleIsARow, StagesDiffer DEF CallRows
  <2>3. /\ call.at = "decide" /\ call.points = points /\ call.since = 0
        /\ call.loggedAt = 0
    BY IdleIsARow DEF CallRows
  <2> HIDE DEF call
  <2>4. GoodCall(call, now)
    BY <1>2, <2>1, <2>2, <2>3, StagesDiffer DEF GoodCall
  <2> QED
    BY <2>4 DEF call, points
<1> HIDE DEF failed, blocked
<1> QED
  BY <1>1, <1>3, <1>4, LearnIsGood

\* Decide lets no failed lookup pass: it has the points of a block.
LEMMA DecideIsGood ==
  ASSUME EachIsGood, NEW c \in Calls, Decide(c)
  PROVE  \E call : calls' = [calls EXCEPT ![c] = call] /\ GoodCall(call, now)
<1> DEFINE old == calls[c]
<1>1. GoodCall(old, now) /\ old \in CallRows /\ now \in 0..MaxTime
      /\ old.points \in Nat /\ old.evaluated \in {"yes", "no"}
  BY DEF EachIsGood, GoodCall, CallRows
<1>2. CASE old.points >= BlockThreshold
  <2>1. calls' = [calls EXCEPT ![c] = Ended(c, "block")]
    BY <1>2 DEF Decide, Become
  <2>2. GoodCall(Ended(c, "block"), now)
    BY <1>1, EndedIsGood DEF Ended
  <2> QED
    BY <2>1, <2>2
<1>3. CASE ~(old.points >= BlockThreshold)
  <2>1. old.at = "decide" /\ old.evaluated = "yes"
    BY <1>1, <1>3 DEF Decide, GoodCall
  <2>2. CASE old.points >= FlagThreshold
    <3>1. calls' = [calls EXCEPT ![c] = Ended(c, "flag")]
      BY <1>3, <2>2 DEF Decide, Become
    <3>2. GoodCall(Ended(c, "flag"), now)
      BY <1>1, <2>1, EndedIsGood DEF Ended
    <3> QED
      BY <3>1, <3>2
  <2>3. CASE ~(old.points >= FlagThreshold)
    <3> DEFINE call == [old EXCEPT !.at = "allow", !.points = 0]
    <3>1. calls' = [calls EXCEPT ![c] = call]
      BY <1>3, <2>3 DEF Decide, Become
    <3> HIDE DEF old
    <3>2. call \in CallRows
      BY <1>1, StagesDiffer DEF CallRows
    <3>3. /\ call.at = "allow" /\ call.evaluated = "yes"
          /\ call.since = old.since /\ call.loggedAt = old.loggedAt
      BY <1>1, <2>1 DEF CallRows
    <3>4. GoodCall(call, now)
      <4> HIDE DEF call
      <4> QED
        BY <1>1, <3>2, <3>3, StagesDiffer DEF GoodCall
    <3> QED
      BY <3>1, <3>4
  <2> QED
    BY <2>2, <2>3
<1> QED
  BY <1>2, <1>3

\* A count fails, or an operation is logged.
LEMMA EndIsGood ==
  ASSUME EachIsGood, NEW c \in Calls, CountFails(c) \/ LogSuccess(c)
  PROVE  \E call : calls' = [calls EXCEPT ![c] = call] /\ GoodCall(call, now)
<1> DEFINE old == calls[c]
           call == [old EXCEPT !.at = "logged", !.loggedAt = now]
<1>1. GoodCall(old, now) /\ old \in CallRows /\ now \in 0..MaxTime
      /\ old.evaluated \in {"yes", "no"}
  BY DEF EachIsGood, GoodCall, CallRows
<1>2. CASE CountFails(c)
  <2>1. calls' = [calls EXCEPT ![c] = Ended(c, "failed")]
    BY <1>2 DEF CountFails, Become
  <2>2. GoodCall(Ended(c, "failed"), now)
    BY <1>1, EndedIsGood DEF Ended
  <2> QED
    BY <2>1, <2>2
<1>3. CASE LogSuccess(c)
  <2>1. calls' = [calls EXCEPT ![c] = call] /\ old.at = "allow"
    BY <1>3 DEF LogSuccess, Become
  <2>2. old.evaluated = "yes"
    BY <1>1, <2>1 DEF GoodCall
  <2> HIDE DEF old
  <2>3. call \in CallRows
    BY <1>1, StagesDiffer DEF CallRows
  <2>4. /\ call.at = "logged" /\ call.evaluated = "yes"
        /\ call.since = old.since /\ call.loggedAt = now
    BY <1>1, <2>2 DEF CallRows
  <2>5. GoodCall(call, now)
    <3> HIDE DEF call
    <3> QED
      BY <1>1, <2>3, <2>4, StagesDiffer DEF GoodCall
  <2> QED
    BY <2>1, <2>5
<1> QED
  BY <1>2, <1>3

\* A step of a call leaves the clock, and whatever it does to the call leaves
\* it good.
LEMMA CallStepIsGood ==
  ASSUME EachIsGood, NEW c \in Calls, CallStep(c)
  PROVE  /\ now' = now
         /\ \E call : calls' = [calls EXCEPT ![c] = call] /\ GoodCall(call, now)
<1>1. now' = now
  BY DEF CallStep, Start, Decide, StripeReads, CountFails, LogSuccess, CheckVelocity,
         LookUp, Answered
<1>2. \/ Start(c) \/ Decide(c) \/ StripeReads(c) \/ CountFails(c) \/ LogSuccess(c)
      \/ (\E w \in Windows : CheckVelocity(c, w))
      \/ (\E l \in Lookups : LookUp(c, l)) \/ (\E l \in Lookups : Answered(c, l))
  BY DEF CallStep
<1> QED
  BY <1>1, <1>2, StartIsGood, DecideIsGood, StripeReadsIsGood, EndIsGood, CheckIsGood,
     LookUpIsGood, AnsweredIsGood

\* Whatever a call does to the caches leaves them good: what it stores is an
\* answer that took no longer than a request may.
LEMMA CallStepKeepsCaches ==
  ASSUME EachIsGood, NEW c \in Calls, CallStep(c)
  PROVE  /\ DOMAIN cache' = Lookups /\ cache' = [l \in Lookups |-> cache'[l]]
         /\ \A l \in Lookups : GoodCache(cache'[l])
<1>1. CASE UNCHANGED cache
  BY <1>1 DEF EachIsGood
<1>2. CASE \E l \in Lookups : LookUp(c, l)
  <2>1. PICK l \in Lookups : LookUp(c, l)
    BY <1>2
  <2> DEFINE entries == CacheGet(cache[l], calls[c].customer)
  <2>2. cache' = [cache EXCEPT ![l] = entries]
    BY <2>1 DEF LookUp
  <2>3. GoodCache(entries)
    BY CacheGetIsGood DEF EachIsGood
  <2> HIDE DEF entries
  <2> QED
    BY <2>2, <2>3 DEF EachIsGood
<1>3. CASE \E l \in Lookups : Answered(c, l) /\ ~(UNCHANGED cache)
  <2>1. PICK l \in Lookups : Answered(c, l) /\ ~(UNCHANGED cache)
    BY <1>3
  <2> DEFINE call == calls[c]
  <2>2. call.at \in Told
    BY <2>1 DEF Answered, Told
  <2>3. PICK fact \in Facts :
          cache' = [cache EXCEPT ![l] = CacheSet(cache[l],
            [customer |-> call.customer, fact |-> fact,
             expires |-> now + Ttl, asOf |-> call.asOf])]
    BY <2>1 DEF Answered
  <2> DEFINE entry == [customer |-> call.customer, fact |-> fact,
                       expires |-> now + Ttl, asOf |-> call.asOf]
             entries == CacheSet(cache[l], entry)
  <2>4. GoodCall(call, now) /\ now \in 0..MaxTime
    BY DEF EachIsGood
  <2>5. /\ call.customer \in Customers /\ call.asOf \in 0..MaxTime
        /\ now <= call.asOf + Latency
    BY <2>2, <2>4 DEF GoodCall, CallRows
  <2> HIDE DEF call
  <2>6. now + Ttl \in Nat /\ now + Ttl <= call.asOf + Latency + Ttl
    BY <2>4, <2>5
  <2>7. entry \in Entries /\ entry.expires <= entry.asOf + Latency + Ttl
    BY <2>5, <2>6 DEF Entries
  <2> HIDE DEF entry
  <2>8. GoodCache(entries)
    BY <2>7, CacheSetIsGood DEF EachIsGood
  <2>9. cache' = [cache EXCEPT ![l] = entries]
    BY <2>3 DEF entry, call
  <2> HIDE DEF entries
  <2> QED
    BY <2>8, <2>9 DEF EachIsGood
<1>4. \/ UNCHANGED cache \/ (\E l \in Lookups : LookUp(c, l))
      \/ (\E l \in Lookups : Answered(c, l))
  BY DEF CallStep, Start, Decide, StripeReads, CountFails, LogSuccess, CheckVelocity
<1> QED
  BY <1>1, <1>2, <1>3, <1>4

\* Init establishes, and every step keeps, that each call and cache is good: the
\* clock waits for answers under way, and the rest is the lemmas above.
LEMMA InitEachIsGood == Init => EachIsGood
<1> SUFFICES ASSUME Init PROVE EachIsGood
  OBVIOUS
<1>1. now = 0 /\ calls = [c \in Calls |-> Idle] /\ cache = [l \in Lookups |-> <<>>]
  BY DEF Init
<1>2. GoodCall(Idle, 0)
  BY IdleIsARow, StagesDiffer DEF GoodCall
<1>3. GoodCache(<<>>)
  BY DEF GoodCache
<1> QED
  BY <1>1, <1>2, <1>3 DEF EachIsGood

\* Every step keeps each call and each cache good.
LEMMA EachStaysGood ==
  ASSUME EachIsGood, [Next]_vars
  PROVE  EachIsGood'
<1>1. CASE \E c \in Calls : CallStep(c)
  <2>1. PICK c \in Calls : CallStep(c)
    BY <1>1
  <2>2. now' = now
    BY <2>1, CallStepIsGood
  <2>3. PICK call : calls' = [calls EXCEPT ![c] = call] /\ GoodCall(call, now)
    BY <2>1, CallStepIsGood
  <2>4. /\ DOMAIN calls' = Calls /\ calls' = [d \in Calls |-> calls'[d]]
        /\ \A d \in Calls : GoodCall(calls'[d], now)
    BY <2>3 DEF EachIsGood
  <2>5. /\ DOMAIN cache' = Lookups /\ cache' = [l \in Lookups |-> cache'[l]]
        /\ \A l \in Lookups : GoodCache(cache'[l])
    BY <2>1, CallStepKeepsCaches
  <2> QED
    BY <2>2, <2>4, <2>5 DEF EachIsGood
<1>2. CASE \E l \in Lookups : Sweep(l)
  <2>1. PICK l \in Lookups : Sweep(l)
    BY <1>2
  <2> DEFINE kept == {n \in DOMAIN cache[l] : now <= cache[l][n].expires}
  <2>2. PICK list \in Listings(kept) :
          cache' = [cache EXCEPT ![l] = [n \in DOMAIN list |-> cache[l][list[n]]]]
    BY <2>1 DEF Sweep
  <2> DEFINE entries == [n \in DOMAIN list |-> cache[l][list[n]]]
  <2>3. kept \in SUBSET DOMAIN cache[l] /\ GoodCache(cache[l])
    BY DEF EachIsGood
  <2> HIDE DEF kept
  <2>4. GoodCache(entries)
    BY <2>3, SweepIsGood
  <2>5. cache' = [cache EXCEPT ![l] = entries] /\ UNCHANGED <<now, calls>>
    BY <2>1, <2>2 DEF Sweep
  <2> HIDE DEF entries
  <2>6. /\ DOMAIN cache' = Lookups /\ cache' = [k \in Lookups |-> cache'[k]]
        /\ \A k \in Lookups : GoodCache(cache'[k])
    BY <2>4, <2>5 DEF EachIsGood
  <2> QED
    BY <2>5, <2>6 DEF EachIsGood
<1>3. CASE Tick
  <2>1. /\ now' \in 0..MaxTime /\ now' = now + 1 /\ now \in Nat
        /\ UNCHANGED <<calls, cache>>
    BY <1>3 DEF Tick, EachIsGood
  <2>2. ASSUME NEW c \in Calls
        PROVE  GoodCall(calls[c], now')
    <3>1. GoodCall(calls[c], now) /\ calls[c] \in CallRows
      BY DEF EachIsGood, GoodCall
    <3>2. /\ calls[c].asOf \in Nat /\ calls[c].since \in Nat /\ calls[c].loggedAt \in Nat
      BY <3>1 DEF CallRows
    <3>3. calls[c].at \in Told => now < calls[c].asOf + Latency
      BY <1>3 DEF Tick
    <3> QED
      BY <2>1, <3>1, <3>2, <3>3 DEF GoodCall
  <2> QED
    BY <2>1, <2>2 DEF EachIsGood
<1>4. CASE UNCHANGED vars
  BY <1>4 DEF EachIsGood, vars
<1> QED
  BY <1>1, <1>2, <1>3, <1>4 DEF Next

\* EachIsGood holds of every behaviour.
LEMMA EachIsAlwaysGood == Spec => []EachIsGood
<1>1. EachIsGood /\ [Next]_vars => EachIsGood'
  BY EachStaysGood
<1> QED
  BY <1>1, InitEachIsGood, PTL DEF Spec

\* What it says in the words of the model.
LEMMA GoodMeans ==
  EachIsGood => /\ RiskTypeOK /\ LookupsHaveCustomer
                /\ EntriesAreRecent /\ FailuresAreBlocks
BY DEF EachIsGood, GoodCall, GoodCache, RiskTypeOK, LookupsHaveCustomer, EntriesAreRecent,
       FailuresAreBlocks

----------------------------------------------------------------------------
\* The caches and the outcomes.

\* The types, with what LRUCache promises: after any calls of get, set and sweep
\* no customer has two entries, and there are maxItems at most.
THEOREM RiskTypeCorrect == Spec => []RiskTypeOK
BY EachIsAlwaysGood, GoodMeans, PTL

\* However slow Stripe answers and however the lookups of concurrent calls
\* overtake each other, a cached fact that may be used was true at most one
\* request and one time to live ago: using an entry does not prolong its life.
THEOREM FactsStayRecent == Spec => []FactsAreRecent
<1>1. EachIsGood => FactsAreRecent
  <2> SUFFICES ASSUME EachIsGood, NEW l \in Lookups, NEW n \in DOMAIN cache[l],
                      now <= cache[l][n].expires
               PROVE  now <= cache[l][n].asOf + Latency + Ttl
    BY DEF FactsAreRecent
  <2> DEFINE entry == cache[l][n]
  <2>1. entry \in Entries /\ entry.expires <= entry.asOf + Latency + Ttl
    BY ElementOfSeq, LenProperties DEF EachIsGood, GoodCache
  <2>2. now \in Nat /\ entry.expires \in Nat /\ entry.asOf \in Nat
    BY <2>1 DEF EachIsGood, Entries
  <2> HIDE DEF entry
  <2>3. now <= entry.expires
    BY DEF entry
  <2>4. now <= entry.asOf + Latency + Ttl
    BY <2>1, <2>2, <2>3
  <2> QED
    BY <2>4 DEF entry
<1> QED
  BY <1>1, EachIsAlwaysGood, PTL

\* For every block and flag threshold, even a flag threshold above the block
\* threshold, a call whose customer could not be looked up is never allowed
\* and never handed to the humans.
THEOREM FailuresStayClosed == Spec => []FailClosed
<1>1. EachIsGood => FailClosed
  BY DEF EachIsGood, GoodCall, FailClosed
<1> QED
  BY <1>1, EachIsAlwaysGood, PTL

----------------------------------------------------------------------------
\* The velocity limit.

\* Has passed the check of the window without its factor, said of the call.
Quiet(call, w) ==
  /\ call.customer # NoCustomer /\ w \notin call.velocity
  /\ call.at \notin {"idle", "velocity_24h"}
  /\ w = "velocity_30d" => call.at # "velocity_30d"

\* A step starts a call or ends it, and then it has passed nothing quietly...
StartsOrEnds(call) ==
  /\ call.at # "logged" /\ call.before \in {{}, Logged}
  /\ \A w \in Windows : ~Quiet(call, w)

\* ... or takes it on, and then it passes a window quietly only at its check.
GoesOn(c, call) ==
  /\ call.before = calls[c].before /\ call.customer = calls[c].customer
  /\ call.operation = calls[c].operation
  /\ call.at = "logged" => call.loggedAt = now
  /\ \A w \in Windows :
       Quiet(call, w) => Quiet(calls[c], w) \/ (calls[c].at = w /\ ~TooMany(c, w))

\* The steps that start a call or take it through the lookups.
LEMMA EndedStartsOrEnds ==
  ASSUME NEW at \in {"flag", "block", "failed", "decide"}, NEW evaluated, NEW points
  PROVE  /\ StartsOrEnds([Idle EXCEPT !.at = at, !.evaluated = evaluated])
         /\ StartsOrEnds([Idle EXCEPT !.at = at, !.evaluated = evaluated, !.points = points])
BY IdleIsARow DEF StartsOrEnds, Quiet, CallRows

\* A call that starts is scored and yet to be counted, unscored with both
\* factors, or without a customer.
LEMMA StartStartsOrEnds ==
  ASSUME NEW c \in Calls, Start(c), EachIsGood
  PROVE  \E call : calls' = [calls EXCEPT ![c] = call] /\ StartsOrEnds(call)
<1>1. PICK customer \in Customers \cup {NoCustomer}, operation \in {"refund", "other"},
           points \in BasePoints, scored \in BOOLEAN :
        calls' = [calls EXCEPT ![c] = [Idle EXCEPT
         !.at = IF ~scored THEN "allow"
                ELSE IF customer = NoCustomer THEN "decide" ELSE "velocity_24h",
         !.customer = customer, !.operation = operation, !.points = points,
         !.since = now, !.before = Logged,
         !.velocity = IF scored THEN {} ELSE Windows]]
  BY DEF Start, Become
<1> DEFINE at == IF ~scored THEN "allow"
                 ELSE IF customer = NoCustomer THEN "decide" ELSE "velocity_24h"
           velocity == IF scored THEN {} ELSE Windows
           call == [Idle EXCEPT !.at = at, !.customer = customer, !.operation = operation,
                                !.points = points, !.since = now, !.before = Logged,
                                !.velocity = velocity]
<1>2. calls' = [calls EXCEPT ![c] = call]
  BY <1>1
<1>3. \/ at = "allow" /\ velocity = Windows
      \/ at = "decide" /\ customer = NoCustomer
      \/ at = "velocity_24h"
  OBVIOUS
<1> HIDE DEF at, velocity
<1>4. /\ call.at = at /\ call.customer = customer /\ call.before = Logged
      /\ call.velocity = velocity
  BY IdleIsARow DEF CallRows
<1> HIDE DEF call
<1>5. StartsOrEnds(call)
  BY <1>3, <1>4 DEF StartsOrEnds, Quiet
<1> QED
  BY <1>2, <1>5

\* The check of a window lets pass quietly only what it did not count too many of.
LEMMA CheckGoesOn ==
  ASSUME EachIsGood, NEW c \in Calls, NEW w \in Windows, CheckVelocity(c, w)
  PROVE  \E call : calls' = [calls EXCEPT ![c] = call] /\ GoesOn(c, call)
<1> DEFINE old == calls[c]
           many == TooMany(c, w)
           at == IF w = "velocity_24h" THEN "velocity_30d" ELSE "customer"
           points == old.points + (IF TooMany(c, w) THEN VelocityPoints(w) ELSE 0)
           velocity == IF TooMany(c, w) THEN old.velocity \cup {w} ELSE old.velocity
           since == IF w = "velocity_24h" THEN old.since ELSE 0
           call == [old EXCEPT !.at = at, !.points = points, !.velocity = velocity,
                               !.since = since]
<1>1. calls' = [calls EXCEPT ![c] = call] /\ old.at = w
  BY DEF CheckVelocity, Become
<1>2. old \in CallRows
  BY DEF EachIsGood, GoodCall
<1>3. /\ w = "velocity_24h" => at = "velocity_30d"
      /\ w = "velocity_30d" => at = "customer"
  OBVIOUS
<1>4. /\ TooMany(c, w) => velocity = old.velocity \cup {w}
      /\ ~TooMany(c, w) => velocity = old.velocity
  OBVIOUS
<1> HIDE DEF at, points, velocity, since, old
<1>5. /\ call.at = at /\ call.customer = old.customer /\ call.before = old.before
      /\ call.operation = old.operation /\ call.velocity = velocity
  BY <1>2 DEF CallRows
<1> HIDE DEF call
<1>6. w \in {"velocity_24h", "velocity_30d"} /\ Windows = {"velocity_24h", "velocity_30d"}
  BY StagesDiffer
<1>7. \A v \in Windows : Quiet(call, v) => Quiet(old, v) \/ (old.at = v /\ ~TooMany(c, v))
  BY <1>1, <1>3, <1>4, <1>5, <1>6 DEF Quiet
<1>8. GoesOn(c, call)
  BY <1>3, <1>5, <1>6, <1>7 DEF GoesOn, old
<1> QED
  BY <1>1, <1>8

\* Learning a fact passes no window.
LEMMA LearnGoesOn ==
  ASSUME EachIsGood, NEW c \in Calls, NEW l \in Lookups, NEW fact, Learn(c, l, fact),
         calls[c].at \in Lookups \cup Told
  PROVE  \E call : calls' = [calls EXCEPT ![c] = call] /\ GoesOn(c, call)
<1> DEFINE old == calls[c]
           at == IF l = "customer" /\ fact # "deleted" /\ old.operation = "refund"
                 THEN "charges" ELSE "decide"
           points == old.points + (IF fact = "suspect" THEN 15 ELSE 0)
           call == [old EXCEPT !.at = at, !.points = points, !.asOf = 0]
<1>1. calls' = [calls EXCEPT ![c] = call]
  BY DEF Learn, Become
<1>2. old \in CallRows
  BY DEF EachIsGood, GoodCall
<1>3. at \in {"charges", "decide"}
  OBVIOUS
<1> HIDE DEF at, points, old
<1>4. /\ call.at = at /\ call.customer = old.customer /\ call.before = old.before
      /\ call.operation = old.operation /\ call.velocity = old.velocity
  BY <1>2 DEF CallRows
<1> HIDE DEF call
<1>5. old.at \in {"customer", "charges", "told_customer", "told_charges"}
  BY StagesDiffer DEF old
<1>6. \A v \in Windows : Quiet(call, v) => Quiet(old, v)
  BY <1>3, <1>4, <1>5 DEF Quiet
<1>7. GoesOn(c, call)
  BY <1>3, <1>4, <1>6 DEF GoesOn, old
<1> QED
  BY <1>1, <1>7

\* Nor does looking one up,
LEMMA LookUpGoesOn ==
  ASSUME EachIsGood, NEW c \in Calls, NEW l \in Lookups, LookUp(c, l)
  PROVE  \E call : calls' = [calls EXCEPT ![c] = call] /\ GoesOn(c, call)
<1> DEFINE old == calls[c]
           entries == CacheGet(cache[l], old.customer)
           at == IF l = "customer" THEN "ask_customer" ELSE "ask_charges"
           call == [old EXCEPT !.at = at]
<1>1. CASE Fresh(cache[l], old.customer) # {}
  <2>1. Learn(c, l, entries[Len(entries)].fact) /\ old.at \in Lookups
    BY <1>1 DEF LookUp
  <2> QED
    BY <2>1, LearnGoesOn
<1>2. CASE Fresh(cache[l], old.customer) = {}
  <2>1. calls' = [calls EXCEPT ![c] = call] /\ old.at = l
    BY <1>2 DEF LookUp, Become
  <2>2. old \in CallRows
    BY DEF EachIsGood, GoodCall
  <2>3. at \in {"ask_customer", "ask_charges"}
    OBVIOUS
  <2> HIDE DEF at, old
  <2>4. /\ call.at = at /\ call.customer = old.customer /\ call.before = old.before
        /\ call.operation = old.operation /\ call.velocity = old.velocity
    BY <2>2 DEF CallRows
  <2> HIDE DEF call
  <2>5. \A v \in Windows : Quiet(call, v) => Quiet(old, v)
    BY <2>1, <2>3, <2>4, StagesDiffer DEF Quiet
  <2>6. GoesOn(c, call)
    BY <2>3, <2>4, <2>5 DEF GoesOn, old
  <2> QED
    BY <2>1, <2>6
<1> QED
  BY <1>1, <1>2

\* nor what Stripe reads.
LEMMA StripeReadsGoesOn ==
  ASSUME EachIsGood, NEW c \in Calls, StripeReads(c)
  PROVE  \E call : calls' = [calls EXCEPT ![c] = call] /\ GoesOn(c, call)
<1> DEFINE old == calls[c]
           at == IF old.at = "ask_customer" THEN "told_customer" ELSE "told_charges"
           call == [old EXCEPT !.at = at, !.asOf = now]
<1>1. calls' = [calls EXCEPT ![c] = call] /\ old.at \in Asking
  BY DEF StripeReads, Become
<1>2. old \in CallRows
  BY DEF EachIsGood, GoodCall
<1>3. at \in {"told_customer", "told_charges"}
  OBVIOUS
<1> HIDE DEF at, old
<1>4. /\ call.at = at /\ call.customer = old.customer /\ call.before = old.before
      /\ call.operation = old.operation /\ call.velocity = old.velocity
  BY <1>2 DEF CallRows
<1> HIDE DEF call
<1>5. \A v \in Windows : Quiet(call, v) => Quiet(old, v)
  BY <1>1, <1>3, <1>4, StagesDiffer DEF Quiet
<1>6. GoesOn(c, call)
  BY <1>3, <1>4, <1>5 DEF GoesOn, old
<1> QED
  BY <1>1, <1>6

\* The decision ends a call or lets it go on as it is.
LEMMA DecideGoesOnOrEnds ==
  ASSUME EachIsGood, NEW c \in Calls, Decide(c)
  PROVE  \E call : /\ calls' = [calls EXCEPT ![c] = call]
                   /\ StartsOrEnds(call) \/ GoesOn(c, call)
<1> DEFINE old == calls[c]
           call == [old EXCEPT !.at = "allow", !.points = 0]
<1>1. \/ calls' = [calls EXCEPT ![c] = Ended(c, "block")]
      \/ calls' = [calls EXCEPT ![c] = Ended(c, "flag")]
      \/ calls' = [calls EXCEPT ![c] = call] /\ old.at = "decide"
  BY DEF Decide, Become
<1>2. StartsOrEnds(Ended(c, "block")) /\ StartsOrEnds(Ended(c, "flag"))
  BY EndedStartsOrEnds DEF Ended
<1>3. old \in CallRows
  BY DEF EachIsGood, GoodCall
<1> HIDE DEF old
<1>4. /\ call.at = "allow" /\ call.customer = old.customer /\ call.before = old.before
      /\ call.operation = old.operation /\ call.velocity = old.velocity
  BY <1>3 DEF CallRows
<1> HIDE DEF call
<1>5. old.at = "decide" => GoesOn(c, call)
  BY <1>4 DEF GoesOn, Quiet, old
<1> QED
  BY <1>1, <1>2, <1>5

\* What is logged is logged now.
LEMMA LogSuccessGoesOn ==
  ASSUME EachIsGood, NEW c \in Calls, LogSuccess(c)
  PROVE  \E call : calls' = [calls EXCEPT ![c] = call] /\ GoesOn(c, call)
<1> DEFINE old == calls[c]
           call == [old EXCEPT !.at = "logged", !.loggedAt = now]
<1>1. calls' = [calls EXCEPT ![c] = call] /\ old.at = "allow"
  BY DEF LogSuccess, Become
<1>2. old \in CallRows
  BY DEF EachIsGood, GoodCall
<1> HIDE DEF old
<1>3. /\ call.at = "logged" /\ call.customer = old.customer /\ call.before = old.before
      /\ call.operation = old.operation /\ call.velocity = old.velocity
      /\ call.loggedAt = now
  BY <1>2 DEF CallRows
<1> HIDE DEF call
<1>4. GoesOn(c, call)
  BY <1>1, <1>3 DEF GoesOn, Quiet, old
<1> QED
  BY <1>1, <1>4

\* No step is taken for a logged call, and each other starts, ends or goes on.
LEMMA CallStepKinds ==
  ASSUME EachIsGood, NEW c \in Calls, CallStep(c)
  PROVE  /\ calls[c].at # "logged"
         /\ \E call : /\ calls' = [calls EXCEPT ![c] = call]
                      /\ StartsOrEnds(call) \/ GoesOn(c, call)
<1>1. calls[c].at # "logged"
  BY StagesDiffer DEF CallStep, Start, Decide, StripeReads, CountFails, LogSuccess,
     CheckVelocity, LookUp, Answered
<1>2. ASSUME NEW l \in Lookups, Answered(c, l)
      PROVE  \E call : /\ calls' = [calls EXCEPT ![c] = call]
                       /\ StartsOrEnds(call) \/ GoesOn(c, call)
  <2> DEFINE failed == [Idle EXCEPT !.at = "failed", !.evaluated = "no"]
             blocked == [Idle EXCEPT !.at = "decide", !.evaluated = "no",
                                     !.points = calls[c].points + FailurePoints]
  <2>1. /\ calls[c].at \in Told
        /\ \/ \E fact \in Facts : Learn(c, l, fact)
           \/ calls' = [calls EXCEPT ![c] = failed]
           \/ calls' = [calls EXCEPT ![c] = blocked]
    BY <1>2 DEF Answered, Become, Told
  <2>2. StartsOrEnds(failed) /\ StartsOrEnds(blocked)
    BY EndedStartsOrEnds
  <2> HIDE DEF failed, blocked
  <2> QED
    BY <2>1, <2>2, LearnGoesOn
<1>3. ASSUME CountFails(c)
      PROVE  \E call : calls' = [calls EXCEPT ![c] = call] /\ StartsOrEnds(call)
  <2>1. calls' = [calls EXCEPT ![c] = Ended(c, "failed")]
    BY <1>3 DEF CountFails, Become
  <2>2. StartsOrEnds(Ended(c, "failed"))
    BY EndedStartsOrEnds DEF Ended
  <2> QED
    BY <2>1, <2>2
<1>4. \/ Start(c) \/ Decide(c) \/ StripeReads(c) \/ CountFails(c) \/ LogSuccess(c)
      \/ (\E w \in Windows : CheckVelocity(c, w))
      \/ (\E l \in Lookups : LookUp(c, l)) \/ (\E l \in Lookups : Answered(c, l))
  BY DEF CallStep
<1> QED
  BY <1>1, <1>2, <1>3, <1>4, StartStartsOrEnds, DecideGoesOnOrEnds, StripeReadsGoesOn,
     LogSuccessGoesOn, CheckGoesOn, LookUpGoesOn

OrderInv == EachIsGood /\ CallsAreOrdered /\ PredecessorsAreFew

\* A step of a call keeps the order: what it comes to follow is logged and
\* closed under following, and only itself is new in the log.
LEMMA CallStepKeepsOrder ==
  ASSUME OrderInv, NEW c \in Calls, CallStep(c)
  PROVE  CallsAreOrdered'
<1>1. PICK call : /\ calls' = [calls EXCEPT ![c] = call]
                  /\ StartsOrEnds(call) \/ GoesOn(c, call)
  BY CallStepKinds DEF OrderInv
<1>2. /\ calls[c].at # "logged" /\ c \notin Logged
      /\ EachIsGood' /\ DOMAIN calls = Calls /\ now' = now
  <2>1. calls[c].at # "logged" /\ now' = now
    BY CallStepKinds, CallStepIsGood DEF OrderInv
  <2>2. EachIsGood'
    BY EachStaysGood DEF OrderInv, Next
  <2> QED
    BY <2>1, <2>2 DEF Logged, OrderInv, EachIsGood
<1>3. calls'[c] = call /\ \A d \in Calls \ {c} : calls'[d] = calls[d]
  <2>1. calls' = [calls EXCEPT ![c] = call] /\ DOMAIN calls = Calls
    BY <1>1, <1>2
  <2> QED
    BY <2>1
<1>4. Logged' = IF call.at = "logged" THEN Logged \cup {c} ELSE Logged
  BY <1>2, <1>3 DEF Logged
<1>5. IsFiniteSet(Logged')
  BY <1>4, FS_AddElement DEF OrderInv, CallsAreOrdered
<1>6. /\ Logged \subseteq Calls \ {c} /\ Logged \subseteq Logged'
      /\ \A d \in Calls : calls[d].before \subseteq Logged \ {d}
      /\ \A d \in Calls : \A e \in calls[d].before : calls[e].before \subseteq calls[d].before
  BY <1>2, <1>4 DEF OrderInv, CallsAreOrdered, Logged
<1>7. /\ call.before \subseteq Logged
      /\ \A e \in call.before : calls[e].before \subseteq call.before
  <2>1. call.before \in {{}, Logged, calls[c].before}
    BY <1>1 DEF StartsOrEnds, GoesOn
  <2>2. CASE call.before = {}
    BY <2>2
  <2>3. CASE call.before = Logged
    BY <2>3, <1>6
  <2>4. CASE call.before = calls[c].before
    BY <2>4, <1>6
  <2> QED
    BY <2>1, <2>2, <2>3, <2>4
<1>8. ASSUME NEW d \in Calls
      PROVE  /\ calls'[d].before \subseteq Logged' \ {d}
             /\ \A e \in calls'[d].before : calls'[e].before \subseteq calls'[d].before
  <2>1. CASE d = c
    BY <2>1, <1>3, <1>6, <1>7
  <2>2. CASE d # c
    BY <2>2, <1>3, <1>6
  <2> QED
    BY <2>1, <2>2
<1>9. \A d \in Calls : calls'[d].since <= now' /\ calls'[d].loggedAt <= now'
  BY <1>2 DEF EachIsGood, GoodCall
<1> QED
  BY <1>5, <1>8, <1>9 DEF CallsAreOrdered

\* Predecessors, as the calls are in f.
PredecessorsIn(f, c, w, time) ==
  {d \in f[c].before :
     /\ f[d].customer = f[c].customer /\ f[d].operation = f[c].operation
     /\ f[d].loggedAt + WindowTicks(w) > time}

\* A step of a call leaves the calls that another follows alone.
LEMMA PredecessorsStay ==
  ASSUME OrderInv, NEW c \in Calls, CallStep(c),
         \A e \in Calls \ {c} : calls'[e] = calls[e],
         NEW d \in Calls, NEW w \in Windows, NEW time \in 0..MaxTime,
         d # c \/ GoesOn(c, calls'[c])
  PROVE  PredecessorsIn(calls', d, w, time) = PredecessorsIn(calls, d, w, time)
<1>1. c \notin Logged /\ DOMAIN calls = Calls
  BY CallStepKinds DEF Logged, OrderInv, EachIsGood
<1>2. \A e \in Calls \ {c} : calls'[e] = calls[e]
  OBVIOUS
<1>3. c \notin calls[d].before /\ calls[d].before \subseteq Calls
  BY <1>1 DEF OrderInv, CallsAreOrdered, Logged
<1>4. /\ calls'[d].before = calls[d].before /\ calls'[d].customer = calls[d].customer
      /\ calls'[d].operation = calls[d].operation
  BY <1>2 DEF GoesOn
<1>5. \A e \in calls[d].before : calls'[e] = calls[e]
  BY <1>2, <1>3
<1> QED
  BY <1>4, <1>5 DEF PredecessorsIn

\* Few enough were counted, so few enough came before.
LEMMA CountedEnough ==
  ASSUME OrderInv, NEW c \in Calls, NEW w \in Windows, ~TooMany(c, w),
         NEW time \in 0..MaxTime, time >= now
  PROVE  Cardinality(Predecessors(c, w, time)) < VelocityMax(w)
<1>1. /\ IsFiniteSet(Logged) /\ calls[c].before \subseteq Logged
      /\ calls[c].since <= now
  BY DEF OrderInv, CallsAreOrdered
<1>2. RecentOperations(c, w) \subseteq Logged /\ IsFiniteSet(RecentOperations(c, w))
  BY <1>1, FS_Subset DEF RecentOperations
<1>3. now \in Nat /\ calls[c].since \in Nat /\ VelocityMax(w) \in Nat
      /\ WindowTicks(w) \in Nat
  BY DEF OrderInv, EachIsGood, GoodCall, CallRows, VelocityMax, WindowTicks
<1>4. \A d \in Logged : calls[d].loggedAt \in Nat
  BY DEF OrderInv, EachIsGood, GoodCall, CallRows, Logged
<1>5. Predecessors(c, w, time) \subseteq RecentOperations(c, w)
  <2> SUFFICES ASSUME NEW d \in Predecessors(c, w, time)
               PROVE  d \in RecentOperations(c, w)
    OBVIOUS
  <2>1. /\ d \in Logged
        /\ calls[d].customer = calls[c].customer /\ calls[d].operation = calls[c].operation
        /\ calls[d].loggedAt + WindowTicks(w) > time
    BY <1>1 DEF Predecessors
  <2>2. calls[d].loggedAt + WindowTicks(w) > calls[c].since
    BY <2>1, <1>1, <1>3, <1>4
  <2> QED
    BY <2>1, <2>2 DEF RecentOperations
<1>6. /\ Cardinality(Predecessors(c, w, time)) <= Cardinality(RecentOperations(c, w))
      /\ IsFiniteSet(Predecessors(c, w, time))
  BY <1>2, <1>5, FS_Subset
<1>7. /\ Cardinality(Predecessors(c, w, time)) \in Nat
      /\ Cardinality(RecentOperations(c, w)) \in Nat
  BY <1>2, <1>6, FS_CardinalityType
<1>8. Cardinality(RecentOperations(c, w)) < VelocityMax(w)
  BY <1>3, <1>7 DEF TooMany
<1> QED
  BY <1>3, <1>6, <1>7, <1>8

\* A step of a call keeps the predecessors of the quiet few.
LEMMA CallStepKeepsFew ==
  ASSUME OrderInv, NEW c \in Calls, CallStep(c)
  PROVE  PredecessorsAreFew'
<1>1. PICK call : /\ calls' = [calls EXCEPT ![c] = call]
                  /\ StartsOrEnds(call) \/ GoesOn(c, call)
  BY CallStepKinds DEF OrderInv
<1>2. calls[c].at # "logged" /\ now' = now /\ DOMAIN calls = Calls /\ now \in Nat
  BY CallStepKinds, CallStepIsGood DEF OrderInv, EachIsGood
<1>3. calls'[c] = call /\ \A d \in Calls \ {c} : calls'[d] = calls[d]
  <2>1. calls' = [calls EXCEPT ![c] = call] /\ DOMAIN calls = Calls
    BY <1>1, <1>2
  <2> QED
    BY <2>1
<1> SUFFICES ASSUME NEW d \in Calls, NEW w \in Windows, PassedQuietly(d, w)',
                    NEW time \in 0..MaxTime,
                    time >= (IF calls'[d].at = "logged" THEN calls'[d].loggedAt ELSE now')
             PROVE  Cardinality(Predecessors(d, w, time)') < VelocityMax(w)
  BY DEF PredecessorsAreFew
<1>4. CASE d # c
  <2>1. /\ PassedQuietly(d, w)
        /\ time >= (IF calls[d].at = "logged" THEN calls[d].loggedAt ELSE now)
    BY <1>2, <1>3, <1>4 DEF PassedQuietly
  <2>2. Predecessors(d, w, time)' = Predecessors(d, w, time)
    <3>1. PredecessorsIn(calls', d, w, time) = PredecessorsIn(calls, d, w, time)
      BY <1>3, <1>4, PredecessorsStay
    <3> QED
      BY <3>1 DEF Predecessors, PredecessorsIn
  <2> QED
    BY <2>1, <2>2 DEF OrderInv, PredecessorsAreFew
<1>5. CASE d = c
  <2>1. Quiet(call, w)
    BY <1>3, <1>5 DEF PassedQuietly, Quiet
  <2>2. GoesOn(c, call)
    BY <2>1, <1>1 DEF StartsOrEnds
  <2>3. time >= now
    BY <2>2, <1>2, <1>3, <1>5 DEF GoesOn
  <2>4. Predecessors(c, w, time)' = Predecessors(c, w, time)
    <3>1. GoesOn(c, calls'[c]) /\ \A e \in Calls \ {c} : calls'[e] = calls[e]
      BY <1>3, <2>2
    <3>2. PredecessorsIn(calls', c, w, time) = PredecessorsIn(calls, c, w, time)
      BY <3>1, PredecessorsStay
    <3> QED
      BY <3>2 DEF Predecessors, PredecessorsIn
  <2>5. CASE Quiet(calls[c], w)
    BY <2>3, <2>4, <2>5, <1>2, <1>5 DEF OrderInv, PredecessorsAreFew, PassedQuietly, Quiet
  <2>6. CASE ~TooMany(c, w)
    BY <2>3, <2>4, <2>6, <1>5, CountedEnough
  <2> QED
    BY <2>1, <2>2, <2>5, <2>6 DEF GoesOn
<1> QED
  BY <1>4, <1>5

\* A sweep leaves the calls alone, and time only narrows the windows.
LEMMA OrderStays ==
  ASSUME OrderInv, [Next]_vars
  PROVE  OrderInv'
<1>1. EachIsGood'
  BY EachStaysGood DEF OrderInv
<1>2. CASE \E c \in Calls : CallStep(c)
  BY <1>1, <1>2, CallStepKeepsOrder, CallStepKeepsFew DEF OrderInv
<1>3. CASE UNCHANGED calls /\ now' \in {now, now + 1}
  <2>1. now \in Nat /\ now' \in Nat /\ now <= now'
    BY <1>1, <1>3 DEF OrderInv, EachIsGood
  <2>2. CallsAreOrdered'
    <3>1. Logged' = Logged
      BY <1>3 DEF Logged
    <3>2. \A c \in Calls : calls'[c].since <= now' /\ calls'[c].loggedAt <= now'
      BY <1>1 DEF EachIsGood, GoodCall
    <3> QED
      BY <1>3, <3>1, <3>2 DEF OrderInv, CallsAreOrdered
  <2>3. PredecessorsAreFew'
    <3> SUFFICES ASSUME NEW c \in Calls, NEW w \in Windows, PassedQuietly(c, w)',
                        NEW time \in 0..MaxTime,
                        time >= (IF calls'[c].at = "logged" THEN calls'[c].loggedAt ELSE now')
                 PROVE  Cardinality(Predecessors(c, w, time)') < VelocityMax(w)
      BY DEF PredecessorsAreFew
    <3>1. PassedQuietly(c, w) /\ Predecessors(c, w, time)' = Predecessors(c, w, time)
      BY <1>3 DEF PassedQuietly, Predecessors
    <3>2. time >= (IF calls[c].at = "logged" THEN calls[c].loggedAt ELSE now)
      BY <1>3, <2>1
    <3> QED
      BY <3>1, <3>2 DEF OrderInv, PredecessorsAreFew
  <2> QED
    BY <1>1, <2>2, <2>3 DEF OrderInv
<1>4. \/ \E c \in Calls : CallStep(c)
      \/ UNCHANGED calls /\ now' \in {now, now + 1}
  BY DEF Next, Sweep, Tick, vars
<1> QED
  BY <1>2, <1>3, <1>4

\* At the start nothing is logged and nobody follows anybody.
LEMMA InitOrderInv == Init => OrderInv
<1> SUFFICES ASSUME Init PROVE OrderInv
  OBVIOUS
<1>1. EachIsGood
  BY InitEachIsGood
<1>2. now = 0 /\ \A c \in Calls : calls[c] = Idle
  BY DEF Init
<1>3. Logged = {} /\ IsFiniteSet(Logged)
  BY <1>2, IdleIsARow, FS_EmptySet DEF Logged
<1>4. CallsAreOrdered
  BY <1>2, <1>3, IdleIsARow DEF CallsAreOrdered
<1>5. PredecessorsAreFew
  BY <1>2, IdleIsARow DEF PredecessorsAreFew, PassedQuietly
<1> QED
  BY <1>1, <1>4, <1>5 DEF OrderInv

\* OrderInv is RiskInv.
LEMMA OrderMeans == OrderInv => RiskInv
BY GoodMeans DEF OrderInv, RiskInv

\* Of calls that are logged and follow one another in some order, one follows
\* all the others.
LEMMA OneIsLast ==
  ASSUME CallsAreOrdered, NEW S \in SUBSET Logged, S # {},
         \A c, d \in S : c # d => c \in calls[d].before \/ d \in calls[c].before
  PROVE  \E last \in S : \A c \in S \ {last} : c \in calls[last].before
<1> DEFINE Ahead(c) == Logged \ calls[c].before
           T == {Ahead(c) : c \in S}
<1>1. IsWellFoundedOn(StrictSubsetOrdering(Logged), FiniteSubsetsOf(Logged))
  BY FS_StrictSubsetOrderingWellFounded
<1>2. T \subseteq FiniteSubsetsOf(Logged) /\ T # {}
  <2>1. FiniteSubsetsOf(Logged) = SUBSET Logged
    BY FS_FiniteSubsetsOfFinite DEF CallsAreOrdered
  <2>2. T \subseteq SUBSET Logged /\ T # {}
    OBVIOUS
  <2> HIDE DEF T
  <2> QED
    BY <2>1, <2>2
<1>3. PICK X \in T : \A Y \in T : <<Y, X>> \notin StrictSubsetOrdering(Logged)
  <2> HIDE DEF T
  <2> QED
    BY <1>1, <1>2, WFMin
<1>4. PICK last \in S : X = Ahead(last)
  BY <1>3
<1>5. ASSUME NEW c \in S, c # last, c \notin calls[last].before
      PROVE  FALSE
  <2>1. last \in calls[c].before
    BY <1>5
  <2>2. S \subseteq Calls
    BY DEF Logged
  <2>3. /\ calls[last].before \subseteq calls[c].before
        /\ last \notin calls[last].before /\ last \in Logged
    BY <2>1, <2>2 DEF CallsAreOrdered
  <2>4. Ahead(c) \subseteq Ahead(last) /\ Ahead(c) # Ahead(last)
    BY <2>1, <2>3
  <2>5. Ahead(c) \subseteq Logged /\ Ahead(last) \subseteq Logged /\ Ahead(c) \in T
    OBVIOUS
  <2> HIDE DEF Ahead, T
  <2>6. <<Ahead(c), X>> \in StrictSubsetOrdering(Logged)
    BY <1>4, <2>4, <2>5 DEF StrictSubsetOrdering
  <2> QED
    BY <1>3, <2>5, <2>6
<1> QED
  BY <1>5

\* RiskInv holds of every behaviour, for any number of calls.
THEOREM RiskInvariant == Spec => []RiskInv
<1>1. OrderInv /\ [Next]_vars => OrderInv'
  BY OrderStays
<1> QED
  BY <1>1, InitOrderInv, OrderMeans, PTL DEF Spec

\* The velocity limit: of the scored operations for a customer that succeed
\* within a window without the factor, more than the limit is only possible if
\* two of them overlapped. The last of a burst of calls that followed each other
\* counted all the others, when its window reached back at least as far.
THEOREM VelocityIsLimited == Spec => []VelocityHolds
<1>1. RiskInv => VelocityHolds
  <2> SUFFICES ASSUME RiskInv, NEW w \in Windows, NEW e \in Logged
               PROVE  LET burst == Unnoticed(w, calls[e].customer, calls[e].operation,
                                             calls[e].loggedAt)
                      IN  \/ calls[e].customer = NoCustomer
                          \/ Cardinality(burst) <= VelocityMax(w)
                          \/ \E c, d \in burst :
                               c # d /\ c \notin calls[d].before /\ d \notin calls[c].before
    BY DEF VelocityHolds
  <2> DEFINE time == calls[e].loggedAt
             burst == Unnoticed(w, calls[e].customer, calls[e].operation, time)
  <2> SUFFICES ASSUME calls[e].customer # NoCustomer,
                      \A c, d \in burst :
                        c # d => c \in calls[d].before \/ d \in calls[c].before
               PROVE  Cardinality(burst) <= VelocityMax(w)
    OBVIOUS
  <2>1. /\ CallsAreOrdered /\ PredecessorsAreFew /\ RiskTypeOK
        /\ IsFiniteSet(Logged) /\ VelocityMax(w) \in Nat
    BY DEF RiskInv, CallsAreOrdered, VelocityMax
  <2>2. burst \in SUBSET Logged /\ IsFiniteSet(burst)
    BY <2>1, FS_Subset DEF Unnoticed
  <2>3. time \in 0..MaxTime /\ Logged \subseteq Calls
    BY <2>1 DEF RiskTypeOK, CallRows, Logged
  <2>4. CASE burst = {}
    BY <2>1, <2>4, FS_EmptySet
  <2>5. CASE burst # {}
    <3>1. PICK last \in burst : \A c \in burst \ {last} : c \in calls[last].before
      <4> HIDE DEF burst
      <4> QED
        BY <2>1, <2>2, <2>5, OneIsLast
    <3>2. /\ last \in Calls /\ PassedQuietly(last, w)
          /\ calls[last].at = "logged" /\ time >= calls[last].loggedAt
      BY <2>1, <2>3 DEF Unnoticed, PassedQuietly, Logged, RiskTypeOK, CallRows
    <3>3. Cardinality(Predecessors(last, w, time)) < VelocityMax(w)
      <4> HIDE DEF time
      <4> QED
        BY <2>1, <2>3, <3>2 DEF PredecessorsAreFew
    <3>4. burst \ {last} \subseteq Predecessors(last, w, time)
      BY <3>1 DEF Unnoticed, Predecessors
    <3>5. Predecessors(last, w, time) \subseteq Logged
      BY <2>1, <3>2 DEF Predecessors, CallsAreOrdered
    <3> DEFINE P == Predecessors(last, w, time)
    <3> HIDE DEF burst, P
    <3>6. IsFiniteSet(P) /\ Cardinality(P) \in Nat
      BY <2>1, <3>5, FS_Subset, FS_CardinalityType DEF P
    <3>7. Cardinality(burst \ {last}) <= Cardinality(P)
      BY <3>4, <3>6, FS_Subset DEF P
    <3>8. Cardinality(burst \ {last}) = Cardinality(burst) - 1 /\ Cardinality(burst) \in Nat
      BY <2>2, <3>1, FS_RemoveElement, FS_CardinalityType
    <3> QED
      BY <2>1, <3>3, <3>6, <3>7, <3>8 DEF P
  <2> QED
    BY <2>4, <2>5
<1> QED
  BY <1>1, RiskInvariant, PTL
=============================================================================
