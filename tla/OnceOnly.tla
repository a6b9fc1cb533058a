------------------------------ MODULE OnceOnly ------------------------------
(***************************************************************************)
(* What the server promises about a mutation, with none of its mechanism:  *)
(* an idempotency key is claimed at most once, for one request; a request  *)
(* that needs a human is claimed only by spending an offer that a human    *)
(* granted for that request, and an offer is spent once; Stripe performs   *)
(* only claimed requests, each at most once.                               *)
(***************************************************************************)
CONSTANTS Calls, Keys, Bodies, AlwaysGated

VARIABLES
  offers,    \* per token: "none", or what it is an offer for and its state
  claims,    \* per call: the request it claimed its key for, if any
  effects    \* per key: the bodies that took effect

abstractVars == <<offers, claims, effects>>

Requests == [key : Keys, body : Bodies]
NoOffer == [state |-> "none"]
NoClaim == [claimed |-> FALSE]
Claimed(request) == [claimed |-> TRUE, request |-> request]

Init ==
  /\ offers = [t \in Calls |-> NoOffer]
  /\ claims = [c \in Calls |-> NoClaim]
  /\ effects = [k \in Keys |-> {}]

Make(t) ==
  /\ offers[t] = NoOffer
  /\ \E request \in Requests :
       offers' = [offers EXCEPT ![t] = [state |-> "open", request |-> request]]
  /\ UNCHANGED <<claims, effects>>

\* Offers lapse at any time, and a human may grant one that has not.
Decide ==
  /\ \E lapsed \in SUBSET {t \in Calls : offers[t].state \in {"open", "granted"}} :
     \E granted \in SUBSET {t \in Calls \ lapsed : offers[t].state = "open"} :
       offers' = [t \in Calls |->
         IF t \in lapsed THEN [offers[t] EXCEPT !.state = "void"]
         ELSE IF t \in granted THEN [offers[t] EXCEPT !.state = "granted"]
         ELSE offers[t]]
  /\ UNCHANGED <<claims, effects>>

Free(key) ==
  \A c \in Calls : claims[c].claimed => claims[c].request.key # key

Claim(c) ==
  /\ claims[c] = NoClaim
  /\ \E request \in Requests :
       /\ Free(request.key)
       /\ claims' = [claims EXCEPT ![c] = Claimed(request)]
       /\ \/ request.body \notin AlwaysGated /\ UNCHANGED offers
          \/ \E t \in Calls :
               /\ offers[t] = [state |-> "granted", request |-> request]
               /\ offers' = [offers EXCEPT ![t].state = "spent"]
  /\ UNCHANGED effects

Perform(c) ==
  /\ claims[c].claimed
  /\ effects[claims[c].request.key] = {}
  /\ effects' = [effects EXCEPT ![claims[c].request.key] = {claims[c].request.body}]
  /\ UNCHANGED <<offers, claims>>

Next ==
  \/ \E c \in Calls : Make(c) \/ Claim(c) \/ Perform(c)
  \/ Decide

Spec == Init /\ [][Next]_abstractVars
=============================================================================
