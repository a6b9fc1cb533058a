-------------------------------- MODULE Tools ---------------------------------
(***************************************************************************)
(* The mutating tools (tools/*.ts) around the middleware: what each takes  *)
(* (the Zod schemas of types.ts), which amount it resolves before it asks  *)
(* for anything (utils/stripe-amounts.ts), which request it has sent to    *)
(* Stripe, what the request hash binds a token to (utils/hash.ts), and     *)
(* what the reconciler sends when the answer was lost (replay.ts).         *)
(*                                                                         *)
(* One idempotency key: calls of any tool until one of them executes.  How *)
(* keys, crashes and processes interleave is Pipeline; the purge is Purge. *)
(* A refusal (schema, missing force, failed lookup, blocked risk, token    *)
(* that does not fit) changes nothing here and is no step.                 *)
(***************************************************************************)
EXTENDS Naturals, Sequences, FiniteSets, SequencesExt

CONSTANTS
  Prices,
  Metered,          \* the prices without a unit_amount
  UnitAmount,
  ItemIds,          \* ids of subscription items
  Quantities,
  Amounts,          \* bound: the amounts of money on calls and objects
  ItemLists,        \* bound: the item lists tried on subscriptions
  Configs,          \* bound: the approval thresholds tried
  Unbounded         \* what a metered price or a deletion may cost

\* Amounts and quantities are whole and not negative, items come in lists, and a
\* subscription has finitely many (types.ts); thresholds may be 0 (config.ts).
ASSUME ToolsAssumption ==
  /\ Metered \subseteq Prices /\ UnitAmount \in [Prices -> Nat]
  /\ \A p \in Metered : UnitAmount[p] = 0
  /\ IsFiniteSet(ItemIds) /\ Quantities \subseteq Nat /\ Amounts \subseteq Nat
  /\ \A items \in ItemLists : items \in Seq(Range(items))
  /\ Unbounded \in Nat \ {0}
  /\ Configs \subseteq [refund : 0..Unbounded, cancel : 0..Unbounded, charge : 0..Unbounded]

VARIABLES
  config,     \* the approval thresholds the server was started with
  call,       \* the call that executes, or the last that did
  approval,   \* the approval row the client holds the token of
  sent,       \* the requests sent to Stripe under the key
  effect      \* what Stripe did under the key

vars == <<config, call, approval, sent, effect>>

----------------------------------------------------------------------------
(* Schemas.  A call is a function from the fields that are present.  Fields *)
(* no property tells apart are all absent or all present, with one value.   *)

Plain(required, optional) ==
  {[field \in required \cup more |-> "v"] : more \in {{}, optional}}
Put(params, field, v) ==
  [f \in DOMAIN params \cup {field} |-> IF f = field THEN v ELSE params[f]]
With(schema, field, values) == {Put(params, field, v) : params \in schema, v \in values}
Maybe(schema, field, values) == schema \cup With(schema, field, values)

CreateCustomerSchema == Plain({}, {"email", "name", "description", "phone", "metadata"})
UpdateCustomerSchema ==
  Plain({"customer_id"}, {"email", "name", "description", "phone", "metadata"})
DeleteCustomerSchema == With(Plain({"customer_id"}, {}), "force", BOOLEAN)
ArchiveCustomerSchema == Plain({"customer_id"}, {})
CreatePaymentIntentSchema ==
  With(Plain({"currency"}, {"customer", "description", "payment_method_types", "metadata"}),
       "amount", Amounts \ {0})
ConfirmPaymentIntentSchema == Plain({"payment_intent_id"}, {"payment_method"})
CancelPaymentIntentSchema == Plain({"payment_intent_id"}, {"cancellation_reason"})
PayInvoiceSchema == Plain({"invoice_id"}, {"payment_method", "forgive", "off_session"})
SubscriptionItemSchema ==
  Maybe(With(Plain({}, {}), "price", Prices), "quantity", Quantities)
SubscriptionChangeSchema ==
  {item \in Maybe(Maybe(SubscriptionItemSchema, "id", ItemIds), "deleted", {TRUE}) :
     "deleted" \in DOMAIN item => "id" \in DOMAIN item}
CreateSubscriptionSchema ==
  With(Plain({"customer"}, {"payment_behavior", "collection_method", "metadata"}), "items",
       {items \in ItemLists : items # <<>> /\ Range(items) \subseteq SubscriptionItemSchema})
UpdateSubscriptionSchema ==
  Maybe(Maybe(Plain({"subscription_id"}, {"proration_behavior", "metadata"}),
              "cancel_at_period_end", {TRUE}),
        "items", {items \in ItemLists : Range(items) \subseteq SubscriptionChangeSchema})
CancelSubscriptionSchema ==
  Maybe(Plain({"subscription_id"}, {"invoice_now", "prorate"}), "cancel_at_period_end", BOOLEAN)
PriceData == With(Plain({"currency"}, {"recurring"}), "unit_amount", Amounts)
CreateProductSchema ==
  Maybe(Plain({"name"}, {"description", "active", "images", "metadata"}),
        "default_price_data", PriceData)
CreatePriceSchema ==
  With(Plain({"currency", "product"}, {"recurring", "nickname", "metadata"}),
       "unit_amount", Amounts)
CreateRefundFields ==
  Maybe(Maybe(Maybe(Plain({}, {"reason", "metadata"}), "payment_intent", {"v"}),
              "charge", {"v"}),
        "amount", Amounts \ {0})

----------------------------------------------------------------------------
(* Objects at Stripe: what there may be behind an id, at any time.          *)

Nothing == "nothing"
Customers == {"live", "deleted"}
Charges == {c \in [amount : Amounts, refunded : Amounts] : c.refunded <= c.amount}
PaymentIntents ==
  {pi \in [amount : Amounts, latest_charge : {<<>>} \cup {<<c>> : c \in Charges}] :
     \A c \in Range(pi.latest_charge) : c.amount = pi.amount}
Invoices == [amount_remaining : Amounts]
Entries == [price : Prices, quantity : Quantities]
Subscriptions == UNION {[ids -> Entries] : ids \in (SUBSET ItemIds) \ {{}}}

Objects(tool, params) ==
  CASE tool \in {"delete_customer", "archive_customer"} -> Customers
    [] tool = "create_refund" -> IF "charge" \in DOMAIN params THEN Charges ELSE PaymentIntents
    [] tool \in {"confirm_payment_intent", "cancel_payment_intent"} -> PaymentIntents
    [] tool = "pay_invoice" -> Invoices
    [] tool \in {"update_subscription", "cancel_subscription"} -> Subscriptions
    [] OTHER -> {Nothing}

----------------------------------------------------------------------------
(* Requests.  undefined fields are not sent.                                *)

Has(params, field) == field \in DOMAIN params
Pick(params, fields) == Restrict(params, DOMAIN params \cap fields)
Omit(params, fields) == Restrict(params, DOMAIN params \ fields)
Request(endpoint, body) == [to |-> endpoint, body |-> body]

\* What Stripe moves when it executes a request on an object, by its own rules;
\* 0 when it refuses.
RemainingOf(c) == c.amount - c.refunded
Quantity(item, otherwise) == IF Has(item, "quantity") THEN item.quantity ELSE otherwise
Worth(price, quantity) == IF price \in Metered THEN Unbounded ELSE UnitAmount[price] * quantity
RefundedBy(body, c) ==
  IF ~Has(body, "amount") THEN RemainingOf(c)
  ELSE IF body.amount <= RemainingOf(c) THEN body.amount ELSE 0
WorthAfter(items, sub) ==
  LET named == {n \in DOMAIN items : Has(items[n], "id")}
      Before(n) == IF n \in named THEN sub[items[n].id].quantity ELSE 1
      legal == /\ \A n \in named : items[n].id \in DOMAIN sub
               /\ \A n, m \in named : items[n].id = items[m].id => n = m IN
  IF ~legal THEN 0
  ELSE SumFunction([i \in DOMAIN sub \ {items[n].id : n \in named} |->
                      Worth(sub[i].price, sub[i].quantity)])
       + SumFunction([n \in {m \in DOMAIN items : ~Has(items[m], "deleted")} |->
                        Worth(items[n].price, Quantity(items[n], Before(n)))])
Effect(request, now) ==
  LET body == request.body IN
  CASE request.to = "customers.del" -> Unbounded
    [] request.to = "paymentIntents.create" -> body.amount
    [] request.to \in {"paymentIntents.confirm", "paymentIntents.cancel"} -> now.amount
    [] request.to = "refunds.create" ->
         IF Has(body, "charge") THEN RefundedBy(body, now)
         ELSE SumFunction([n \in DOMAIN now.latest_charge |->
                             RefundedBy(body, now.latest_charge[n])])
    [] request.to = "invoices.pay" -> now.amount_remaining
    [] request.to = "subscriptions.create" -> WorthAfter(body.items, <<>>)
    [] request.to = "subscriptions.update" ->
         IF Has(body, "items") /\ body.items # <<>> THEN WorthAfter(body.items, now) ELSE 0
    [] request.to = "subscriptions.cancel" -> WorthAfter(<<>>, now)
    [] request.to = "prices.create" -> body.unit_amount
    [] request.to = "products.create" ->
         IF Has(body, "default_price_data") THEN body.default_price_data.unit_amount ELSE 0
    [] OTHER -> 0

----------------------------------------------------------------------------
(* The middleware, as far as it looks at tools and amounts.                 *)

Gated == {"riskScored", "approvalEligible"}
Capability(tool, operation, flags) ==
  [tool |-> tool, operation |-> operation, flags |-> flags]

Threshold(operation) ==
  CASE operation = "refund" -> config.refund
    [] operation = "cancel" -> config.cancel
    [] operation \in {"pay", "confirm", "create", "update"} -> config.charge
    [] OTHER -> Unbounded

ShouldRequireApproval(cap, amount, risk) ==
  \/ cap.operation = "delete"
  \/ amount >= Threshold(cap.operation)
  \/ Gated \subseteq cap.flags /\ risk = "flag"

\* Mutant: sorted arrays lose what is in them twice.
CanonicalArrayAsSet(array) == Range(array)

\* Arrays are sorted.
CanonicalArray(array) == ToBag(array)

Canonical(params) ==
  [field \in DOMAIN params |->
     IF field = "items" THEN CanonicalArray(params[field]) ELSE params[field]]

RequestHash(cap, params) == <<cap.tool, cap.operation, Canonical(params)>>

NoApproval == [status |-> "none"]
NoCall == [at |-> "idle"]
NoEffect == [on |-> "nothing"]

\* A tool has resolved the amount, from what it has seen of the object if it has
\* looked at all, and calls executeStripeOperation.  The client presents the token
\* it holds.
Execute(cap, params, seen, amount, request) ==
  LET with == IF approval = NoApproval THEN "nothing" ELSE "token"
      granted == "approvalEligible" \in cap.flags /\ with = "token"
      hash == RequestHash(cap, params)
      Asks(risk) == ~granted /\ ShouldRequireApproval(cap, amount, risk) IN
  /\ granted => /\ approval.status = "approved"
                /\ approval.cap.tool = cap.tool /\ approval.cap.operation = cap.operation
                /\ approval.hash = hash
  /\ \E risk \in {"allow", "flag"} :
       /\ risk = "flag" => "riskScored" \in cap.flags /\ ~granted
       /\ approval' =
            IF Asks(risk) THEN [status |-> "pending", cap |-> cap, hash |-> hash,
                                request |-> request, with |-> with]
            ELSE IF granted THEN [approval EXCEPT !.status = "consumed"] ELSE NoApproval
       /\ call' =
            IF Asks(risk) THEN call
            ELSE [at |-> "begun", cap |-> cap, params |-> params, request |-> request,
                  by |-> IF granted THEN "token" ELSE "policy",
                  seen |-> IF granted THEN <<>> ELSE seen]
  /\ UNCHANGED <<config, sent, effect>>

Approve ==
  /\ approval # NoApproval /\ approval.status = "pending"
  /\ approval' = [approval EXCEPT !.status = "approved"]
  /\ UNCHANGED <<config, call, sent, effect>>
----------------------------------------------------------------------------
(* Amounts (utils/stripe-amounts.ts, updateSubscription).                   *)

RefundAmount(params, seen) ==
  IF Has(params, "amount") THEN params.amount
  ELSE IF Has(params, "charge") THEN RemainingOf(seen)
  ELSE IF seen.latest_charge # <<>> THEN RemainingOf(seen.latest_charge[1])
  ELSE seen.amount

\* Mutant: a price without unit_amount counts as free.
PricedOrFree(entries) == TRUE

\* A lookup fails on a price without unit_amount.
Priced(entries) == \A e \in Range(entries) : e.price \notin Metered

ItemsValue(entries) ==
  SumFunction([n \in DOMAIN entries |->
                 UnitAmount[entries[n].price] * Quantity(entries[n], 1)])

\* The items as the loop over input.items leaves them: the existing ones by id,
\* the new ones in a row.
Unprojected(sub) == [kept |-> sub, added |-> <<>>, unknown |-> FALSE]
ProjectItem(acc, item) ==
  IF ~Has(item, "id") THEN [acc EXCEPT !.added = Append(@, item)]
  ELSE IF item.id \notin DOMAIN acc.kept THEN [acc EXCEPT !.unknown = TRUE]
  ELSE IF Has(item, "deleted") THEN [acc EXCEPT !.kept = Omit(@, {item.id})]
  ELSE [acc EXCEPT !.kept[item.id] =
          [price |-> item.price, quantity |-> Quantity(item, @.quantity)]]
Project(items, sub) == FoldLeft(ProjectItem, Unprojected(sub), items)

----------------------------------------------------------------------------
(* The tools.                                                               *)

CreateCustomer ==
  \E params \in CreateCustomerSchema :
    Execute(Capability("create_customer", "create", {}), params, <<>>, 0,
            Request("customers.create",
                    Pick(params, {"email", "name", "description", "phone", "metadata"})))

UpdateCustomer ==
  \E params \in UpdateCustomerSchema :
    Execute(Capability("update_customer", "update", {}), params, <<>>, 0,
            Request("customers.update",
                    Pick(params, {"email", "name", "description", "phone", "metadata"})))

DeleteCustomer ==
  \E params \in DeleteCustomerSchema :
    /\ params.force
    /\ Execute(Capability("delete_customer", "delete", Gated), params, <<>>, 0,
               Request("customers.del", <<>>))

\* The operation itself looks at the customer and the clock (Send).
ArchiveCustomer ==
  \E params \in ArchiveCustomerSchema :
    Execute(Capability("archive_customer", "archive", {}), params, <<>>, 0,
            Request("customers.update", [archived_at |-> "called", delete_after |-> "called"]))

CreatePaymentIntent ==
  \E params \in CreatePaymentIntentSchema :
    Execute(Capability("create_payment_intent", "create", Gated),
            params, <<>>, params.amount,
            Request("paymentIntents.create",
                    Pick(params, {"amount", "currency", "customer", "description",
                                  "payment_method_types", "metadata"})))

ConfirmPaymentIntent ==
  \E params \in ConfirmPaymentIntentSchema, seen \in PaymentIntents :
    Execute(Capability("confirm_payment_intent", "confirm", Gated),
            params, <<seen>>, seen.amount,
            Request("paymentIntents.confirm", Pick(params, {"payment_method"})))

CancelPaymentIntent ==
  \E params \in CancelPaymentIntentSchema, seen \in PaymentIntents :
    Execute(Capability("cancel_payment_intent", "cancel", Gated),
            params, <<seen>>, seen.amount,
            Request("paymentIntents.cancel", Pick(params, {"cancellation_reason"})))

PayInvoice ==
  \E params \in PayInvoiceSchema, seen \in Invoices :
    Execute(Capability("pay_invoice", "pay", Gated), params, <<seen>>, seen.amount_remaining,
            Request("invoices.pay",
                    Pick(params, {"payment_method", "forgive", "off_session"})))

CreateSubscription ==
  \E params \in CreateSubscriptionSchema :
    /\ Priced(params.items)
    /\ Execute(Capability("create_subscription", "create", Gated),
               params, <<>>, ItemsValue(params.items),
               Request("subscriptions.create",
                       Pick(params, {"customer", "items", "payment_behavior",
                                     "collection_method", "metadata"})))

UpdateSubscription ==
  \E params \in UpdateSubscriptionSchema, seen \in Subscriptions :
    LET changes == IF Has(params, "items") THEN params.items ELSE <<>>
        projected == Project(changes, seen)
        amount == IF changes = <<>> THEN 0
                  ELSE ItemsValue(projected.kept) + ItemsValue(projected.added) IN
    /\ Execute(Capability("update_subscription", "update", Gated), params, <<seen>>, amount,
               Request("subscriptions.update",
                       Pick(params, {"items", "cancel_at_period_end", "proration_behavior",
                                     "metadata"})))
    /\ ~projected.unknown
    /\ changes # <<>> => Priced(projected.kept) /\ Priced(projected.added)

AtPeriodEnd(params) == Has(params, "cancel_at_period_end") /\ params.cancel_at_period_end

CancelSubscription ==
  \E params \in CancelSubscriptionSchema, seen \in Subscriptions :
    /\ Priced(seen)
    /\ Execute(Capability("cancel_subscription", "cancel", Gated),
               params, <<seen>>, ItemsValue(seen),
               IF AtPeriodEnd(params)
               THEN Request("subscriptions.update", [cancel_at_period_end |-> TRUE])
               ELSE Request("subscriptions.cancel", Pick(params, {"invoice_now", "prorate"})))

\* Mutant: the capability of a plain product stays what it is.
ProductCapabilityScoredOnly(params) ==
  Capability("create_product", "create",
             IF Has(params, "default_price_data") THEN {"riskScored"} ELSE {})

\* A product with a price in it is gated as a price is.
ProductCapability(params) ==
  Capability("create_product", "create",
             IF Has(params, "default_price_data") THEN Gated ELSE {})

CreateProduct ==
  \E params \in CreateProductSchema :
    Execute(ProductCapability(params), params, <<>>,
            IF Has(params, "default_price_data")
            THEN params.default_price_data.unit_amount ELSE 0,
            Request("products.create",
                    Pick(params, {"name", "description", "active", "images", "metadata",
                                  "default_price_data"})))

CreatePrice ==
  \E params \in CreatePriceSchema :
    Execute(Capability("create_price", "create", Gated),
            params, <<>>, params.unit_amount,
            Request("prices.create",
                    Pick(params, {"unit_amount", "currency", "product", "nickname", "metadata",
                                  "recurring"})))

CreateRefund ==
  \E params \in CreateRefundFields :
    /\ Has(params, "payment_intent") # Has(params, "charge")
    /\ \E seen \in Objects("create_refund", params) :
         Execute(Capability("create_refund", "refund", Gated),
                 params, <<seen>>, RefundAmount(params, seen),
                 Request("refunds.create",
                         Pick(params, {"payment_intent", "charge", "amount", "reason",
                                       "metadata"})))

CallTool ==
  /\ call = NoCall
  /\ \/ CreateCustomer \/ UpdateCustomer \/ DeleteCustomer \/ ArchiveCustomer
     \/ CreatePaymentIntent \/ ConfirmPaymentIntent \/ CancelPaymentIntent
     \/ CreateSubscription \/ UpdateSubscription \/ CancelSubscription
     \/ CreateProduct \/ CreatePrice \/ PayInvoice \/ CreateRefund

----------------------------------------------------------------------------
(* Stripe and the reconciler.                                               *)

\* Mutant: cancelling is always dispatched to the endpoint of its name.
ReplayNoDispatch(tool, params) ==
  CASE tool = "cancel_subscription" ->
         Request("subscriptions.cancel", Omit(params, {"subscription_id"}))
    [] OTHER -> call.request

Replay(tool, params) ==
  CASE tool = "create_customer" -> Request("customers.create", params)
    [] tool = "update_customer" -> Request("customers.update", Omit(params, {"customer_id"}))
    [] tool = "delete_customer" -> Request("customers.del", <<>>)
    [] tool = "archive_customer" ->
         Request("customers.update", [archived_at |-> "replayed", delete_after |-> "as found"])
    [] tool = "create_payment_intent" -> Request("paymentIntents.create", params)
    [] tool = "confirm_payment_intent" ->
         Request("paymentIntents.confirm", Omit(params, {"payment_intent_id"}))
    [] tool = "cancel_payment_intent" ->
         Request("paymentIntents.cancel", Omit(params, {"payment_intent_id"}))
    [] tool = "create_subscription" -> Request("subscriptions.create", params)
    [] tool = "update_subscription" ->
         Request("subscriptions.update", Omit(params, {"subscription_id"}))
    [] tool = "cancel_subscription" ->
         IF AtPeriodEnd(params)
         THEN Request("subscriptions.update", [cancel_at_period_end |-> TRUE])
         ELSE Request("subscriptions.cancel",
                      Omit(params, {"subscription_id", "cancel_at_period_end"}))
    [] tool = "create_product" -> Request("products.create", params)
    [] tool = "create_price" -> Request("prices.create", params)
    [] tool = "pay_invoice" -> Request("invoices.pay", Omit(params, {"invoice_id"}))
    [] tool = "create_refund" -> Request("refunds.create", params)

\* The request goes out and reaches Stripe or not.  Stripe executes the first
\* one it gets under a key and repeats its answer, or refuses another body.
Send(request, now, reached) ==
  /\ sent' = sent \cup {request}
  /\ effect' = IF reached /\ effect = NoEffect
               THEN [on |-> "Stripe", value |-> Effect(request, now), by |-> call.by,
                     drift |-> Range(call.seen) \notin {{}, {now}}]
               ELSE effect

Finished == [at |-> "done", cap |-> call.cap]
Tombstone(now) == call.cap.tool = "archive_customer" /\ now = "deleted"

\* The operation of the call.  An archive throws when the customer is gone; an
\* answer that gets lost leaves an unknown outcome.
Operation ==
  /\ call.at = "begun"
  /\ \E now \in Objects(call.cap.tool, call.params), reached, answered \in BOOLEAN :
       /\ answered => reached
       /\ IF Tombstone(now) THEN ~reached /\ UNCHANGED <<sent, effect>>
          ELSE Send(call.request, now, reached)
       /\ call' = IF answered THEN Finished ELSE [call EXCEPT !.at = "unknown"]
  /\ UNCHANGED <<config, approval>>

\* Of a customer that is gone the archive counts as done.
Reconcile ==
  /\ call.at = "unknown"
  /\ \E now \in Objects(call.cap.tool, call.params), reached, answered \in BOOLEAN :
       IF Tombstone(now) THEN call' = Finished /\ UNCHANGED <<sent, effect>>
       ELSE /\ answered => reached
            /\ Send(Replay(call.cap.tool, call.params), now, reached)
            /\ call' = IF answered THEN Finished ELSE call
  /\ UNCHANGED <<config, approval>>

Init ==
  /\ config \in Configs
  /\ call = NoCall /\ approval = NoApproval /\ sent = {} /\ effect = NoEffect

Next == CallTool \/ Approve \/ Operation \/ Reconcile

Spec == Init /\ [][Next]_vars

----------------------------------------------------------------------------
\* What happens without a human is small: a deletion, or an amount at the
\* threshold of its operation, goes through only if the object has changed
\* between the lookup and the request (resolvers of stripe-amounts.ts, projection
\* of updateSubscription).
UngatedIsSmall ==
  effect # NoEffect /\ effect.by = "policy" /\ ~effect.drift
    => effect.value < Threshold(call.cap.operation)

\* Whoever comes with a token is sent for another one only by a server whose
\* threshold is 0, and only for a request that moves no money, of a tool that
\* takes no tokens: there the comment of shouldRequireApproval, that a call that is
\* not about money is not gated, is false, and the tool is out of use.  Any other
\* capability that can be asked approval for can also be granted it.
OnlyZeroAsksTwice ==
  approval # NoApproval /\ approval.with = "token" =>
    /\ Threshold(approval.cap.operation) = 0
    /\ "approvalEligible" \notin approval.cap.flags
    /\ Effect(approval.request, Nothing) = 0

\* A token binds what Stripe does: whatever is sent under it, now or by the
\* reconciler, moves the same amount as the request that was approved, on any
\* state of the object (canonicalize in utils/hash.ts).
TokenBindsEffect ==
  approval # NoApproval /\ approval.status = "consumed" /\ call.at \in {"begun", "unknown"} =>
    \A request \in sent \cup {call.request}, now \in Objects(call.cap.tool, call.params) :
      Effect(request, now) = Effect(approval.request, now)

\* The reconciler repeats the request of the call, field by field; archive_customer
\* is the exception (dispatchReplay).
ReplayRepeats ==
  call # NoCall /\ call.cap.tool # "archive_customer" => Cardinality(sent) <= 1
=============================================================================
