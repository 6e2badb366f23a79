---------------------------- MODULE OrderBilling ----------------------------
(***************************************************************************)
(* One Payment Link purchase and its license, as Stripe's events change    *)
(* them (internal/billing: event.go, monthly_event.go, adjustment.go,      *)
(* adjustment_event.go, reconciliation.go).                                *)
(*                                                                         *)
(* Stripe owns the checkout, the disputes, the refunds and the             *)
(* subscription; each change emits an event, and events are delivered any  *)
(* number of times, in any order and concurrently.  A handler never trusts *)
(* an event: it reads Stripe, with no transaction open, and then commits   *)
(* against the purchase row.  Stripe may have moved on by then, and so may *)
(* the row.  checkout_orders.billing_revision is only ever incremented and *)
(* compared for equality, so the model keeps what the comparison yields:   *)
(* `fresh`, whether the revision a handler read is still the current one.  *)
(*                                                                         *)
(* Left out: purchases of other products (ignored_unowned), identifiers    *)
(* that do not match (the event fails until an operator looks), and the    *)
(* dates of the monthly projection: whether a canceled Subscription is     *)
(* still within what was paid for is left open.                            *)
(***************************************************************************)
EXTENDS Naturals, FiniteSets

CONSTANTS
  Plan,       \* "perpetual_v1" or "monthly"
  Disputes,   \* formal disputes of the charge
  Refunds,    \* full refunds of the charge
  Handlers,   \* webhook requests
  Reconcilers,\* workers that scan the completed Sessions of the day
  Repairer,   \* the worker that repairs pending adjustments
  MaxEvents   \* bound on the events of Stripe's own making

ASSUME PlanAssumption == Plan \in {"perpetual_v1", "monthly"}
ASSUME ObjectsAssumption == Disputes \cap Refunds = {}
ASSUME SessionAssumption ==
  "session" \notin Disputes \cup Refunds /\ "subscription" \notin Disputes \cup Refunds
ASSUME WorkersAssumption ==
  Handlers \cap Reconcilers = {} /\ Repairer \notin Handlers \cup Reconcilers
ASSUME EventsAssumption == MaxEvents \in Nat

Objects == Disputes \cup Refunds
Workers == Handlers \cup Reconcilers \cup {Repairer}

VARIABLES
  (* Stripe *)
  checkout,      \* the Checkout Session and its payment
  object,        \* the status of each dispute and refund
  subscription,  \* the Subscription, for the monthly plan
  emitted,       \* events Stripe has created
  (* the database *)
  inbox,         \* stripe_events
  order,         \* checkout_orders.state, "none" before the row exists
  license,       \* licenses.state, "none" before the row exists
  issued,        \* history: how many licenses this purchase was given
  adjustment,    \* billing_adjustments
  older,         \* <<a, b>>: pending a has an earlier updated_at than pending b
  (* the processes *)
  pc,            \* where each worker is
  event,         \* the event it processes
  view,          \* what it read from Stripe
  fresh          \* its revision of the order is the current one

stripe == <<checkout, object, subscription, emitted>>
database == <<inbox, order, license, issued, adjustment, older>>
vars == <<checkout, object, subscription, emitted, inbox, order,
          license, issued, adjustment, older, pc, event, view, fresh>>

-----------------------------------------------------------------------------
\* under_review and lost read like needs_response, warning_closed and prevented
\* like won, requires_action and canceled like pending and failed; a partial
\* refund never gets past pending.
DisputeStatus == {"absent", "warning", "needs_response", "won"}
RefundStatus == {"absent", "pending", "succeeded", "failed"}

Ev(o, t) == [object |-> o, type |-> t]
SessionEvents ==
  {Ev("session", t) : t \in {"completed", "async_succeeded", "async_failed", "reconcile"}}
Events ==
  SessionEvents \cup {Ev("subscription", t) : t \in {"updated", "deleted"}}
  \cup {Ev(d, t) : d \in Disputes, t \in DisputeStatus \ {"absent"}}
  \cup {Ev(f, t) : f \in Refunds, t \in RefundStatus \ {"absent"}}
NoEvent == Ev("session", "none")

SubscriptionStatus == {"active", "past_due", "canceled"}

View == [paid : BOOLEAN, state : {"", "blocking", "resolved"},
         refunded : BOOLEAN, subscription : SubscriptionStatus \cup {"none"}]
NoView == [paid |-> FALSE, state |-> "", refunded |-> FALSE, subscription |-> "none"]

Adjustment == [state : {"none", "blocking", "resolved"},
               pending : BOOLEAN, cancelRequired : BOOLEAN]

Stages == {"idle", "retrieve", "fulfill", "read", "hydrateMonthly", "readInvoices",
           "commitMonthly", "identify", "hydrate", "readCharge", "readSubscription",
           "prepare", "intent", "cancel", "rehydrate", "rereadCharge",
           "rereadSubscription", "commit"}

TypeOK ==
  /\ checkout \in {"open", "processing", "paid", "failed"}
  /\ object \in [Objects -> DisputeStatus \cup RefundStatus]
  /\ subscription \in SubscriptionStatus
  /\ emitted \subseteq Events
  /\ inbox \in [Events -> {"unknown", "recorded", "processed"}]
  /\ order \in {"none", "pending", "failed", "fulfilled"}
  /\ license \in {"none", "active", "refunded", "charged_back", "revoked"}
  /\ issued \in Nat
  /\ adjustment \in [Objects -> Adjustment]
  /\ older \subseteq Objects \X Objects
  /\ pc \in [Workers -> Stages]
  /\ event \in [Workers -> Events \cup {NoEvent}]
  /\ view \in [Workers -> View]
  /\ fresh \in [Workers -> BOOLEAN]

Init ==
  /\ checkout = "open"
  /\ object = [o \in Objects |-> "absent"]
  /\ subscription = "active"
  /\ emitted = {}
  /\ inbox = [e \in Events |-> "unknown"]
  /\ order = "none"
  /\ license = "none"
  /\ issued = 0
  /\ adjustment = [o \in Objects |->
       [state |-> "none", pending |-> FALSE, cancelRequired |-> FALSE]]
  /\ older = {}
  /\ pc = [w \in Workers |-> "idle"]
  /\ event = [w \in Workers |-> NoEvent]
  /\ view = [w \in Workers |-> NoView]
  /\ fresh = [w \in Workers |-> FALSE]

-----------------------------------------------------------------------------
(* Stripe and the operator *)

Emit(o, t) ==
  /\ Cardinality(emitted) < MaxEvents
  /\ emitted' = emitted \cup {Ev(o, t)}

workers == <<pc, event, view, fresh>>

\* A customer completes the Session; the payment settles at once or later.
Checkout(next) ==
  /\ \/ checkout = "open" /\ next \in {"processing", "paid"} /\ Emit("session", "completed")
     \/ checkout = "processing" /\ next = "paid" /\ Emit("session", "async_succeeded")
     \/ checkout = "processing" /\ next = "failed" /\ Emit("session", "async_failed")
  /\ checkout' = next
  /\ UNCHANGED <<object, subscription, database, workers>>

DisputeMoves == {<<"absent", "warning">>, <<"absent", "needs_response">>,
  <<"warning", "needs_response">>, <<"warning", "won">>, <<"needs_response", "won">>}
RefundMoves == {<<"absent", "pending">>, <<"absent", "succeeded">>,
  <<"pending", "succeeded">>, <<"pending", "failed">>, <<"succeeded", "failed">>}

\* A charge is refunded in full at most once.
ObjectMoves(o, next) ==
  /\ checkout = "paid"
  /\ <<object[o], next>> \in IF o \in Disputes THEN DisputeMoves ELSE RefundMoves
  /\ o \in Refunds => \A f \in Refunds \ {o} : object[f] \in {"absent", "failed"}
  /\ object' = [object EXCEPT ![o] = next]
  /\ Emit(o, next)
  /\ UNCHANGED <<checkout, subscription, database, workers>>

\* A renewal fails or recovers; the customer, or Stripe after its last retry,
\* cancels.
SubscriptionMoves(next) ==
  /\ Plan = "monthly"
  /\ checkout \in {"paid", "failed"}
  /\ subscription # "canceled" /\ next # subscription
  /\ subscription' = next
  /\ Emit("subscription", IF next = "canceled" THEN "deleted" ELSE "updated")
  /\ UNCHANGED <<checkout, object, database, workers>>

\* An operator revokes a license by hand.
Revoke ==
  /\ license \notin {"none", "revoked"}
  /\ license' = "revoked"
  /\ UNCHANGED <<stripe, inbox, order, issued, adjustment, older, workers>>

Refunded == \E f \in Refunds : object[f] = "succeeded"

\* Variant: the status is kept as Stripe words it.
StripeWords(o) == IF object[o] = "absent" THEN "" ELSE object[o]

\* retrieveAdjustment: what the current status of a dispute or refund means.
StripeState(o) ==
  CASE object[o] \in {"needs_response", "succeeded"} -> "blocking"
    [] o \in Disputes /\ object[o] = "won" -> "resolved"
    [] OTHER -> ""

-----------------------------------------------------------------------------
(* Steps every handler shares *)

GoTo(w, stage) == pc' = [pc EXCEPT ![w] = stage]

\* The handler returns, with the event acknowledged or not.
Leave(w) ==
  /\ pc' = [pc EXCEPT ![w] = "idle"]
  /\ event' = [event EXCEPT ![w] = NoEvent]
  /\ view' = [view EXCEPT ![w] = NoView]

\* errBillingSnapshotChanged and every other error: the transaction is rolled
\* back and the event stays unprocessed.
Retry(w) ==
  /\ Leave(w)
  /\ fresh' = [fresh EXCEPT ![w] = FALSE]
  /\ UNCHANGED <<stripe, database>>

Processed(w) == inbox[event[w]] = "processed"
MarkProcessed(w) == inbox' = [inbox EXCEPT ![event[w]] = "processed"]

\* Variant: the revision is left as it is.
KeepRevision(kept) == UNCHANGED fresh

\* UPDATE checkout_orders SET billing_revision = billing_revision + 1: whoever
\* read the order before this transaction holds a stale revision from now on.
\* Only prepareAdjustment goes on with the new one (order.revision++).
AdvanceRevision(kept) == fresh' = [v \in Workers |-> v \in kept]

\* billingRestriction.
Unsettled ==
  \E o \in Objects : adjustment[o].pending \/ adjustment[o].cancelRequired

\* Variant: only refunds block.
BlockedByRefund == \E o \in Refunds : adjustment[o].state = "blocking"
Blocked == \E o \in Objects : adjustment[o].state = "blocking"

\* ensurePaymentLinkOrder commits the row on its own.
EnsureOrder == order' = IF order = "none" THEN "pending" ELSE order

\* IssuePurchasedLicense, and the order row that goes with it.
Issue ==
  /\ license' = "active"
  /\ issued' = issued + 1
  /\ order' = "fulfilled"

Running(w) == pc[w] # "idle"

\* A Stripe or database call fails, a deadline passes or the process stops.
Fail(w) ==
  /\ Running(w)
  /\ Retry(w)

Route(e) == CASE e.object \in Objects -> "identify"
              [] e.object = "subscription" -> "read"
              [] OTHER -> "retrieve"

\* processEvent records the event and, unless it was processed before, goes on
\* to the handler of its object.  A processed event is acknowledged at once.
Deliver(w, e) ==
  /\ w \in Handlers
  /\ pc[w] = "idle"
  /\ e \in emitted
  /\ inbox[e] # "processed"
  /\ inbox' = [inbox EXCEPT ![e] = "recorded"]
  /\ event' = [event EXCEPT ![w] = e]
  /\ GoTo(w, Route(e))
  /\ UNCHANGED <<stripe, order, license, issued, adjustment, older, view, fresh>>

\* Variant: a Session that has an order row at all is taken for fulfilled.
ReconcileUnseen(w) ==
  LET e == Ev("session", "reconcile") IN
  /\ w \in Reconcilers
  /\ pc[w] = "idle"
  /\ checkout = "paid"
  /\ order = "none"
  /\ inbox[e] # "processed"
  /\ inbox' = [inbox EXCEPT ![e] = "recorded"]
  /\ event' = [event EXCEPT ![w] = e]
  /\ GoTo(w, "retrieve")
  /\ UNCHANGED <<stripe, order, license, issued, adjustment, older, view, fresh>>

\* Reconciler.Run visits paid Sessions once a day and skips the restricted and
\* the fulfilled perpetual ones; reconcileSession makes an event of its own.
Reconcile(w) ==
  LET e == Ev("session", "reconcile") IN
  /\ w \in Reconcilers
  /\ pc[w] = "idle"
  /\ checkout = "paid"
  /\ ~(order = "fulfilled" /\ Plan = "perpetual_v1")
  /\ ~Unsettled /\ ~Blocked
  /\ inbox[e] # "processed"
  /\ inbox' = [inbox EXCEPT ![e] = "recorded"]
  /\ event' = [event EXCEPT ![w] = e]
  /\ GoTo(w, "retrieve")
  /\ UNCHANGED <<stripe, order, license, issued, adjustment, older, view, fresh>>

\* A new day has an event identifier of its own; only today's is kept.
NextDay ==
  LET e == Ev("session", "reconcile") IN
  /\ inbox[e] # "unknown"
  /\ \A w \in Workers : event[w] # e
  /\ inbox' = [inbox EXCEPT ![e] = "unknown"]
  /\ UNCHANGED <<stripe, order, license, issued, adjustment, older, pc, event, view, fresh>>

-----------------------------------------------------------------------------
(* Checkout Session events of a perpetual purchase *)

\* Read the Session and its Charge, and make sure the order row exists.
Retrieve(w) ==
  /\ pc[w] = "retrieve"
  /\ view' = [view EXCEPT ![w].paid = checkout = "paid", ![w].refunded = Refunded]
  /\ EnsureOrder
  /\ GoTo(w, IF Plan = "perpetual_v1" THEN "fulfill" ELSE "read")
  /\ UNCHANGED <<stripe, inbox, license, issued, adjustment, older, event, fresh>>

\* Variant: only the event tells a duplicate.
UnfulfilledAlways == TRUE
Unfulfilled == order # "fulfilled"

\* The transaction of processEvent: the event and the order are locked, and the
\* Session it works with was read before.
Fulfill(w) ==
  /\ pc[w] = "fulfill"
  /\ \/ Processed(w) /\ Retry(w)
     \/ ~Processed(w) /\ Unsettled /\ Retry(w)
     \/ /\ ~Processed(w) /\ ~Unsettled /\ ~Blocked
        /\ view[w].paid /\ view[w].refunded
        /\ Retry(w)
     \/ /\ ~Processed(w) /\ ~Unsettled
        /\ ~Blocked => ~(view[w].paid /\ view[w].refunded)
        /\ \/ /\ ~Blocked /\ Unfulfilled /\ view[w].paid
              /\ Issue
           \/ /\ ~Blocked /\ Unfulfilled /\ ~view[w].paid
              /\ event[w].type = "async_failed"
              /\ order' = "failed"
              /\ UNCHANGED <<license, issued>>
           \/ /\ \/ Blocked
                 \/ ~Unfulfilled
                 \/ ~view[w].paid /\ event[w].type # "async_failed"
              /\ UNCHANGED <<order, license, issued>>
        /\ MarkProcessed(w)
        /\ AdvanceRevision({})
        /\ Leave(w)
        /\ UNCHANGED <<stripe, adjustment, older>>

-----------------------------------------------------------------------------
(* Session and Subscription events of a monthly purchase *)

\* readMonthlyOrder captures the revision.  A Subscription event that comes
\* first finds the Session through Stripe and creates the row.
ReadMonthlyOrder(w) ==
  /\ pc[w] = "read"
  /\ EnsureOrder
  /\ fresh' = [fresh EXCEPT ![w] = TRUE]
  /\ GoTo(w, "hydrateMonthly")
  /\ UNCHANGED <<stripe, inbox, license, issued, adjustment, older, event, view>>

\* The Session is read again, which has been completed, then the Subscription, ...
HydrateMonthly(w) ==
  /\ pc[w] = "hydrateMonthly"
  /\ view' = [view EXCEPT ![w].subscription = subscription]
  /\ GoTo(w, "readInvoices")
  /\ UNCHANGED <<stripe, database, event, fresh>>

\* ... then the Invoices: whether the first has been paid.
ReadInvoices(w) ==
  /\ pc[w] = "readInvoices"
  /\ view' = [view EXCEPT ![w].paid = checkout = "paid"]
  /\ GoTo(w, "commitMonthly")
  /\ UNCHANGED <<stripe, database, event, fresh>>

\* The order of a purchase that gets no license.  A Subscription past due may
\* be unpaid, and a canceled one that was paid for may have lapsed, which
\* leaves the order alone.
UnpaidOrder(w) ==
  CASE event[w].type = "async_failed" -> {"failed"}
    [] event[w].type # "async_failed" /\ view[w].subscription = "active" -> {order}
    [] event[w].type # "async_failed" /\ view[w].subscription = "canceled"
         /\ ~view[w].paid -> {"failed"}
    [] OTHER -> {order, "failed"}

\* commitMonthlyEvent and applyMonthlyPurchase.  With a license, an event only
\* moves the dates of the projection.  A Subscription canceled by the customer
\* still gives a license within the period paid for.
CommitMonthly(w) ==
  /\ pc[w] = "commitMonthly"
  /\ \/ Processed(w) /\ Retry(w)
     \/ ~Processed(w) /\ (~fresh[w] \/ Unsettled) /\ Retry(w)
     \/ /\ ~Processed(w) /\ fresh[w] /\ ~Unsettled
        /\ \/ /\ Blocked \/ license # "none"
              /\ UNCHANGED <<order, license, issued>>
           \/ /\ ~Blocked /\ license = "none"
              /\ view[w].paid /\ view[w].subscription \in {"active", "canceled"}
              /\ Issue
           \/ /\ ~Blocked /\ license = "none"
              /\ ~(view[w].paid /\ view[w].subscription = "active")
              /\ order' \in UnpaidOrder(w)
              /\ UNCHANGED <<license, issued>>
        /\ MarkProcessed(w)
        /\ AdvanceRevision({})
        /\ Leave(w)
        /\ UNCHANGED <<stripe, adjustment, older>>

-----------------------------------------------------------------------------
(* Refund and dispute events *)

\* processAdjustment finds the purchase of the Charge, creating its row if the
\* Session has not been seen, and captures the revision.
Identify(w) ==
  /\ pc[w] = "identify"
  /\ EnsureOrder
  /\ fresh' = [fresh EXCEPT ![w] = TRUE]
  /\ GoTo(w, "hydrate")
  /\ UNCHANGED <<stripe, inbox, license, issued, adjustment, older, event, view>>

\* hydrateAdjustment reads the dispute or refund first, ...
Hydrate(w) ==
  /\ pc[w] \in {"hydrate", "rehydrate"}
  /\ view' = [view EXCEPT ![w].state = StripeState(event[w].object)]
  /\ GoTo(w, IF pc[w] = "hydrate" THEN "readCharge" ELSE "rereadCharge")
  /\ UNCHANGED <<stripe, database, event, fresh>>

\* Variant: a Subscription past due does not bill.
BillsWhenActive(status) == status = "active"

\* subscriptionCanBill: Stripe still tries to collect what is past due.
CanBill(status) == status \in {"active", "past_due"}

\* The Charge of a succeeded refund must be refunded.
ChargeDisagrees(w) ==
  event[w].object \in Refunds /\ view[w].state = "blocking" /\ ~Refunded

\* ... then the Charge, ...
ReadCharge(w) ==
  /\ pc[w] \in {"readCharge", "rereadCharge"}
  /\ \/ ChargeDisagrees(w) /\ Retry(w)
     \/ /\ ~ChargeDisagrees(w)
        /\ view' = [view EXCEPT ![w].refunded = Refunded]
        /\ GoTo(w, IF pc[w] = "readCharge" THEN "readSubscription" ELSE "rereadSubscription")
        /\ UNCHANGED <<stripe, database, event, fresh>>

Purchased == IF Plan = "monthly" THEN subscription ELSE "none"

\* ... then the Subscription.  After a cancellation it must have stopped billing.
ReadSubscription(w) ==
  /\ pc[w] \in {"readSubscription", "rereadSubscription"}
  /\ \/ pc[w] = "rereadSubscription" /\ CanBill(Purchased) /\ Retry(w)
     \/ /\ pc[w] = "readSubscription" \/ ~CanBill(Purchased)
        /\ view' = [view EXCEPT ![w].subscription = Purchased]
        /\ GoTo(w, IF pc[w] = "readSubscription" THEN "prepare" ELSE "commit")
        /\ UNCHANGED <<stripe, database, event, fresh>>

\* updated_at = now.  Only pending adjustments are ever compared by it.
Untouched(o) == {p \in older : p[1] # o /\ p[2] # o}
Touch(o) ==
  older' = Untouched(o) \cup {<<q, o>> : q \in {q \in Objects \ {o} : adjustment[q].pending}}

\* A status that means nothing by itself keeps an unfinished adjustment going.
Decision(w) ==
  LET a == adjustment[event[w].object]
  IN  IF view[w].state = "" /\ (a.pending \/ a.cancelRequired)
      THEN a.state ELSE view[w].state

\* Variant: the recorded state alone tells that nothing is left to do.
SettledByState(w) == Decision(w) \in {"", adjustment[event[w].object].state}

\* The adjustment is already recorded and nothing of it is left to do.
Settled(w) ==
  LET a == adjustment[event[w].object]
  IN  \/ Decision(w) = ""
      \/ Decision(w) = a.state /\ ~a.pending /\ ~a.cancelRequired

\* prepareAdjustment: persist the decision, and for a monthly purchase the
\* intent to cancel, before anything is done to the Subscription.
Prepare(w) ==
  LET o == event[w].object
      a == adjustment[o]
  IN  /\ pc[w] = "prepare"
      /\ \/ (Processed(w) \/ ~fresh[w]) /\ Retry(w)
         \/ /\ ~Processed(w) /\ fresh[w]
            /\ Settled(w)
            /\ MarkProcessed(w)
            /\ AdvanceRevision({})
            /\ Leave(w)
            /\ UNCHANGED <<stripe, order, license, issued, adjustment, older>>
         \/ /\ ~Processed(w) /\ fresh[w]
            /\ ~Settled(w)
            /\ adjustment' = [adjustment EXCEPT ![o] =
                 [state |-> Decision(w), pending |-> TRUE,
                  cancelRequired |-> \/ a.cancelRequired
                                     \/ Decision(w) = "blocking" /\ Plan = "monthly"]]
            /\ Touch(o)
            /\ AdvanceRevision({w})
            /\ GoTo(w, "intent")
            /\ UNCHANGED <<stripe, inbox, order, license, issued, event, view>>

\* Read the durable intents of the whole order, then act on them.
ReadIntent(w) ==
  /\ pc[w] = "intent"
  /\ GoTo(w, IF \/ Plan = "perpetual_v1"
                \/ \A o \in Objects : ~adjustment[o].cancelRequired
             THEN "commit"
             ELSE IF CanBill(view[w].subscription) THEN "cancel" ELSE "rehydrate")
  /\ UNCHANGED <<stripe, database, event, view, fresh>>

\* CancelSubscription; its response may be lost (Fail).
CancelSubscription(w) ==
  /\ pc[w] = "cancel"
  /\ subscription' = "canceled"
  /\ emitted' = emitted \cup IF subscription = "canceled" THEN {}
                             ELSE {Ev("subscription", "deleted")}
  /\ GoTo(w, "rehydrate")
  /\ UNCHANGED <<checkout, object, database, event, view, fresh>>

\* Variant: only an adjustment that blocks drops its own intent.
FinishedAlone(w) ==
  [o \in Objects |->
    [state |-> IF o = event[w].object /\ view[w].state # ""
               THEN view[w].state ELSE adjustment[o].state,
     pending |-> adjustment[o].pending /\ o # event[w].object,
     cancelRequired |-> adjustment[o].cancelRequired
                          /\ ~(o = event[w].object /\ view[w].state = "blocking")]]

\* commitAdjustment's own rows: this adjustment is done, and once the
\* Subscription cannot bill, so is every intent to cancel it.
Finished(w) ==
  [o \in Objects |->
    [state |-> IF o = event[w].object /\ view[w].state # ""
               THEN view[w].state ELSE adjustment[o].state,
     pending |-> adjustment[o].pending /\ o # event[w].object,
     cancelRequired |-> adjustment[o].cancelRequired
                          /\ ~(Plan = "monthly" /\ ~CanBill(view[w].subscription))]]

\* Variant: a manual revocation is a state like the others.
NothingIsFinal == FALSE
Final == license = "revoked"

\* applyAdjustments, over the adjustments as this transaction leaves them: a
\* restriction waits until the Subscription cannot bill, and a resolved dispute
\* gives back what no other adjustment blocks.  A monthly purchase may have
\* lapsed (restorationProjection).
Apply(w, adj) ==
  LET blocking == {o \in Objects : adj[o].state = "blocking"}
      verdict == IF blocking \cap Refunds # {} \/ license = "refunded"
                 THEN "refunded" ELSE "charged_back"
      restrict == ~Final /\ blocking # {} /\ ~CanBill(view[w].subscription)
      restore == /\ blocking = {}
                 /\ view[w].state = "resolved" /\ ~view[w].refunded
                 /\ license \in {"none", "charged_back"}
  IN  \/ /\ restrict /\ license = "none"
         /\ order' = "failed"
         /\ UNCHANGED <<license, issued>>
      \/ /\ restrict /\ license # "none"
         /\ license' = verdict
         /\ UNCHANGED <<order, issued>>
      \/ restore /\ license = "none" /\ Issue
      \/ /\ restore /\ license = "charged_back"
         /\ license' = "active"
         /\ UNCHANGED <<order, issued>>
      \/ /\ \/ ~restrict /\ ~restore
            \/ ~restrict /\ Plan = "monthly"
         /\ UNCHANGED <<order, license, issued>>

CommitAdjustment(w) ==
  /\ pc[w] = "commit"
  /\ \/ (Processed(w) \/ ~fresh[w]) /\ Retry(w)
     \/ /\ ~Processed(w) /\ fresh[w]
        /\ adjustment' = Finished(w)
        /\ older' = Untouched(event[w].object)
        /\ Apply(w, Finished(w))
        /\ MarkProcessed(w)
        /\ AdvanceRevision({})
        /\ Leave(w)
        /\ UNCHANGED stripe

\* RepairPendingAdjustment: the pending adjustment that has waited longest, by
\* one of its recorded events.  Without such an event it reports an error.
OldestPending(o) ==
  /\ adjustment[o].pending
  /\ \A q \in Objects : adjustment[q].pending => <<q, o>> \notin older

Repair ==
  \E o \in Objects, e \in Events :
    /\ pc[Repairer] = "idle"
    /\ OldestPending(o)
    /\ e.object = o
    /\ inbox[e] = "recorded"
    /\ event' = [event EXCEPT ![Repairer] = e]
    /\ GoTo(Repairer, "identify")
    /\ UNCHANGED <<stripe, database, view, fresh>>

-----------------------------------------------------------------------------
Work(w) ==
  \/ Retrieve(w) \/ Fulfill(w)
  \/ ReadMonthlyOrder(w) \/ HydrateMonthly(w) \/ ReadInvoices(w) \/ CommitMonthly(w)
  \/ Identify(w) \/ Hydrate(w) \/ ReadCharge(w) \/ ReadSubscription(w) \/ Prepare(w)
  \/ ReadIntent(w) \/ CancelSubscription(w) \/ CommitAdjustment(w)

Environment ==
  \/ \E next \in {"processing", "paid", "failed"} : Checkout(next)
  \/ \E o \in Objects : \E next \in DisputeStatus \cup RefundStatus : ObjectMoves(o, next)
  \/ \E next \in SubscriptionStatus : SubscriptionMoves(next)
  \/ Revoke

Next ==
  \/ Environment
  \/ \E w \in Workers : Work(w) \/ Fail(w)
  \/ \E w \in Handlers, e \in Events : Deliver(w, e)
  \/ \E w \in Reconcilers : Reconcile(w)
  \/ NextDay
  \/ Repair

Spec == Init /\ [][Next]_vars

-----------------------------------------------------------------------------
(* Correctness *)

\* However often and however concurrently its events are delivered, repaired
\* and reconciled, a purchase is given at most one license (Docs/Billing.md).
OneLicense == issued <= 1

\* Once a blocking refund or dispute has been settled in the database, the
\* license is not active, whichever handler read Stripe before it did.
SettledBlockRestricts ==
  \A o \in Objects :
    adjustment[o].state = "blocking" /\ ~adjustment[o].pending => license # "active"

\* A monthly customer loses access only when Stripe has stopped billing: the
\* Subscription is canceled before the license is restricted.
RestrictedIsNotBilled ==
  Plan = "monthly" /\ license \in {"refunded", "charged_back"} =>
    subscription = "canceled"

\* A pending adjustment always has an unprocessed event of its own, so that the
\* repair worker never meets the one it calls not retryable, which would also
\* keep every adjustment behind it waiting.
PendingIsRetryable ==
  \A o \in Objects :
    adjustment[o].pending => \E e \in Events : e.object = o /\ inbox[e] = "recorded"

\* The intent to cancel a Subscription is never left behind by an adjustment
\* that counts as done: the repair worker only looks for pending ones.
IntentIsPending ==
  \A o \in Objects : adjustment[o].cancelRequired => adjustment[o].pending

\* A refund and a manual revocation are final: no late, duplicated or reordered
\* event gives the license back (applyAdjustments, applyMonthlyPurchase).
TerminalStatesHold ==
  [][/\ license = "revoked" => license' = "revoked"
     /\ license = "refunded" => license' \in {"refunded", "revoked"}]_license

\* A refund that fails after it had succeeded.  It restricts nothing if it is
\* first looked at then; but a dispute that was resolved while the Charge still
\* counted as refunded has restored nothing, and nobody looks at it again.
RefundUndone ==
  \E f \in Refunds : object[f] = "failed" /\ Ev(f, "succeeded") \in emitted

\* When every event Stripe created has been processed, in whatever order and by
\* however many readers of outdated Stripe objects, the database agrees with
\* Stripe, and a paid perpetual purchase without a restriction has its license
\* (unless a refund was undone).
Converged ==
  (\A e \in emitted : inbox[e] = "processed") =>
    /\ \A o \in Objects :
         StripeState(o) # "" => adjustment[o].state = StripeState(o)
    /\ Plan = "perpetual_v1" /\ checkout = "paid" /\ ~Blocked /\ ~RefundUndone =>
         license \in {"active", "revoked"}

\* The server implements LicenseLedger: what handlers read minutes ago and commit
\* in whatever order, their crashes and their repairs amount to claims that are
\* recorded and settled one at a time.
Blocking == {o \in Objects : adjustment[o].state = "blocking"}
Judged == {o \in Blocking : ~adjustment[o].pending}
Collecting == Plan = "monthly" /\ subscription # "canceled"
Ledger == INSTANCE LicenseLedger WITH
  blocking <- Blocking, settled <- Judged, collecting <- Collecting
ImplementsLicense == Ledger!Spec
=============================================================================
