------------------------- MODULE OrderBillingProofs -------------------------
(***************************************************************************)
(* Proofs about OrderBilling, for both plans and any number of disputes,   *)
(* refunds, webhook handlers, reconcilers and events.  The order row does  *)
(* here what the license row does for activations: whoever still holds the *)
(* current revision knows that the adjustments it read have not moved, so  *)
(* what it learnt about the Subscription still covers every one of them.   *)
(***************************************************************************)
EXTENDS OrderBilling, TLAPS

SaleStages == {"retrieve", "fulfill", "read", "hydrateMonthly", "readInvoices",
               "commitMonthly"}
HydratedStages == {"prepare", "intent", "cancel", "rehydrate", "rereadCharge",
                   "rereadSubscription", "commit"}
FirstReadStages == {"identify", "hydrate", "readCharge", "readSubscription"}
AdjustmentStages == FirstReadStages \cup HydratedStages

\* A purchase has a license exactly if it was given one, and then its order is
\* and stays fulfilled.
LicenseCounted ==
  /\ license = "none" => issued = 0
  /\ license # "none" => issued = 1 /\ order = "fulfilled"

\* A monthly adjustment that blocks and intends no cancellation any more has
\* seen the Subscription end.
CanceledWhenBlocked ==
  \A o \in Objects :
    Plan = "monthly" /\ adjustment[o].state = "blocking"
      /\ ~adjustment[o].cancelRequired => subscription = "canceled"

\* Only monthly purchases are canceled, and the intent lives in a pending row.
IntentIsMonthly ==
  \A o \in Objects : adjustment[o].cancelRequired =>
    adjustment[o].pending /\ Plan = "monthly"

\* A handler works on a recorded event of the kind its stage is for.
HasEvent(w) ==
  /\ pc[w] \in AdjustmentStages =>
       /\ event[w] \in Events
       /\ event[w].object \in Objects
       /\ inbox[event[w]] # "unknown"
  /\ pc[w] \in SaleStages => event[w].object \notin Objects

\* What an adjustment handler has read of the Subscription: it may be outdated,
\* but a Subscription seen canceled is canceled.
HasSubscription(w) ==
  pc[w] \in HydratedStages =>
    /\ Plan = "perpetual_v1" => view[w].subscription = "none"
    /\ Plan = "monthly" =>
         /\ view[w].subscription # "none"
         /\ view[w].subscription = "canceled" => subscription = "canceled"

\* With the revision still current, every recorded block either waits for the
\* cancellation or had it before the handler read the Subscription.
CoversBlocks(w) ==
  pc[w] \in HydratedStages /\ fresh[w] /\ Plan = "monthly" =>
    \A o \in Objects : adjustment[o].state = "blocking" =>
      adjustment[o].cancelRequired \/ view[w].subscription = "canceled"

\* The decision a handler persisted is still its own while it is current.
Decided(w) ==
  pc[w] = "intent" /\ fresh[w] /\ view[w].state # "" =>
    adjustment[event[w].object].state = view[w].state

\* A handler about to commit with a Subscription that can bill has nothing to
\* restrict and no intent to drop.
MayCommit(w) ==
  pc[w] = "commit" /\ fresh[w] /\ CanBill(view[w].subscription) =>
    /\ view[w].state # "blocking"
    /\ \A o \in Objects : adjustment[o].state # "blocking" /\ ~adjustment[o].cancelRequired

HandlerInv(w) ==
  HasEvent(w) /\ HasSubscription(w) /\ CoversBlocks(w) /\ Decided(w) /\ MayCommit(w)

DatabaseInv ==
  /\ LicenseCounted
  /\ SettledBlockRestricts
  /\ RestrictedIsNotBilled
  /\ CanceledWhenBlocked
  /\ IntentIsMonthly
  /\ PendingIsRetryable

BillingInv == TypeOK /\ DatabaseInv /\ \A w \in Workers : HandlerInv(w)

-----------------------------------------------------------------------------
(* Types *)

USE DEF Stages, SubscriptionStatus, Workers

\* A handler that returns leaves its own state well typed.
LEMMA LeaveTypes ==
  ASSUME TypeOK, NEW w \in Workers, Leave(w)
  PROVE  /\ pc' \in [Workers -> Stages]
         /\ event' \in [Workers -> Events \cup {NoEvent}]
         /\ view' \in [Workers -> View]
<1>1. NoView \in View
  BY DEF NoView, View
<1> QED BY <1>1 DEF TypeOK, Leave

\* An attempt that is given up changes nothing else.
LEMMA RetryTypes ==
  ASSUME TypeOK, NEW w \in Workers, Retry(w)
  PROVE  TypeOK'
<1>1. fresh' \in [Workers -> BOOLEAN]
  BY DEF Retry, TypeOK
<1> QED BY <1>1, LeaveTypes DEF Retry, TypeOK, stripe, database

\* The flags that AdvanceRevision leaves are Boolean.
LEMMA AdvanceTypes ==
  ASSUME NEW kept, AdvanceRevision(kept)
  PROVE  fresh' \in [Workers -> BOOLEAN]
BY DEF AdvanceRevision

\* Every status Stripe can show has an event.
LEMMA EmittedTypes ==
  ASSUME TypeOK, NEW o, NEW t, Emit(o, t), Ev(o, t) \in Events
  PROVE  emitted' \subseteq Events
BY DEF TypeOK, Emit

\* The checkout, the disputes, the refunds, the Subscription and the operator.
LEMMA EnvironmentTypes ==
  ASSUME TypeOK, Environment
  PROVE  TypeOK'
<1>1. ASSUME NEW next \in {"processing", "paid", "failed"}, Checkout(next)
      PROVE  TypeOK'
  <2>1. emitted' \subseteq Events
    BY <1>1, EmittedTypes DEF Checkout, Events, SessionEvents
  <2> QED BY <1>1, <2>1 DEF Checkout, TypeOK, database, workers
<1>2. ASSUME NEW o \in Objects, NEW next \in DisputeStatus \cup RefundStatus,
             ObjectMoves(o, next)
      PROVE  TypeOK'
  <2>1. Ev(o, next) \in Events
    <3>1. CASE o \in Disputes
      <4>1. next \in DisputeStatus \ {"absent"}
        BY <1>2, <3>1 DEF ObjectMoves, DisputeMoves, DisputeStatus
      <4> QED BY <3>1, <4>1 DEF Events
    <3>2. CASE o \notin Disputes
      <4>1. o \in Refunds /\ next \in RefundStatus \ {"absent"}
        BY <1>2, <3>2 DEF ObjectMoves, RefundMoves, RefundStatus, Objects
      <4> QED BY <4>1 DEF Events
    <3> QED BY <3>1, <3>2
  <2>2. emitted' \subseteq Events
    BY <1>2, <2>1, EmittedTypes DEF ObjectMoves
  <2>3. object' \in [Objects -> DisputeStatus \cup RefundStatus]
    BY <1>2 DEF ObjectMoves, TypeOK
  <2> QED BY <1>2, <2>2, <2>3 DEF ObjectMoves, TypeOK, database, workers
<1>3. ASSUME NEW next \in SubscriptionStatus, SubscriptionMoves(next)
      PROVE  TypeOK'
  <2>1. emitted' \subseteq Events
    BY <1>3, EmittedTypes DEF SubscriptionMoves, Events
  <2> QED BY <1>3, <2>1 DEF SubscriptionMoves, TypeOK, database, workers
<1>4. CASE Revoke
  BY <1>4 DEF Revoke, TypeOK, stripe, workers
<1> QED BY <1>1, <1>2, <1>3, <1>4 DEF Environment

\* Receiving an event, from Stripe, the scan or the repair worker.
LEMMA ReceiveTypes ==
  ASSUME TypeOK,
         \/ \E w \in Handlers, e \in Events : Deliver(w, e)
         \/ \E w \in Reconcilers : Reconcile(w)
         \/ NextDay
         \/ Repair
  PROVE  TypeOK'
<1>1. ASSUME NEW w \in Handlers, NEW e \in Events, Deliver(w, e)
      PROVE  TypeOK'
  <2>1. Route(e) \in Stages
    BY DEF Route
  <2>2. inbox' \in [Events -> {"unknown", "recorded", "processed"}]
    BY <1>1 DEF Deliver, TypeOK
  <2>3. event' \in [Workers -> Events \cup {NoEvent}]
    BY <1>1 DEF Deliver, TypeOK
  <2>4. pc' \in [Workers -> Stages]
    BY <1>1, <2>1 DEF Deliver, GoTo, TypeOK
  <2> QED BY <1>1, <2>2, <2>3, <2>4 DEF Deliver, TypeOK, stripe
<1>2. ASSUME NEW w \in Reconcilers, Reconcile(w)
      PROVE  TypeOK'
  <2>1. Ev("session", "reconcile") \in Events
    BY DEF Events, SessionEvents
  <2>2. inbox' \in [Events -> {"unknown", "recorded", "processed"}]
    BY <1>2 DEF Reconcile, TypeOK
  <2>3. event' \in [Workers -> Events \cup {NoEvent}]
    BY <1>2, <2>1 DEF Reconcile, TypeOK
  <2> QED BY <1>2, <2>2, <2>3 DEF Reconcile, GoTo, TypeOK, stripe
<1>3. CASE NextDay
  BY <1>3 DEF NextDay, TypeOK, stripe
<1>4. CASE Repair
  BY <1>4 DEF Repair, GoTo, TypeOK, stripe, database
<1> QED BY <1>1, <1>2, <1>3, <1>4

\* A view with what a call to Stripe returned in it is a view.
LEMMA ViewUpdated ==
  ASSUME NEW v \in View, NEW paid \in BOOLEAN, NEW refunded \in BOOLEAN,
         NEW status \in SubscriptionStatus \cup {"none"}
  PROVE  /\ [v EXCEPT !.paid = paid, !.refunded = refunded] \in View
         /\ [v EXCEPT !.paid = paid] \in View
         /\ [v EXCEPT !.refunded = refunded] \in View
         /\ [v EXCEPT !.subscription = status] \in View
BY DEF View

\* Steps that read Stripe or the database and write no more than a new order row.
LEMMA ReadingTypes ==
  ASSUME TypeOK, NEW w \in Workers,
         \/ Retrieve(w) \/ ReadMonthlyOrder(w) \/ HydrateMonthly(w) \/ ReadInvoices(w)
         \/ Identify(w) \/ Hydrate(w) \/ ReadCharge(w) \/ ReadSubscription(w)
         \/ ReadIntent(w)
  PROVE  TypeOK'
<1> DEFINE paid == checkout = "paid"
<1>1. /\ view[w] \in View /\ paid \in BOOLEAN /\ Refunded \in BOOLEAN
      /\ subscription \in SubscriptionStatus \cup {"none"}
      /\ Purchased \in SubscriptionStatus \cup {"none"}
  BY DEF TypeOK, Refunded, Purchased
<1>2. CASE Retrieve(w)
  <2>1. view' = [view EXCEPT ![w] = [view[w] EXCEPT !.paid = paid, !.refunded = Refunded]]
    BY <1>2 DEF Retrieve, TypeOK, View
  <2>2. view' \in [Workers -> View]
    BY <1>1, <2>1, ViewUpdated DEF TypeOK
  <2> QED BY <1>2, <2>2 DEF Retrieve, EnsureOrder, GoTo, TypeOK, stripe
<1>3. CASE ReadMonthlyOrder(w)
  <2>1. fresh' \in [Workers -> BOOLEAN]
    BY <1>3 DEF ReadMonthlyOrder, TypeOK
  <2> QED BY <1>3, <2>1 DEF ReadMonthlyOrder, EnsureOrder, GoTo, TypeOK, stripe
<1>4. CASE HydrateMonthly(w)
  <2>1. view' = [view EXCEPT ![w] = [view[w] EXCEPT !.subscription = subscription]]
    BY <1>4 DEF HydrateMonthly, TypeOK, View
  <2>2. view' \in [Workers -> View]
    BY <1>1, <2>1, ViewUpdated DEF TypeOK
  <2> QED BY <1>4, <2>2 DEF HydrateMonthly, GoTo, TypeOK, stripe, database
<1>5. CASE ReadInvoices(w)
  <2>1. view' = [view EXCEPT ![w] = [view[w] EXCEPT !.paid = paid]]
    BY <1>5 DEF ReadInvoices, TypeOK, View
  <2>2. view' \in [Workers -> View]
    BY <1>1, <2>1, ViewUpdated DEF TypeOK
  <2> QED BY <1>5, <2>2 DEF ReadInvoices, GoTo, TypeOK, stripe, database
<1>6. CASE Identify(w)
  <2>1. fresh' \in [Workers -> BOOLEAN]
    BY <1>6 DEF Identify, TypeOK
  <2> QED BY <1>6, <2>1 DEF Identify, EnsureOrder, GoTo, TypeOK, stripe
<1>7. CASE Hydrate(w)
  <2>1. StripeState(event[w].object) \in {"", "blocking", "resolved"}
    BY DEF StripeState
  <2>2. view' \in [Workers -> View]
    BY <1>7, <2>1 DEF Hydrate, TypeOK, View
  <2> QED BY <1>7, <2>2 DEF Hydrate, GoTo, TypeOK, stripe, database
<1>8. CASE Retry(w)
  BY <1>8, RetryTypes
<1>9. CASE ReadCharge(w) /\ ~Retry(w)
  <2>1. view' = [view EXCEPT ![w] = [view[w] EXCEPT !.refunded = Refunded]]
    BY <1>9 DEF ReadCharge, TypeOK, View
  <2>2. view' \in [Workers -> View]
    BY <1>1, <2>1, ViewUpdated DEF TypeOK
  <2> QED BY <1>9, <2>2 DEF ReadCharge, GoTo, TypeOK, stripe, database
<1>10. CASE ReadSubscription(w) /\ ~Retry(w)
  <2>1. view' = [view EXCEPT ![w] = [view[w] EXCEPT !.subscription = Purchased]]
    BY <1>10 DEF ReadSubscription, TypeOK, View
  <2>2. view' \in [Workers -> View]
    BY <1>1, <2>1, ViewUpdated DEF TypeOK
  <2> QED BY <1>10, <2>2 DEF ReadSubscription, GoTo, TypeOK, stripe, database
<1>11. CASE ReadIntent(w)
  BY <1>11 DEF ReadIntent, GoTo, TypeOK, stripe, database
<1> QED BY <1>2, <1>3, <1>4, <1>5, <1>6, <1>7, <1>8, <1>9, <1>10, <1>11

\* The two transactions about sales.
LEMMA SaleTypes ==
  ASSUME TypeOK, NEW w \in Workers, Fulfill(w) \/ CommitMonthly(w)
  PROVE  TypeOK'
<1>1. CASE Retry(w)
  BY <1>1, RetryTypes
<1>2. CASE ~Retry(w)
  <2>1. /\ UNCHANGED <<stripe, adjustment, older>>
        /\ MarkProcessed(w) /\ AdvanceRevision({}) /\ Leave(w)
    BY <1>2 DEF Fulfill, CommitMonthly
  <2>2. inbox' \in [Events -> {"unknown", "recorded", "processed"}]
    BY <2>1 DEF MarkProcessed, TypeOK
  <2>3. /\ order' \in {"none", "pending", "failed", "fulfilled"}
        /\ license' \in {"none", "active", "refunded", "charged_back", "revoked"}
        /\ issued' \in Nat
    <3>1. CASE Fulfill(w)
      BY <1>2, <3>1 DEF Fulfill, Issue, TypeOK
    <3>2. CASE CommitMonthly(w)
      <4>1. UnpaidOrder(w) \subseteq {order, "failed"}
        BY DEF UnpaidOrder
      <4> QED BY <1>2, <3>2, <4>1 DEF CommitMonthly, Issue, TypeOK
    <3> QED BY <3>1, <3>2
  <2> QED BY <2>1, <2>2, <2>3, LeaveTypes, AdvanceTypes DEF TypeOK, stripe
<1> QED BY <1>1, <1>2

\* The transactions about adjustments, and the cancellation between them.
LEMMA AdjustmentTypes ==
  ASSUME TypeOK, NEW w \in Workers, HasEvent(w),
         Prepare(w) \/ CancelSubscription(w) \/ CommitAdjustment(w)
  PROVE  TypeOK'
<1>1. CASE Retry(w)
  BY <1>1, RetryTypes
<1>2. CASE Prepare(w) /\ ~Retry(w)
  <2> DEFINE o == event[w].object
  <2>1. CASE Settled(w)
    <3>1. /\ UNCHANGED <<stripe, order, license, issued, adjustment, older>>
          /\ MarkProcessed(w) /\ AdvanceRevision({}) /\ Leave(w)
      BY <1>2, <2>1 DEF Prepare
    <3>2. inbox' \in [Events -> {"unknown", "recorded", "processed"}]
      BY <3>1 DEF MarkProcessed, TypeOK
    <3> QED BY <3>1, <3>2, LeaveTypes, AdvanceTypes DEF TypeOK, stripe
  <2>2. CASE ~Settled(w)
    <3>1. /\ UNCHANGED <<stripe, inbox, order, license, issued, event, view>>
          /\ AdvanceRevision({w}) /\ GoTo(w, "intent") /\ Touch(o)
          /\ adjustment' = [adjustment EXCEPT ![o] =
               [state |-> Decision(w), pending |-> TRUE,
                cancelRequired |-> \/ adjustment[o].cancelRequired
                                   \/ Decision(w) = "blocking" /\ Plan = "monthly"]]
      BY <1>2, <2>2 DEF Prepare
    <3>2. pc' \in [Workers -> Stages]
      BY <3>1 DEF GoTo, TypeOK
    <3>3. o \in Objects
      BY <1>2 DEF HasEvent, Prepare, AdjustmentStages, FirstReadStages, HydratedStages
    <3>4. Decision(w) \in {"none", "blocking", "resolved"}
      BY <2>2, <3>3 DEF Decision, Settled, TypeOK, View, Adjustment
    <3>5. adjustment' \in [Objects -> Adjustment]
      <4>1. [state |-> Decision(w), pending |-> TRUE,
             cancelRequired |-> \/ adjustment[o].cancelRequired
                                \/ Decision(w) = "blocking" /\ Plan = "monthly"] \in Adjustment
        BY <3>3, <3>4 DEF TypeOK, Adjustment
      <4> QED BY <3>1, <4>1 DEF TypeOK
    <3>6. older' \subseteq Objects \X Objects
      BY <3>1, <3>3 DEF Touch, Untouched, TypeOK
    <3> QED BY <3>1, <3>2, <3>5, <3>6, AdvanceTypes DEF TypeOK, stripe
  <2> QED BY <2>1, <2>2
<1>3. CASE CancelSubscription(w)
  <2>1. emitted' \subseteq Events
    BY <1>3 DEF CancelSubscription, TypeOK, Events
  <2> QED BY <1>3, <2>1 DEF CancelSubscription, GoTo, TypeOK, database
<1>4. CASE CommitAdjustment(w) /\ ~Retry(w)
  <2>1. /\ adjustment' = Finished(w) /\ older' = Untouched(event[w].object)
        /\ Apply(w, Finished(w)) /\ MarkProcessed(w) /\ AdvanceRevision({})
        /\ Leave(w) /\ UNCHANGED stripe
    BY <1>4 DEF CommitAdjustment
  <2>2. inbox' \in [Events -> {"unknown", "recorded", "processed"}]
    BY <2>1 DEF MarkProcessed, TypeOK
  <2>3. adjustment' \in [Objects -> Adjustment]
    BY <2>1 DEF Finished, TypeOK, Adjustment, View
  <2>4. older' \subseteq Objects \X Objects
    BY <2>1 DEF Untouched, TypeOK
  <2>5. /\ order' \in {"none", "pending", "failed", "fulfilled"}
        /\ license' \in {"none", "active", "refunded", "charged_back", "revoked"}
        /\ issued' \in Nat
    BY <2>1 DEF Apply, Issue, TypeOK
  <2> QED BY <2>1, <2>2, <2>3, <2>4, <2>5, LeaveTypes, AdvanceTypes DEF TypeOK, stripe
<1> QED BY <1>1, <1>2, <1>3, <1>4

\* Every step of the specification preserves TypeOK.
LEMMA BillingTypeStep ==
  ASSUME TypeOK, \A w \in Workers : HasEvent(w), [Next]_vars
  PROVE  TypeOK'
<1>1. ASSUME NEW w \in Workers, Work(w) PROVE TypeOK'
  BY <1>1, ReadingTypes, SaleTypes, AdjustmentTypes DEF Work
<1>2. ASSUME NEW w \in Workers, Fail(w) PROVE TypeOK'
  BY <1>2, RetryTypes DEF Fail
<1>3. CASE UNCHANGED vars
  BY <1>3 DEF vars, TypeOK
<1> QED BY <1>1, <1>2, <1>3, EnvironmentTypes, ReceiveTypes DEF Next

-----------------------------------------------------------------------------
(* What a handler knows *)

\* A step that leaves handler w alone, or only takes its revision away.
Undisturbed(w) ==
  /\ pc'[w] = pc[w] /\ event'[w] = event[w] /\ view'[w] = view[w]
  /\ fresh'[w] => fresh[w] /\ UNCHANGED adjustment
  /\ subscription = "canceled" => subscription' = "canceled"
  /\ \A e \in Events : e.object \in Objects /\ inbox[e] # "unknown" => inbox'[e] # "unknown"

\* What a handler knows stays true while nobody else invalidates its revision.
LEMMA HandlerKept ==
  ASSUME NEW w \in Workers, HandlerInv(w), Undisturbed(w)
  PROVE  HandlerInv(w)'
<1>1. HasEvent(w)'
  BY DEF HandlerInv, Undisturbed, HasEvent
<1>2. HasSubscription(w)'
  BY DEF HandlerInv, Undisturbed, HasSubscription
<1>3. CoversBlocks(w)'
  BY DEF HandlerInv, Undisturbed, CoversBlocks
<1>4. Decided(w)'
  BY DEF HandlerInv, Undisturbed, Decided
<1>5. MayCommit(w)'
  BY DEF HandlerInv, Undisturbed, MayCommit, CanBill
<1> QED BY <1>1, <1>2, <1>3, <1>4, <1>5 DEF HandlerInv

\* An idle handler claims nothing.
LEMMA HandlerIdle ==
  ASSUME NEW w \in Workers, pc'[w] = "idle"
  PROVE  HandlerInv(w)'
BY DEF HandlerInv, HasEvent, HasSubscription, CoversBlocks, Decided, MayCommit,
       SaleStages, AdjustmentStages, FirstReadStages, HydratedStages

\* Before Stripe's objects are read only the event is known.
LEMMA HandlerStarts ==
  ASSUME NEW w \in Workers, HasEvent(w)',
         pc'[w] \in SaleStages \cup FirstReadStages
  PROVE  HandlerInv(w)'
BY DEF HandlerInv, HasSubscription, CoversBlocks, Decided, MayCommit,
       SaleStages, FirstReadStages, HydratedStages

\* Giving up an attempt disturbs nobody.
LEMMA RetryHandlers ==
  ASSUME TypeOK, \A v \in Workers : HandlerInv(v), NEW w \in Workers, Retry(w)
  PROVE  \A v \in Workers : HandlerInv(v)'
<1> TAKE v \in Workers
<1>1. CASE v = w
  BY <1>1, HandlerIdle DEF Retry, Leave, TypeOK
<1>2. CASE v # w
  <2>1. Undisturbed(v)
    BY <1>2 DEF Undisturbed, Retry, Leave, TypeOK, stripe, database
  <2> QED BY <2>1, HandlerKept
<1> QED BY <1>1, <1>2

\* A transaction that processes its event leaves no other revision current.
LEMMA CommitHandlers ==
  ASSUME TypeOK, \A v \in Workers : HandlerInv(v), NEW w \in Workers,
         Leave(w), MarkProcessed(w), AdvanceRevision({}), UNCHANGED stripe
  PROVE  \A v \in Workers : HandlerInv(v)'
<1> TAKE v \in Workers
<1>1. CASE v = w
  BY <1>1, HandlerIdle DEF Leave, TypeOK
<1>2. CASE v # w
  <2>1. pc'[v] = pc[v] /\ event'[v] = event[v] /\ view'[v] = view[v] /\ ~fresh'[v]
    BY <1>2 DEF Leave, AdvanceRevision, TypeOK
  <2>2. ASSUME NEW e \in Events, inbox[e] # "unknown" PROVE inbox'[e] # "unknown"
    BY <2>2 DEF MarkProcessed, TypeOK
  <2>3. Undisturbed(v)
    BY <2>1, <2>2 DEF Undisturbed, stripe
  <2> QED BY <2>3, HandlerKept
<1> QED BY <1>1, <1>2

\* Stripe and the operator do not touch handlers; a canceled Subscription stays so.
LEMMA EnvironmentHandlers ==
  ASSUME TypeOK, \A v \in Workers : HandlerInv(v), Environment
  PROVE  \A v \in Workers : HandlerInv(v)'
<1>1. UNCHANGED <<pc, event, view, fresh, inbox, adjustment>>
  BY DEF Environment, Checkout, ObjectMoves, SubscriptionMoves, Revoke, database, workers
<1>2. subscription = "canceled" => subscription' = "canceled"
  BY DEF Environment, Checkout, ObjectMoves, SubscriptionMoves, Revoke, stripe
<1> TAKE v \in Workers
<1>3. Undisturbed(v)
  BY <1>1, <1>2 DEF Undisturbed
<1> QED BY <1>3, HandlerKept

\* Events about disputes and refunds go to the adjustment stages, all others to
\* the sale stages.
LEMMA ReceiveHandlers ==
  ASSUME TypeOK, \A v \in Workers : HandlerInv(v),
         \/ \E w \in Handlers, e \in Events : Deliver(w, e)
         \/ \E w \in Reconcilers : Reconcile(w)
         \/ NextDay
         \/ Repair
  PROVE  \A v \in Workers : HandlerInv(v)'
<1> TAKE v \in Workers
<1> USE DEF Undisturbed
<1>1. ASSUME NEW w \in Handlers, NEW e \in Events, Deliver(w, e)
      PROVE  HandlerInv(v)'
  <2>1. CASE v = w
    <3>1. event'[w] = e /\ pc'[w] = Route(e) /\ inbox'[e] = "recorded"
      BY <1>1 DEF Deliver, GoTo, TypeOK
    <3>2. HasEvent(w)'
      BY <3>1, SessionAssumption
      DEF HasEvent, Route, Objects, SaleStages, AdjustmentStages, FirstReadStages,
          HydratedStages
    <3>3. pc'[w] \in SaleStages \cup {"identify"}
      BY <3>1 DEF Route, SaleStages
    <3> QED BY <2>1, <3>2, <3>3, HandlerStarts DEF FirstReadStages
  <2>2. CASE v # w
    BY <1>1, <2>2, HandlerKept DEF Deliver, GoTo, TypeOK, stripe
  <2> QED BY <2>1, <2>2
<1>2. ASSUME NEW w \in Reconcilers, Reconcile(w)
      PROVE  HandlerInv(v)'
  <2>1. CASE v = w
    <3>1. event'[w].object = "session" /\ pc'[w] = "retrieve"
      BY <1>2 DEF Reconcile, GoTo, TypeOK, Ev
    <3>2. HasEvent(w)'
      BY <3>1, SessionAssumption
      DEF HasEvent, AdjustmentStages, FirstReadStages, HydratedStages, Objects
    <3> QED BY <2>1, <3>1, <3>2, HandlerStarts DEF SaleStages
  <2>2. CASE v # w
    BY <1>2, <2>2, HandlerKept DEF Reconcile, GoTo, TypeOK, stripe
  <2> QED BY <2>1, <2>2
<1>3. CASE NextDay
  <2>1. ASSUME NEW e \in Events, e.object \in Objects PROVE inbox'[e] = inbox[e]
    BY <1>3, <2>1, SessionAssumption DEF NextDay, TypeOK, Ev, Objects
  <2> QED BY <1>3, <2>1, HandlerKept DEF NextDay, stripe
<1>4. CASE Repair
  <2>1. CASE v = Repairer
    <3>1. PICK o \in Objects, e \in Events :
            /\ e.object = o /\ inbox[e] = "recorded"
            /\ event' = [event EXCEPT ![Repairer] = e]
            /\ GoTo(Repairer, "identify") /\ UNCHANGED <<stripe, database, view, fresh>>
      BY <1>4 DEF Repair
    <3>2. event'[v] = e /\ pc'[v] = "identify" /\ inbox'[e] = "recorded"
      BY <2>1, <3>1 DEF GoTo, TypeOK, database
    <3>3. HasEvent(v)'
      BY <3>1, <3>2 DEF HasEvent, SaleStages
    <3> QED BY <3>2, <3>3, HandlerStarts DEF FirstReadStages
  <2>2. CASE v # Repairer
    BY <1>4, <2>2, HandlerKept DEF Repair, GoTo, TypeOK, stripe, database
  <2> QED BY <2>1, <2>2
<1> QED BY <1>1, <1>2, <1>3, <1>4

\* A handler that takes a step of its own leaves the others undisturbed.
LEMMA OthersUndisturbed ==
  ASSUME TypeOK, NEW w \in Workers, NEW v \in Workers, v # w,
         \/ Retrieve(w) \/ ReadMonthlyOrder(w) \/ HydrateMonthly(w) \/ ReadInvoices(w)
         \/ Identify(w) \/ Hydrate(w)
         \/ (ReadCharge(w) /\ ~Retry(w)) \/ (ReadSubscription(w) /\ ~Retry(w))
         \/ ReadIntent(w) \/ CancelSubscription(w)
  PROVE  Undisturbed(v)
<1> USE DEF Undisturbed, GoTo, TypeOK
<1>1. CASE Retrieve(w)
  BY <1>1 DEF Retrieve, stripe
<1>2. CASE ReadMonthlyOrder(w)
  BY <1>2 DEF ReadMonthlyOrder, stripe
<1>3. CASE HydrateMonthly(w)
  BY <1>3 DEF HydrateMonthly, stripe, database
<1>4. CASE Identify(w)
  BY <1>4 DEF Identify, stripe
<1>5. CASE Hydrate(w)
  BY <1>5 DEF Hydrate, stripe, database
<1>6. CASE ReadInvoices(w)
  BY <1>6 DEF ReadInvoices, stripe, database
<1>7. CASE ReadCharge(w) /\ ~Retry(w)
  BY <1>7 DEF ReadCharge, stripe, database
<1>8. CASE ReadSubscription(w) /\ ~Retry(w)
  BY <1>8 DEF ReadSubscription, stripe, database
<1>9. CASE ReadIntent(w)
  BY <1>9 DEF ReadIntent, stripe, database
<1>10. CASE CancelSubscription(w)
  BY <1>10 DEF CancelSubscription, database
<1> QED BY <1>1, <1>2, <1>3, <1>4, <1>5, <1>6, <1>7, <1>8, <1>9, <1>10

\* The stages of a sale, and finding the purchase of an adjustment.
LEMMA StartingHandler ==
  ASSUME TypeOK, NEW w \in Workers, HandlerInv(w),
         \/ Retrieve(w) \/ ReadMonthlyOrder(w) \/ HydrateMonthly(w) \/ ReadInvoices(w)
         \/ Identify(w)
  PROVE  HandlerInv(w)'
<1> USE DEF GoTo, TypeOK, SaleStages, AdjustmentStages, FirstReadStages, HydratedStages
<1>1. HasEvent(w)'
  BY DEF HandlerInv, HasEvent, Retrieve, ReadMonthlyOrder, HydrateMonthly, ReadInvoices,
         Identify, database
<1>2. pc'[w] \in SaleStages \cup {"hydrate"}
  BY DEF Retrieve, ReadMonthlyOrder, HydrateMonthly, ReadInvoices, Identify
<1> QED BY <1>1, <1>2, HandlerStarts

\* Reading the dispute or refund and the Charge says nothing about the Subscription.
LEMMA HydratingHandler ==
  ASSUME TypeOK, NEW w \in Workers, HandlerInv(w),
         Hydrate(w) \/ (ReadCharge(w) /\ ~Retry(w))
  PROVE  HandlerInv(w)'
<1> USE DEF SaleStages, AdjustmentStages, FirstReadStages, HydratedStages
<1>1. /\ UNCHANGED <<event, fresh, inbox, adjustment, subscription>>
      /\ view'[w].subscription = view[w].subscription
      /\ \/ pc[w] = "hydrate" /\ pc'[w] = "readCharge"
         \/ pc[w] = "readCharge" /\ pc'[w] = "readSubscription"
         \/ pc[w] = "rehydrate" /\ pc'[w] = "rereadCharge"
         \/ pc[w] = "rereadCharge" /\ pc'[w] = "rereadSubscription"
  <2>1. CASE Hydrate(w)
    BY <2>1 DEF Hydrate, GoTo, TypeOK, View, stripe, database
  <2>2. CASE ReadCharge(w) /\ ~Retry(w)
    <3>1. view'[w] = [view[w] EXCEPT !.refunded = Refunded] /\ view[w] \in View
      BY <2>2 DEF ReadCharge, TypeOK
    <3>2. view'[w].subscription = view[w].subscription
      BY <3>1 DEF View
    <3> QED BY <2>2, <3>2 DEF ReadCharge, GoTo, TypeOK, stripe, database
  <2> QED BY <2>1, <2>2
<1>2. HasEvent(w)'
  BY <1>1 DEF HandlerInv, HasEvent
<1>3. HasSubscription(w)'
  BY <1>1 DEF HandlerInv, HasSubscription
<1>4. CoversBlocks(w)'
  BY <1>1 DEF HandlerInv, CoversBlocks
<1>5. Decided(w)' /\ MayCommit(w)'
  BY <1>1 DEF Decided, MayCommit
<1> QED BY <1>2, <1>3, <1>4, <1>5 DEF HandlerInv

\* The Subscription read now covers every block that was recorded before, and
\* after a cancellation it must have stopped billing.
LEMMA SubscriptionHandler ==
  ASSUME TypeOK, CanceledWhenBlocked, NEW w \in Workers, HandlerInv(w),
         ReadSubscription(w), ~Retry(w)
  PROVE  HandlerInv(w)'
<1> USE DEF SaleStages, AdjustmentStages, FirstReadStages, HydratedStages
<1>1. /\ UNCHANGED <<event, fresh, inbox, adjustment, subscription>>
      /\ view'[w].subscription = Purchased
      /\ \/ pc[w] = "readSubscription" /\ pc'[w] = "prepare"
         \/ pc[w] = "rereadSubscription" /\ pc'[w] = "commit" /\ ~CanBill(Purchased)
  <2>1. view'[w] = [view[w] EXCEPT !.subscription = Purchased] /\ view[w] \in View
    BY DEF ReadSubscription, TypeOK
  <2>2. view'[w].subscription = Purchased
    BY <2>1 DEF View
  <2> QED BY <2>2 DEF ReadSubscription, GoTo, TypeOK, stripe, database
<1>2. HasEvent(w)'
  BY <1>1 DEF HandlerInv, HasEvent
<1>3. HasSubscription(w)'
  BY <1>1, PlanAssumption DEF HasSubscription, Purchased, TypeOK
<1>4. CoversBlocks(w)'
  BY <1>1 DEF CoversBlocks, CanceledWhenBlocked, Purchased
<1>5. Decided(w)' /\ MayCommit(w)'
  BY <1>1 DEF Decided, MayCommit, CanBill
<1> QED BY <1>2, <1>3, <1>4, <1>5 DEF HandlerInv

\* A handler that finds no intent finds no block either, unless the Subscription
\* has ended.
LEMMA IntendingHandler ==
  ASSUME TypeOK, NEW w \in Workers, HandlerInv(w),
         ReadIntent(w) \/ CancelSubscription(w)
  PROVE  HandlerInv(w)'
<1> USE DEF SaleStages, AdjustmentStages, FirstReadStages, HydratedStages
<1>1. /\ UNCHANGED <<event, fresh, inbox, adjustment, view>>
      /\ pc[w] \in {"intent", "cancel"}
      /\ pc'[w] \in {"commit", "cancel", "rehydrate"}
      /\ subscription = "canceled" => subscription' = "canceled"
  BY DEF ReadIntent, CancelSubscription, GoTo, TypeOK, stripe, database
<1>2. HasEvent(w)'
  BY <1>1 DEF HandlerInv, HasEvent
<1>3. HasSubscription(w)'
  BY <1>1 DEF HandlerInv, HasSubscription
<1>4. CoversBlocks(w)'
  BY <1>1 DEF HandlerInv, CoversBlocks
<1>5. Decided(w)'
  BY <1>1 DEF Decided
<1>6. ASSUME pc'[w] = "commit", fresh[w], CanBill(view[w].subscription)
      PROVE  /\ view[w].state # "blocking"
             /\ \A o \in Objects : adjustment[o].state # "blocking" /\ ~adjustment[o].cancelRequired
  <2>1. pc[w] = "intent" /\ (Plan = "perpetual_v1" \/ \A o \in Objects : ~adjustment[o].cancelRequired)
    BY <1>1, <1>6 DEF ReadIntent, CancelSubscription, GoTo, TypeOK
  <2>2. Plan = "monthly" /\ view[w].subscription # "canceled"
    BY <1>6, <2>1, PlanAssumption DEF HandlerInv, HasSubscription, CanBill
  <2>3. \A o \in Objects : adjustment[o].state # "blocking" /\ ~adjustment[o].cancelRequired
    BY <1>6, <2>1, <2>2 DEF HandlerInv, CoversBlocks
  <2>4. view[w].state # "blocking"
    BY <1>6, <2>1, <2>3 DEF HandlerInv, Decided, HasEvent
  <2> QED BY <2>3, <2>4
<1>7. MayCommit(w)'
  BY <1>1, <1>6 DEF MayCommit, CanBill
<1> QED BY <1>2, <1>3, <1>4, <1>5, <1>7 DEF HandlerInv

\* Persisting a decision: the handler goes on with the new revision, and a new
\* block of a monthly purchase carries its intent.
LEMMA PreparingHandlers ==
  ASSUME TypeOK, \A v \in Workers : HandlerInv(v), NEW w \in Workers, Prepare(w)
  PROVE  \A v \in Workers : HandlerInv(v)'
<1> USE DEF SaleStages, AdjustmentStages, FirstReadStages, HydratedStages
<1> DEFINE o == event[w].object
           a == adjustment[o]
<1>1. CASE Retry(w)
  BY <1>1, RetryHandlers
<1>2. CASE ~Retry(w) /\ Settled(w)
  BY <1>2, CommitHandlers DEF Prepare, stripe
<1>3. CASE ~Retry(w) /\ ~Settled(w)
  <2>1. /\ pc[w] = "prepare" /\ fresh[w]
        /\ UNCHANGED <<stripe, inbox, event, view>>
        /\ AdvanceRevision({w}) /\ GoTo(w, "intent")
        /\ adjustment' = [adjustment EXCEPT ![o] =
             [state |-> Decision(w), pending |-> TRUE,
              cancelRequired |-> \/ a.cancelRequired
                                 \/ Decision(w) = "blocking" /\ Plan = "monthly"]]
    BY <1>3 DEF Prepare
  <2>2. o \in Objects
    BY <2>1 DEF HandlerInv, HasEvent
  <2>3. ASSUME NEW v \in Workers, v # w PROVE HandlerInv(v)'
    <3>1. Undisturbed(v)
      BY <2>1, <2>3 DEF Undisturbed, AdvanceRevision, GoTo, TypeOK, stripe
    <3> QED BY <3>1, HandlerKept
  <2>4. pc'[w] = "intent" /\ view'[w] = view[w] /\ event'[w] = event[w]
    BY <2>1 DEF GoTo, TypeOK
  <2>5. /\ adjustment'[o].state = Decision(w)
        /\ Decision(w) = "blocking" /\ Plan = "monthly" => adjustment'[o].cancelRequired
        /\ \A q \in Objects \ {o} : adjustment'[q] = adjustment[q]
    BY <2>1, <2>2 DEF TypeOK
  <2>6. HasEvent(w)'
    BY <2>1, <2>4 DEF HandlerInv, HasEvent
  <2>7. HasSubscription(w)'
    BY <2>1, <2>4 DEF HandlerInv, HasSubscription, stripe
  <2>8. CoversBlocks(w)'
    BY <2>1, <2>4, <2>5 DEF HandlerInv, CoversBlocks
  <2>9. Decided(w)'
    BY <2>4, <2>5 DEF Decided, Decision
  <2>10. MayCommit(w)'
    BY <2>4 DEF MayCommit
  <2> QED BY <2>3, <2>6, <2>7, <2>8, <2>9, <2>10 DEF HandlerInv
<1> QED BY <1>1, <1>2, <1>3

\* Every step keeps what the handlers know.
LEMMA HandlerStep ==
  ASSUME TypeOK, CanceledWhenBlocked, \A v \in Workers : HandlerInv(v), [Next]_vars
  PROVE  \A v \in Workers : HandlerInv(v)'
<1>1. ASSUME NEW w \in Workers,
             \/ Retrieve(w) \/ ReadMonthlyOrder(w) \/ HydrateMonthly(w) \/ ReadInvoices(w)
             \/ Identify(w) \/ Hydrate(w)
             \/ (ReadCharge(w) /\ ~Retry(w)) \/ (ReadSubscription(w) /\ ~Retry(w))
             \/ ReadIntent(w) \/ CancelSubscription(w)
      PROVE  \A v \in Workers : HandlerInv(v)'
  <2>1. HandlerInv(w)'
    BY <1>1, StartingHandler, HydratingHandler, SubscriptionHandler, IntendingHandler
  <2>2. ASSUME NEW v \in Workers, v # w PROVE HandlerInv(v)'
    <3>1. Undisturbed(v)
      BY <1>1, <2>2, OthersUndisturbed
    <3> QED BY <3>1, HandlerKept
  <2> QED BY <2>1, <2>2
<1>2. ASSUME NEW w \in Workers, Retry(w)
      PROVE  \A v \in Workers : HandlerInv(v)'
  BY <1>2, RetryHandlers
<1>3. ASSUME NEW w \in Workers, Fulfill(w) \/ CommitMonthly(w) \/ CommitAdjustment(w)
      PROVE  \A v \in Workers : HandlerInv(v)'
  <2>1. CASE Retry(w)
    BY <2>1, RetryHandlers
  <2>2. CASE ~Retry(w)
    <3>1. Leave(w) /\ MarkProcessed(w) /\ AdvanceRevision({}) /\ UNCHANGED stripe
      BY <1>3, <2>2 DEF Fulfill, CommitMonthly, CommitAdjustment
    <3> QED BY <3>1, CommitHandlers
  <2> QED BY <2>1, <2>2
<1>4. ASSUME NEW w \in Workers, Fail(w)
      PROVE  \A v \in Workers : HandlerInv(v)'
  BY <1>4, RetryHandlers DEF Fail
<1>5. CASE UNCHANGED vars
  <2> TAKE v \in Workers
  <2>1. Undisturbed(v)
    BY <1>5 DEF vars, Undisturbed
  <2> QED BY <2>1, HandlerKept
<1> QED BY <1>1, <1>2, <1>3, <1>4, <1>5, PreparingHandlers, EnvironmentHandlers,
          ReceiveHandlers DEF Next, Work

-----------------------------------------------------------------------------
(* What the database promises *)

\* A step that leaves licenses and adjustments alone keeps all that is said
\* about them.
LEMMA DatabaseKept ==
  ASSUME DatabaseInv, UNCHANGED <<license, issued, adjustment>>,
         order = "fulfilled" => order' = "fulfilled",
         subscription = "canceled" => subscription' = "canceled",
         \A e \in Events : e.object \in Objects /\ inbox[e] = "recorded" => inbox'[e] = "recorded"
  PROVE  DatabaseInv'
<1>1. LicenseCounted'
  BY DEF DatabaseInv, LicenseCounted
<1>2. SettledBlockRestricts'
  BY DEF DatabaseInv, SettledBlockRestricts
<1>3. RestrictedIsNotBilled'
  BY DEF DatabaseInv, RestrictedIsNotBilled
<1>4. CanceledWhenBlocked'
  BY DEF DatabaseInv, CanceledWhenBlocked
<1>5. IntentIsMonthly'
  BY DEF DatabaseInv, IntentIsMonthly
<1>6. PendingIsRetryable'
  BY DEF DatabaseInv, PendingIsRetryable
<1> QED BY <1>1, <1>2, <1>3, <1>4, <1>5, <1>6 DEF DatabaseInv

\* The environment.  A revocation is neither active nor a restriction.
LEMMA EnvironmentDatabase ==
  ASSUME TypeOK, DatabaseInv, Environment
  PROVE  DatabaseInv'
<1>1. CASE ~Revoke
  <2>1. UNCHANGED <<license, issued, adjustment, order, inbox>>
    BY <1>1 DEF Environment, Checkout, ObjectMoves, SubscriptionMoves, database
  <2>2. subscription = "canceled" => subscription' = "canceled"
    BY <1>1 DEF Environment, Checkout, ObjectMoves, SubscriptionMoves
  <2> QED BY <2>1, <2>2, DatabaseKept
<1>2. CASE Revoke
  <2>1. /\ license # "none" /\ license' = "revoked"
        /\ UNCHANGED <<subscription, inbox, order, issued, adjustment>>
    BY <1>2 DEF Revoke, stripe
  <2>2. LicenseCounted' /\ SettledBlockRestricts' /\ RestrictedIsNotBilled'
    BY <2>1 DEF DatabaseInv, LicenseCounted, SettledBlockRestricts, RestrictedIsNotBilled
  <2>3. CanceledWhenBlocked' /\ IntentIsMonthly' /\ PendingIsRetryable'
    BY <2>1 DEF DatabaseInv, CanceledWhenBlocked, IntentIsMonthly, PendingIsRetryable
  <2> QED BY <2>2, <2>3 DEF DatabaseInv
<1> QED BY <1>1, <1>2

\* Steps that record an event, read, give up or cancel the Subscription.
LEMMA QuietDatabase ==
  ASSUME TypeOK, DatabaseInv,
         \/ \E w \in Handlers, e \in Events : Deliver(w, e)
         \/ \E w \in Reconcilers : Reconcile(w)
         \/ NextDay
         \/ Repair
         \/ \E w \in Workers :
              \/ Retrieve(w) \/ ReadMonthlyOrder(w) \/ HydrateMonthly(w) \/ ReadInvoices(w)
              \/ Identify(w) \/ Hydrate(w) \/ ReadCharge(w) \/ ReadSubscription(w)
              \/ ReadIntent(w) \/ CancelSubscription(w) \/ Retry(w)
         \/ UNCHANGED vars
  PROVE  DatabaseInv'
<1>1. UNCHANGED <<license, issued, adjustment>>
  BY DEF Deliver, Reconcile, NextDay, Repair, Retrieve, ReadMonthlyOrder, HydrateMonthly,
         ReadInvoices, Identify, Hydrate, ReadCharge, ReadSubscription, ReadIntent,
         CancelSubscription, Retry, stripe, database, vars
<1>2. order = "fulfilled" => order' = "fulfilled"
  BY DEF Deliver, Reconcile, NextDay, Repair, Retrieve, ReadMonthlyOrder, HydrateMonthly,
         ReadInvoices, Identify, Hydrate, ReadCharge, ReadSubscription, ReadIntent,
         CancelSubscription, Retry, EnsureOrder, stripe, database, vars
<1>3. subscription = "canceled" => subscription' = "canceled"
  BY DEF Deliver, Reconcile, NextDay, Repair, Retrieve, ReadMonthlyOrder, HydrateMonthly,
         ReadInvoices, Identify, Hydrate, ReadCharge, ReadSubscription, ReadIntent,
         CancelSubscription, Retry, stripe, database, vars
<1>4. ASSUME NEW e \in Events, e.object \in Objects, inbox[e] = "recorded"
      PROVE  inbox'[e] = "recorded"
  <2>1. ASSUME NEW w \in Handlers, NEW f \in Events, Deliver(w, f)
        PROVE  inbox'[e] = "recorded"
    BY <1>4, <2>1 DEF Deliver, TypeOK
  <2>2. ASSUME NEW w \in Reconcilers, Reconcile(w)
        PROVE  inbox'[e] = "recorded"
    BY <1>4, <2>2 DEF Reconcile, TypeOK
  <2>3. CASE NextDay
    BY <1>4, <2>3, SessionAssumption DEF NextDay, Ev, Objects, TypeOK
  <2>4. ASSUME NEW w \in Workers,
               \/ Retrieve(w) \/ ReadMonthlyOrder(w) \/ HydrateMonthly(w) \/ ReadInvoices(w)
               \/ Identify(w) \/ Hydrate(w) \/ ReadCharge(w) \/ ReadSubscription(w)
               \/ ReadIntent(w) \/ CancelSubscription(w) \/ Retry(w)
        PROVE  inbox'[e] = "recorded"
    BY <1>4, <2>4
    DEF Retrieve, ReadMonthlyOrder, HydrateMonthly, ReadInvoices, Identify, Hydrate,
        ReadCharge, ReadSubscription, ReadIntent, CancelSubscription, Retry, database
  <2>5. CASE Repair \/ UNCHANGED vars
    BY <1>4, <2>5 DEF Repair, database, vars
  <2> QED BY <2>1, <2>2, <2>3, <2>4, <2>5
<1> QED BY <1>1, <1>2, <1>3, <1>4, DatabaseKept

\* The two transactions about sales give a license only to a purchase that has
\* none, and only while nothing blocks.
LEMMA SaleDatabase ==
  ASSUME TypeOK, DatabaseInv, NEW w \in Workers, HasEvent(w),
         Fulfill(w) \/ CommitMonthly(w)
  PROVE  DatabaseInv'
<1>1. CASE Retry(w)
  BY <1>1, QuietDatabase
<1>2. CASE ~Retry(w)
  <2>1. /\ UNCHANGED <<subscription, adjustment>>
        /\ MarkProcessed(w)
        /\ pc[w] \in {"fulfill", "commitMonthly"}
    BY <1>2 DEF Fulfill, CommitMonthly, stripe
  <2>2. \/ ~Blocked /\ license = "none" /\ Issue
        \/ license' = license /\ issued' = issued /\ (order' = order \/ license = "none")
    <3>1. CASE Fulfill(w)
      BY <1>2, <3>1 DEF Fulfill, Unfulfilled, DatabaseInv, LicenseCounted
    <3>2. CASE CommitMonthly(w)
      BY <1>2, <3>2 DEF CommitMonthly
    <3> QED BY <3>1, <3>2
  <2>3. LicenseCounted'
    BY <2>2 DEF DatabaseInv, LicenseCounted, Issue
  <2>4. SettledBlockRestricts'
    BY <2>1, <2>2 DEF DatabaseInv, SettledBlockRestricts, Issue, Blocked
  <2>5. RestrictedIsNotBilled'
    BY <2>1, <2>2 DEF DatabaseInv, RestrictedIsNotBilled, Issue
  <2>6. CanceledWhenBlocked' /\ IntentIsMonthly'
    BY <2>1 DEF DatabaseInv, CanceledWhenBlocked, IntentIsMonthly
  <2>7. event[w].object \notin Objects
    BY <2>1 DEF HasEvent, SaleStages
  <2>8. PendingIsRetryable'
    <3>1. ASSUME NEW e \in Events, e.object \in Objects PROVE inbox'[e] = inbox[e]
      BY <2>1, <2>7, <3>1 DEF MarkProcessed, TypeOK
    <3> QED BY <2>1, <3>1 DEF DatabaseInv, PendingIsRetryable
  <2> QED BY <2>3, <2>4, <2>5, <2>6, <2>8 DEF DatabaseInv
<1> QED BY <1>1, <1>2

\* A decision is persisted as pending, with an event that is still to be
\* processed; an event is dropped only when nothing of its object is pending.
LEMMA PrepareDatabase ==
  ASSUME TypeOK, DatabaseInv, NEW w \in Workers, HandlerInv(w), Prepare(w)
  PROVE  DatabaseInv'
<1> USE DEF AdjustmentStages, FirstReadStages, HydratedStages
<1> DEFINE o == event[w].object
           a == adjustment[o]
<1>1. CASE Retry(w)
  BY <1>1, QuietDatabase
<1>2. event[w] \in Events /\ o \in Objects /\ inbox[event[w]] # "unknown"
  BY DEF Prepare, HandlerInv, HasEvent
<1>3. CASE ~Retry(w) /\ Settled(w)
  <2>1. UNCHANGED <<stripe, order, license, issued, adjustment>> /\ MarkProcessed(w)
    BY <1>3 DEF Prepare
  <2>2. ~a.pending
    BY <1>2, <1>3 DEF Settled, Decision, TypeOK, Adjustment
  <2>3. PendingIsRetryable'
    <3> SUFFICES ASSUME NEW q \in Objects, adjustment[q].pending
                 PROVE  \E e \in Events : e.object = q /\ inbox'[e] = "recorded"
      BY <2>1 DEF PendingIsRetryable
    <3>1. PICK e \in Events : e.object = q /\ inbox[e] = "recorded"
      BY DEF DatabaseInv, PendingIsRetryable
    <3>2. e # event[w]
      BY <2>2, <3>1
    <3> QED BY <2>1, <3>1, <3>2 DEF MarkProcessed, TypeOK
  <2>4. /\ LicenseCounted' /\ SettledBlockRestricts' /\ RestrictedIsNotBilled'
        /\ CanceledWhenBlocked' /\ IntentIsMonthly'
    BY <2>1 DEF DatabaseInv, LicenseCounted, SettledBlockRestricts, RestrictedIsNotBilled,
                CanceledWhenBlocked, IntentIsMonthly, stripe
  <2> QED BY <2>3, <2>4 DEF DatabaseInv
<1>4. CASE ~Retry(w) /\ ~Settled(w)
  <2>1. /\ ~Processed(w)
        /\ UNCHANGED <<stripe, inbox, order, license, issued>>
        /\ adjustment' = [adjustment EXCEPT ![o] =
             [state |-> Decision(w), pending |-> TRUE,
              cancelRequired |-> \/ a.cancelRequired
                                 \/ Decision(w) = "blocking" /\ Plan = "monthly"]]
    BY <1>4 DEF Prepare
  <2>2. /\ adjustment'[o].state = Decision(w)
        /\ adjustment'[o].pending
        /\ adjustment'[o].cancelRequired <=>
             \/ a.cancelRequired
             \/ Decision(w) = "blocking" /\ Plan = "monthly"
        /\ \A q \in Objects \ {o} : adjustment'[q] = adjustment[q]
    BY <1>2, <2>1 DEF TypeOK
  <2>3. LicenseCounted' /\ RestrictedIsNotBilled'
    BY <2>1 DEF DatabaseInv, LicenseCounted, RestrictedIsNotBilled, stripe
  <2>4. SettledBlockRestricts'
    BY <2>1, <2>2 DEF DatabaseInv, SettledBlockRestricts
  <2>5. CanceledWhenBlocked'
    BY <2>1, <2>2 DEF DatabaseInv, CanceledWhenBlocked, stripe
  <2>6. IntentIsMonthly'
    BY <2>1, <2>2 DEF DatabaseInv, IntentIsMonthly
  <2>7. PendingIsRetryable'
    <3>1. inbox[event[w]] = "recorded"
      BY <1>2, <2>1 DEF Processed, TypeOK
    <3> QED BY <1>2, <2>1, <2>2, <3>1 DEF DatabaseInv, PendingIsRetryable
  <2> QED BY <2>3, <2>4, <2>5, <2>6, <2>7 DEF DatabaseInv
<1> QED BY <1>1, <1>3, <1>4

\* With a Subscription that can bill nothing is left to restrict; otherwise the
\* license is restricted together with the rows, and their intents are dropped.
LEMMA CommitDatabase ==
  ASSUME TypeOK, DatabaseInv, NEW w \in Workers, HandlerInv(w), CommitAdjustment(w)
  PROVE  DatabaseInv'
<1> USE DEF AdjustmentStages, FirstReadStages, HydratedStages
<1> DEFINE o == event[w].object
           can == CanBill(view[w].subscription)
           blocking == {q \in Objects : adjustment'[q].state = "blocking"}
<1>1. CASE Retry(w)
  BY <1>1, QuietDatabase
<1>2. CASE ~Retry(w)
  <2>1. /\ pc[w] = "commit" /\ fresh[w]
        /\ adjustment' = Finished(w) /\ Apply(w, Finished(w))
        /\ MarkProcessed(w) /\ UNCHANGED stripe
    BY <1>2 DEF CommitAdjustment
  <2>2. event[w] \in Events /\ o \in Objects
    BY <2>1 DEF HandlerInv, HasEvent
  <2>3. ASSUME NEW q \in Objects
        PROVE  /\ adjustment'[q].state = "blocking" =>
                    adjustment[q].state = "blocking" \/ view[w].state = "blocking"
               /\ adjustment'[q].pending => q # o /\ adjustment[q].pending
               /\ adjustment'[q].cancelRequired =>
                    adjustment[q].cancelRequired /\ (Plan # "monthly" \/ can)
               /\ q # o => /\ adjustment'[q].state = adjustment[q].state
                           /\ adjustment'[q].pending = adjustment[q].pending
               /\ adjustment'[q].state = "blocking" /\ q # o => adjustment[q].state = "blocking"
    BY <2>1 DEF Finished, TypeOK, Adjustment
  <2>4. can => blocking = {} /\ \A q \in Objects : ~adjustment[q].cancelRequired
    BY <2>1, <2>3 DEF HandlerInv, MayCommit
  <2>5. Plan = "monthly" /\ ~can => subscription = "canceled"
    BY <2>1 DEF HandlerInv, HasSubscription, CanBill, TypeOK, View
  <2>6. \A q \in Objects : ~adjustment'[q].cancelRequired
    BY <2>3, <2>4 DEF DatabaseInv, IntentIsMonthly
  <2>7. \/ /\ ~can /\ blocking # {} /\ license # "revoked"
           /\ \/ license = "none" /\ UNCHANGED <<license, issued>>
              \/ /\ license # "none" /\ license' \in {"refunded", "charged_back"}
                 /\ UNCHANGED <<order, issued>>
        \/ blocking = {} /\ license = "none" /\ Issue
        \/ /\ blocking = {} /\ license = "charged_back" /\ license' = "active"
           /\ UNCHANGED <<order, issued>>
        \/ /\ can \/ blocking = {} \/ license = "revoked"
           /\ UNCHANGED <<order, license, issued>>
    BY <2>1 DEF Apply, Final
  <2>8. LicenseCounted'
    BY <2>7 DEF DatabaseInv, LicenseCounted, Issue
  <2>9. SettledBlockRestricts'
    <3> SUFFICES ASSUME NEW q \in Objects, adjustment'[q].state = "blocking"
                 PROVE  license' # "active"
      BY DEF SettledBlockRestricts
    <3>1. q \in blocking /\ ~can
      BY <2>4
    <3> QED BY <2>7, <3>1
  <2>10. RestrictedIsNotBilled'
    BY <2>1, <2>5, <2>7 DEF DatabaseInv, RestrictedIsNotBilled, Issue, stripe
  <2>11. CanceledWhenBlocked'
    <3> SUFFICES ASSUME NEW q \in Objects, Plan = "monthly", adjustment'[q].state = "blocking"
                 PROVE  subscription' = "canceled"
      BY DEF CanceledWhenBlocked
    <3>1. ~can
      BY <2>4
    <3> QED BY <2>1, <2>5, <3>1 DEF stripe
  <2>12. IntentIsMonthly'
    BY <2>6 DEF IntentIsMonthly
  <2>13. PendingIsRetryable'
    <3> SUFFICES ASSUME NEW q \in Objects, adjustment'[q].pending
                 PROVE  \E e \in Events : e.object = q /\ inbox'[e] = "recorded"
      BY DEF PendingIsRetryable
    <3>1. q # o /\ adjustment[q].pending
      BY <2>3
    <3>2. PICK e \in Events : e.object = q /\ inbox[e] = "recorded"
      BY <3>1 DEF DatabaseInv, PendingIsRetryable
    <3> QED BY <2>1, <3>1, <3>2 DEF MarkProcessed, TypeOK
  <2> QED BY <2>8, <2>9, <2>10, <2>11, <2>12, <2>13 DEF DatabaseInv
<1> QED BY <1>1, <1>2

\* Every step keeps what is said about the database.
LEMMA DatabaseStep ==
  ASSUME TypeOK, DatabaseInv, \A v \in Workers : HandlerInv(v), [Next]_vars
  PROVE  DatabaseInv'
<1>1. ASSUME NEW w \in Workers, Fulfill(w) \/ CommitMonthly(w)
      PROVE  DatabaseInv'
  BY <1>1, SaleDatabase DEF HandlerInv
<1>2. ASSUME NEW w \in Workers, Prepare(w) PROVE DatabaseInv'
  BY <1>2, PrepareDatabase
<1>3. ASSUME NEW w \in Workers, CommitAdjustment(w) PROVE DatabaseInv'
  BY <1>3, CommitDatabase
<1>4. ASSUME NEW w \in Workers, Fail(w) PROVE DatabaseInv'
  BY <1>4, QuietDatabase DEF Fail
<1> QED BY <1>1, <1>2, <1>3, <1>4, QuietDatabase, EnvironmentDatabase DEF Next, Work

-----------------------------------------------------------------------------
(* The invariant and what follows from it *)

\* Before the first event there is no order, no license and no adjustment.
LEMMA InitBilling == Init => BillingInv
<1> SUFFICES ASSUME Init PROVE BillingInv
  OBVIOUS
<1>1. NoView \in View
  BY DEF NoView, View
<1>2. [state |-> "none", pending |-> FALSE, cancelRequired |-> FALSE] \in Adjustment
  BY DEF Adjustment
<1>3. TypeOK
  BY <1>1, <1>2 DEF Init, TypeOK, DisputeStatus, RefundStatus
<1>4. DatabaseInv
  BY DEF Init, DatabaseInv, LicenseCounted, SettledBlockRestricts, RestrictedIsNotBilled,
         CanceledWhenBlocked, IntentIsMonthly, PendingIsRetryable
<1>5. ASSUME NEW w \in Workers PROVE HandlerInv(w)
  BY DEF Init, HandlerInv, HasEvent, HasSubscription, CoversBlocks, Decided, MayCommit,
         SaleStages, AdjustmentStages, FirstReadStages, HydratedStages
<1> QED BY <1>3, <1>4, <1>5 DEF BillingInv

\* The invariant is inductive.
LEMMA BillingStep == BillingInv /\ [Next]_vars => BillingInv'
<1> SUFFICES ASSUME BillingInv, [Next]_vars PROVE BillingInv'
  OBVIOUS
<1>1. TypeOK'
  BY BillingTypeStep DEF BillingInv, HandlerInv
<1>2. DatabaseInv'
  BY DatabaseStep DEF BillingInv
<1>3. \A w \in Workers : HandlerInv(w)'
  BY HandlerStep DEF BillingInv, DatabaseInv
<1> QED BY <1>1, <1>2, <1>3 DEF BillingInv

\* The inductive invariant holds of every behaviour of the purchase.
THEOREM BillingInvHolds == Spec => []BillingInv
BY InitBilling, BillingStep, PTL DEF Spec

\* Every variable keeps its type.
THEOREM BillingTypesHold == Spec => []TypeOK
<1>1. BillingInv => TypeOK
  BY DEF BillingInv
<1> QED BY <1>1, BillingInvHolds, PTL

\* However its events are delivered, repaired and reconciled, a purchase is given
\* at most one license: processEvent, commitMonthlyEvent and applyAdjustments
\* issue only to a purchase without one.
THEOREM OneLicenseHolds == Spec => []OneLicense
<1>1. BillingInv => OneLicense
  BY DEF BillingInv, DatabaseInv, LicenseCounted, OneLicense
<1> QED BY <1>1, BillingInvHolds, PTL

\* A settled refund or dispute leaves no active license: commitAdjustment
\* restricts in the transaction that settles, whatever else was read before.
THEOREM SettledBlockRestrictsHolds == Spec => []SettledBlockRestricts
<1>1. BillingInv => SettledBlockRestricts
  BY DEF BillingInv, DatabaseInv
<1> QED BY <1>1, BillingInvHolds, PTL

\* A monthly customer whose license is restricted is not billed any more.
THEOREM RestrictedIsNotBilledHolds == Spec => []RestrictedIsNotBilled
<1>1. BillingInv => RestrictedIsNotBilled
  BY DEF BillingInv, DatabaseInv
<1> QED BY <1>1, BillingInvHolds, PTL

\* The repair worker always finds an event for a pending adjustment.
THEOREM PendingIsRetryableHolds == Spec => []PendingIsRetryable
<1>1. BillingInv => PendingIsRetryable
  BY DEF BillingInv, DatabaseInv
<1> QED BY <1>1, BillingInvHolds, PTL

\* No intent to cancel is left on an adjustment that counts as done.
THEOREM IntentIsPendingHolds == Spec => []IntentIsPending
<1>1. BillingInv => IntentIsPending
  BY DEF BillingInv, DatabaseInv, IntentIsMonthly, IntentIsPending
<1> QED BY <1>1, BillingInvHolds, PTL

\* A revocation and a refund are final in every step: a sale gives a license only
\* to a purchase without one, and a resolved dispute gives back only what a
\* dispute took.
THEOREM TerminalStatesHoldAlways == Spec => TerminalStatesHold
<1> DEFINE Step == /\ license = "revoked" => license' = "revoked"
                   /\ license = "refunded" => license' \in {"refunded", "revoked"}
<1>1. ASSUME BillingInv, [Next]_vars PROVE [Step]_license
  <2>1. ASSUME NEW w \in Workers, Work(w) PROVE [Step]_license
    <3>1. CASE Fulfill(w) \/ CommitMonthly(w)
      BY <3>1, <1>1
      DEF BillingInv, DatabaseInv, LicenseCounted, Fulfill, CommitMonthly, Unfulfilled,
          Issue, Retry, database
    <3>2. CASE CommitAdjustment(w)
      BY <3>2 DEF CommitAdjustment, Apply, Final, Issue, Retry, database
    <3>3. CASE \/ Retrieve(w) \/ ReadMonthlyOrder(w) \/ HydrateMonthly(w) \/ ReadInvoices(w)
               \/ Identify(w) \/ Hydrate(w) \/ ReadCharge(w) \/ ReadSubscription(w) \/ Prepare(w)
               \/ ReadIntent(w) \/ CancelSubscription(w)
      BY <3>3
      DEF Retrieve, ReadMonthlyOrder, HydrateMonthly, ReadInvoices, Identify, Hydrate,
          ReadCharge, ReadSubscription, Prepare, ReadIntent, CancelSubscription, Retry, database
    <3> QED BY <2>1, <3>1, <3>2, <3>3 DEF Work
  <2>2. CASE Environment
    BY <2>2 DEF Environment, Checkout, ObjectMoves, SubscriptionMoves, Revoke, database
  <2>3. CASE \/ \E w \in Workers : Fail(w)
             \/ \E w \in Handlers, e \in Events : Deliver(w, e)
             \/ \E w \in Reconcilers : Reconcile(w)
             \/ NextDay \/ Repair \/ UNCHANGED vars
    BY <2>3 DEF Fail, Retry, Deliver, Reconcile, NextDay, Repair, database, vars
  <2> QED BY <1>1, <2>1, <2>2, <2>3 DEF Next
<1> QED BY <1>1, BillingInvHolds, PTL DEF Spec, TerminalStatesHold
=============================================================================
