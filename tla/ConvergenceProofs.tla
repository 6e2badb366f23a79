-------------------------- MODULE ConvergenceProofs --------------------------
(***************************************************************************)
(* Proof that the database of OrderBilling agrees with Stripe once every   *)
(* event has been processed, for any number of disputes, refunds, handlers *)
(* and deliveries.  The argument rests on two facts about the code: a      *)
(* status of a dispute or refund never comes back, so an event that was    *)
(* processed while it was current leaves the right decision behind; and    *)
(* every transaction that processes an event advances the revision, so a   *)
(* handler that has read Stripe before cannot undo that decision.          *)
(***************************************************************************)
EXTENDS OrderBillingProofs

Statuses == DisputeStatus \cup RefundStatus

\* The statuses a dispute or refund may have shown up to now.
Past(o) ==
  CASE object[o] = "absent" -> {}
    [] object[o] = "won" -> DisputeStatus \ {"absent"}
    [] object[o] = "needs_response" -> {"warning", "needs_response"}
    [] object[o] = "failed" -> RefundStatus \ {"absent"}
    [] object[o] = "succeeded" -> {"pending", "succeeded"}
    [] OTHER -> {object[o]}

Completed == Ev("session", "completed")
AsyncSucceeded == Ev("session", "async_succeeded")
ReconcileEvent == Ev("session", "reconcile")

\* Stripe: what was emitted tells what happened there, and no more than that.
RecordedIsEmitted ==
  \A e \in Events : inbox[e] # "unknown" => e \in emitted \/ e = ReconcileEvent
EmittedIsPast ==
  \A o \in Objects, t \in Statuses : Ev(o, t) \in emitted => t \in Past(o)
StatusIsEmitted ==
  \A o \in Objects : object[o] # "absent" => Ev(o, object[o]) \in emitted
SubscriptionIsMonthly ==
  \A e \in emitted : e.object = "subscription" => Plan = "monthly"
CheckoutIsEmitted ==
  /\ checkout # "open" <=> Completed \in emitted
  /\ AsyncSucceeded \in emitted => checkout = "paid"

StripeInv ==
  /\ RecordedIsEmitted /\ EmittedIsPast /\ StatusIsEmitted
  /\ SubscriptionIsMonthly /\ CheckoutIsEmitted

\* The event of the status a dispute or refund has now is processed.
UpToDate(o) == object[o] # "absent" /\ inbox[Ev(o, object[o])] = "processed"

Adjusted ==
  \A o \in Objects :
    UpToDate(o) /\ StripeState(o) # "" => adjustment[o].state = StripeState(o)
ResolvedIsWon ==
  \A o \in Objects :
    adjustment[o].state = "resolved" => o \in Disputes /\ object[o] = "won"
PendingIsDecided ==
  \A o \in Objects : adjustment[o].pending => adjustment[o].state # "none"
RefundedBlocks ==
  license = "refunded" => \E f \in Refunds : adjustment[f].state = "blocking"
FulfilledHasLicense == order = "fulfilled" => license # "none"

\* The event by which the server learns that the Session is paid.
Settling(e) ==
  \/ e = AsyncSucceeded
  \/ e = Completed /\ checkout = "paid" /\ AsyncSucceeded \notin emitted
PaidProcessed == \E e \in Events : Settling(e) /\ inbox[e] = "processed"

EverRefunded == \E f \in Refunds : Ev(f, "succeeded") \in emitted

\* A perpetual purchase that nothing restricts any more has its license, unless
\* a refund had succeeded when it was to be given.
Granted ==
  /\ Plan = "perpetual_v1" /\ ~Blocked /\ ~Unsettled
  /\ license = "charged_back" \/ (license = "none" /\ PaidProcessed)
  => EverRefunded

LedgerInv ==
  /\ Adjusted /\ ResolvedIsWon /\ PendingIsDecided
  /\ RefundedBlocks /\ FulfilledHasLicense /\ Granted

PreparedStages == {"intent", "cancel", "rehydrate", "rereadCharge",
                   "rereadSubscription", "commit"}
ReadStages == {"readCharge", "readSubscription", "prepare"} \cup PreparedStages
MonthlyStages == {"read", "hydrateMonthly", "readInvoices", "commitMonthly", "cancel"}

\* What a handler knows of Stripe.
SaleEvent(w) ==
  pc[w] \in SaleStages => event[w] \in emitted \/ event[w] = ReconcileEvent
MonthlyStage(w) == pc[w] \in MonthlyStages => Plan = "monthly"
\* What it read of the dispute or refund is not older than its event, nor than
\* an event whose processing it has not noticed.
ReadsCurrent(w) ==
  LET o == event[w].object IN
  pc[w] \in ReadStages /\ (event[w].type = object[o] \/ (fresh[w] /\ UpToDate(o))) =>
    view[w].state = StripeState(o)
ReadsWon(w) ==
  LET o == event[w].object IN
  pc[w] \in ReadStages /\ view[w].state = "resolved" => o \in Disputes /\ object[o] = "won"
ReadsResolved(w) ==
  pc[w] \in ReadStages /\ fresh[w] /\ adjustment[event[w].object].state = "resolved" =>
    view[w].state = "resolved"
Prepared(w) ==
  pc[w] \in PreparedStages /\ fresh[w] => adjustment[event[w].object].pending
ReadsPayment(w) == pc[w] = "fulfill" /\ Settling(event[w]) => view[w].paid
SeenRefunded(w) == view[w].refunded => EverRefunded

ReaderInv(w) ==
  /\ SaleEvent(w) /\ MonthlyStage(w) /\ ReadsCurrent(w) /\ ReadsWon(w)
  /\ ReadsResolved(w) /\ Prepared(w) /\ ReadsPayment(w) /\ SeenRefunded(w)

ConvergenceInv ==
  BillingInv /\ StripeInv /\ LedgerInv /\ \A w \in Workers : ReaderInv(w)

-----------------------------------------------------------------------------
(* What Stripe emits *)

USE DEF Workers

\* An event of a dispute or refund is made of it and of a status.
LEMMA ObjectEvent ==
  ASSUME NEW e \in Events, e.object \in Objects
  PROVE  e = Ev(e.object, e.type) /\ e.type \in Statuses \ {"absent"}
BY SessionAssumption
DEF Events, SessionEvents, Ev, Objects, Statuses, DisputeStatus, RefundStatus

\* The two parts of an event.
LEMMA EventParts ==
  ASSUME NEW o, NEW t
  PROVE  Ev(o, t).object = o /\ Ev(o, t).type = t
BY DEF Ev

\* An event of a handler that tells of a present status names its object.
LEMMA EventAtHand ==
  ASSUME NEW w \in Workers
  PROVE  \A q : Ev(q, object[q]) = event[w] =>
           q = event[w].object /\ event[w].type = object[q]
<1> SUFFICES ASSUME NEW q, Ev(q, object[q]) = event[w]
             PROVE  q = event[w].object /\ event[w].type = object[q]
  OBVIOUS
<1> QED BY EventParts

\* A status that is reached was never shown before, and what was shown before
\* stays past.
LEMMA MovesForward ==
  ASSUME NEW o \in Objects, NEW next \in Statuses, TypeOK, ObjectMoves(o, next)
  PROVE  /\ next # "absent" /\ next \notin Past(o)
         /\ Past(o) \cup {next} \subseteq Past(o)'
         /\ object'[o] = next /\ \A q \in Objects \ {o} : object'[q] = object[q]
         /\ object[o] # "won"
         /\ checkout = "paid" /\ emitted' = emitted \cup {Ev(o, next)}
<1>1. /\ object' = [object EXCEPT ![o] = next]
      /\ <<object[o], next>> \in DisputeMoves \cup RefundMoves
      /\ checkout = "paid" /\ emitted' = emitted \cup {Ev(o, next)}
  BY DEF ObjectMoves, Emit
<1>2. object'[o] = next /\ \A q \in Objects \ {o} : object'[q] = object[q]
  BY <1>1 DEF TypeOK
<1>3. /\ next # "absent" /\ next \notin Past(o)
      /\ Past(o) \cup {next} \subseteq Past(o)' /\ object[o] # "won"
  BY <1>1, <1>2 DEF DisputeMoves, RefundMoves, Past, DisputeStatus, RefundStatus
<1> QED BY <1>1, <1>2, <1>3

\* The event of a status that is only now reached was not seen by anybody.
LEMMA NextIsUnseen ==
  ASSUME NEW o \in Objects, NEW next \in Statuses, TypeOK, StripeInv, ObjectMoves(o, next)
  PROVE  /\ Ev(o, next) \in Events /\ Ev(o, next) \notin emitted
         /\ inbox[Ev(o, next)] = "unknown"
<1>1. next # "absent" /\ next \notin Past(o)
  BY MovesForward
<1>2. Ev(o, next) \notin emitted
  BY <1>1 DEF StripeInv, EmittedIsPast
<1>3. Ev(o, next) \in Events
  BY <1>1 DEF ObjectMoves, DisputeMoves, RefundMoves, Events, Objects, DisputeStatus, RefundStatus
<1>4. Ev(o, next) # ReconcileEvent
  BY SessionAssumption DEF Ev, ReconcileEvent, Objects
<1> QED BY <1>2, <1>3, <1>4 DEF StripeInv, RecordedIsEmitted

\* Stripe changes an object only together with its event.
LEMMA EnvironmentStripe ==
  ASSUME TypeOK, StripeInv, Environment
  PROVE  StripeInv'
<1> USE DEF StripeInv
<1>1. ASSUME NEW next \in {"processing", "paid", "failed"}, Checkout(next)
      PROVE  StripeInv'
  <2>1. /\ UNCHANGED <<object, inbox>>
        /\ checkout' = next
        /\ \/ checkout = "open" /\ next \in {"processing", "paid"} /\ emitted' = emitted \cup {Completed}
           \/ checkout = "processing" /\ next = "paid" /\ emitted' = emitted \cup {AsyncSucceeded}
           \/ /\ checkout = "processing" /\ next = "failed"
              /\ emitted' = emitted \cup {Ev("session", "async_failed")}
    BY <1>1 DEF Checkout, Emit, Completed, AsyncSucceeded, database
  <2>2. RecordedIsEmitted' /\ StatusIsEmitted'
    BY <2>1 DEF RecordedIsEmitted, StatusIsEmitted
  <2>3. EmittedIsPast'
    BY <2>1, SessionAssumption DEF EmittedIsPast, Past, Ev, Objects, Completed, AsyncSucceeded
  <2>4. SubscriptionIsMonthly'
    BY <2>1 DEF SubscriptionIsMonthly, Ev, Completed, AsyncSucceeded
  <2>5. CheckoutIsEmitted'
    BY <2>1 DEF CheckoutIsEmitted, Ev, Completed, AsyncSucceeded
  <2> QED BY <2>2, <2>3, <2>4, <2>5
<1>2. ASSUME NEW o \in Objects, NEW next \in Statuses, ObjectMoves(o, next)
      PROVE  StripeInv'
  <2>1. UNCHANGED <<checkout, inbox>>
    BY <1>2 DEF ObjectMoves, database
  <2>2. RecordedIsEmitted'
    BY <1>2, <2>1, MovesForward DEF RecordedIsEmitted
  <2>3. EmittedIsPast'
    <3> SUFFICES ASSUME NEW q \in Objects, NEW t \in Statuses, Ev(q, t) \in emitted'
                 PROVE  t \in Past(q)'
      BY DEF EmittedIsPast
    <3>1. CASE q = o
      <4>1. Ev(o, t) \in emitted \/ t = next
        BY <1>2, <3>1, MovesForward DEF Ev
      <4> QED BY <1>2, <3>1, <4>1, MovesForward DEF EmittedIsPast
    <3>2. CASE q # o
      <4>1. Ev(q, t) \in emitted /\ object'[q] = object[q]
        BY <1>2, <3>2, MovesForward DEF Ev
      <4> QED BY <4>1 DEF EmittedIsPast, Past
    <3> QED BY <3>1, <3>2
  <2>4. StatusIsEmitted'
    BY <1>2, MovesForward DEF StatusIsEmitted
  <2>5. SubscriptionIsMonthly'
    BY <1>2, MovesForward, SessionAssumption DEF SubscriptionIsMonthly, Ev, Objects
  <2>6. CheckoutIsEmitted'
    BY <1>2, <2>1, MovesForward, SessionAssumption
    DEF CheckoutIsEmitted, Ev, Objects, Completed, AsyncSucceeded
  <2> QED BY <2>2, <2>3, <2>4, <2>5, <2>6
<1>3. ASSUME NEW next \in SubscriptionStatus, SubscriptionMoves(next)
      PROVE  StripeInv'
  <2>1. /\ UNCHANGED <<checkout, object, inbox>> /\ Plan = "monthly"
        /\ \E t : emitted' = emitted \cup {Ev("subscription", t)}
    BY <1>3 DEF SubscriptionMoves, Emit, database
  <2> QED BY <2>1, SessionAssumption
          DEF RecordedIsEmitted, EmittedIsPast, Past, StatusIsEmitted, SubscriptionIsMonthly,
              CheckoutIsEmitted, Ev, Objects, Completed, AsyncSucceeded
<1>4. CASE Revoke
  BY <1>4 DEF Revoke, stripe, RecordedIsEmitted, EmittedIsPast, Past, StatusIsEmitted,
              SubscriptionIsMonthly, CheckoutIsEmitted
<1> QED BY <1>1, <1>2, <1>3, <1>4 DEF Environment, Statuses

\* The server makes Stripe emit no more than the end of the Subscription, and
\* records only events that it was sent, or its own.
LEMMA ServerStripe ==
  ASSUME StripeInv, UNCHANGED <<checkout, object>>,
         \/ UNCHANGED emitted
         \/ Plan = "monthly" /\ emitted' = emitted \cup {Ev("subscription", "deleted")},
         \A e \in Events : inbox'[e] # "unknown" =>
           inbox[e] # "unknown" \/ e \in emitted \/ e = ReconcileEvent
  PROVE  StripeInv'
<1> USE DEF StripeInv
<1>1. RecordedIsEmitted'
  BY DEF RecordedIsEmitted
<1>2. EmittedIsPast'
  BY SessionAssumption DEF EmittedIsPast, Past, Ev, Objects
<1>3. StatusIsEmitted'
  BY DEF StatusIsEmitted
<1>4. SubscriptionIsMonthly'
  BY DEF SubscriptionIsMonthly, Ev
<1>5. CheckoutIsEmitted'
  BY DEF CheckoutIsEmitted, Ev, Completed, AsyncSucceeded
<1> QED BY <1>1, <1>2, <1>3, <1>4, <1>5

-----------------------------------------------------------------------------
(* What a handler knows of Stripe *)

\* A step of somebody else that moves nothing in Stripe but the Subscription,
\* and either takes the revision of handler w away or records no decision.
Undeceived(w) ==
  /\ pc'[w] = pc[w] /\ event'[w] = event[w] /\ view'[w] = view[w]
  /\ fresh'[w] =>
       /\ fresh[w] /\ UNCHANGED adjustment
       /\ \A e \in Events : inbox'[e] = "processed" => inbox[e] = "processed"
  /\ UNCHANGED <<checkout, object>> /\ emitted \subseteq emitted'

\* The event of the present status of an object is one of the inbox's.
LEMMA StatusEvent ==
  ASSUME TypeOK, StripeInv, NEW o \in Objects, object[o] # "absent"
  PROVE  Ev(o, object[o]) \in Events /\ Ev(o, object[o]) \in emitted
BY DEF TypeOK, StripeInv, StatusIsEmitted

\* A handler is in the stages after Hydrate only with an event of an object.
LEMMA ReaderEvent ==
  ASSUME StripeInv, NEW w \in Workers, HasEvent(w),
         pc[w] \in ReadStages \cup PreparedStages
  PROVE  /\ event[w] \in Events /\ event[w].object \in Objects
         /\ event[w] = Ev(event[w].object, event[w].type) /\ event[w] \in emitted
<1>1. event[w] \in Events /\ event[w].object \in Objects /\ inbox[event[w]] # "unknown"
  BY DEF HasEvent, ReadStages, PreparedStages, AdjustmentStages, FirstReadStages, HydratedStages
<1>2. event[w] # ReconcileEvent
  BY <1>1, SessionAssumption DEF ReconcileEvent, Ev, Objects
<1> QED BY <1>1, <1>2, ObjectEvent DEF StripeInv, RecordedIsEmitted

\* What a handler knows of Stripe stays true while it is undeceived.
LEMMA ReaderKept ==
  ASSUME TypeOK, StripeInv, NEW w \in Workers, HasEvent(w), ReaderInv(w), Undeceived(w)
  PROVE  ReaderInv(w)'
<1> USE DEF ReaderInv, Undeceived
<1>1. SaleEvent(w)' /\ MonthlyStage(w)'
  BY DEF SaleEvent, MonthlyStage
<1>2. ReadsCurrent(w)'
  <2> DEFINE o == event[w].object
  <2> SUFFICES ASSUME pc[w] \in ReadStages,
                      event[w].type = object[o] \/ (fresh'[w] /\ UpToDate(o)')
               PROVE  view[w].state = StripeState(o)'
    BY DEF ReadsCurrent
  <2>1. StripeState(o)' = StripeState(o)
    BY DEF StripeState
  <2>2. fresh'[w] /\ UpToDate(o)' => fresh[w] /\ UpToDate(o)
    BY ReaderEvent, StatusEvent DEF UpToDate
  <2> QED BY <2>1, <2>2 DEF ReadsCurrent
<1>3. ReadsWon(w)' /\ ReadsResolved(w)' /\ Prepared(w)'
  BY DEF ReadsWon, ReadsResolved, Prepared
<1>4. ReadsPayment(w)'
  BY DEF ReadsPayment, Settling
<1>5. SeenRefunded(w)'
  BY DEF SeenRefunded, EverRefunded
<1> QED BY <1>1, <1>2, <1>3, <1>4, <1>5

\* An idle handler has read nothing.
LEMMA ReaderIdle ==
  ASSUME NEW w \in Workers, pc'[w] = "idle", view'[w] = NoView
  PROVE  ReaderInv(w)'
<1>1. ~NoView.refunded
  BY DEF NoView
<1>2. SeenRefunded(w)'
  BY <1>1 DEF SeenRefunded
<1> QED BY <1>2
        DEF ReaderInv, SaleEvent, MonthlyStage, ReadsCurrent, ReadsWon, ReadsResolved, Prepared,
            ReadsPayment, SaleStages, MonthlyStages, ReadStages, PreparedStages

\* Giving up an attempt deceives nobody.
LEMMA RetryReaders ==
  ASSUME TypeOK, StripeInv, \A v \in Workers : HasEvent(v) /\ ReaderInv(v),
         NEW w \in Workers, Retry(w)
  PROVE  \A v \in Workers : ReaderInv(v)'
<1> TAKE v \in Workers
<1>1. CASE v = w
  BY <1>1, ReaderIdle DEF Retry, Leave, TypeOK
<1>2. CASE v # w
  <2>1. Undeceived(v)
    BY <1>2 DEF Undeceived, Retry, Leave, TypeOK, stripe, database
  <2> QED BY <2>1, ReaderKept
<1> QED BY <1>1, <1>2

\* A transaction that processes its event takes every revision away.
LEMMA CommitReaders ==
  ASSUME TypeOK, StripeInv, \A v \in Workers : HasEvent(v) /\ ReaderInv(v),
         NEW w \in Workers, Leave(w), AdvanceRevision({}), UNCHANGED stripe
  PROVE  \A v \in Workers : ReaderInv(v)'
<1> TAKE v \in Workers
<1>1. CASE v = w
  BY <1>1, ReaderIdle DEF Leave, TypeOK
<1>2. CASE v # w
  <2>1. Undeceived(v)
    BY <1>2 DEF Undeceived, Leave, AdvanceRevision, TypeOK, stripe
  <2> QED BY <2>1, ReaderKept
<1> QED BY <1>1, <1>2

\* A move of Stripe makes what was read of an object outdated, but then neither
\* the event at hand nor a processed one tells of the new status.
LEMMA MoveReaders ==
  ASSUME TypeOK, StripeInv, NEW o \in Objects, NEW next \in Statuses, ObjectMoves(o, next),
         NEW w \in Workers, HasEvent(w), ReaderInv(w)
  PROVE  ReaderInv(w)'
<1> USE DEF ReaderInv
<1>1. UNCHANGED <<checkout, subscription, inbox, adjustment, pc, event, view, fresh>>
  BY DEF ObjectMoves, database, workers
<1>2. /\ emitted' = emitted \cup {Ev(o, next)} /\ object'[o] = next
      /\ \A q \in Objects \ {o} : object'[q] = object[q]
      /\ Ev(o, next) \notin emitted /\ inbox[Ev(o, next)] = "unknown"
      /\ object[o] # "won"
  BY MovesForward, NextIsUnseen
<1>3. SaleEvent(w)' /\ MonthlyStage(w)' /\ ReadsResolved(w)' /\ Prepared(w)'
  BY <1>1, <1>2 DEF SaleEvent, MonthlyStage, ReadsResolved, Prepared
<1>4. ReadsCurrent(w)'
  <2> DEFINE q == event[w].object
  <2> SUFFICES ASSUME pc[w] \in ReadStages,
                      event[w].type = object'[q] \/ (fresh[w] /\ UpToDate(q)')
               PROVE  view[w].state = StripeState(q)'
    BY <1>1 DEF ReadsCurrent
  <2>1. q \in Objects /\ event[w] = Ev(q, event[w].type) /\ event[w] \in emitted
    BY ReaderEvent
  <2>2. q # o
    BY <1>1, <1>2, <2>1 DEF UpToDate
  <2>3. object'[q] = object[q]
    BY <1>2, <2>1, <2>2
  <2> QED BY <1>1, <2>3 DEF ReadsCurrent, UpToDate, StripeState
<1>5. ReadsWon(w)'
  BY <1>1, <1>2, ReaderEvent DEF ReadsWon
<1>6. ReadsPayment(w)'
  <2>1. Ev(o, next) # AsyncSucceeded
    BY SessionAssumption DEF AsyncSucceeded, Ev, Objects
  <2> QED BY <1>1, <1>2, <2>1 DEF ReadsPayment, Settling
<1>7. SeenRefunded(w)'
  BY <1>1, <1>2 DEF SeenRefunded, EverRefunded
<1> QED BY <1>3, <1>4, <1>5, <1>6, <1>7

\* A Session is paid with an event that nobody has yet.
LEMMA CheckoutReaders ==
  ASSUME TypeOK, StripeInv, NEW next \in {"processing", "paid", "failed"}, Checkout(next),
         NEW w \in Workers, ReaderInv(w)
  PROVE  ReaderInv(w)'
<1> USE DEF ReaderInv
<1>1. /\ UNCHANGED <<object, inbox, adjustment, pc, event, view, fresh>>
      /\ checkout' = next /\ emitted \subseteq emitted'
      /\ \/ checkout = "open"
         \/ checkout = "processing" /\ next = "paid" /\ AsyncSucceeded \in emitted'
         \/ checkout = "processing" /\ next = "failed"
  BY DEF Checkout, Emit, AsyncSucceeded, database, workers
<1>2. SaleEvent(w)' /\ MonthlyStage(w)' /\ ReadsResolved(w)' /\ Prepared(w)'
  BY <1>1 DEF SaleEvent, MonthlyStage, ReadsResolved, Prepared
<1>3. ReadsCurrent(w)' /\ ReadsWon(w)'
  BY <1>1 DEF ReadsCurrent, ReadsWon, UpToDate, StripeState
<1>4. ReadsPayment(w)'
  <2> SUFFICES ASSUME pc[w] = "fulfill", Settling(event[w])' PROVE view[w].paid
    BY <1>1 DEF ReadsPayment
  <2>1. event[w] \in emitted \/ event[w] = ReconcileEvent
    BY DEF SaleEvent, SaleStages
  <2>2. event[w] = AsyncSucceeded
    BY <1>1, <2>1 DEF Settling, StripeInv, CheckoutIsEmitted, Completed, ReconcileEvent, Ev
  <2> QED BY <2>2 DEF ReadsPayment, Settling
<1>5. SeenRefunded(w)'
  BY <1>1 DEF SeenRefunded, EverRefunded
<1> QED BY <1>2, <1>3, <1>4, <1>5

\* The environment as a whole.
LEMMA EnvironmentReaders ==
  ASSUME TypeOK, StripeInv, \A v \in Workers : HasEvent(v) /\ ReaderInv(v), Environment
  PROVE  \A v \in Workers : ReaderInv(v)'
<1> TAKE v \in Workers
<1>1. ASSUME NEW next \in SubscriptionStatus, SubscriptionMoves(next)
      PROVE  ReaderInv(v)'
  <2>1. Undeceived(v)
    BY <1>1 DEF Undeceived, SubscriptionMoves, Emit, database, workers
  <2> QED BY <2>1, ReaderKept
<1>2. CASE Revoke
  <2>1. Undeceived(v)
    BY <1>2 DEF Undeceived, Revoke, stripe, workers
  <2> QED BY <2>1, ReaderKept
<1> QED BY <1>1, <1>2, CheckoutReaders, MoveReaders DEF Environment, Statuses

\* A handler that takes a step of its own deceives nobody.
LEMMA OthersUndeceived ==
  ASSUME TypeOK, NEW w \in Workers, NEW v \in Workers, v # w,
         \/ Retrieve(w) \/ ReadMonthlyOrder(w) \/ HydrateMonthly(w) \/ ReadInvoices(w)
         \/ Identify(w) \/ Hydrate(w)
         \/ (ReadCharge(w) /\ ~Retry(w)) \/ (ReadSubscription(w) /\ ~Retry(w))
         \/ ReadIntent(w) \/ CancelSubscription(w)
  PROVE  Undeceived(v)
<1> USE DEF Undeceived, GoTo, TypeOK
<1>1. CASE Retrieve(w)
  BY <1>1 DEF Retrieve, stripe
<1>2. CASE ReadMonthlyOrder(w)
  BY <1>2 DEF ReadMonthlyOrder, stripe
<1>3. CASE HydrateMonthly(w)
  BY <1>3 DEF HydrateMonthly, stripe, database
<1>4. CASE Identify(w)
  BY <1>4 DEF Identify, stripe
<1>5. CASE Hydrate(w)
  BY <1>5 DEF Hydrate, stripe, database
<1>6. CASE ReadInvoices(w)
  BY <1>6 DEF ReadInvoices, stripe, database
<1>7. CASE ReadCharge(w) /\ ~Retry(w)
  BY <1>7 DEF ReadCharge, stripe, database
<1>8. CASE ReadSubscription(w) /\ ~Retry(w)
  BY <1>8 DEF ReadSubscription, stripe, database
<1>9. CASE ReadIntent(w)
  BY <1>9 DEF ReadIntent, stripe, database
<1>10. CASE CancelSubscription(w)
  BY <1>10 DEF CancelSubscription, database
<1> QED BY <1>1, <1>2, <1>3, <1>4, <1>5, <1>6, <1>7, <1>8, <1>9, <1>10

\* A handler that has only its event, and in the monthly stages a monthly plan.
LEMMA ReaderStarts ==
  ASSUME NEW w \in Workers, SaleEvent(w)', MonthlyStage(w)', SeenRefunded(w)',
         pc'[w] \notin ReadStages \cup {"fulfill"}
  PROVE  ReaderInv(w)'
BY DEF ReaderInv, ReadsCurrent, ReadsWon, ReadsResolved, Prepared, ReadsPayment,
       ReadStages, PreparedStages

\* Receiving an event: a Subscription has events only in the monthly plan.
LEMMA ReceiveReaders ==
  ASSUME TypeOK, StripeInv, \A v \in Workers : HasEvent(v) /\ ReaderInv(v),
         \/ \E w \in Handlers, e \in Events : Deliver(w, e)
         \/ \E w \in Reconcilers : Reconcile(w)
         \/ NextDay
         \/ Repair
  PROVE  \A v \in Workers : ReaderInv(v)'
<1> TAKE v \in Workers
<1> USE DEF Undeceived
<1>1. ASSUME NEW w \in Handlers, NEW e \in Events, Deliver(w, e)
      PROVE  ReaderInv(v)'
  <2>1. CASE v = w
    <3>1. /\ event'[w] = e /\ pc'[w] = Route(e) /\ view'[w] = view[w]
          /\ e \in emitted /\ emitted' = emitted
      BY <1>1 DEF Deliver, GoTo, TypeOK, stripe
    <3>2. /\ pc'[w] \in {"identify", "read", "retrieve"}
          /\ pc'[w] = "read" => e.object = "subscription"
      BY <3>1 DEF Route
    <3>3. SaleEvent(w)'
      BY <3>1 DEF SaleEvent
    <3>4. MonthlyStage(w)'
      BY <3>1, <3>2 DEF MonthlyStage, MonthlyStages, StripeInv, SubscriptionIsMonthly
    <3>5. SeenRefunded(w)'
      BY <2>1, <3>1 DEF ReaderInv, SeenRefunded, EverRefunded
    <3> QED BY <2>1, <3>2, <3>3, <3>4, <3>5, ReaderStarts DEF ReadStages, PreparedStages
  <2>2. CASE v # w
    <3>1. \A f \in Events : inbox'[f] = "processed" => inbox[f] = "processed"
      BY <1>1 DEF Deliver, TypeOK
    <3> QED BY <1>1, <2>2, <3>1, ReaderKept DEF Deliver, GoTo, TypeOK, stripe
  <2> QED BY <2>1, <2>2
<1>2. ASSUME NEW w \in Reconcilers, Reconcile(w)
      PROVE  ReaderInv(v)'
  <2>1. CASE v = w
    <3>1. /\ event'[w] = ReconcileEvent /\ pc'[w] = "retrieve" /\ view'[w] = view[w]
          /\ emitted' = emitted
      BY <1>2 DEF Reconcile, GoTo, TypeOK, stripe, ReconcileEvent
    <3>2. SaleEvent(w)' /\ MonthlyStage(w)'
      BY <3>1 DEF SaleEvent, MonthlyStage, MonthlyStages
    <3>3. SeenRefunded(w)'
      BY <2>1, <3>1 DEF ReaderInv, SeenRefunded, EverRefunded
    <3> QED BY <2>1, <3>1, <3>2, <3>3, ReaderStarts DEF ReadStages, PreparedStages
  <2>2. CASE v # w
    <3>1. \A f \in Events : inbox'[f] = "processed" => inbox[f] = "processed"
      BY <1>2 DEF Reconcile, TypeOK
    <3> QED BY <1>2, <2>2, <3>1, ReaderKept DEF Reconcile, GoTo, TypeOK, stripe
  <2> QED BY <2>1, <2>2
<1>3. CASE NextDay
  <2>1. \A f \in Events : inbox'[f] = "processed" => inbox[f] = "processed"
    BY <1>3 DEF NextDay, TypeOK
  <2> QED BY <1>3, <2>1, ReaderKept DEF NextDay, stripe
<1>4. CASE Repair
  <2>1. CASE v = Repairer
    <3>1. PICK o \in Objects, e \in Events :
            /\ event' = [event EXCEPT ![Repairer] = e]
            /\ GoTo(Repairer, "identify") /\ UNCHANGED <<stripe, database, view, fresh>>
      BY <1>4 DEF Repair
    <3>2. pc'[v] = "identify" /\ view'[v] = view[v] /\ emitted' = emitted
      BY <2>1, <3>1 DEF GoTo, TypeOK, stripe
    <3>3. SaleEvent(v)' /\ MonthlyStage(v)' /\ SeenRefunded(v)'
      BY <3>2 DEF SaleEvent, SaleStages, MonthlyStage, MonthlyStages, ReaderInv,
                  SeenRefunded, EverRefunded
    <3> QED BY <3>2, <3>3, ReaderStarts DEF ReadStages, PreparedStages
  <2>2. CASE v # Repairer
    BY <1>4, <2>2, ReaderKept DEF Repair, GoTo, TypeOK, stripe, database
  <2> QED BY <2>1, <2>2
<1> QED BY <1>1, <1>2, <1>3, <1>4

\* Whoever sees the Charge refunded sees a refund that Stripe has announced.
LEMMA RefundedIsEver ==
  ASSUME StripeInv, Refunded
  PROVE  EverRefunded
BY DEF StripeInv, StatusIsEmitted, Refunded, EverRefunded, Objects

\* The stages of a sale, and finding the purchase of an adjustment.  A paid
\* Session is read paid.
LEMMA StartingReader ==
  ASSUME TypeOK, StripeInv, NEW w \in Workers, ReaderInv(w),
         \/ Retrieve(w) \/ ReadMonthlyOrder(w) \/ HydrateMonthly(w) \/ ReadInvoices(w)
         \/ Identify(w)
  PROVE  ReaderInv(w)'
<1> USE DEF GoTo
<1>1. CASE Retrieve(w)
  <2>1. /\ pc[w] = "retrieve" /\ event'[w] = event[w]
        /\ UNCHANGED <<checkout, object, emitted>>
        /\ pc'[w] = IF Plan = "perpetual_v1" THEN "fulfill" ELSE "read"
    BY <1>1 DEF Retrieve, TypeOK, stripe
  <2>2. view'[w].paid = (checkout = "paid") /\ view'[w].refunded = Refunded
    <3>1. view[w] \in View /\ Refunded \in BOOLEAN /\ (checkout = "paid") \in BOOLEAN
      BY DEF TypeOK, Refunded
    <3>2. view'[w] = [view[w] EXCEPT !.paid = checkout = "paid", !.refunded = Refunded]
      BY <1>1 DEF Retrieve, TypeOK, View
    <3> QED BY <3>1, <3>2 DEF View
  <2>3. SaleEvent(w)' /\ MonthlyStage(w)'
    BY <2>1, PlanAssumption
    DEF ReaderInv, SaleEvent, SaleStages, MonthlyStage, MonthlyStages
  <2>4. ReadsPayment(w)'
    <3> SUFFICES ASSUME Settling(event[w]) PROVE checkout = "paid"
      BY <2>1, <2>2 DEF ReadsPayment, Settling
    <3>1. AsyncSucceeded # ReconcileEvent
      BY DEF AsyncSucceeded, ReconcileEvent, Ev
    <3> QED BY <2>1, <3>1 DEF ReaderInv, SaleEvent, SaleStages, Settling, StripeInv, CheckoutIsEmitted
  <2>5. SeenRefunded(w)'
    BY <2>1, <2>2, RefundedIsEver DEF SeenRefunded, EverRefunded
  <2> QED BY <2>1, <2>3, <2>4, <2>5
          DEF ReaderInv, ReadsCurrent, ReadsWon, ReadsResolved, Prepared, ReadStages, PreparedStages
<1>2. CASE ReadMonthlyOrder(w) \/ Identify(w)
  <2>1. /\ UNCHANGED <<event, view, emitted>>
        /\ \/ pc[w] = "read" /\ pc'[w] = "hydrateMonthly"
           \/ pc[w] = "identify" /\ pc'[w] = "hydrate"
    BY <1>2 DEF ReadMonthlyOrder, Identify, TypeOK, stripe
  <2>2. SaleEvent(w)' /\ MonthlyStage(w)' /\ SeenRefunded(w)'
    BY <2>1 DEF ReaderInv, SaleEvent, SaleStages, MonthlyStage, MonthlyStages, SeenRefunded, EverRefunded
  <2> QED BY <2>1, <2>2, ReaderStarts DEF ReadStages, PreparedStages
<1>3. CASE HydrateMonthly(w) \/ ReadInvoices(w)
  <2>1. /\ UNCHANGED <<event, emitted>>
        /\ \/ pc[w] = "hydrateMonthly" /\ pc'[w] = "readInvoices"
           \/ pc[w] = "readInvoices" /\ pc'[w] = "commitMonthly"
    BY <1>3 DEF HydrateMonthly, ReadInvoices, TypeOK, stripe
  <2>2. view'[w].refunded = view[w].refunded
    <3>1. view[w] \in View
      BY DEF TypeOK
    <3>2. \/ view'[w] = [view[w] EXCEPT !.paid = checkout = "paid"]
          \/ view'[w] = [view[w] EXCEPT !.subscription = subscription]
      BY <1>3 DEF HydrateMonthly, ReadInvoices, TypeOK
    <3> QED BY <3>1, <3>2 DEF View
  <2>3. SaleEvent(w)' /\ MonthlyStage(w)' /\ SeenRefunded(w)'
    BY <2>1, <2>2 DEF ReaderInv, SaleEvent, SaleStages, MonthlyStage, MonthlyStages,
                      SeenRefunded, EverRefunded
  <2> QED BY <2>1, <2>3, ReaderStarts DEF ReadStages, PreparedStages
<1> QED BY <1>1, <1>2, <1>3

\* What Hydrate reads is current; a dispute that is recorded as resolved reads
\* resolved, since nothing follows a won dispute.
LEMMA HydratingReader ==
  ASSUME TypeOK, StripeInv, ResolvedIsWon, NEW w \in Workers, HasEvent(w), ReaderInv(w),
         Hydrate(w)
  PROVE  ReaderInv(w)'
<1> DEFINE o == event[w].object
<1> USE DEF ReadStages, PreparedStages
<1>1. /\ UNCHANGED <<checkout, object, emitted, inbox, event, fresh, adjustment>>
      /\ view'[w].state = StripeState(o) /\ view'[w].refunded = view[w].refunded
      /\ \/ pc[w] = "hydrate" /\ pc'[w] = "readCharge"
         \/ pc[w] = "rehydrate" /\ pc'[w] = "rereadCharge"
  BY DEF Hydrate, GoTo, TypeOK, View, stripe, database
<1>2. o \in Objects
  BY <1>1 DEF HasEvent, AdjustmentStages, FirstReadStages, HydratedStages
<1>3. SaleEvent(w)' /\ MonthlyStage(w)' /\ ReadsPayment(w)'
  BY <1>1 DEF SaleEvent, SaleStages, MonthlyStage, MonthlyStages, ReadsPayment
<1>4. ReadsCurrent(w)'
  BY <1>1 DEF ReadsCurrent, StripeState
<1>5. ReadsWon(w)'
  BY <1>1 DEF ReadsWon, StripeState
<1>6. ReadsResolved(w)'
  BY <1>1, <1>2 DEF ReadsResolved, ResolvedIsWon, StripeState
<1>7. Prepared(w)' /\ SeenRefunded(w)'
  BY <1>1 DEF ReaderInv, Prepared, SeenRefunded, EverRefunded
<1> QED BY <1>3, <1>4, <1>5, <1>6, <1>7 DEF ReaderInv

\* The steps between reading and committing keep what was read.
LEMMA IntendingReader ==
  ASSUME TypeOK, StripeInv, NEW w \in Workers, ReaderInv(w),
         \/ ReadIntent(w) \/ CancelSubscription(w)
         \/ (ReadCharge(w) /\ ~Retry(w)) \/ (ReadSubscription(w) /\ ~Retry(w))
  PROVE  ReaderInv(w)'
<1> USE DEF ReadStages, PreparedStages
<1>1. /\ UNCHANGED <<checkout, object, inbox, event, fresh, adjustment>>
      /\ emitted \subseteq emitted'
      /\ pc[w] \in ReadStages /\ pc'[w] \in ReadStages
      /\ pc'[w] \in PreparedStages => pc[w] \in PreparedStages
      /\ pc'[w] = "cancel" => Plan = "monthly"
      /\ view'[w].state = view[w].state
      /\ view'[w].refunded => view[w].refunded \/ Refunded
  <2>1. CASE ReadIntent(w)
    BY <2>1, PlanAssumption DEF ReadIntent, GoTo, TypeOK, stripe, database
  <2>2. CASE CancelSubscription(w)
    BY <2>2 DEF CancelSubscription, GoTo, TypeOK, database
  <2>3. CASE ReadCharge(w) /\ ~Retry(w)
    <3>1. /\ view'[w] = [view[w] EXCEPT !.refunded = Refunded]
          /\ view[w] \in View /\ Refunded \in BOOLEAN
      BY <2>3 DEF ReadCharge, TypeOK, Refunded
    <3>2. view'[w].state = view[w].state /\ view'[w].refunded = Refunded
      BY <3>1 DEF View
    <3> QED BY <2>3, <3>2 DEF ReadCharge, GoTo, TypeOK, stripe, database
  <2>4. CASE ReadSubscription(w) /\ ~Retry(w)
    <3>1. view'[w] = [view[w] EXCEPT !.subscription = Purchased] /\ view[w] \in View
      BY <2>4 DEF ReadSubscription, TypeOK
    <3>2. view'[w].state = view[w].state /\ view'[w].refunded = view[w].refunded
      BY <3>1 DEF View
    <3> QED BY <2>4, <3>2 DEF ReadSubscription, GoTo, TypeOK, stripe, database
  <2> QED BY <2>1, <2>2, <2>3, <2>4
<1>2. SaleEvent(w)' /\ MonthlyStage(w)' /\ ReadsPayment(w)'
  BY <1>1 DEF SaleEvent, SaleStages, MonthlyStage, MonthlyStages, ReadsPayment
<1>3. ReadsCurrent(w)' /\ ReadsWon(w)'
  BY <1>1 DEF ReaderInv, ReadsCurrent, ReadsWon, UpToDate, StripeState
<1>4. ReadsResolved(w)' /\ Prepared(w)'
  BY <1>1 DEF ReaderInv, ReadsResolved, Prepared
<1>5. SeenRefunded(w)'
  BY <1>1, RefundedIsEver DEF ReaderInv, SeenRefunded, EverRefunded
<1> QED BY <1>2, <1>3, <1>4, <1>5 DEF ReaderInv

\* A decision that is persisted, in the words of its handler.
LEMMA PreparedDecision ==
  ASSUME TypeOK, IntentIsMonthly, StripeInv, NEW w \in Workers, HandlerInv(w), ReaderInv(w),
         Prepare(w), ~Retry(w), ~Settled(w)
  PROVE  LET o == event[w].object IN
         /\ o \in Objects /\ pc[w] = "prepare" /\ fresh[w]
         /\ UNCHANGED <<stripe, inbox, order, license, event, view>>
         /\ AdvanceRevision({w}) /\ pc' = [pc EXCEPT ![w] = "intent"]
         /\ adjustment'[o].state = Decision(w) /\ adjustment'[o].pending
         /\ \A q \in Objects \ {o} : adjustment'[q] = adjustment[q]
         /\ \/ Decision(w) = view[w].state /\ view[w].state # ""
            \/ /\ Decision(w) = adjustment[o].state /\ view[w].state = ""
               /\ adjustment[o].pending
<1> DEFINE o == event[w].object
<1>1. /\ pc[w] = "prepare" /\ fresh[w]
      /\ UNCHANGED <<stripe, inbox, order, license, event, view>>
      /\ AdvanceRevision({w}) /\ pc' = [pc EXCEPT ![w] = "intent"]
      /\ adjustment' = [adjustment EXCEPT ![o] =
           [state |-> Decision(w), pending |-> TRUE,
            cancelRequired |-> \/ adjustment[o].cancelRequired
                               \/ Decision(w) = "blocking" /\ Plan = "monthly"]]
  BY DEF Prepare, GoTo
<1>2. o \in Objects
  BY <1>1, ReaderEvent DEF HandlerInv, ReadStages, PreparedStages
<1>3. /\ adjustment'[o].state = Decision(w) /\ adjustment'[o].pending
      /\ \A q \in Objects \ {o} : adjustment'[q] = adjustment[q]
  BY <1>1, <1>2 DEF TypeOK
<1>4. \/ Decision(w) = view[w].state /\ view[w].state # ""
      \/ /\ Decision(w) = adjustment[o].state /\ view[w].state = ""
         /\ adjustment[o].pending
  BY <1>2 DEF Decision, Settled, IntentIsMonthly
<1> QED BY <1>1, <1>2, <1>3, <1>4

\* Persisting a decision: the handler goes on with the new revision, the others
\* lose theirs.
LEMMA PreparingReaders ==
  ASSUME TypeOK, IntentIsMonthly, StripeInv, \A v \in Workers : HandlerInv(v) /\ ReaderInv(v),
         NEW w \in Workers, Prepare(w)
  PROVE  \A v \in Workers : ReaderInv(v)'
<1> DEFINE o == event[w].object
<1>1. \A v \in Workers : HasEvent(v) /\ ReaderInv(v)
  BY DEF HandlerInv
<1>2. CASE Retry(w)
  BY <1>1, <1>2, RetryReaders
<1>3. CASE ~Retry(w) /\ Settled(w)
  BY <1>1, <1>3, CommitReaders DEF Prepare
<1>4. CASE ~Retry(w) /\ ~Settled(w)
  <2>1. /\ o \in Objects /\ pc[w] = "prepare" /\ fresh[w]
        /\ UNCHANGED <<stripe, inbox, event, view>>
        /\ AdvanceRevision({w}) /\ pc' = [pc EXCEPT ![w] = "intent"]
        /\ adjustment'[o].state = Decision(w) /\ adjustment'[o].pending
        /\ \/ Decision(w) = view[w].state
           \/ Decision(w) = adjustment[o].state
    BY <1>4, PreparedDecision
  <2>2. ASSUME NEW v \in Workers, v # w PROVE ReaderInv(v)'
    <3>1. Undeceived(v)
      BY <2>1, <2>2 DEF Undeceived, AdvanceRevision, TypeOK, stripe
    <3> QED BY <1>1, <3>1, ReaderKept
  <2>3. pc'[w] = "intent"
    BY <2>1 DEF TypeOK
  <2>4. SaleEvent(w)' /\ MonthlyStage(w)' /\ ReadsPayment(w)'
    BY <2>3 DEF SaleEvent, SaleStages, MonthlyStage, MonthlyStages, ReadsPayment
  <2>5. ReadsCurrent(w)' /\ ReadsWon(w)'
    BY <2>1, <2>3 DEF ReaderInv, ReadsCurrent, ReadsWon, UpToDate, StripeState, ReadStages,
                      PreparedStages, stripe
  <2>6. ReadsResolved(w)' /\ Prepared(w)'
    BY <2>1, <2>3 DEF ReaderInv, ReadsResolved, Prepared, ReadStages, PreparedStages
  <2>7. SeenRefunded(w)'
    BY <2>1 DEF ReaderInv, SeenRefunded, EverRefunded, stripe
  <2>8. ReaderInv(w)'
    BY <2>4, <2>5, <2>6, <2>7 DEF ReaderInv
  <2> QED BY <2>2, <2>8
<1> QED BY <1>2, <1>3, <1>4

\* Every step keeps what the handlers know of Stripe.
LEMMA ReaderStep ==
  ASSUME TypeOK, IntentIsMonthly, StripeInv, ResolvedIsWon,
         \A v \in Workers : HandlerInv(v) /\ ReaderInv(v), [Next]_vars
  PROVE  \A v \in Workers : ReaderInv(v)'
<1>1. \A v \in Workers : HasEvent(v) /\ ReaderInv(v)
  BY DEF HandlerInv
<1>2. ASSUME NEW w \in Workers,
             \/ Retrieve(w) \/ ReadMonthlyOrder(w) \/ HydrateMonthly(w) \/ ReadInvoices(w)
             \/ Identify(w) \/ Hydrate(w)
             \/ (ReadCharge(w) /\ ~Retry(w)) \/ (ReadSubscription(w) /\ ~Retry(w))
             \/ ReadIntent(w) \/ CancelSubscription(w)
      PROVE  \A v \in Workers : ReaderInv(v)'
  <2>1. ReaderInv(w)'
    BY <1>1, <1>2, StartingReader, HydratingReader, IntendingReader
  <2>2. ASSUME NEW v \in Workers, v # w PROVE ReaderInv(v)'
    <3>1. Undeceived(v)
      BY <1>2, <2>2, OthersUndeceived
    <3> QED BY <1>1, <3>1, ReaderKept
  <2> QED BY <2>1, <2>2
<1>3. ASSUME NEW w \in Workers, Fulfill(w) \/ CommitMonthly(w) \/ CommitAdjustment(w)
      PROVE  \A v \in Workers : ReaderInv(v)'
  <2>1. CASE Retry(w)
    BY <1>1, <2>1, RetryReaders
  <2>2. CASE ~Retry(w)
    <3>1. Leave(w) /\ AdvanceRevision({}) /\ UNCHANGED stripe
      BY <1>3, <2>2 DEF Fulfill, CommitMonthly, CommitAdjustment
    <3> QED BY <1>1, <3>1, CommitReaders
  <2> QED BY <2>1, <2>2
<1>4. ASSUME NEW w \in Workers, Fail(w) \/ Retry(w)
      PROVE  \A v \in Workers : ReaderInv(v)'
  BY <1>1, <1>4, RetryReaders DEF Fail
<1>5. CASE UNCHANGED vars
  <2> TAKE v \in Workers
  <2>1. Undeceived(v)
    BY <1>5 DEF vars, Undeceived
  <2> QED BY <1>1, <2>1, ReaderKept
<1> QED BY <1>1, <1>2, <1>3, <1>4, <1>5, PreparingReaders, EnvironmentReaders,
          ReceiveReaders DEF Next, Work

-----------------------------------------------------------------------------
(* What Stripe has emitted, in every step *)

\* A handler marks only events that were emitted, or the reconciler's own.
LEMMA MarkedIsEmitted ==
  ASSUME TypeOK, StripeInv, NEW w \in Workers, HasEvent(w), ReaderInv(w), MarkProcessed(w),
         pc[w] \in SaleStages \cup AdjustmentStages
  PROVE  \A e \in Events : inbox'[e] # "unknown" =>
           inbox[e] # "unknown" \/ e \in emitted \/ e = ReconcileEvent
<1>1. event[w] \in Events => inbox[event[w]] # "unknown" \/ event[w] \in emitted \/ event[w] = ReconcileEvent
  BY DEF HasEvent, ReaderInv, SaleEvent
<1> QED BY <1>1 DEF MarkProcessed, TypeOK

LEMMA StripeStep ==
  ASSUME TypeOK, StripeInv, \A v \in Workers : HasEvent(v) /\ ReaderInv(v), [Next]_vars
  PROVE  StripeInv'
<1> DEFINE Sent == \A e \in Events : inbox'[e] # "unknown" =>
                     inbox[e] # "unknown" \/ e \in emitted \/ e = ReconcileEvent
<1>1. ASSUME NEW w \in Workers,
             \/ Retrieve(w) \/ ReadMonthlyOrder(w) \/ HydrateMonthly(w) \/ ReadInvoices(w)
             \/ Identify(w) \/ Hydrate(w) \/ ReadCharge(w) \/ ReadSubscription(w)
             \/ ReadIntent(w) \/ Fail(w)
      PROVE  StripeInv'
  <2>1. UNCHANGED <<checkout, object, emitted, inbox>>
    BY <1>1 DEF Retrieve, ReadMonthlyOrder, HydrateMonthly, ReadInvoices, Identify, Hydrate,
                ReadCharge, ReadSubscription, ReadIntent, Fail, Retry, stripe, database
  <2> QED BY <2>1, ServerStripe
<1>2. ASSUME NEW w \in Workers, CancelSubscription(w)
      PROVE  StripeInv'
  <2>1. Plan = "monthly"
    BY <1>2 DEF CancelSubscription, ReaderInv, MonthlyStage, MonthlyStages
  <2>2. UNCHANGED <<checkout, object, inbox>>
    BY <1>2 DEF CancelSubscription, database
  <2>3. \/ UNCHANGED emitted
        \/ emitted' = emitted \cup {Ev("subscription", "deleted")}
    BY <1>2 DEF CancelSubscription
  <2> QED BY <2>1, <2>2, <2>3, ServerStripe
<1>3. ASSUME NEW w \in Workers,
             Fulfill(w) \/ CommitMonthly(w) \/ Prepare(w) \/ CommitAdjustment(w)
      PROVE  StripeInv'
  <2>1. UNCHANGED stripe /\ (UNCHANGED inbox \/ MarkProcessed(w))
    BY <1>3 DEF Fulfill, CommitMonthly, Prepare, CommitAdjustment, Retry, database
  <2>2. pc[w] \in SaleStages \cup AdjustmentStages
    BY <1>3 DEF Fulfill, CommitMonthly, Prepare, CommitAdjustment, SaleStages,
                AdjustmentStages, FirstReadStages, HydratedStages
  <2>3. Sent
    BY <2>1, <2>2, MarkedIsEmitted
  <2> QED BY <2>1, <2>3, ServerStripe DEF stripe
<1>4. ASSUME NEW w \in Handlers, NEW e \in Events, Deliver(w, e)
      PROVE  StripeInv'
  <2>1. Sent
    BY <1>4 DEF Deliver, TypeOK
  <2> QED BY <1>4, <2>1, ServerStripe DEF Deliver, stripe
<1>5. ASSUME NEW w \in Reconcilers, Reconcile(w)
      PROVE  StripeInv'
  <2>1. Sent
    BY <1>5 DEF Reconcile, TypeOK, ReconcileEvent
  <2> QED BY <1>5, <2>1, ServerStripe DEF Reconcile, stripe
<1>6. CASE NextDay
  <2>1. Sent
    BY <1>6 DEF NextDay, TypeOK
  <2> QED BY <1>6, <2>1, ServerStripe DEF NextDay, stripe
<1>7. CASE Repair \/ UNCHANGED vars
  <2>1. UNCHANGED <<checkout, object, emitted, inbox>>
    BY <1>7 DEF Repair, stripe, database, vars
  <2> QED BY <2>1, ServerStripe
<1> QED BY <1>1, <1>2, <1>3, <1>4, <1>5, <1>6, <1>7, EnvironmentStripe DEF Next, Work

-----------------------------------------------------------------------------
(* What the database has made of the events *)

\* A step that neither decides anything nor processes an event.
Undecided ==
  /\ UNCHANGED <<checkout, object, license, adjustment>> /\ emitted \subseteq emitted'
  /\ order' = "fulfilled" => order = "fulfilled"
  /\ \A e \in Events : inbox'[e] = "processed" =>
       inbox[e] = "processed" \/ e = ReconcileEvent

LEMMA LedgerKept ==
  ASSUME TypeOK, StripeInv, LedgerInv, Undecided
  PROVE  LedgerInv'
<1> USE DEF LedgerInv, Undecided
<1>1. Adjusted'
  <2> SUFFICES ASSUME NEW o \in Objects, UpToDate(o)', StripeState(o)' # ""
               PROVE  adjustment[o].state = StripeState(o)'
    BY DEF Adjusted
  <2>1. StripeState(o)' = StripeState(o)
    BY DEF StripeState
  <2>2. Ev(o, object[o]) # ReconcileEvent
    BY SessionAssumption DEF Ev, ReconcileEvent, Objects
  <2>3. UpToDate(o)
    BY <2>2, StatusEvent DEF UpToDate
  <2> QED BY <2>1, <2>3 DEF Adjusted
<1>2. ResolvedIsWon' /\ PendingIsDecided' /\ RefundedBlocks' /\ FulfilledHasLicense'
  BY DEF ResolvedIsWon, PendingIsDecided, RefundedBlocks, FulfilledHasLicense
<1>3. Granted'
  <2>1. PaidProcessed' => PaidProcessed
    BY DEF PaidProcessed, Settling, Completed, AsyncSucceeded, ReconcileEvent, Ev
  <2> QED BY <2>1 DEF Granted, Blocked, Unsettled, EverRefunded
<1> QED BY <1>1, <1>2, <1>3

\* The environment.  A new status has no processed event, a Session is paid with
\* an event that is not processed yet, and a revoked license is not awaited.
LEMMA EnvironmentLedger ==
  ASSUME TypeOK, StripeInv, LedgerInv, Environment
  PROVE  LedgerInv'
<1> USE DEF LedgerInv
<1>1. ASSUME NEW next \in {"processing", "paid", "failed"}, Checkout(next)
      PROVE  LedgerInv'
  <2>1. /\ UNCHANGED <<object, license, order, adjustment, inbox>>
        /\ checkout' = next /\ emitted \subseteq emitted'
        /\ \/ checkout = "open"
           \/ checkout = "processing" /\ next = "paid" /\ AsyncSucceeded \in emitted'
           \/ checkout = "processing" /\ next = "failed"
    BY <1>1 DEF Checkout, Emit, AsyncSucceeded, database
  <2>2. Adjusted' /\ ResolvedIsWon' /\ PendingIsDecided' /\ RefundedBlocks' /\ FulfilledHasLicense'
    BY <2>1 DEF Adjusted, UpToDate, StripeState, ResolvedIsWon, PendingIsDecided,
                RefundedBlocks, FulfilledHasLicense
  <2>3. PaidProcessed' => PaidProcessed
    <3> SUFFICES ASSUME NEW e \in Events, Settling(e)', inbox[e] = "processed"
                 PROVE  Settling(e)
      BY <2>1 DEF PaidProcessed
    <3>1. e \in emitted \/ e = ReconcileEvent
      BY DEF StripeInv, RecordedIsEmitted
    <3> QED BY <2>1, <3>1 DEF Settling, StripeInv, CheckoutIsEmitted, Completed, ReconcileEvent, Ev
  <2>4. Granted'
    BY <2>1, <2>3 DEF Granted, Blocked, Unsettled, EverRefunded
  <2> QED BY <2>2, <2>4
<1>2. ASSUME NEW o \in Objects, NEW next \in Statuses, ObjectMoves(o, next)
      PROVE  LedgerInv'
  <2>1. UNCHANGED <<checkout, license, order, adjustment, inbox>>
    BY <1>2 DEF ObjectMoves, database
  <2>2. /\ emitted' = emitted \cup {Ev(o, next)} /\ object'[o] = next
        /\ \A q \in Objects \ {o} : object'[q] = object[q]
        /\ inbox[Ev(o, next)] = "unknown" /\ object[o] # "won"
    BY <1>2, MovesForward, NextIsUnseen
  <2>3. Adjusted'
    <3> SUFFICES ASSUME NEW q \in Objects, UpToDate(q)', StripeState(q)' # ""
                 PROVE  adjustment[q].state = StripeState(q)'
      BY <2>1 DEF Adjusted
    <3>1. q # o
      BY <2>1, <2>2 DEF UpToDate
    <3>2. object'[q] = object[q]
      BY <2>2, <3>1
    <3> QED BY <2>1, <3>2 DEF Adjusted, UpToDate, StripeState
  <2>4. ResolvedIsWon' /\ PendingIsDecided' /\ RefundedBlocks' /\ FulfilledHasLicense'
    BY <2>1, <2>2 DEF ResolvedIsWon, PendingIsDecided, RefundedBlocks, FulfilledHasLicense
  <2>5. PaidProcessed' => PaidProcessed
    BY <2>1, <2>2 DEF PaidProcessed, Settling
  <2>6. Granted'
    BY <2>1, <2>2, <2>5 DEF Granted, Blocked, Unsettled, EverRefunded
  <2> QED BY <2>3, <2>4, <2>6
<1>3. ASSUME NEW next \in SubscriptionStatus, SubscriptionMoves(next)
      PROVE  LedgerInv'
  <2>1. Undecided
    BY <1>3 DEF Undecided, SubscriptionMoves, Emit, database
  <2> QED BY <2>1, LedgerKept
<1>4. CASE Revoke
  <2>1. /\ UNCHANGED <<object, order, adjustment, inbox>>
        /\ license # "none" /\ license' = "revoked"
    BY <1>4 DEF Revoke, stripe
  <2> QED BY <2>1 DEF Adjusted, UpToDate, StripeState, ResolvedIsWon, PendingIsDecided,
                      RefundedBlocks, FulfilledHasLicense, Granted
<1> QED BY <1>1, <1>2, <1>3, <1>4 DEF Environment, Statuses

\* A sale processes no event of a dispute or refund.
LEMMA SaleAdjusted ==
  ASSUME TypeOK, StripeInv, LedgerInv, NEW w \in Workers, HasEvent(w), pc[w] \in SaleStages,
         MarkProcessed(w), UNCHANGED <<object, adjustment>>
  PROVE  Adjusted' /\ ResolvedIsWon' /\ PendingIsDecided'
<1>1. Adjusted'
  <2> SUFFICES ASSUME NEW o \in Objects, UpToDate(o)', StripeState(o)' # ""
               PROVE  adjustment[o].state = StripeState(o)'
    BY DEF Adjusted
  <2>1. StripeState(o)' = StripeState(o)
    BY DEF StripeState
  <2>2. Ev(o, object[o]) # event[w]
    BY EventAtHand DEF HasEvent
  <2>3. UpToDate(o)
    BY <2>2, StatusEvent DEF UpToDate, MarkProcessed, TypeOK
  <2> QED BY <2>1, <2>3 DEF LedgerInv, Adjusted
<1> QED BY <1>1 DEF LedgerInv, ResolvedIsWon, PendingIsDecided

\* The event that settles the payment is processed only with a license, or while
\* the purchase is restricted.
LEMMA SaleLedger ==
  ASSUME TypeOK, StripeInv, LedgerInv, NEW w \in Workers, HasEvent(w), ReaderInv(w),
         Fulfill(w) \/ CommitMonthly(w), ~Retry(w)
  PROVE  LedgerInv'
<1> USE DEF LedgerInv
<1>1. /\ UNCHANGED <<checkout, object, emitted, adjustment>> /\ MarkProcessed(w)
      /\ pc[w] \in {"fulfill", "commitMonthly"} /\ ~Unsettled
  BY DEF Fulfill, CommitMonthly, stripe
<1>2. Adjusted' /\ ResolvedIsWon' /\ PendingIsDecided'
  BY <1>1, SaleAdjusted DEF SaleStages
<1>3. \/ Issue
      \/ license' = license /\ (order' = order \/ order' = "failed")
  <2>1. UnpaidOrder(w) \subseteq {order, "failed"}
    BY DEF UnpaidOrder
  <2> QED BY <2>1 DEF Fulfill, CommitMonthly
<1>4. RefundedBlocks' /\ FulfilledHasLicense'
  BY <1>1, <1>3 DEF RefundedBlocks, FulfilledHasLicense, Issue
<1>5. Granted'
  <2> SUFFICES ASSUME Plan = "perpetual_v1", ~Blocked, license' # "active",
                      license' = "charged_back" \/ (license' = "none" /\ PaidProcessed')
               PROVE  EverRefunded
    BY <1>1 DEF Granted, Blocked, Unsettled, EverRefunded
  <2>1. Fulfill(w) /\ license' = license
    BY <1>1, <1>3 DEF Issue, CommitMonthly, ReaderInv, MonthlyStage, MonthlyStages
  <2>2. CASE license = "charged_back" \/ PaidProcessed
    BY <1>1, <2>1, <2>2 DEF Granted
  <2>3. CASE license = "none" /\ PaidProcessed' /\ ~PaidProcessed
    <3>1. PICK e \in Events : Settling(e)' /\ inbox'[e] = "processed"
      BY <2>3 DEF PaidProcessed
    <3>2. Settling(e) /\ inbox[e] # "processed"
      BY <1>1, <2>3, <3>1 DEF Settling, PaidProcessed
    <3>3. Settling(event[w])
      BY <1>1, <3>1, <3>2 DEF MarkProcessed, TypeOK
    <3>4. view[w].paid
      BY <2>1, <3>3 DEF Fulfill, ReaderInv, ReadsPayment
    <3>5. Issue
      BY <2>1, <2>3, <3>4 DEF Fulfill, Unfulfilled, FulfilledHasLicense
    <3> QED BY <3>5 DEF Issue
  <2> QED BY <2>1, <2>2, <2>3
<1> QED BY <1>2, <1>4, <1>5

\* Persisting a decision, or finding it settled, leaves what Stripe says.
LEMMA PrepareLedger ==
  ASSUME TypeOK, IntentIsMonthly, StripeInv, LedgerInv, NEW w \in Workers,
         HandlerInv(w), ReaderInv(w), Prepare(w), ~Retry(w)
  PROVE  LedgerInv'
<1> DEFINE o == event[w].object
<1> USE DEF LedgerInv
<1>1. /\ o \in Objects /\ event[w] = Ev(o, event[w].type) /\ event[w] \in Events
      /\ pc[w] \in ReadStages
  BY ReaderEvent DEF HandlerInv, Prepare, ReadStages, PreparedStages
<1>2. CASE Settled(w)
  <2>1. UNCHANGED <<stripe, order, license, adjustment>> /\ MarkProcessed(w)
    BY <1>2 DEF Prepare
  <2>2. Adjusted'
    <3> SUFFICES ASSUME NEW q \in Objects, UpToDate(q)', StripeState(q)' # ""
                 PROVE  adjustment[q].state = StripeState(q)'
      BY <2>1 DEF Adjusted
    <3>1. StripeState(q)' = StripeState(q) /\ object'[q] = object[q]
      BY <2>1 DEF StripeState, stripe
    <3>2. CASE Ev(q, object[q]) = event[w]
      <4>1. q = o /\ event[w].type = object[o]
        BY <3>2, EventAtHand
      <4>2. view[w].state = StripeState(o)
        BY <1>1, <4>1 DEF ReaderInv, ReadsCurrent
      <4> QED BY <1>2, <3>1, <4>1, <4>2 DEF Settled, Decision
    <3>3. CASE Ev(q, object[q]) # event[w]
      <4>1. UpToDate(q)
        BY <2>1, <3>1, <3>3, StatusEvent DEF UpToDate, MarkProcessed, TypeOK
      <4> QED BY <3>1, <4>1 DEF Adjusted
    <3> QED BY <3>2, <3>3
  <2>3. ResolvedIsWon' /\ PendingIsDecided' /\ RefundedBlocks' /\ FulfilledHasLicense'
    BY <2>1 DEF ResolvedIsWon, PendingIsDecided, RefundedBlocks, FulfilledHasLicense, stripe
  <2>4. Granted'
    <3>1. event[w] # AsyncSucceeded /\ event[w] # Completed
      BY <1>1, SessionAssumption DEF AsyncSucceeded, Completed, Ev, Objects
    <3>2. PaidProcessed' => PaidProcessed
      BY <2>1, <3>1 DEF PaidProcessed, Settling, MarkProcessed, TypeOK, stripe
    <3> QED BY <2>1, <3>2 DEF Granted, Blocked, Unsettled, EverRefunded, stripe
  <2> QED BY <2>2, <2>3, <2>4
<1>3. CASE ~Settled(w)
  <2>1. /\ fresh[w] /\ UNCHANGED <<stripe, inbox, order, license>>
        /\ adjustment'[o].state = Decision(w) /\ adjustment'[o].pending
        /\ \A q \in Objects \ {o} : adjustment'[q] = adjustment[q]
        /\ \/ Decision(w) = view[w].state /\ view[w].state # ""
           \/ /\ Decision(w) = adjustment[o].state /\ view[w].state = ""
              /\ adjustment[o].pending
    BY <1>3, PreparedDecision
  <2>2. Adjusted'
    <3> SUFFICES ASSUME NEW q \in Objects, UpToDate(q), StripeState(q) # ""
                 PROVE  adjustment'[q].state = StripeState(q)
      BY <2>1 DEF Adjusted, UpToDate, StripeState, stripe
    <3>1. CASE q = o
      <4>1. view[w].state = StripeState(o)
        BY <1>1, <2>1, <3>1 DEF ReaderInv, ReadsCurrent
      <4> QED BY <2>1, <3>1, <4>1
    <3>2. CASE q # o
      BY <2>1, <3>2 DEF Adjusted
    <3> QED BY <3>1, <3>2
  <2>3. ResolvedIsWon'
    BY <1>1, <2>1 DEF ResolvedIsWon, ReaderInv, ReadsWon, stripe
  <2>4. PendingIsDecided'
    <3>1. view[w].state # "none"
      BY DEF TypeOK, View
    <3> QED BY <1>1, <2>1, <3>1 DEF PendingIsDecided
  <2>5. RefundedBlocks'
    <3> SUFFICES ASSUME license = "refunded"
                 PROVE  \E f \in Refunds : adjustment'[f].state = "blocking"
      BY <2>1 DEF RefundedBlocks
    <3>1. PICK f \in Refunds : adjustment[f].state = "blocking"
      BY DEF RefundedBlocks
    <3>2. f = o => Decision(w) = "blocking"
      <4>1. view[w].state \in {"", "blocking", "resolved"}
        BY DEF TypeOK, View
      <4>2. f = o => view[w].state # "resolved"
        BY <1>1, ObjectsAssumption DEF ReaderInv, ReadsWon
      <4> QED BY <2>1, <3>1, <4>1, <4>2
    <3> QED BY <2>1, <3>1, <3>2 DEF Objects
  <2>6. FulfilledHasLicense'
    BY <2>1 DEF FulfilledHasLicense
  <2>7. Granted'
    BY <1>1, <2>1 DEF Granted, Unsettled
  <2> QED BY <2>2, <2>3, <2>4, <2>5, <2>6, <2>7
<1> QED BY <1>2, <1>3

\* Settling an adjustment records what Stripe says.  With nothing left that blocks,
\* the handler has a resolved dispute, and restores unless it saw a refund.
LEMMA CommitLedger ==
  ASSUME TypeOK, IntentIsMonthly, StripeInv, LedgerInv, NEW w \in Workers,
         HandlerInv(w), ReaderInv(w), CommitAdjustment(w), ~Retry(w)
  PROVE  LedgerInv'
<1> DEFINE o == event[w].object
           blocking == {q \in Objects : adjustment'[q].state = "blocking"}
<1> USE DEF LedgerInv
<1>1. /\ pc[w] = "commit" /\ fresh[w] /\ UNCHANGED stripe
      /\ adjustment' = Finished(w) /\ Apply(w, Finished(w)) /\ MarkProcessed(w)
  BY DEF CommitAdjustment
<1>2. /\ o \in Objects /\ event[w] = Ev(o, event[w].type) /\ event[w] \in Events
      /\ pc[w] \in ReadStages /\ pc[w] \in PreparedStages
  BY <1>1, ReaderEvent DEF HandlerInv, ReadStages, PreparedStages
<1>3. /\ \A q \in Objects \ {o} : /\ adjustment'[q].state = adjustment[q].state
                                 /\ adjustment'[q].pending = adjustment[q].pending
      /\ view[w].state # "" => adjustment'[o].state = view[w].state
      /\ view[w].state = "" => adjustment'[o].state = adjustment[o].state
      /\ ~adjustment'[o].pending
  BY <1>1, <1>2 DEF Finished, TypeOK, Adjustment
<1>4. view[w].state \in {"", "blocking", "resolved"}
  BY DEF TypeOK, View
<1>5. Adjusted'
  <2> SUFFICES ASSUME NEW q \in Objects, UpToDate(q)', StripeState(q)' # ""
               PROVE  adjustment'[q].state = StripeState(q)'
    BY DEF Adjusted
  <2>1. StripeState(q)' = StripeState(q) /\ object'[q] = object[q]
    BY <1>1 DEF StripeState, stripe
  <2>2. CASE q = o
    <3>1. event[w].type = object[o] \/ UpToDate(o)
      <4>1. CASE Ev(o, object[o]) = event[w]
        BY <4>1, EventAtHand
      <4>2. CASE Ev(o, object[o]) # event[w]
        BY <1>1, <2>1, <2>2, <4>2, StatusEvent DEF UpToDate, MarkProcessed, TypeOK
      <4> QED BY <4>1, <4>2
    <3>2. view[w].state = StripeState(o)
      BY <1>1, <1>2, <3>1 DEF ReaderInv, ReadsCurrent
    <3> QED BY <1>3, <2>1, <2>2, <3>2
  <2>3. CASE q # o
    <3>1. Ev(q, object[q]) # event[w]
      BY <2>3, EventAtHand
    <3>2. UpToDate(q)
      BY <1>1, <2>1, <3>1, StatusEvent DEF UpToDate, MarkProcessed, TypeOK
    <3> QED BY <1>3, <2>1, <2>3, <3>2 DEF Adjusted
  <2> QED BY <2>2, <2>3
<1>6. ResolvedIsWon'
  BY <1>1, <1>2, <1>3 DEF ResolvedIsWon, ReaderInv, ReadsWon, stripe
<1>7. PendingIsDecided'
  BY <1>3 DEF PendingIsDecided
<1>8. \A f \in Refunds : adjustment[f].state = "blocking" => adjustment'[f].state = "blocking"
  <2>1. o \in Refunds => view[w].state # "resolved"
    BY <1>2, ObjectsAssumption DEF ReaderInv, ReadsWon
  <2> QED BY <1>3, <1>4, <2>1 DEF Objects
<1>9. RefundedBlocks'
  BY <1>1, <1>8 DEF RefundedBlocks, Apply, Issue
<1>10. FulfilledHasLicense'
  BY <1>1 DEF FulfilledHasLicense, Apply, Issue
<1>11. Granted'
  <2> SUFFICES ASSUME Plan = "perpetual_v1", blocking = {}, license' \in {"none", "charged_back"}
               PROVE  EverRefunded
    BY <1>1 DEF Granted, Blocked, EverRefunded, stripe
  <2>1. adjustment[o].pending /\ adjustment[o].state # "none"
    BY <1>1, <1>2 DEF ReaderInv, Prepared, PendingIsDecided
  <2>2. view[w].state = "resolved"
    <3>1. view[w].state # "blocking"
      BY <1>2, <1>3
    <3>2. view[w].state = "" => adjustment[o].state = "resolved"
      BY <1>2, <1>3, <2>1 DEF TypeOK, Adjustment
    <3>3. adjustment[o].state = "resolved" => view[w].state = "resolved"
      BY <1>1, <1>2 DEF ReaderInv, ReadsResolved
    <3> QED BY <1>4, <3>1, <3>2, <3>3
  <2>3. view[w].refunded
    BY <1>1, <2>2 DEF Apply, Issue
  <2> QED BY <2>3 DEF ReaderInv, SeenRefunded
<1> QED BY <1>5, <1>6, <1>7, <1>9, <1>10, <1>11

\* Every step keeps what is said about the database.
LEMMA LedgerStep ==
  ASSUME TypeOK, IntentIsMonthly, StripeInv, LedgerInv,
         \A v \in Workers : HandlerInv(v) /\ ReaderInv(v), [Next]_vars
  PROVE  LedgerInv'
<1>1. ASSUME NEW w \in Workers,
             \/ Retrieve(w) \/ ReadMonthlyOrder(w) \/ HydrateMonthly(w) \/ ReadInvoices(w)
             \/ Identify(w) \/ Hydrate(w) \/ ReadCharge(w) \/ ReadSubscription(w)
             \/ ReadIntent(w) \/ CancelSubscription(w)
             \/ Retry(w)
      PROVE  LedgerInv'
  <2>1. /\ UNCHANGED <<checkout, object, inbox, license, adjustment>>
        /\ emitted \subseteq emitted'
        /\ order' = "fulfilled" => order = "fulfilled"
    BY <1>1 DEF Retrieve, ReadMonthlyOrder, HydrateMonthly, ReadInvoices, Identify, Hydrate,
                ReadCharge, ReadSubscription, ReadIntent, CancelSubscription, EnsureOrder,
                Retry, stripe, database
  <2> QED BY <2>1, LedgerKept DEF Undecided
<1>2. ASSUME NEW w \in Workers,
             Fulfill(w) \/ CommitMonthly(w) \/ Prepare(w) \/ CommitAdjustment(w)
      PROVE  LedgerInv'
  BY <1>1, <1>2, SaleLedger, PrepareLedger, CommitLedger DEF HandlerInv
<1>3. ASSUME NEW w \in Handlers, NEW e \in Events, Deliver(w, e)
      PROVE  LedgerInv'
  <2>1. \A f \in Events : inbox'[f] = "processed" => inbox[f] = "processed"
    BY <1>3 DEF Deliver, TypeOK
  <2> QED BY <1>3, <2>1, LedgerKept DEF Undecided, Deliver, stripe
<1>4. ASSUME NEW w \in Reconcilers, Reconcile(w)
      PROVE  LedgerInv'
  <2>1. \A f \in Events : inbox'[f] = "processed" => inbox[f] = "processed"
    BY <1>4 DEF Reconcile, TypeOK
  <2> QED BY <1>4, <2>1, LedgerKept DEF Undecided, Reconcile, stripe
<1>5. CASE NextDay
  <2>1. \A f \in Events : inbox'[f] = "processed" => inbox[f] = "processed"
    BY <1>5 DEF NextDay, TypeOK
  <2> QED BY <1>5, <2>1, LedgerKept DEF Undecided, NextDay, stripe
<1>6. CASE Repair \/ UNCHANGED vars
  <2>1. Undecided
    BY <1>6 DEF Undecided, Repair, stripe, database, vars
  <2> QED BY <2>1, LedgerKept
<1> QED BY <1>1, <1>2, <1>3, <1>4, <1>5, <1>6, EnvironmentLedger DEF Next, Work, Fail

-----------------------------------------------------------------------------
(* The invariant and what follows from it *)

LEMMA InitConvergence == Init => ConvergenceInv
<1> SUFFICES ASSUME Init PROVE ConvergenceInv
  OBVIOUS
<1>1. BillingInv
  BY InitBilling
<1>2. StripeInv
  BY DEF Init, StripeInv, RecordedIsEmitted, EmittedIsPast, StatusIsEmitted,
         SubscriptionIsMonthly, CheckoutIsEmitted
<1>3. LedgerInv
  <2>1. \A o \in Objects : object[o] = "absent"
    BY DEF Init
  <2>2. \A o \in Objects : adjustment[o].state = "none" /\ ~adjustment[o].pending
    BY DEF Init
  <2>3. license = "none" /\ order = "none" /\ \A e \in Events : inbox[e] = "unknown"
    BY DEF Init
  <2> QED BY <2>1, <2>2, <2>3
          DEF LedgerInv, Adjusted, UpToDate, ResolvedIsWon, PendingIsDecided, RefundedBlocks,
              FulfilledHasLicense, Granted, PaidProcessed
<1>4. ASSUME NEW w \in Workers PROVE ReaderInv(w)
  <2>1. pc[w] = "idle" /\ view[w] = NoView
    BY DEF Init
  <2>2. ~NoView.refunded
    BY DEF NoView
  <2> QED BY <2>1, <2>2
          DEF ReaderInv, SaleEvent, MonthlyStage, ReadsCurrent, ReadsWon, ReadsResolved, Prepared,
              ReadsPayment, SeenRefunded, SaleStages, MonthlyStages, ReadStages, PreparedStages
<1> QED BY <1>1, <1>2, <1>3, <1>4 DEF ConvergenceInv

LEMMA ConvergenceStep == ConvergenceInv /\ [Next]_vars => ConvergenceInv'
<1> SUFFICES ASSUME ConvergenceInv, [Next]_vars PROVE ConvergenceInv'
  OBVIOUS
<1> USE DEF ConvergenceInv
<1>1. TypeOK /\ IntentIsMonthly /\ \A v \in Workers : HandlerInv(v) /\ ReaderInv(v)
  BY DEF BillingInv, DatabaseInv
<1>2. BillingInv'
  BY BillingStep
<1>3. StripeInv'
  BY <1>1, StripeStep DEF HandlerInv
<1>4. LedgerInv'
  BY <1>1, LedgerStep
<1>5. \A w \in Workers : ReaderInv(w)'
  BY <1>1, ReaderStep DEF LedgerInv
<1> QED BY <1>2, <1>3, <1>4, <1>5

\* The inductive invariant holds of every behaviour of the purchase.
THEOREM ConvergenceInvHolds == Spec => []ConvergenceInv
BY InitConvergence, ConvergenceStep, PTL DEF Spec

\* With every event processed nothing is pending any more.
LEMMA NothingIsUnsettled ==
  ASSUME ConvergenceInv, \A e \in emitted : inbox[e] = "processed"
  PROVE  ~Unsettled
<1> SUFFICES ASSUME NEW o \in Objects, adjustment[o].pending PROVE FALSE
  BY DEF ConvergenceInv, BillingInv, DatabaseInv, IntentIsMonthly, Unsettled
<1>1. PICK e \in Events : e.object = o /\ inbox[e] = "recorded"
  BY DEF ConvergenceInv, BillingInv, DatabaseInv, PendingIsRetryable
<1>2. e # ReconcileEvent
  BY <1>1, EventParts, SessionAssumption DEF ReconcileEvent, Objects
<1> QED BY <1>1, <1>2 DEF ConvergenceInv, StripeInv, RecordedIsEmitted

\* Once every event of Stripe is processed, in whatever order and by however many
\* readers of outdated objects, the adjustments say what Stripe says, and a paid
\* perpetual purchase that nothing restricts has its license.
THEOREM ConvergedHolds == Spec => []Converged
<1>1. ConvergenceInv => Converged
  <2> SUFFICES ASSUME ConvergenceInv, \A e \in emitted : inbox[e] = "processed"
               PROVE  /\ \A o \in Objects :
                           StripeState(o) # "" => adjustment[o].state = StripeState(o)
                      /\ Plan = "perpetual_v1" /\ checkout = "paid" /\ ~Blocked /\ ~RefundUndone =>
                           license \in {"active", "revoked"}
    BY DEF Converged
  <2> USE DEF ConvergenceInv
  <2>1. ASSUME NEW o \in Objects, StripeState(o) # ""
        PROVE  adjustment[o].state = StripeState(o)
    <3>1. object[o] # "absent"
      BY <2>1 DEF StripeState
    <3>2. UpToDate(o)
      BY <3>1 DEF StripeInv, StatusIsEmitted, UpToDate
    <3> QED BY <2>1, <3>2 DEF LedgerInv, Adjusted
  <2>2. ASSUME Plan = "perpetual_v1", checkout = "paid", ~Blocked, ~RefundUndone
        PROVE  license \in {"active", "revoked"}
    <3>1. PaidProcessed
      <4>1. Completed \in emitted
        BY <2>2 DEF StripeInv, CheckoutIsEmitted
      <4>2. emitted \subseteq Events
        BY DEF BillingInv, TypeOK
      <4> QED BY <2>2, <4>1, <4>2 DEF PaidProcessed, Settling
    <3>2. ~EverRefunded
      <4> SUFFICES ASSUME NEW f \in Refunds, Ev(f, "succeeded") \in emitted PROVE FALSE
        BY DEF EverRefunded
      <4>1. f \in Objects /\ "succeeded" \in Statuses
        BY DEF Objects, Statuses, RefundStatus
      <4>2. "succeeded" \in Past(f)
        BY <4>1 DEF StripeInv, EmittedIsPast
      <4>3. object[f] \in {"succeeded", "failed"}
        BY <4>2 DEF Past, DisputeStatus
      <4>4. object[f] = "succeeded"
        BY <2>2, <4>3 DEF RefundUndone
      <4>5. StripeState(f) = "blocking"
        BY <4>4 DEF StripeState
      <4> QED BY <2>1, <2>2, <4>1, <4>5 DEF Blocked
    <3>3. license \notin {"none", "charged_back"}
      BY <2>2, <3>1, <3>2, NothingIsUnsettled DEF LedgerInv, Granted
    <3>4. license # "refunded"
      BY <2>2 DEF LedgerInv, RefundedBlocks, Blocked, Objects
    <3> QED BY <3>3, <3>4 DEF BillingInv, TypeOK
  <2> QED BY <2>1, <2>2
<1> QED BY <1>1, ConvergenceInvHolds, PTL

-----------------------------------------------------------------------------
(* OrderBilling implements LicenseLedger *)

\* A step that leaves the license and the adjustments alone is a stutter, unless
\* the Subscription ends.
LEMMA LedgerStutters ==
  ASSUME UNCHANGED <<license, adjustment>>, UNCHANGED Collecting \/ ~Collecting'
  PROVE  [Ledger!Next]_(Ledger!licenseVars)
<1>1. UNCHANGED <<license, Blocking, Judged>>
  BY DEF Blocking, Judged
<1>2. CASE UNCHANGED Collecting
  BY <1>1, <1>2 DEF Ledger!licenseVars
<1>3. CASE ~Collecting'
  <2>1. Collecting' = FALSE
    BY <1>3 DEF Collecting
  <2> QED BY <1>1, <2>1 DEF Ledger!Stop, Ledger!Next
<1> QED BY <1>2, <1>3

\* An adjustment of its own kind is weighed, and the others are left alone.
LEMMA OneIsWeighed ==
  ASSUME NEW o \in Objects, adjustment'[o].state \in {"blocking", "resolved"},
         adjustment'[o].state = "resolved" => o \in Disputes,
         \A q \in Objects \ {o} : /\ adjustment'[q].state = adjustment[q].state
                                 /\ adjustment'[q].pending = adjustment[q].pending
  PROVE  /\ Ledger!Weigh(o)
         /\ adjustment'[o].pending => Judged' = Judged \ {o}
         /\ ~adjustment'[o].pending =>
              Judged' = IF o \in Blocking' THEN Judged \cup {o} ELSE Judged \ {o}
<1>1. adjustment'[o].state = "blocking" => Blocking' = Blocking \cup {o}
  BY DEF Blocking
<1>2. adjustment'[o].state = "resolved" => Blocking' = Blocking \ {o}
  BY DEF Blocking
<1>3. Ledger!Weigh(o)
  BY <1>1, <1>2 DEF Ledger!Weigh, Objects
<1>4. \A q \in Objects \ {o} : q \in Judged' <=> q \in Judged
  BY DEF Judged, Blocking
<1>5. o \in Judged' <=> o \in Blocking' /\ ~adjustment'[o].pending
  BY DEF Judged
<1>6. Judged \subseteq Objects /\ Judged' \subseteq Objects
  BY DEF Judged, Blocking
<1> QED BY <1>3, <1>4, <1>5, <1>6

\* A sale gives a license only where there is none, and none that blocks.
LEMMA SaleIssues ==
  ASSUME ConvergenceInv, NEW w \in Workers, Fulfill(w) \/ CommitMonthly(w)
  PROVE  [Ledger!Next]_(Ledger!licenseVars)
<1>1. UNCHANGED <<adjustment, Collecting>>
  BY DEF Fulfill, CommitMonthly, Retry, Collecting, stripe, database
<1>2. \/ UNCHANGED license
      \/ license = "none" /\ ~Blocked /\ license' = "active"
  BY DEF Fulfill, CommitMonthly, Retry, Issue, Unfulfilled, database, ConvergenceInv,
         BillingInv, DatabaseInv, LicenseCounted
<1>3. CASE UNCHANGED license
  BY <1>1, <1>3, LedgerStutters
<1>4. CASE license = "none" /\ ~Blocked /\ license' = "active"
  <2>1. Blocking = {}
    BY <1>4 DEF Blocking, Blocked
  <2>2. UNCHANGED <<Blocking, Judged, Collecting>>
    BY <1>1 DEF Blocking, Judged
  <2> QED BY <1>4, <2>1, <2>2 DEF Ledger!Issue, Ledger!Next
<1> QED BY <1>2, <1>3, <1>4

\* A decision that is persisted is recorded, and has yet to be settled.
LEMMA PrepareRecords ==
  ASSUME ConvergenceInv, NEW w \in Workers, Prepare(w), ~Retry(w)
  PROVE  [Ledger!Next]_(Ledger!licenseVars)
<1> DEFINE o == event[w].object
<1>1. CASE Settled(w)
  BY <1>1, LedgerStutters DEF Prepare, Collecting, stripe
<1>2. CASE ~Settled(w)
  <2>1. TypeOK /\ IntentIsMonthly /\ StripeInv /\ LedgerInv /\ HandlerInv(w) /\ ReaderInv(w)
    BY DEF ConvergenceInv, BillingInv, DatabaseInv
  <2>2. o \in Objects /\ pc[w] \in ReadStages
    BY <2>1, ReaderEvent DEF HandlerInv, Prepare, ReadStages, PreparedStages
  <2>3. /\ UNCHANGED <<license, subscription>>
        /\ adjustment'[o].state = Decision(w) /\ adjustment'[o].pending
        /\ \A q \in Objects \ {o} : adjustment'[q] = adjustment[q]
        /\ \/ Decision(w) = view[w].state /\ view[w].state # ""
           \/ /\ Decision(w) = adjustment[o].state /\ view[w].state = ""
              /\ adjustment[o].pending
    BY <1>2, <2>1, PreparedDecision DEF stripe
  <2>4. Decision(w) \in {"blocking", "resolved"}
    BY <2>1, <2>2, <2>3 DEF TypeOK, View, Adjustment, LedgerInv, PendingIsDecided
  <2>5. Decision(w) = "resolved" => o \in Disputes
    BY <2>1, <2>2, <2>3 DEF LedgerInv, ResolvedIsWon, ReaderInv, ReadsWon
  <2>6. Ledger!Weigh(o) /\ Judged' = Judged \ {o}
    BY <2>2, <2>3, <2>4, <2>5, OneIsWeighed
  <2>7. Ledger!Record(o)
    BY <2>3, <2>6 DEF Ledger!Record, Collecting
  <2> QED BY <2>2, <2>7 DEF Ledger!Next, Objects
<1> QED BY <1>1, <1>2

\* A handler that settles an adjustment restricts the license once the Subscription
\* has ended, or finds nothing that blocks.
LEMMA CommitSettles ==
  ASSUME ConvergenceInv, NEW w \in Workers, CommitAdjustment(w), ~Retry(w)
  PROVE  [Ledger!Next]_(Ledger!licenseVars)
<1> DEFINE o == event[w].object
<1>1. /\ pc[w] = "commit" /\ fresh[w] /\ UNCHANGED stripe
      /\ adjustment' = Finished(w) /\ Apply(w, Finished(w))
  BY DEF CommitAdjustment
<1>2. TypeOK /\ StripeInv /\ LedgerInv /\ HandlerInv(w) /\ ReaderInv(w)
  BY DEF ConvergenceInv, BillingInv
<1>3. o \in Objects /\ pc[w] \in ReadStages /\ pc[w] \in PreparedStages
  BY <1>1, <1>2, ReaderEvent DEF HandlerInv, ReadStages, PreparedStages
<1>4. /\ \A q \in Objects \ {o} : /\ adjustment'[q].state = adjustment[q].state
                                 /\ adjustment'[q].pending = adjustment[q].pending
      /\ view[w].state # "" => adjustment'[o].state = view[w].state
      /\ view[w].state = "" => adjustment'[o].state = adjustment[o].state
      /\ ~adjustment'[o].pending
  BY <1>1, <1>2, <1>3 DEF Finished, TypeOK, Adjustment
<1>5. adjustment'[o].state \in {"blocking", "resolved"}
  <2>1. adjustment[o].state \in {"blocking", "resolved"}
    BY <1>1, <1>2, <1>3 DEF ReaderInv, Prepared, LedgerInv, PendingIsDecided, TypeOK, Adjustment
  <2>2. view[w].state \in {"", "blocking", "resolved"}
    BY <1>2 DEF TypeOK, View
  <2> QED BY <1>4, <2>1, <2>2
<1>6. adjustment'[o].state = "resolved" => o \in Disputes
  BY <1>2, <1>3, <1>4 DEF LedgerInv, ResolvedIsWon, ReaderInv, ReadsWon
<1>7. UNCHANGED Collecting
  BY <1>1 DEF Collecting, stripe
<1>8. Ledger!Settle(o)
  BY <1>3, <1>4, <1>5, <1>6, <1>7, OneIsWeighed DEF Ledger!Settle
<1>9. Blocking' = {q \in Objects : Finished(w)[q].state = "blocking"}
  BY <1>1 DEF Blocking
<1>10. CASE Blocking' # {}
  <2>1. ~CanBill(view[w].subscription)
    <3>1. PICK q \in Objects : adjustment'[q].state = "blocking"
      BY <1>10 DEF Blocking
    <3> QED BY <1>1, <1>2, <1>4, <3>1 DEF HandlerInv, MayCommit
  <2>2. ~Collecting
    BY <1>1, <1>2, <2>1
    DEF Collecting, HandlerInv, HasSubscription, HydratedStages, CanBill, TypeOK, View,
        SubscriptionStatus
  <2>3. license = "refunded" => Blocking' \cap Refunds # {}
    <3> SUFFICES ASSUME license = "refunded" PROVE Blocking' \cap Refunds # {}
      OBVIOUS
    <3>1. PICK f \in Refunds : adjustment[f].state = "blocking"
      BY <1>2 DEF LedgerInv, RefundedBlocks
    <3>2. f \in Objects /\ f \notin Disputes
      BY ObjectsAssumption DEF Objects
    <3>3. adjustment'[f].state = "blocking"
      BY <1>4, <1>5, <1>6, <3>1, <3>2
    <3> QED BY <3>1, <3>2, <3>3 DEF Blocking
  <2>4. \/ license \in {"none", "revoked"} /\ UNCHANGED license
        \/ /\ license \notin {"none", "revoked"}
           /\ license' = IF Blocking' \cap Refunds # {} THEN "refunded" ELSE "charged_back"
    <3>1. CASE license \in {"none", "revoked"}
      BY <1>1, <1>9, <1>10, <2>1, <3>1 DEF Apply, Final, Issue
    <3>2. CASE license \notin {"none", "revoked"}
      <4>1. license' = IF Blocking' \cap Refunds # {} \/ license = "refunded"
                       THEN "refunded" ELSE "charged_back"
        BY <1>1, <1>9, <1>10, <2>1, <3>2 DEF Apply, Final, Issue
      <4> QED BY <2>3, <3>2, <4>1
    <3> QED BY <3>1, <3>2
  <2>5. Ledger!Restrict(o)
    BY <1>8, <1>10, <2>2, <2>4 DEF Ledger!Restrict
  <2> QED BY <1>3, <2>5 DEF Ledger!Next, Objects
<1>11. CASE Blocking' = {}
  <2>1. \/ UNCHANGED license
        \/ license \in {"none", "charged_back"} /\ license' = "active"
    BY <1>1, <1>9, <1>11 DEF Apply, Issue
  <2>2. Ledger!Lift(o)
    BY <1>8, <1>11, <2>1 DEF Ledger!Lift
  <2> QED BY <1>3, <2>2 DEF Ledger!Next, Objects
<1> QED BY <1>10, <1>11

\* Stripe and the operator.
LEMMA EnvironmentImplements ==
  ASSUME Environment
  PROVE  [Ledger!Next]_(Ledger!licenseVars)
<1>1. ASSUME NEW next \in {"processing", "paid", "failed"}, Checkout(next)
      PROVE  [Ledger!Next]_(Ledger!licenseVars)
  BY <1>1, LedgerStutters DEF Checkout, Collecting, database
<1>2. ASSUME NEW o \in Objects, NEW next \in DisputeStatus \cup RefundStatus,
             ObjectMoves(o, next)
      PROVE  [Ledger!Next]_(Ledger!licenseVars)
  BY <1>2, LedgerStutters DEF ObjectMoves, Collecting, database
<1>3. ASSUME NEW next \in SubscriptionStatus, SubscriptionMoves(next)
      PROVE  [Ledger!Next]_(Ledger!licenseVars)
  <2>1. UNCHANGED <<license, adjustment>> /\ subscription # "canceled"
        /\ subscription' = next
    BY <1>3 DEF SubscriptionMoves, database
  <2>2. UNCHANGED Collecting \/ ~Collecting'
    BY <2>1 DEF Collecting
  <2> QED BY <2>1, <2>2, LedgerStutters
<1>4. CASE Revoke
  <2>1. UNCHANGED <<Blocking, Judged, Collecting>>
    BY <1>4 DEF Revoke, Blocking, Judged, Collecting, stripe
  <2> QED BY <1>4, <2>1 DEF Revoke, Ledger!Revoke, Ledger!Next
<1> QED BY <1>1, <1>2, <1>3, <1>4 DEF Environment

\* Every step is a step of the ledger or a stutter.
LEMMA LicenseStep ==
  ASSUME ConvergenceInv, [Next]_vars
  PROVE  [Ledger!Next]_(Ledger!licenseVars)
<1>1. ASSUME NEW w \in Workers, Work(w) \/ Fail(w)
      PROVE  [Ledger!Next]_(Ledger!licenseVars)
  <2>1. CASE Retry(w)
    BY <2>1, LedgerStutters DEF Retry, Collecting, stripe, database
  <2>2. CASE \/ Retrieve(w) \/ ReadMonthlyOrder(w) \/ HydrateMonthly(w) \/ ReadInvoices(w)
             \/ Identify(w) \/ Hydrate(w) \/ ReadCharge(w) \/ ReadSubscription(w)
             \/ ReadIntent(w)
    BY <2>2, LedgerStutters
    DEF Retrieve, ReadMonthlyOrder, HydrateMonthly, ReadInvoices, Identify, Hydrate,
        ReadCharge, ReadSubscription, ReadIntent, Retry, Collecting, stripe, database
  <2>3. CASE CancelSubscription(w)
    BY <2>3, LedgerStutters DEF CancelSubscription, Collecting, database
  <2> QED BY <1>1, <2>1, <2>2, <2>3, SaleIssues, PrepareRecords, CommitSettles
          DEF Work, Fail
<1>2. CASE \/ \E w \in Handlers, e \in Events : Deliver(w, e)
           \/ \E w \in Reconcilers : Reconcile(w)
           \/ NextDay \/ Repair \/ UNCHANGED vars
  BY <1>2, LedgerStutters
  DEF Deliver, Reconcile, NextDay, Repair, Collecting, stripe, database, vars
<1> QED BY <1>1, <1>2, EnvironmentImplements DEF Next

LEMMA LicenseInit == Init => Ledger!Init
<1> SUFFICES ASSUME Init PROVE Ledger!Init
  OBVIOUS
<1>1. Blocking = {} /\ Judged = {}
  BY DEF Init, Blocking, Judged
<1>2. Collecting \in BOOLEAN
  BY DEF Collecting
<1> QED BY <1>1, <1>2 DEF Init, Ledger!Init

\* The handlers, whatever they read before and commit after each other, implement
\* the ledger of claims and their license.
THEOREM LicenseImplemented == Spec => ImplementsLicense
<1>1. Spec => [][Ledger!Next]_(Ledger!licenseVars)
  BY ConvergenceInvHolds, LicenseStep, PTL DEF Spec
<1> QED BY <1>1, LicenseInit, PTL DEF Spec, ImplementsLicense, Ledger!Spec
=============================================================================
