------------------------- MODULE SubscriptionTerms -------------------------
(***************************************************************************)
(* How long a monthly license lasts: the projection of a Subscription that *)
(* the `subscriptions` row keeps (internal/billing/subscription.go,        *)
(* monthly_event.go, adjustment_event.go) and the terms of the entitlements *)
(* signed from it (internal/activation/service.go).                        *)
(*                                                                         *)
(* OrderBilling is about which events are processed and what becomes of    *)
(* the license; this module keeps the dates that OrderBilling leaves out.  *)
(* A worker notes the time and the order's revision, reads the             *)
(* Subscription and then its Invoices from Stripe, and commits if no other *)
(* worker has committed in between.  Everything it read may be out of date *)
(* by then.                                                                 *)
(*                                                                         *)
(* Of an adjustment it keeps the last transaction, which changes the dates: *)
(* how the decision is made durable and the Subscription canceled before it *)
(* is OrderBilling's.  While that lasts monthly events fail and are         *)
(* retried; here they may also be committed.                                *)
(*                                                                         *)
(* The n-th Invoice pays for the service up to End(n), so that the row's   *)
(* billing_period_end and last_paid_invoice_id are one number, `paid`.     *)
(* The unit of time is a week.  The charge that is disputed or refunded is *)
(* that of the first Invoice, which is paid when the behavior begins.      *)
(***************************************************************************)
EXTENDS Integers, FiniteSets

CONSTANTS
  Workers,      \* webhook requests, the daily scan, the adjustment worker
  Requests,     \* activations and refreshes of the license
  Period,       \* what an Invoice pays for
  Window,       \* recovery after it: 14 days
  Grace,        \* monthlyGracePeriod
  Refresh,      \* monthlyRefreshInterval
  MaxInvoices,  \* bound on the Invoices
  MaxTime,      \* bound on the time
  MaxMoves,     \* bound on what happens at Stripe
  NoTime        \* terminal_at IS NULL

ASSUME DurationsAssumption ==
  /\ {Period, Window, Grace, Refresh} \subseteq Nat \ {0}
  /\ NoTime \notin Int
ASSUME BoundsAssumption == MaxInvoices \in Nat \ {0} /\ {MaxTime, MaxMoves} \subseteq Nat

VARIABLES
  now,
  (* Stripe *)
  subscription,  \* status, cancel_at_period_end, whether it ended on request
  invoices,      \* the status of each Invoice
  claims,        \* the refund and the dispute of the first charge
  since,         \* when they were created
  moves,         \* how often something has happened
  (* the database *)
  pending,       \* events that have not been processed
  row,           \* subscriptions
  terminalAt,    \* subscriptions.terminal_at
  license,       \* licenses.state
  stored,        \* billing_adjustments.state
  (* workers and requests *)
  event,         \* the event of a worker
  view,          \* what it has noted and read
  request        \* what a request has noted and read

stripe == <<subscription, invoices, claims, since, moves>>
database == <<row, terminalAt, license, stored>>
vars == <<now, subscription, invoices, claims, since, moves, pending, row,
          terminalAt, license, stored, event, view, request>>

-----------------------------------------------------------------------------
Adjustments == {"refund", "dispute"}
InvoiceNumbers == 1..MaxInvoices
End(n) == n * Period
Times == 0..(End(MaxInvoices) + Window + MaxTime)

\* An event is about an Invoice, an adjustment, or the Session and Subscription.
SessionEvent == <<"session", 0>>
InvoiceEvent(i) == <<"invoice", i>>
AdjustmentEvent(a) == <<a, 0>>
NoEvent == <<"none", 0>>
Events == {InvoiceEvent(i) : i \in InvoiceNumbers}
          \cup {AdjustmentEvent(a) : a \in Adjustments} \cup {SessionEvent}

Row == [state : {"none", "active", "recovering", "ending", "lapsed"},
        paid : 0..MaxInvoices, recoveryUntil : Times]
NoRow == [state |-> "none", paid |-> 0, recoveryUntil |-> 0]
Subscription == [status : {"active", "past_due", "unpaid", "canceled"},
                 ending : BOOLEAN, requested : BOOLEAN, latest : InvoiceNumbers]
Claims == [Adjustments -> {"absent", "blocking", "resolved"}]
FirstSubscription ==
  [status |-> "active", ending |-> FALSE, requested |-> FALSE, latest |-> 1]
NoClaims == [a \in Adjustments |-> "absent"]

\* `paid` is the Invoice to be handed to reconcileSubscription, 0 if none is paid.
View == [at : Times, subscription : Subscription, paid : 0..MaxInvoices,
         claims : Claims]
NoView == [at |-> 0, subscription |-> FirstSubscription, paid |-> 0, claims |-> NoClaims]

\* A request has the time, and the license, the row and terminal_at as they were
\* when it began to wait for the license row.
LicenseStates == {"none", "active", "charged_back", "refunded"}
Request == [waiting : BOOLEAN, at : Times, license : LicenseStates, row : Row,
            terminalAt : Times \cup {NoTime}]
NoRequest == [waiting |-> FALSE, at |-> 0, license |-> "none", row |-> NoRow,
              terminalAt |-> NoTime]

TypeOK ==
  /\ now \in 0..MaxTime
  /\ subscription \in Subscription
  /\ invoices \in [InvoiceNumbers -> {"none", "open", "paid"}]
  /\ claims \in Claims
  /\ since \in [Adjustments -> 0..MaxTime]
  /\ moves \in 0..MaxMoves
  /\ pending \subseteq Events
  /\ row \in Row
  /\ terminalAt \in Times \cup {NoTime}
  /\ license \in LicenseStates
  /\ stored \in Claims
  /\ event \in [Workers -> Events \cup {NoEvent}]
  /\ view \in [Workers -> View]
  /\ request \in [Requests -> Request]

\* The Session has completed and its payment has succeeded.
Init ==
  /\ now = 0
  /\ subscription = FirstSubscription
  /\ invoices = [i \in InvoiceNumbers |-> IF i = 1 THEN "paid" ELSE "none"]
  /\ claims = NoClaims
  /\ since = [a \in Adjustments |-> 0]
  /\ moves = 0
  /\ pending = {SessionEvent}
  /\ row = NoRow
  /\ terminalAt = NoTime
  /\ license = "none"
  /\ stored = NoClaims
  /\ event = [w \in Workers |-> NoEvent]
  /\ view = [w \in Workers |-> NoView]
  /\ request = [r \in Requests |-> NoRequest]

-----------------------------------------------------------------------------
(* The projection *)

Later(s, t) == IF t > s THEN t ELSE s
Earlier(s, t) == IF t < s THEN t ELSE s

\* A newly paid Invoice moves the paid period forward, never back.
Renewed(r, n) ==
  IF End(n) > End(r.paid)
  THEN [r EXCEPT !.paid = n, !.recoveryUntil = End(n) + Window]
  ELSE r

\* Variant: the deadline follows the clock.
RecoveringFrom(r, t) ==
  [r EXCEPT !.state = "recovering", !.recoveryUntil = Later(@, t + Window)]
Recovering(r, t) ==
  [r EXCEPT !.state = "recovering", !.recoveryUntil = Later(@, End(r.paid) + Window)]
Ending(r, t) ==
  [r EXCEPT !.state = IF t < End(r.paid) THEN "ending" ELSE "lapsed",
            !.recoveryUntil = End(r.paid)]
Active(r) == [r EXCEPT !.state = "active", !.recoveryUntil = End(r.paid) + Window]

\* reconcileSubscription: row r, Subscription s, paid Invoice n (or 0), time t.
Reconciled(r, s, n, t) ==
  LET new == Renewed(r, n)
      lapsed == [new EXCEPT !.state = "lapsed"]
  IN  CASE s.status \in {"active", "past_due"} /\ s.ending -> Ending(new, t)
        [] s.status = "active" /\ ~s.ending /\ t < End(new.paid) -> Active(new)
        [] s.status = "active" /\ ~s.ending /\ t >= End(new.paid) -> Recovering(new, t)
        [] s.status = "past_due" /\ ~s.ending -> Recovering(new, t)
        [] s.status = "unpaid" -> lapsed
        [] s.status = "canceled" /\ s.requested ->
             [lapsed EXCEPT !.recoveryUntil = End(new.paid)]
        [] s.status = "canceled" /\ ~s.requested -> lapsed

\* restorationProjection: what is left of the paid time, but no new attempt to
\* collect on a Subscription that has ended.
Restored(r, v, n) ==
  LET new == Reconciled(Renewed(r, 1), v.subscription, n, v.at) IN
  IF v.subscription.status = "canceled"
  THEN [new EXCEPT !.recoveryUntil = End(new.paid)]
  ELSE new

\* monthlyEntitlementTerms, for row r, terminal time e, license state l and time t.
Deadline(r, e, l) == IF l = "active" THEN r.recoveryUntil ELSE e
\* Variant: the last moment counts.
SignableAtExpiry(r, e, l, t) ==
  (l # "active" => e # NoTime) /\ t <= Deadline(r, e, l) + Grace
Signable(r, e, l, t) ==
  (l # "active" => e # NoTime) /\ t < Deadline(r, e, l) + Grace
TermsOf(r, e, l, t) ==
  LET expiry == Deadline(r, e, l) + Grace
  IN  [expiresAt |-> expiry, refreshAfter |-> Earlier(t + Refresh, expiry)]

-----------------------------------------------------------------------------
(* Stripe *)

Collecting == subscription.status # "canceled"

\* Event e tells of what has happened.
Emit(e) ==
  /\ pending' = pending \cup {e}
  /\ UNCHANGED <<now, database, event, view, request>>
Move(e) ==
  /\ moves < MaxMoves
  /\ moves' = moves + 1
  /\ Emit(e)

\* The next period begins with an open Invoice.
Renew ==
  LET next == subscription.latest + 1 IN
  /\ Collecting
  /\ next \in InvoiceNumbers
  /\ now >= End(subscription.latest)
  /\ invoices' = [invoices EXCEPT ![next] = "open"]
  /\ subscription' = [subscription EXCEPT !.latest = next]
  /\ Move(InvoiceEvent(next))
  /\ UNCHANGED <<claims, since>>

\* Any open Invoice can be paid; the latest brings the Subscription back.
Pay(i) ==
  /\ Collecting
  /\ invoices[i] = "open"
  /\ invoices' = [invoices EXCEPT ![i] = "paid"]
  /\ subscription' = IF i = subscription.latest
                     THEN [subscription EXCEPT !.status = "active"] ELSE subscription
  /\ Move(InvoiceEvent(i))
  /\ UNCHANGED <<claims, since>>

Become(s) ==
  /\ subscription' = s
  /\ UNCHANGED <<invoices, claims, since>>
Canceled == [subscription EXCEPT !.status = "canceled", !.requested = TRUE]

\* A payment fails; the retries end; the customer schedules a cancellation,
\* withdraws it, or cancels.
FailPayment ==
  /\ invoices[subscription.latest] = "open" /\ subscription.status = "active"
  /\ Become([subscription EXCEPT !.status = "past_due"])
  /\ Move(SessionEvent)
GiveUp ==
  /\ subscription.status = "past_due"
  /\ \E status \in {"unpaid", "canceled"} :
       Become([subscription EXCEPT !.status = status])
  /\ Move(SessionEvent)
Schedule ==
  /\ subscription.status \in {"active", "past_due"}
  /\ Become([subscription EXCEPT !.ending = ~@])
  /\ Move(SessionEvent)
Cancel == Collecting /\ Become(Canceled) /\ Move(SessionEvent)

\* CancelSubscription, asked for by the worker of an adjustment.
CancelForClaim ==
  /\ Collecting
  /\ \E a \in Adjustments : claims[a] = "blocking"
  /\ Become(Canceled)
  /\ Emit(SessionEvent)
  /\ UNCHANGED moves

\* A refund succeeds; a dispute opens, and closes for or without the bank.
Claim(a) ==
  /\ \/ claims[a] = "absent" /\ claims' = [claims EXCEPT ![a] = "blocking"]
     \/ a = "dispute" /\ claims[a] # "resolved"
        /\ claims' = [claims EXCEPT ![a] = "resolved"]
  /\ since' = IF claims[a] = "absent" THEN [since EXCEPT ![a] = now] ELSE since
  /\ Move(AdjustmentEvent(a))
  /\ UNCHANGED <<subscription, invoices>>

-----------------------------------------------------------------------------
(* Workers *)

\* Variant: only the latest Invoice is looked at.
LatestOnly(latest, i) == {latest}
\* The latest Invoice, and the event's.
Consulted(latest, i) == {latest, i} \ {0}
\* The one that is paid for longest.
Newest(S) ==
  LET paid == {i \in S : invoices[i] = "paid"} IN
  IF paid = {} THEN 0 ELSE CHOOSE i \in paid : \A j \in paid : j <= i

\* The time and the revision are noted, the Subscription is read.  The daily scan
\* handles SessionEvent without any event.
Begin(w) ==
  /\ event[w] = NoEvent
  /\ \E e \in pending \cup {SessionEvent} :
       /\ event' = [event EXCEPT ![w] = e]
       /\ pending' = pending \ {e}
       /\ view' = [view EXCEPT ![w] =
            [at |-> now, subscription |-> subscription,
             paid |-> Newest(Consulted(subscription.latest, e[2])),
             claims |-> IF e[1] \in Adjustments THEN claims ELSE NoClaims]]
  /\ UNCHANGED <<now, stripe, database, request>>

\* Workers S forget what they have read.
Leave(S) ==
  /\ event' = [w \in Workers |-> IF w \in S THEN NoEvent ELSE event[w]]
  /\ view' = [w \in Workers |-> IF w \in S THEN NoView ELSE view[w]]

\* The event is redelivered, or its adjustment repaired, after a failure.
Fail(w) ==
  /\ event[w] # NoEvent
  /\ Leave({w})
  /\ pending' = pending \cup {event[w]}
  /\ UNCHANGED <<now, stripe, database, request>>

\* Variant: the revision stays as it is.
NoneOutdated(w) == {}
\* Variant: a worker without an event is asked to retry.
AllOutdated(w) == Workers \ {w}
\* Once billing_revision has advanced the other workers can only fail.
Outdated(w) == {u \in Workers \ {w} : event[u] # NoEvent}
Commit(w) ==
  /\ Leave({w} \cup Outdated(w))
  /\ pending' = pending \cup {event[u] : u \in Outdated(w)}
  /\ UNCHANGED <<now, stripe, request>>

\* The Invoices have been read some time between the Subscription and now.
Seen(w) ==
  {view[w].paid, Newest(Consulted(view[w].subscription.latest, event[w][2]))}

\* commitMonthlyEvent and applyMonthlyPurchase: the license is issued, or its
\* projection brought up to date.
CommitMonthly(w) ==
  LET s == view[w].subscription
      t == view[w].at
      buys == \/ s.status = "active"
              \/ s.status = "canceled" /\ s.requested /\ t < End(1)
      blocked == \E a \in Adjustments : stored[a] = "blocking"
      bare == license = "none" /\ buys /\ ~blocked
      held == license = "active" /\ ~blocked
  IN  /\ event[w][1] \in {"session", "invoice"}
      /\ \/ /\ bare \/ held
            /\ license' = "active"
            /\ \E n \in Seen(w) :
                 row' = Reconciled(IF bare THEN Renewed(NoRow, 1) ELSE row, s, n, t)
         \/ /\ ~bare /\ ~held
            /\ UNCHANGED <<row, license>>
      /\ Commit(w)
      /\ UNCHANGED <<terminalAt, stored>>

\* Variant: the time of the claim counts, even after the deadline.
TerminalUncapped(e) == IF terminalAt = NoTime THEN e ELSE Earlier(terminalAt, e)
\* LEAST(COALESCE(terminal_at, e), e, recovery_until)
Terminal(e) ==
  Earlier(IF terminalAt = NoTime THEN e ELSE Earlier(terminalAt, e), row.recoveryUntil)

\* Variant: a Subscription past due does not bill.
BillsWhenActive(s) == s.status = "active"
\* subscriptionCanBill
CanBill(s) == s.status # "canceled"

\* applyAdjustments while some adjustment blocks.
Restrict(w) ==
  LET blocking == {a \in Adjustments : stored'[a] = "blocking"} IN
  /\ blocking # {}
  /\ IF license = "none" \/ CanBill(view[w].subscription)
     THEN UNCHANGED <<license, terminalAt>>
     ELSE /\ license' = IF "refund" \in blocking THEN "refunded" ELSE "charged_back"
          /\ terminalAt' = Terminal(CHOOSE e \in {since[a] : a \in blocking} :
                                      \A a \in blocking : e <= since[a])
  /\ UNCHANGED row

\* applyAdjustments when none does: this one has been resolved.
Restore(w) ==
  /\ \A a \in Adjustments : stored'[a] # "blocking"
  /\ \E n \in Seen(w) :
       LET new == Restored(row, view[w], n) IN
       IF /\ view[w].claims["refund"] # "blocking"
          /\ license # "refunded"
          /\ license = "active" \/ view[w].at < new.recoveryUntil + Grace
       THEN row' = new /\ license' = "active" /\ terminalAt' = NoTime
       ELSE UNCHANGED <<row, license, terminalAt>>

\* commitAdjustment.  What blocks is committed once the Subscription has ended.
CommitAdjustment(w) ==
  LET a == event[w][1] decision == view[w].claims[a] IN
  /\ a \in Adjustments
  /\ decision = "blocking" => ~CanBill(view[w].subscription)
  /\ stored' = [stored EXCEPT ![a] = decision]
  /\ Restrict(w) \/ Restore(w)
  /\ Commit(w)

-----------------------------------------------------------------------------
(* Activations and refreshes *)

\* findLicense reads the license and its subscription, and waits for the lock on
\* the license alone.
FindLicense(r) ==
  /\ ~request[r].waiting
  /\ license # "none"
  /\ request' = [request EXCEPT ![r] =
       [waiting |-> TRUE, at |-> now, license |-> license, row |-> row,
        terminalAt |-> terminalAt]]
  /\ UNCHANGED <<now, stripe, database, pending, event, view>>

\* When it is granted, the license is as it is now, its subscription as it was.
\* The entitlement goes to the client; the server does not keep it.
Entitled(r) == LET q == request[r] IN Signable(q.row, q.terminalAt, license, q.at)
Entitlement(r) == LET q == request[r] IN TermsOf(q.row, q.terminalAt, license, q.at)
Answer(r) ==
  /\ request[r].waiting
  /\ request' = [request EXCEPT ![r] = NoRequest]
  /\ UNCHANGED <<now, stripe, database, pending, event, view>>

\* No worker and no request lasts more than a week.
Tick ==
  /\ now < MaxTime
  /\ \A w \in Workers : event[w] # NoEvent => view[w].at = now
  /\ \A r \in Requests : request[r].waiting => request[r].at = now
  /\ now' = now + 1
  /\ UNCHANGED <<stripe, database, pending, event, view, request>>

-----------------------------------------------------------------------------
Stripe ==
  \/ Renew \/ (\E i \in InvoiceNumbers : Pay(i))
  \/ FailPayment \/ GiveUp \/ Schedule \/ Cancel \/ CancelForClaim
  \/ (\E a \in Adjustments : Claim(a))

Next ==
  \/ Stripe
  \/ \E w \in Workers : Begin(w) \/ Fail(w) \/ CommitMonthly(w) \/ CommitAdjustment(w)
  \/ \E r \in Requests : FindLicense(r) \/ Answer(r)
  \/ Tick

Spec == Init /\ [][Next]_vars

-----------------------------------------------------------------------------
(* Properties *)

\* Access follows payment, in both directions: the row's period is one whose
\* Invoice was paid, the license lasts at least to its end unless it was
\* restricted, and never more than the recovery window beyond, whatever was read
\* before and committed after what.
AccessIsPaid ==
  row # NoRow =>
    /\ invoices[row.paid] = "paid"
    /\ End(row.paid) <= row.recoveryUntil
    /\ row.recoveryUntil <= End(row.paid) + Window

\* A restriction, early or late, first or second, extends no access.
RestrictionShortens ==
  [][license' \in {"charged_back", "refunded"} /\ license # "none" =>
       Deadline(row', terminalAt', license') <= Deadline(row, terminalAt, license)]_vars

\* An entitlement is signed before it expires and has to be refreshed.  It lasts no
\* longer than the license did when the request began to wait, although the license
\* may be restricted by then; if it is restored meanwhile, no longer than the paid
\* period and its recovery allow.
SignedInTime ==
  \A r \in Requests :
    LET q == request[r]
        signed == Entitlement(r)
    IN  (q.waiting /\ Entitled(r)) =>
          /\ q.at < signed.refreshAfter /\ signed.refreshAfter <= signed.expiresAt
          /\ IF q.license # "active" /\ license = "active"
             THEN signed.expiresAt <= End(row.paid) + Window + Grace
             ELSE signed.expiresAt <= Deadline(q.row, q.terminalAt, q.license) + Grace

\* When every event has been processed, the row says what Stripe says.
Converged ==
  (/\ pending = {} /\ \A w \in Workers : event[w] = NoEvent
   /\ license = "active" /\ stored = NoClaims) =>
    /\ \A i \in InvoiceNumbers : invoices[i] = "paid" => i <= row.paid
    /\ subscription.status \in {"active", "past_due"} =>
         row.recoveryUntil =
           End(row.paid) + (IF subscription.ending THEN 0 ELSE Window)
    /\ subscription.status \in {"unpaid", "canceled"} => row.state = "lapsed"

\* The same LicenseLedger as OrderBilling's: with their dates, and with whatever
\* was read before, the commits still amount to claims that are settled one at a
\* time.  What is recorded before it is settled is left to OrderBilling.
Blocking == {a \in Adjustments : stored[a] = "blocking"}
Ledger == INSTANCE LicenseLedger WITH
  Refunds <- {"refund"}, Disputes <- {"dispute"},
  blocking <- Blocking, settled <- Blocking, collecting <- Collecting
ImplementsLicense == Ledger!Spec
=============================================================================
