---------------------- MODULE SubscriptionTermsProofs ----------------------
(***************************************************************************)
(* What holds of the dates of a monthly license for any number of workers, *)
(* requests and Invoices and for any durations: the types, that access     *)
(* follows payment, that restrictions shorten it, and what an entitlement  *)
(* can promise.  All follow from one inductive invariant, Inv.             *)
(***************************************************************************)
EXTENDS SubscriptionTerms, TLAPS

IsPaid(n) == n \in InvoiceNumbers /\ invoices[n] = "paid"

\* A row that a paid Invoice accounts for.
PaidRow(r) ==
  /\ r \in Row
  /\ r.paid \in InvoiceNumbers
  /\ End(r.paid) <= r.recoveryUntil
  /\ r.recoveryUntil <= End(r.paid) + Window

Restricted == {"charged_back", "refunded"}

RowIsPaid ==
  /\ row = NoRow \/ (PaidRow(row) /\ invoices[row.paid] = "paid")
  /\ license # "none" <=> row # NoRow

\* What a worker may commit has been paid for, and stays so: the Invoices to come
\* are not there yet.
ReadIsPaid ==
  /\ IsPaid(1)
  /\ \A i \in InvoiceNumbers : i > subscription.latest => invoices[i] = "none"
  /\ \A w \in Workers : view[w].paid # 0 => IsPaid(view[w].paid)

TerminalTime ==
  /\ license \in {"none", "active"} => terminalAt = NoTime
  /\ license \in Restricted => terminalAt \in Times

\* What a request has read was so, and the paid period has only moved on since.
RequestReadSo ==
  \A r \in Requests :
    LET q == request[r] IN
    q.waiting =>
      /\ license # "none" /\ q.license # "none"
      /\ PaidRow(q.row) /\ q.row.paid <= row.paid
      /\ q.license = "active" => q.terminalAt = NoTime
      /\ q.license \in Restricted => q.terminalAt \in Times

Inv == TypeOK /\ RowIsPaid /\ ReadIsPaid /\ TerminalTime /\ RequestReadSo

-----------------------------------------------------------------------------
(* Numbers and times *)

LEMMA Durations ==
  /\ Period \in Nat /\ Period > 0
  /\ Window \in Nat /\ Window > 0
  /\ Grace \in Nat /\ Grace > 0
  /\ Refresh \in Nat /\ Refresh > 0
  /\ MaxInvoices \in Nat /\ MaxInvoices > 0
  /\ MaxTime \in Nat /\ MaxMoves \in Nat
  /\ NoTime \notin Int
BY DurationsAssumption, BoundsAssumption

LEMMA EndGrows ==
  /\ End(0) = 0
  /\ \A n \in Nat : End(n) \in Nat
  /\ \A m, n \in Nat : m < n => End(m) < End(n)
<1>1. End(0) = 0
  BY Durations DEF End
<1>2. \A n \in Nat : End(n) \in Nat
  BY Durations DEF End
<1>3. ASSUME NEW m \in Nat, NEW n \in Nat, m < n PROVE End(m) < End(n)
  <2>1. m * Period + Period <= n * Period
    <3>1. PICK k \in Nat : n = m + 1 + k
      <4>1. n - m - 1 \in Nat /\ n = m + 1 + (n - m - 1)
        BY <1>3
      <4> QED BY <4>1
    <3>2. n * Period = m * Period + Period + k * Period
      BY <3>1, Durations
    <3>3. k * Period >= 0
      BY Durations
    <3>4. m * Period \in Nat /\ n * Period \in Nat /\ k * Period \in Nat
      BY Durations
    <3> QED BY <3>2, <3>3, <3>4, Durations
  <2>2. m * Period \in Nat /\ n * Period \in Nat
    BY Durations
  <2> QED BY <2>1, <2>2, Durations DEF End
<1> QED BY <1>1, <1>2, <1>3

LEMMA EndIsATime ==
  /\ \A n \in 0..MaxInvoices : End(n) \in Times /\ End(n) + Window \in Times
  /\ \A t \in 0..MaxTime : t \in Times
  /\ Times \subseteq Nat
<1>1. ASSUME NEW n \in 0..MaxInvoices
      PROVE End(n) <= End(MaxInvoices) /\ End(n) \in Nat
  BY EndGrows, Durations
<1>2. End(MaxInvoices) \in Nat
  BY EndGrows, Durations
<1> QED BY <1>1, <1>2, Durations DEF Times

-----------------------------------------------------------------------------
(* The projection *)

\* A paid Invoice gives a row of its own, and never takes back a later period.
LEMMA RenewedIsPaid ==
  ASSUME NEW r \in Row, NEW n \in 0..MaxInvoices,
         r = NoRow \/ PaidRow(r),
         r = NoRow => n # 0
  PROVE  LET new == Renewed(r, n) IN
         PaidRow(new) /\ new.paid \in {r.paid, n} \ {0} /\ r.paid <= new.paid
<1> DEFINE new == Renewed(r, n)
<1>1. End(n) \in Nat /\ End(r.paid) \in Nat /\ n \in Nat /\ r.paid \in Nat
  BY EndGrows, Durations DEF Row
<1>2. CASE End(n) > End(r.paid)
  <2>1. new = [r EXCEPT !.paid = n, !.recoveryUntil = End(n) + Window]
    BY <1>2 DEF Renewed
  <2>2. new.paid = n /\ new.recoveryUntil = End(n) + Window /\ new.state = r.state
    BY <2>1 DEF Row
  <2>3. r.paid < n
    BY <1>1, <1>2, EndGrows
  <2>4. n \in InvoiceNumbers
    BY <2>3, <1>1 DEF InvoiceNumbers
  <2>5. End(n) + Window \in Times
    BY EndIsATime
  <2>6. new \in Row
    BY <2>1, <2>5 DEF Row
  <2> QED BY <2>2, <2>3, <2>4, <2>6, <1>1, Durations DEF PaidRow
<1>3. CASE ~(End(n) > End(r.paid))
  <2>1. new = r
    BY <1>3 DEF Renewed
  <2>2. PaidRow(r)
    <3>1. SUFFICES ASSUME r = NoRow PROVE FALSE
      OBVIOUS
    <3>2. r.paid = 0 /\ n > 0
      BY <3>1, <1>1 DEF NoRow
    <3> QED BY <3>2, <1>1, <1>3, EndGrows
  <2> QED BY <2>1, <2>2, <1>1 DEF PaidRow, InvoiceNumbers
<1> QED BY <1>2, <1>3

\* A new deadline between the end of the paid period and that of the recovery.
LEMMA DatedIsPaid ==
  ASSUME NEW b \in Row, PaidRow(b),
         NEW state \in {"none", "active", "recovering", "ending", "lapsed"},
         NEW until \in {b.recoveryUntil, End(b.paid), End(b.paid) + Window}
  PROVE  LET new == [b EXCEPT !.state = state, !.recoveryUntil = until] IN
         PaidRow(new) /\ new.paid = b.paid
<1> DEFINE new == [b EXCEPT !.state = state, !.recoveryUntil = until]
<1>1. /\ b.paid \in InvoiceNumbers /\ b.paid \in 0..MaxInvoices
      /\ b.recoveryUntil \in Times
      /\ End(b.paid) <= b.recoveryUntil /\ b.recoveryUntil <= End(b.paid) + Window
  BY DEF Row, PaidRow
<1>2. End(b.paid) \in Times /\ End(b.paid) + Window \in Times /\ Times \subseteq Nat
  BY <1>1, EndIsATime
<1>3. End(b.paid) \in Nat /\ b.recoveryUntil \in Nat
  BY <1>1, <1>2
<1>4. until \in Times /\ End(b.paid) <= until /\ until <= End(b.paid) + Window
  BY <1>1, <1>2, <1>3, Durations
<1>5. new \in Row /\ new.paid = b.paid /\ new.recoveryUntil = until
  BY <1>4 DEF Row
<1> QED BY <1>1, <1>4, <1>5 DEF PaidRow

\* Every outcome of reconcileSubscription is such a row.
LEMMA OutcomesArePaid ==
  ASSUME NEW b \in Row, PaidRow(b), NEW t \in Times,
         NEW new \in {Active(b), Recovering(b, t), Ending(b, t),
                      [b EXCEPT !.state = "lapsed"],
                      [[b EXCEPT !.state = "lapsed"] EXCEPT !.recoveryUntil = End(b.paid)]}
  PROVE  PaidRow(new) /\ new.paid = b.paid
<1>1. CASE new = Active(b)
  BY <1>1, DatedIsPaid DEF Active
<1>2. CASE new = Recovering(b, t)
  <2>1. /\ b.recoveryUntil \in Nat /\ End(b.paid) \in Nat
        /\ b.recoveryUntil <= End(b.paid) + Window
    BY EndIsATime, EndGrows, Durations DEF PaidRow, Row, InvoiceNumbers
  <2>2. Later(b.recoveryUntil, End(b.paid) + Window) = End(b.paid) + Window
    BY <2>1, Durations DEF Later
  <2>3. new = [b EXCEPT !.state = "recovering", !.recoveryUntil = End(b.paid) + Window]
    BY <1>2, <2>2 DEF Recovering, Row
  <2> QED BY <2>3, DatedIsPaid
<1>3. CASE new = Ending(b, t)
  <2>1. PICK state \in {"ending", "lapsed"} :
          new = [b EXCEPT !.state = state, !.recoveryUntil = End(b.paid)]
    BY <1>3 DEF Ending
  <2> QED BY <2>1, DatedIsPaid
<1>4. CASE new = [b EXCEPT !.state = "lapsed"]
  <2>1. new = [b EXCEPT !.state = "lapsed", !.recoveryUntil = b.recoveryUntil]
    BY <1>4 DEF Row
  <2> QED BY <2>1, DatedIsPaid
<1>5. CASE new = [[b EXCEPT !.state = "lapsed"] EXCEPT !.recoveryUntil = End(b.paid)]
  <2>1. new = [b EXCEPT !.state = "lapsed", !.recoveryUntil = End(b.paid)]
    BY <1>5 DEF Row
  <2> QED BY <2>1, DatedIsPaid
<1> QED BY <1>1, <1>2, <1>3, <1>4, <1>5

LEMMA ReconciledIsPaid ==
  ASSUME NEW r \in Row, NEW n \in 0..MaxInvoices, PaidRow(r),
         NEW s \in Subscription, NEW t \in Times
  PROVE  LET new == Reconciled(r, s, n, t) IN
         PaidRow(new) /\ new.paid \in {r.paid, n} \ {0} /\ r.paid <= new.paid
<1>1. PICK b : b = Renewed(r, n)
  OBVIOUS
<1>2. PaidRow(b) /\ b.paid \in {r.paid, n} \ {0} /\ r.paid <= b.paid
  <2>1. r # NoRow
    BY DEF PaidRow, NoRow, InvoiceNumbers
  <2> QED BY <1>1, <2>1, RenewedIsPaid
<1>3. /\ s.status \in {"active", "past_due", "unpaid", "canceled"}
      /\ s.ending \in BOOLEAN /\ s.requested \in BOOLEAN
  BY DEF Subscription
<1>4. b \in Row /\ End(b.paid) \in Nat /\ t \in Nat
  BY <1>2, EndGrows, EndIsATime, Durations DEF PaidRow, Row
<1>5. Reconciled(r, s, n, t) \in
        {Active(b), Recovering(b, t), Ending(b, t), [b EXCEPT !.state = "lapsed"],
         [[b EXCEPT !.state = "lapsed"] EXCEPT !.recoveryUntil = End(b.paid)]}
  <2>1. CASE s.status \in {"active", "past_due"} /\ s.ending
    BY <2>1, <1>1 DEF Reconciled
  <2>2. CASE s.status = "active" /\ ~s.ending /\ t < End(b.paid)
    BY <2>2, <1>1, <1>4 DEF Reconciled
  <2>3. CASE s.status = "active" /\ ~s.ending /\ t >= End(b.paid)
    BY <2>3, <1>1, <1>4 DEF Reconciled
  <2>4. CASE s.status = "past_due" /\ ~s.ending
    BY <2>4, <1>1 DEF Reconciled
  <2>5. CASE s.status = "unpaid"
    BY <2>5, <1>1 DEF Reconciled
  <2>6. CASE s.status = "canceled" /\ s.requested
    BY <2>6, <1>1 DEF Reconciled
  <2>7. CASE s.status = "canceled" /\ ~s.requested
    BY <2>7, <1>1 DEF Reconciled
  <2> QED BY <1>3, <1>4, <2>1, <2>2, <2>3, <2>4, <2>5, <2>6, <2>7
<1>6. PaidRow(Reconciled(r, s, n, t)) /\ Reconciled(r, s, n, t).paid = b.paid
  BY <1>2, <1>4, <1>5, OutcomesArePaid
<1> QED BY <1>2, <1>6

\* So does restoring, of a row or of none.
LEMMA RestoredIsPaid ==
  ASSUME NEW r \in Row, r = NoRow \/ PaidRow(r), NEW n \in 0..MaxInvoices,
         NEW v \in View
  PROVE  LET new == Restored(r, v, n) IN
         PaidRow(new) /\ new.paid \in {r.paid, 1, n} \ {0} /\ r.paid <= new.paid
<1>1. PICK b : b = Renewed(r, 1)
  OBVIOUS
<1>2. 1 \in 0..MaxInvoices /\ v.subscription \in Subscription /\ v.at \in Times
  BY Durations DEF View
<1>3. PaidRow(b) /\ b.paid \in {r.paid, 1} \ {0} /\ r.paid <= b.paid
  BY <1>1, <1>2, RenewedIsPaid
<1>4. PICK c : c = Reconciled(b, v.subscription, n, v.at)
  OBVIOUS
<1>5. b \in Row
  BY <1>3 DEF PaidRow
<1>6. PaidRow(c) /\ c.paid \in {b.paid, n} \ {0} /\ b.paid <= c.paid
  BY <1>2, <1>3, <1>4, <1>5, ReconciledIsPaid
<1>7. /\ r.paid \in Nat /\ b.paid \in Nat /\ c.paid \in Nat /\ c \in Row
      /\ c.state \in {"none", "active", "recovering", "ending", "lapsed"}
  BY <1>3, <1>6, Durations DEF PaidRow, Row
<1>8. c.paid \in {r.paid, 1, n} \ {0} /\ r.paid <= c.paid
  BY <1>3, <1>6, <1>7
<1>9. [c EXCEPT !.recoveryUntil = End(c.paid)]
        = [c EXCEPT !.state = c.state, !.recoveryUntil = End(c.paid)]
  BY <1>7 DEF Row
<1>10. /\ PaidRow([c EXCEPT !.state = c.state, !.recoveryUntil = End(c.paid)])
       /\ [c EXCEPT !.state = c.state, !.recoveryUntil = End(c.paid)].paid = c.paid
  BY <1>6, <1>7, DatedIsPaid
<1>11. Restored(r, v, n) \in {c, [c EXCEPT !.recoveryUntil = End(c.paid)]}
  BY <1>1, <1>4 DEF Restored
<1> QED BY <1>6, <1>8, <1>9, <1>10, <1>11

-----------------------------------------------------------------------------
(* What is read *)

LEMMA EventNumber == \A e \in Events \cup {NoEvent} : e[2] \in 0..MaxInvoices
BY Durations DEF Events, NoEvent, InvoiceEvent, AdjustmentEvent, SessionEvent, InvoiceNumbers

\* Of the Invoices looked at, the newest is one that has been paid, if any has.
LEMMA NewestIsPaid ==
  ASSUME NEW a \in 0..MaxInvoices, NEW b \in 0..MaxInvoices,
         NEW S, S = {a, b} \ {0}
  PROVE  Newest(S) \in 0..MaxInvoices /\ (Newest(S) # 0 => IsPaid(Newest(S)))
<1> DEFINE paid == {i \in S : invoices[i] = "paid"}
<1>1. S \subseteq InvoiceNumbers
  BY Durations DEF InvoiceNumbers
<1>2. CASE paid = {}
  BY <1>2, Durations DEF Newest
<1>3. CASE paid # {}
  <2>1. \E i \in paid : \A j \in paid : j <= i
    <3>1. PICK i \in paid : TRUE
      BY <1>3
    <3>2. \A x, y \in InvoiceNumbers : x <= y \/ y <= x
      BY Durations DEF InvoiceNumbers
    <3>3. \A x \in InvoiceNumbers : x <= x
      BY Durations DEF InvoiceNumbers
    <3>4. CASE \A j \in paid : j <= i
      BY <3>4
    <3>5. CASE ~(\A j \in paid : j <= i)
      <4>1. PICK j \in paid : ~(j <= i)
        BY <3>5
      <4>2. i <= j /\ j <= j /\ paid \subseteq {i, j}
        BY <4>1, <3>2, <3>3, <1>1
      <4> QED BY <4>2
    <3> QED BY <3>4, <3>5
  <2>2. Newest(S) \in paid
    BY <2>1, <1>3 DEF Newest
  <2> QED BY <2>2, <1>1 DEF IsPaid, InvoiceNumbers
<1> QED BY <1>2, <1>3

LEMMA ConsultedIsPaid ==
  ASSUME TypeOK, NEW s \in Subscription, NEW e \in Events \cup {NoEvent}
  PROVE  LET n == Newest(Consulted(s.latest, e[2])) IN
         n \in 0..MaxInvoices /\ (n # 0 => IsPaid(n))
<1>1. s.latest \in 0..MaxInvoices /\ e[2] \in 0..MaxInvoices
  BY EventNumber, Durations DEF Subscription, InvoiceNumbers
<1> QED BY <1>1, NewestIsPaid DEF Consulted

\* Whenever a worker has read the Invoices, it takes none for paid that is not.
LEMMA SeenIsPaid ==
  ASSUME Inv, NEW w \in Workers, NEW n \in Seen(w)
  PROVE  n \in 0..MaxInvoices /\ (n # 0 => IsPaid(n))
<1>1. view[w] \in View /\ event[w] \in Events \cup {NoEvent} /\ TypeOK
  BY DEF Inv, TypeOK
<1>2. view[w].subscription \in Subscription /\ view[w].paid \in 0..MaxInvoices
  BY <1>1 DEF View
<1>3. view[w].paid # 0 => IsPaid(view[w].paid)
  BY DEF Inv, ReadIsPaid
<1>4. LET m == Newest(Consulted(view[w].subscription.latest, event[w][2])) IN
      m \in 0..MaxInvoices /\ (m # 0 => IsPaid(m))
  BY <1>1, <1>2, ConsultedIsPaid
<1> QED BY <1>2, <1>3, <1>4 DEF Seen

\* The time from which a claim restricts the license.
LEMMA EarliestIsATime ==
  ASSUME TypeOK, NEW blocking \in SUBSET Adjustments, blocking # {}
  PROVE  (CHOOSE e \in {since[a] : a \in blocking} : \A a \in blocking : e <= since[a])
           \in Times
<1> DEFINE times == {since[a] : a \in blocking}
<1>1. \A a \in Adjustments : since[a] \in 0..MaxTime
  BY DEF TypeOK
<1>2. \A a \in Adjustments : since[a] \in Int
  BY <1>1
<1>3. \E e \in times : \A a \in blocking : e <= since[a]
  <2>1. \A a, b \in Adjustments : since[a] <= since[b] \/ since[b] <= since[a]
    BY <1>2
  <2>2. \A a \in Adjustments : since[a] <= since[a]
    BY <1>2
  <2>3. PICK a \in blocking : TRUE
    OBVIOUS
  <2>4. CASE \A b \in blocking : since[a] <= since[b]
    BY <2>4
  <2>5. CASE ~(\A b \in blocking : since[a] <= since[b])
    <3>1. PICK b \in blocking : ~(since[a] <= since[b])
      BY <2>5
    <3>2. a # b /\ blocking \subseteq {a, b}
      BY <3>1, <2>2 DEF Adjustments
    <3>3. \A c \in blocking : since[b] <= since[c]
      BY <3>1, <3>2, <2>1, <2>2
    <3> QED BY <3>3
  <2> QED BY <2>4, <2>5
<1>4. (CHOOSE e \in times : \A a \in blocking : e <= since[a]) \in times
  BY <1>3
<1> QED BY <1>1, <1>4, EndIsATime

\* A restriction may come before the deadline, never after it.
LEMMA TerminalIsEarlier ==
  ASSUME TypeOK, NEW e \in Times
  PROVE  /\ Terminal(e) \in Times
         /\ Terminal(e) <= row.recoveryUntil
         /\ terminalAt # NoTime => Terminal(e) <= terminalAt
<1>1. /\ row.recoveryUntil \in Times /\ terminalAt \in Times \cup {NoTime}
  BY DEF TypeOK, Row
<1>2. Times \subseteq Nat /\ NoTime \notin Int
  BY EndIsATime, Durations
<1>3. /\ e \in Nat /\ row.recoveryUntil \in Nat
      /\ terminalAt # NoTime => terminalAt \in Nat
  BY <1>1, <1>2
<1>4. CASE terminalAt = NoTime
  BY <1>1, <1>3, <1>4 DEF Terminal, Earlier
<1>5. CASE terminalAt # NoTime
  BY <1>1, <1>3, <1>5 DEF Terminal, Earlier
<1> QED BY <1>4, <1>5

-----------------------------------------------------------------------------
(* The initial states *)

LEMMA InitHolds == Init => Inv
<1> SUFFICES ASSUME Init PROVE Inv
  OBVIOUS
<1>1. 0 \in Times /\ 0 \in 0..MaxTime /\ 0 \in 0..MaxInvoices /\ 0 \in 0..MaxMoves
  BY EndIsATime, Durations
<1>2. 1 \in InvoiceNumbers
  BY Durations DEF InvoiceNumbers
<1>3. NoRow \in Row /\ FirstSubscription \in Subscription /\ NoClaims \in Claims
  BY <1>1, <1>2 DEF NoRow, Row, FirstSubscription, Subscription, NoClaims, Claims
<1>4. NoView \in View
  BY <1>1, <1>3 DEF NoView, View
<1>5. NoRequest \in Request
  BY <1>1, <1>3 DEF NoRequest, Request, LicenseStates
<1>6. TypeOK
  BY <1>1, <1>3, <1>4, <1>5 DEF Init, TypeOK, LicenseStates, Events, InvoiceNumbers
<1>7. RowIsPaid
  BY DEF Init, RowIsPaid
<1>8. ReadIsPaid
  BY <1>2 DEF Init, ReadIsPaid, IsPaid, NoView, FirstSubscription, InvoiceNumbers
<1>9. TerminalTime
  BY DEF Init, TerminalTime, Restricted
<1>10. RequestReadSo
  BY DEF Init, RequestReadSo, NoRequest
<1> QED BY <1>6, <1>7, <1>8, <1>9, <1>10 DEF Inv

-----------------------------------------------------------------------------
(* Stripe: what has been paid for stays so, and the future is empty. *)

InvoicesGrow ==
  /\ \A i \in InvoiceNumbers : invoices[i] = "paid" => invoices'[i] = "paid"
  /\ \A i \in InvoiceNumbers : i > subscription'.latest => invoices'[i] = "none"

LEMMA EmittedIsTyped ==
  ASSUME TypeOK, NEW e \in Events, Emit(e),
         subscription' \in Subscription,
         invoices' \in [InvoiceNumbers -> {"none", "open", "paid"}],
         claims' \in Claims, since' \in [Adjustments -> 0..MaxTime],
         moves' \in 0..MaxMoves
  PROVE  TypeOK'
BY DEF TypeOK, Emit, database

LEMMA MovedIsTyped ==
  ASSUME TypeOK, NEW e \in Events, Move(e),
         subscription' \in Subscription,
         invoices' \in [InvoiceNumbers -> {"none", "open", "paid"}],
         claims' \in Claims, since' \in [Adjustments -> 0..MaxTime]
  PROVE  TypeOK' /\ UNCHANGED <<now, database, event, view, request>>
<1>1. moves' \in 0..MaxMoves
  BY Durations DEF Move, TypeOK
<1>2. Emit(e)
  BY DEF Move
<1> QED BY <1>1, <1>2, EmittedIsTyped DEF Emit

\* A change of the Subscription alone.
LEMMA BecomingIsTyped ==
  ASSUME TypeOK, ReadIsPaid, NEW s \in Subscription, Become(s),
         s.latest = subscription.latest,
         Move(SessionEvent)
  PROVE  TypeOK' /\ InvoicesGrow /\ UNCHANGED <<now, database, event, view, request>>
<1>1. SessionEvent \in Events
  BY DEF Events
<1>2. TypeOK' /\ UNCHANGED <<now, database, event, view, request>>
  BY <1>1, MovedIsTyped DEF TypeOK, Become
<1>3. InvoicesGrow
  BY DEF InvoicesGrow, Become, ReadIsPaid
<1> QED BY <1>2, <1>3

LEMMA StripeStep ==
  ASSUME TypeOK, ReadIsPaid, Stripe
  PROVE  TypeOK' /\ InvoicesGrow /\ UNCHANGED <<now, database, event, view, request>>
<1>1. /\ subscription \in Subscription /\ claims \in Claims
      /\ invoices \in [InvoiceNumbers -> {"none", "open", "paid"}]
      /\ since \in [Adjustments -> 0..MaxTime] /\ now \in 0..MaxTime
  BY DEF TypeOK
<1>2. SessionEvent \in Events /\ \A i \in InvoiceNumbers : InvoiceEvent(i) \in Events
  BY DEF Events
<1>3. \A a \in Adjustments : AdjustmentEvent(a) \in Events
  BY DEF Events
<1>4. \A i \in InvoiceNumbers : i > subscription.latest => invoices[i] = "none"
  BY DEF ReadIsPaid
<1>5. subscription.latest \in InvoiceNumbers /\ InvoiceNumbers \subseteq Nat
  BY <1>1 DEF Subscription, InvoiceNumbers
<1>6. CASE Renew
  <2> DEFINE next == subscription.latest + 1
  <2>1. /\ next \in InvoiceNumbers
        /\ invoices' = [invoices EXCEPT ![next] = "open"]
        /\ subscription' = [subscription EXCEPT !.latest = next]
        /\ Move(InvoiceEvent(next))
        /\ UNCHANGED <<claims, since>>
    BY <1>6 DEF Renew
  <2>2. subscription' \in Subscription /\ subscription'.latest = next
    BY <1>1, <2>1 DEF Subscription
  <2>3. invoices' \in [InvoiceNumbers -> {"none", "open", "paid"}]
    BY <1>1, <2>1
  <2>4. TypeOK' /\ UNCHANGED <<now, database, event, view, request>>
    BY <1>1, <1>2, <2>1, <2>2, <2>3, MovedIsTyped
  <2>5. invoices[next] = "none"
    BY <1>4, <1>5, <2>1
  <2>6. \A i \in InvoiceNumbers : i > next => i # next /\ i > subscription.latest
    BY <1>5, Durations DEF InvoiceNumbers
  <2>7. InvoicesGrow
    BY <1>1, <1>4, <2>1, <2>2, <2>5, <2>6 DEF InvoicesGrow
  <2> QED BY <2>4, <2>7
<1>7. ASSUME NEW i \in InvoiceNumbers, Pay(i)
      PROVE  TypeOK' /\ InvoicesGrow /\ UNCHANGED <<now, database, event, view, request>>
  <2>1. /\ invoices[i] = "open"
        /\ invoices' = [invoices EXCEPT ![i] = "paid"]
        /\ Move(InvoiceEvent(i))
        /\ UNCHANGED <<claims, since>>
    BY <1>7 DEF Pay
  <2>2. subscription' \in Subscription /\ subscription'.latest = subscription.latest
    BY <1>1, <1>7 DEF Pay, Subscription
  <2>3. invoices' \in [InvoiceNumbers -> {"none", "open", "paid"}]
    BY <1>1, <2>1
  <2>4. TypeOK' /\ UNCHANGED <<now, database, event, view, request>>
    BY <1>1, <1>2, <2>1, <2>2, <2>3, MovedIsTyped
  <2>5. InvoicesGrow
    BY <1>1, <1>4, <2>1, <2>2 DEF InvoicesGrow
  <2> QED BY <2>4, <2>5
<1>8. ASSUME NEW s, s \in Subscription, s.latest = subscription.latest,
             Become(s), Move(SessionEvent)
      PROVE  TypeOK' /\ InvoicesGrow /\ UNCHANGED <<now, database, event, view, request>>
  BY <1>8, BecomingIsTyped
<1>9. CASE FailPayment
  <2>1. PICK s : s = [subscription EXCEPT !.status = "past_due"]
    OBVIOUS
  <2>2. s \in Subscription /\ s.latest = subscription.latest
    BY <1>1, <2>1 DEF Subscription
  <2> QED BY <1>8, <1>9, <2>1, <2>2 DEF FailPayment
<1>10. CASE GiveUp
  <2>1. PICK status \in {"unpaid", "canceled"} :
          Become([subscription EXCEPT !.status = status])
    BY <1>10 DEF GiveUp
  <2>2. PICK s : s = [subscription EXCEPT !.status = status]
    OBVIOUS
  <2>3. s \in Subscription /\ s.latest = subscription.latest
    BY <1>1, <2>2 DEF Subscription
  <2> QED BY <1>8, <1>10, <2>1, <2>2, <2>3 DEF GiveUp
<1>11. CASE Schedule
  <2>1. PICK s : s = [subscription EXCEPT !.ending = ~@]
    OBVIOUS
  <2>2. s \in Subscription /\ s.latest = subscription.latest
    BY <1>1, <2>1 DEF Subscription
  <2> QED BY <1>8, <1>11, <2>1, <2>2 DEF Schedule
<1>12. Canceled \in Subscription /\ Canceled.latest = subscription.latest
  BY <1>1 DEF Canceled, Subscription
<1>13. CASE Cancel
  BY <1>8, <1>12, <1>13 DEF Cancel
<1>14. CASE CancelForClaim
  <2>1. TypeOK' /\ UNCHANGED <<now, database, event, view, request>>
    <3>1. Emit(SessionEvent) /\ UNCHANGED moves /\ Become(Canceled)
      BY <1>14 DEF CancelForClaim
    <3>2. moves' \in 0..MaxMoves
      BY <3>1 DEF TypeOK
    <3> QED BY <1>1, <1>2, <1>12, <3>1, <3>2, EmittedIsTyped DEF Become, Emit
  <2>2. InvoicesGrow
    BY <1>4, <1>12, <1>14 DEF CancelForClaim, Become, InvoicesGrow
  <2> QED BY <2>1, <2>2
<1>15. ASSUME NEW a \in Adjustments, Claim(a)
       PROVE  TypeOK' /\ InvoicesGrow /\ UNCHANGED <<now, database, event, view, request>>
  <2>1. Move(AdjustmentEvent(a)) /\ UNCHANGED <<subscription, invoices>>
    BY <1>15 DEF Claim
  <2>2. claims' \in Claims
    BY <1>1, <1>15 DEF Claim, Claims
  <2>3. since' \in [Adjustments -> 0..MaxTime]
    BY <1>1, <1>15 DEF Claim
  <2>4. TypeOK' /\ UNCHANGED <<now, database, event, view, request>>
    BY <1>1, <1>3, <2>1, <2>2, <2>3, MovedIsTyped
  <2>5. InvoicesGrow
    BY <1>4, <2>1 DEF InvoicesGrow
  <2> QED BY <2>4, <2>5
<1> QED BY <1>6, <1>7, <1>9, <1>10, <1>11, <1>13, <1>14, <1>15 DEF Stripe

-----------------------------------------------------------------------------
(* Steps that commit nothing *)

\* Nothing newly read is better than what was read before.
ViewsAge == \A w \in Workers : view'[w].paid # 0 => IsPaid(view'[w].paid)

\* While the database and the requests stay as they are.
LEMMA NothingCommitted ==
  ASSUME Inv, TypeOK', InvoicesGrow, ViewsAge,
         UNCHANGED <<row, terminalAt, license, request>>
  PROVE  Inv'
<1>1. \A n : IsPaid(n) => IsPaid(n)'
  BY DEF IsPaid, InvoicesGrow
<1>2. RowIsPaid'
  BY DEF Inv, RowIsPaid, PaidRow, InvoicesGrow
<1>3. ReadIsPaid'
  BY <1>1 DEF Inv, ReadIsPaid, ViewsAge, InvoicesGrow
<1>4. TerminalTime'
  BY DEF Inv, TerminalTime
<1>5. RequestReadSo'
  BY DEF Inv, RequestReadSo
<1> QED BY <1>2, <1>3, <1>4, <1>5 DEF Inv

LEMMA StripeKeepsInv == Inv /\ Stripe => Inv'
<1> SUFFICES ASSUME Inv, Stripe PROVE Inv'
  OBVIOUS
<1>1. TypeOK' /\ InvoicesGrow /\ UNCHANGED <<now, database, event, view, request>>
  BY StripeStep DEF Inv
<1>2. ViewsAge
  BY <1>1 DEF ViewsAge, Inv, ReadIsPaid
<1> QED BY <1>1, <1>2, NothingCommitted DEF database

\* An Invoice is paid or not whatever the workers, the requests and the clock do.
LEMMA InvoicesStay ==
  ASSUME ReadIsPaid, UNCHANGED <<subscription, invoices>>
  PROVE  InvoicesGrow
BY DEF InvoicesGrow, ReadIsPaid

LEMMA BeginKeepsInv ==
  ASSUME Inv, NEW w \in Workers, Begin(w)
  PROVE  Inv'
<1>1. PICK e \in pending \cup {SessionEvent} :
        /\ event' = [event EXCEPT ![w] = e]
        /\ pending' = pending \ {e}
        /\ view' = [view EXCEPT ![w] =
             [at |-> now, subscription |-> subscription,
              paid |-> Newest(Consulted(subscription.latest, e[2])),
              claims |-> IF e[1] \in Adjustments THEN claims ELSE NoClaims]]
        /\ UNCHANGED <<now, stripe, database, request>>
  BY DEF Begin
<1>2. TypeOK /\ e \in Events /\ subscription \in Subscription
  BY DEF Inv, TypeOK, Events
<1>3. PICK n : n = Newest(Consulted(subscription.latest, e[2]))
  OBVIOUS
<1>4. n \in 0..MaxInvoices /\ (n # 0 => IsPaid(n))
  BY <1>2, <1>3, ConsultedIsPaid
<1>5. PICK v : v = [at |-> now, subscription |-> subscription, paid |-> n,
                    claims |-> IF e[1] \in Adjustments THEN claims ELSE NoClaims]
  OBVIOUS
<1>6. v \in View /\ v.paid = n
  <2>1. now \in Times /\ claims \in Claims /\ NoClaims \in Claims
    BY <1>2, EndIsATime DEF TypeOK, Claims, NoClaims
  <2> QED BY <1>2, <1>4, <1>5, <2>1 DEF View
<1>7. view' = [view EXCEPT ![w] = v] /\ view \in [Workers -> View]
  BY <1>1, <1>2, <1>3, <1>5 DEF TypeOK
<1>8. TypeOK'
  <2>1. view' \in [Workers -> View]
    BY <1>6, <1>7
  <2>2. event' \in [Workers -> Events \cup {NoEvent}] /\ pending' \subseteq Events
    BY <1>1, <1>2 DEF TypeOK
  <2> QED BY <1>1, <1>2, <2>1, <2>2 DEF TypeOK, stripe, database
<1>9. ViewsAge
  BY <1>4, <1>6, <1>7 DEF ViewsAge, Inv, ReadIsPaid
<1>10. InvoicesGrow
  BY <1>1, InvoicesStay DEF Inv, stripe
<1> QED BY <1>1, <1>8, <1>9, <1>10, NothingCommitted DEF database

\* A worker that stops, for whatever reason, has read nothing.
LEMMA LeavingIsTyped ==
  ASSUME Inv, NEW S, Leave(S)
  PROVE  /\ event' \in [Workers -> Events \cup {NoEvent}]
         /\ view' \in [Workers -> View]
         /\ ViewsAge
<1>1. NoView \in View /\ NoView.paid = 0
  <2>1. NoClaims \in Claims /\ FirstSubscription \in Subscription
    BY Durations DEF NoClaims, Claims, FirstSubscription, Subscription, InvoiceNumbers
  <2>2. 0 \in Times /\ 0 \in 0..MaxInvoices
    BY EndIsATime, Durations
  <2> QED BY <2>1, <2>2 DEF NoView, View
<1>2. /\ event \in [Workers -> Events \cup {NoEvent}] /\ view \in [Workers -> View]
      /\ \A w \in Workers : view[w].paid # 0 => IsPaid(view[w].paid)
  BY DEF Inv, TypeOK, ReadIsPaid
<1>3. /\ event' = [w \in Workers |-> IF w \in S THEN NoEvent ELSE event[w]]
      /\ view' = [w \in Workers |-> IF w \in S THEN NoView ELSE view[w]]
  BY DEF Leave
<1>4. event' \in [Workers -> Events \cup {NoEvent}] /\ view' \in [Workers -> View]
  BY <1>1, <1>2, <1>3
<1>5. ViewsAge
  BY <1>1, <1>2, <1>3 DEF ViewsAge
<1> QED BY <1>4, <1>5

LEMMA FailKeepsInv ==
  ASSUME Inv, NEW w \in Workers, Fail(w)
  PROVE  Inv'
<1>1. event[w] \in Events
  BY DEF Fail, Inv, TypeOK
<1>2. TypeOK'
  BY <1>1, LeavingIsTyped DEF Fail, Inv, TypeOK, stripe, database
<1>3. ViewsAge /\ InvoicesGrow
  BY LeavingIsTyped, InvoicesStay DEF Fail, Inv, stripe
<1> QED BY <1>2, <1>3, NothingCommitted DEF Fail, database

LEMMA TickKeepsInv ==
  ASSUME Inv, Tick
  PROVE  Inv'
<1>1. TypeOK'
  BY Durations DEF Tick, Inv, TypeOK, stripe, database
<1>2. ViewsAge /\ InvoicesGrow
  BY InvoicesStay DEF Tick, Inv, ReadIsPaid, ViewsAge, stripe
<1> QED BY <1>1, <1>2, NothingCommitted DEF Tick, database

LEMMA StutterKeepsInv ==
  ASSUME Inv, UNCHANGED vars
  PROVE  Inv'
<1>1. TypeOK'
  BY DEF vars, Inv, TypeOK
<1>2. ViewsAge /\ InvoicesGrow
  BY InvoicesStay DEF vars, Inv, ReadIsPaid, ViewsAge
<1> QED BY <1>1, <1>2, NothingCommitted DEF vars

-----------------------------------------------------------------------------
(* Requests *)

\* When only requests change.
LEMMA OnlyRequests ==
  ASSUME Inv, UNCHANGED <<now, stripe, database, pending, event, view>>,
         request' \in [Requests -> Request], RequestReadSo'
  PROVE  Inv'
<1>1. TypeOK'
  BY DEF Inv, TypeOK, stripe, database
<1>2. RowIsPaid'
  BY DEF Inv, RowIsPaid, stripe, database
<1>3. ReadIsPaid'
  BY DEF Inv, ReadIsPaid, IsPaid, stripe
<1>4. TerminalTime'
  BY DEF Inv, TerminalTime, database
<1> QED BY <1>1, <1>2, <1>3, <1>4 DEF Inv

LEMMA FindLicenseKeepsInv ==
  ASSUME Inv, NEW r \in Requests, FindLicense(r)
  PROVE  Inv'
<1>1. PICK q : q = [waiting |-> TRUE, at |-> now, license |-> license, row |-> row,
                    terminalAt |-> terminalAt]
  OBVIOUS
<1>2. /\ request' = [request EXCEPT ![r] = q] /\ license # "none"
      /\ UNCHANGED <<now, stripe, database, pending, event, view>>
  BY <1>1 DEF FindLicense
<1>3. /\ request \in [Requests -> Request] /\ row \in Row /\ now \in Times
      /\ license \in LicenseStates /\ terminalAt \in Times \cup {NoTime}
  BY EndIsATime DEF Inv, TypeOK
<1>4. q \in Request
  BY <1>1, <1>3 DEF Request
<1>5. PaidRow(row) /\ row.paid \in Int
  BY <1>2, <1>3 DEF Inv, RowIsPaid, Row
<1>6. RequestReadSo'
  <2> SUFFICES ASSUME NEW s \in Requests, request'[s].waiting
               PROVE  LET p == request'[s] IN
                      /\ license # "none" /\ p.license # "none"
                      /\ PaidRow(p.row) /\ p.row.paid <= row.paid
                      /\ p.license = "active" => p.terminalAt = NoTime
                      /\ p.license \in Restricted => p.terminalAt \in Times
    BY <1>2 DEF RequestReadSo, database
  <2>1. CASE s = r
    <3>1. request'[s] = q
      BY <1>2, <1>3, <2>1
    <3> QED BY <1>1, <1>2, <1>5, <3>1 DEF Inv, TerminalTime
  <2>2. CASE s # r
    <3>1. request'[s] = request[s]
      BY <1>2, <1>3, <2>2
    <3> QED BY <3>1 DEF Inv, RequestReadSo
  <2> QED BY <2>1, <2>2
<1> QED BY <1>2, <1>3, <1>4, <1>6, OnlyRequests

LEMMA AnswerKeepsInv ==
  ASSUME Inv, NEW r \in Requests, Answer(r)
  PROVE  Inv'
<1>1. NoRequest \in Request /\ ~NoRequest.waiting
  <2>1. NoRow \in Row /\ 0 \in Times
    BY EndIsATime, Durations DEF NoRow, Row
  <2> QED BY <2>1 DEF NoRequest, Request, LicenseStates
<1>2. request \in [Requests -> Request] /\ request' = [request EXCEPT ![r] = NoRequest]
  BY DEF Answer, Inv, TypeOK
<1>3. request' \in [Requests -> Request]
  BY <1>1, <1>2
<1>4. \A s \in Requests : request'[s].waiting => request'[s] = request[s]
  BY <1>1, <1>2
<1>5. RequestReadSo'
  BY <1>4 DEF Answer, Inv, RequestReadSo, database
<1> QED BY <1>3, <1>5, OnlyRequests DEF Answer

-----------------------------------------------------------------------------
(* Commits *)

\* A row that an Invoice accounts for, and that takes back nothing.
Advanced(r) == PaidRow(r) /\ IsPaid(r.paid) /\ row.paid <= r.paid

LEMMA CommitKeepsInv ==
  ASSUME Inv, NEW w \in Workers, Commit(w),
         row' = row \/ Advanced(row'),
         license' \in LicenseStates, license # "none" => license' # "none",
         license' # "none" <=> row' # NoRow,
         terminalAt' \in Times \cup {NoTime}, stored' \in Claims,
         TerminalTime'
  PROVE  Inv'
<1>1. /\ Leave({w} \cup Outdated(w))
      /\ pending' = pending \cup {event[u] : u \in Outdated(w)}
      /\ UNCHANGED <<now, stripe, request>>
  BY DEF Commit
<1>2. \A u \in Outdated(w) : event[u] \in Events
  BY DEF Outdated, Inv, TypeOK
<1>3. row' \in Row
  BY DEF Advanced, PaidRow, Inv, TypeOK
<1>4. TypeOK'
  BY <1>1, <1>2, <1>3, LeavingIsTyped DEF Inv, TypeOK, stripe
<1>5. RowIsPaid'
  BY <1>1 DEF Inv, RowIsPaid, PaidRow, Advanced, IsPaid, stripe
<1>6. ReadIsPaid'
  BY <1>1, LeavingIsTyped DEF Inv, ReadIsPaid, ViewsAge, IsPaid, stripe
<1>7. row.paid <= row'.paid /\ row.paid \in Nat /\ row'.paid \in Nat
  BY <1>3, Durations DEF Advanced, Inv, TypeOK, Row
<1>8. RequestReadSo'
  <2> SUFFICES ASSUME NEW s \in Requests, request[s].waiting
               PROVE  LET p == request[s] IN
                      /\ license' # "none" /\ p.license # "none"
                      /\ PaidRow(p.row) /\ p.row.paid <= row'.paid
                      /\ p.license = "active" => p.terminalAt = NoTime
                      /\ p.license \in Restricted => p.terminalAt \in Times
    BY <1>1 DEF RequestReadSo
  <2>1. /\ license # "none" /\ request[s].license # "none"
        /\ PaidRow(request[s].row) /\ request[s].row.paid <= row.paid
        /\ request[s].license = "active" => request[s].terminalAt = NoTime
        /\ request[s].license \in Restricted => request[s].terminalAt \in Times
    BY DEF Inv, RequestReadSo
  <2>2. request[s].row.paid \in Nat
    BY <2>1, Durations DEF PaidRow, InvoiceNumbers
  <2> QED BY <2>1, <2>2, <1>7
<1> QED BY <1>4, <1>5, <1>6, <1>8 DEF Inv

LEMMA CommitMonthlyKeepsInv ==
  ASSUME Inv, NEW w \in Workers, CommitMonthly(w)
  PROVE  Inv'
<1> DEFINE s == view[w].subscription
           t == view[w].at
<1>1. PICK blocked, buys :
        /\ Commit(w) /\ UNCHANGED <<terminalAt, stored>>
        /\ LET bare == license = "none" /\ buys /\ ~blocked
               held == license = "active" /\ ~blocked
           IN  \/ /\ bare \/ held
                  /\ license' = "active"
                  /\ \E n \in Seen(w) :
                       row' = Reconciled(IF bare THEN Renewed(NoRow, 1) ELSE row, s, n, t)
               \/ /\ ~bare /\ ~held
                  /\ UNCHANGED <<row, license>>
  BY DEF CommitMonthly
<1>2. /\ view[w] \in View /\ s \in Subscription /\ t \in Times
      /\ event[w] \in Events \cup {NoEvent}
      /\ row \in Row /\ license \in LicenseStates
      /\ terminalAt \in Times \cup {NoTime} /\ stored \in Claims
  BY DEF Inv, TypeOK, View
<1>3. CASE UNCHANGED <<row, license>>
  <2>1. TerminalTime'
    BY <1>1, <1>3 DEF Inv, TerminalTime
  <2> QED BY <1>1, <1>2, <1>3, <2>1, CommitKeepsInv DEF Inv, RowIsPaid
<1>4. ASSUME NEW base \in {row, Renewed(NoRow, 1)}, NEW n \in Seen(w),
             base = row => license = "active",
             base # row => license = "none",
             license' = "active", row' = Reconciled(base, s, n, t)
      PROVE  Inv'
  <2>1. n \in 0..MaxInvoices /\ (n # 0 => IsPaid(n))
    BY <1>4, SeenIsPaid
  <2>2. PaidRow(base) /\ IsPaid(base.paid) /\ row.paid <= base.paid /\ base \in Row
    <3>1. CASE base = row
      BY <1>2, <1>4, <3>1 DEF Inv, RowIsPaid, IsPaid, PaidRow, Row
    <3>2. CASE base # row
      <4>1. base = Renewed(NoRow, 1) /\ license = "none"
        BY <1>4, <3>2
      <4>2. NoRow \in Row /\ 1 \in 0..MaxInvoices /\ NoRow.paid = 0
        BY EndIsATime, Durations DEF NoRow, Row
      <4>3. PaidRow(base) /\ base.paid = 1
        BY <4>1, <4>2, RenewedIsPaid
      <4>4. row = NoRow
        BY <4>1 DEF Inv, RowIsPaid
      <4> QED BY <4>2, <4>3, <4>4 DEF Inv, ReadIsPaid, PaidRow
    <3> QED BY <3>1, <3>2
  <2>3. PaidRow(row') /\ row'.paid \in {base.paid, n} \ {0} /\ base.paid <= row'.paid
    BY <1>2, <1>4, <2>1, <2>2, ReconciledIsPaid
  <2>4. row.paid \in Nat /\ base.paid \in Nat /\ row'.paid \in Nat
    BY <1>2, <2>2, <2>3, Durations DEF PaidRow, Row
  <2>5. Advanced(row')
    BY <2>1, <2>2, <2>3, <2>4 DEF Advanced
  <2>6. row' # NoRow
    BY <2>3 DEF PaidRow, NoRow, InvoiceNumbers
  <2>7. TerminalTime'
    BY <1>1, <1>4 DEF Inv, TerminalTime, Restricted
  <2>8. license' \in LicenseStates
    BY <1>4 DEF LicenseStates
  <2> QED BY <1>1, <1>2, <1>4, <2>5, <2>6, <2>7, <2>8, CommitKeepsInv
<1>5. CASE ~(UNCHANGED <<row, license>>)
  <2>1. PICK n \in Seen(w) :
          row' = Reconciled(IF license = "none" /\ buys /\ ~blocked
                            THEN Renewed(NoRow, 1) ELSE row, s, n, t)
    BY <1>1, <1>5
  <2>2. license' = "active" /\ license \in {"none", "active"}
    BY <1>1, <1>5
  <2>3. Renewed(NoRow, 1) # NoRow
    <3>1. NoRow \in Row /\ 1 \in 0..MaxInvoices
      BY EndIsATime, Durations DEF NoRow, Row
    <3>2. PaidRow(Renewed(NoRow, 1))
      BY <3>1, RenewedIsPaid
    <3> QED BY <3>2 DEF PaidRow, NoRow, InvoiceNumbers
  <2>4. CASE license = "none" /\ buys /\ ~blocked
    <3>1. row = NoRow
      BY <2>4 DEF Inv, RowIsPaid
    <3> QED BY <1>4, <2>1, <2>2, <2>3, <2>4, <3>1
  <2>5. CASE ~(license = "none" /\ buys /\ ~blocked)
    <3>1. license = "active"
      BY <1>1, <1>5, <2>5
    <3> QED BY <1>4, <2>1, <2>2, <2>5, <3>1
  <2> QED BY <2>4, <2>5
<1> QED BY <1>3, <1>5

\* What a restriction does, whichever adjustment is decided.
LEMMA RestrictionTakes ==
  ASSUME Inv, NEW w \in Workers, Restrict(w)
  PROVE  /\ row' = row
         /\ \/ UNCHANGED <<license, terminalAt>>
            \/ /\ license # "none" /\ license' \in Restricted
               /\ \E e \in Times : terminalAt' = Terminal(e)
<1> DEFINE blocking == {a \in Adjustments : stored'[a] = "blocking"}
           from == CHOOSE e \in {since[a] : a \in blocking} :
                     \A a \in blocking : e <= since[a]
<1>1. /\ row' = row /\ blocking # {}
      /\ \/ UNCHANGED <<license, terminalAt>>
         \/ /\ license # "none" /\ license' \in Restricted
            /\ terminalAt' = Terminal(from)
  BY DEF Restrict, Restricted
<1>2. from \in Times
  BY <1>1, EarliestIsATime DEF Inv
<1> QED BY <1>1, <1>2

LEMMA CommitAdjustmentKeepsInv ==
  ASSUME Inv, NEW w \in Workers, CommitAdjustment(w)
  PROVE  Inv'
<1>1. /\ view[w] \in View /\ row \in Row /\ license \in LicenseStates
      /\ terminalAt \in Times \cup {NoTime} /\ stored \in Claims
  BY DEF Inv, TypeOK
<1>2. Commit(w) /\ (Restrict(w) \/ Restore(w))
  BY DEF CommitAdjustment
<1>3. stored' \in Claims
  <2>1. PICK a \in Adjustments : stored' = [stored EXCEPT ![a] = view[w].claims[a]]
    BY DEF CommitAdjustment
  <2>2. view[w].claims[a] \in {"absent", "blocking", "resolved"}
    BY <1>1 DEF View, Claims
  <2> QED BY <1>1, <2>1, <2>2 DEF Claims
<1>4. CASE UNCHANGED <<row, license, terminalAt>>
  <2>1. TerminalTime'
    BY <1>4 DEF Inv, TerminalTime
  <2> QED BY <1>1, <1>2, <1>3, <1>4, <2>1, CommitKeepsInv DEF Inv, RowIsPaid
<1>5. CASE Restrict(w) /\ ~(UNCHANGED <<row, license, terminalAt>>)
  <2>1. /\ row' = row /\ license # "none" /\ license' \in Restricted
        /\ \E e \in Times : terminalAt' = Terminal(e)
    BY <1>5, RestrictionTakes
  <2>2. terminalAt' \in Times
    BY <2>1, TerminalIsEarlier DEF Inv
  <2>3. TerminalTime'
    BY <2>1, <2>2 DEF TerminalTime, Restricted
  <2>4. license' \in LicenseStates /\ license' # "none" /\ row' # NoRow
    BY <2>1 DEF Restricted, LicenseStates, Inv, RowIsPaid
  <2> QED BY <1>2, <1>3, <2>1, <2>2, <2>3, <2>4, CommitKeepsInv
<1>6. CASE Restore(w) /\ ~(UNCHANGED <<row, license, terminalAt>>)
  <2>1. PICK n \in Seen(w) :
          /\ row' = Restored(row, view[w], n) /\ license' = "active"
          /\ terminalAt' = NoTime
    BY <1>6 DEF Restore
  <2>2. n \in 0..MaxInvoices /\ (n # 0 => IsPaid(n))
    BY SeenIsPaid
  <2>3. row = NoRow \/ (PaidRow(row) /\ IsPaid(row.paid))
    BY DEF Inv, RowIsPaid, PaidRow, IsPaid
  <2>4. PaidRow(row') /\ row'.paid \in {row.paid, 1, n} \ {0} /\ row.paid <= row'.paid
    BY <1>1, <2>1, <2>2, <2>3, RestoredIsPaid
  <2>5. IsPaid(row'.paid)
    <3>1. row = NoRow => row.paid = 0
      BY DEF NoRow
    <3> QED BY <2>2, <2>3, <2>4, <3>1 DEF Inv, ReadIsPaid
  <2>6. Advanced(row') /\ row' # NoRow
    BY <2>4, <2>5 DEF Advanced, PaidRow, NoRow, InvoiceNumbers
  <2>7. TerminalTime'
    BY <2>1 DEF TerminalTime, Restricted
  <2>8. license' \in LicenseStates
    BY <2>1 DEF LicenseStates
  <2> QED BY <1>2, <1>3, <2>1, <2>6, <2>7, <2>8, CommitKeepsInv
<1> QED BY <1>2, <1>4, <1>5, <1>6

-----------------------------------------------------------------------------
(* The theorems *)

LEMMA InvIsInductive == Inv /\ [Next]_vars => Inv'
<1> SUFFICES ASSUME Inv, [Next]_vars PROVE Inv'
  OBVIOUS
<1>1. CASE Stripe
  BY <1>1, StripeKeepsInv
<1>2. CASE Tick
  BY <1>2, TickKeepsInv
<1>3. CASE UNCHANGED vars
  BY <1>3, StutterKeepsInv
<1>4. ASSUME NEW w \in Workers,
             Begin(w) \/ Fail(w) \/ CommitMonthly(w) \/ CommitAdjustment(w)
      PROVE  Inv'
  BY <1>4, BeginKeepsInv, FailKeepsInv, CommitMonthlyKeepsInv, CommitAdjustmentKeepsInv
<1>5. ASSUME NEW r \in Requests, FindLicense(r) \/ Answer(r)
      PROVE  Inv'
  BY <1>5, FindLicenseKeepsInv, AnswerKeepsInv
<1> QED BY <1>1, <1>2, <1>3, <1>4, <1>5 DEF Next

LEMMA InvHolds == Spec => []Inv
BY InitHolds, InvIsInductive, PTL DEF Spec

\* The variables keep their types (TypeOK).
THEOREM TermsTypesHold == Spec => []TypeOK
<1>1. Inv => TypeOK
  BY DEF Inv
<1> QED BY <1>1, InvHolds, PTL

\* Access follows payment (AccessIsPaid): reconcileSubscription and
\* restorationProjection, applied in any order to whatever their workers have read,
\* never record a period that was not paid for, end access before the paid period
\* does, or extend it beyond the recovery window.
THEOREM AccessIsPaidHolds == Spec => []AccessIsPaid
<1>1. Inv => AccessIsPaid
  BY DEF Inv, RowIsPaid, PaidRow, AccessIsPaid
<1> QED BY <1>1, InvHolds, PTL

\* An entitlement is signed before it expires and promises no more than the license
\* did (SignedInTime), whatever monthlyEntitlementTerms is given of the row that
\* findLicense read before it waited and of the license as it is afterwards.
THEOREM SignedInTimeHolds == Spec => []SignedInTime
<1>1. ASSUME Inv PROVE SignedInTime
  <2> SUFFICES ASSUME NEW r \in Requests, request[r].waiting, Entitled(r)
               PROVE  LET q == request[r]
                          signed == Entitlement(r)
                      IN  /\ q.at < signed.refreshAfter
                          /\ signed.refreshAfter <= signed.expiresAt
                          /\ IF q.license # "active" /\ license = "active"
                             THEN signed.expiresAt <= End(row.paid) + Window + Grace
                             ELSE signed.expiresAt
                                    <= Deadline(q.row, q.terminalAt, q.license) + Grace
    BY DEF SignedInTime
  <2> DEFINE q == request[r]
             signed == Entitlement(r)
             deadline == Deadline(q.row, q.terminalAt, license)
  <2>1. /\ PaidRow(q.row) /\ q.row.paid <= row.paid
        /\ q.license = "active" => q.terminalAt = NoTime
    BY <1>1 DEF Inv, RequestReadSo
  <2>2. /\ q.at \in Nat
        /\ q.terminalAt # NoTime => q.terminalAt \in Nat
        /\ q.row.recoveryUntil \in Nat /\ q.row.paid \in Nat /\ row.paid \in Nat
    <3>1. q \in Request /\ row \in Row
      BY <1>1 DEF Inv, TypeOK
    <3>2. \A t \in Times : t \in Nat
      BY EndIsATime
    <3>3. /\ q.at \in Times /\ q.terminalAt \in Times \cup {NoTime}
          /\ q.row \in Row
      BY <3>1 DEF Request
    <3>4. /\ q.row.recoveryUntil \in Times
          /\ q.row.paid \in 0..MaxInvoices /\ row.paid \in 0..MaxInvoices
      BY <3>1, <3>3 DEF Row
    <3>5. \A n \in 0..MaxInvoices : n \in Nat
      BY Durations
    <3> HIDE DEF q
    <3> QED BY <3>2, <3>3, <3>4, <3>5
  <2>3. /\ license # "active" => q.terminalAt # NoTime
        /\ q.at < deadline + Grace
    BY DEF Entitled, Signable
  <2>4. deadline \in Nat
    BY <2>2, <2>3 DEF Deadline
  <2>5. /\ signed.expiresAt = deadline + Grace
        /\ signed.refreshAfter = Earlier(q.at + Refresh, deadline + Grace)
    BY DEF Entitlement, TermsOf
  <2>6. q.at < signed.refreshAfter /\ signed.refreshAfter <= signed.expiresAt
    BY <2>2, <2>3, <2>4, <2>5, Durations DEF Earlier
  <2>7. CASE q.license # "active" /\ license = "active"
    <3>1. deadline = q.row.recoveryUntil
      BY <2>7 DEF Deadline
    <3>2. End(q.row.paid) <= End(row.paid)
          /\ End(q.row.paid) \in Nat /\ End(row.paid) \in Nat
      BY <2>1, <2>2, EndGrows
    <3>3. q.row.recoveryUntil <= End(q.row.paid) + Window
      BY <2>1 DEF PaidRow
    <3>4. signed.expiresAt <= End(row.paid) + Window + Grace
      BY <2>2, <2>5, <3>1, <3>2, <3>3, Durations
    <3> QED BY <2>6, <2>7, <3>4
  <2>8. CASE ~(q.license # "active" /\ license = "active")
    <3>1. deadline = Deadline(q.row, q.terminalAt, q.license)
      BY <2>1, <2>3, <2>8 DEF Deadline
    <3>2. signed.expiresAt <= deadline + Grace
      BY <2>4, <2>5, Durations
    <3> QED BY <2>6, <2>8, <3>1, <3>2
  <2> QED BY <2>7, <2>8
<1> QED BY <1>1, InvHolds, PTL

\* A restriction never extends access (RestrictionShortens): applyAdjustments keeps
\* the earliest of the terminal time it finds, the claim and the deadline.
THEOREM RestrictionShortensAlways == Spec => RestrictionShortens
<1> DEFINE Shortens ==
      license' \in {"charged_back", "refunded"} /\ license # "none" =>
        Deadline(row', terminalAt', license') <= Deadline(row, terminalAt, license)
<1>1. ASSUME Inv, [Next]_vars PROVE [Shortens]_vars
  <2> SUFFICES ASSUME license' \in Restricted, license # "none" PROVE Shortens
    BY DEF Restricted
  <2>1. /\ row.recoveryUntil \in Nat
        /\ license # "active" => terminalAt \in Nat /\ terminalAt # NoTime
    <3>1. row \in Row /\ license \in LicenseStates /\ Times \subseteq Nat /\ NoTime \notin Int
      BY <1>1, EndIsATime, Durations DEF Inv, TypeOK
    <3>2. license # "active" => terminalAt \in Times
      BY <1>1, <3>1 DEF Inv, TerminalTime, Restricted, LicenseStates
    <3>3. row.recoveryUntil \in Times
      BY <3>1 DEF Row
    <3>4. NoTime \notin Nat
      BY <3>1
    <3> QED BY <3>1, <3>2, <3>3, <3>4
  <2>2. CASE UNCHANGED <<license, terminalAt>>
    BY <2>1, <2>2 DEF Deadline, Restricted
  <2>3. CASE ~(UNCHANGED <<license, terminalAt>>)
    <3>1. PICK w \in Workers : CommitAdjustment(w) \/ CommitMonthly(w)
      BY <1>1, <2>3 DEF Next, Stripe, vars, Renew, Pay, FailPayment, GiveUp, Schedule,
         Cancel, CancelForClaim, Claim, Move, Emit, Begin, Fail, FindLicense, Answer,
         Tick, database
    <3>2. Restrict(w)
      BY <2>3, <3>1 DEF CommitMonthly, CommitAdjustment, Restore, Restricted
    <3>3. PICK e \in Times : terminalAt' = Terminal(e)
      BY <1>1, <2>3, <3>2, RestrictionTakes
    <3>4. /\ Terminal(e) <= row.recoveryUntil
          /\ terminalAt # NoTime => Terminal(e) <= terminalAt
      BY <1>1, TerminalIsEarlier DEF Inv
    <3> QED BY <2>1, <3>3, <3>4 DEF Deadline, Restricted
  <2> QED BY <2>2, <2>3
<1> QED BY <1>1, InvHolds, PTL DEF Spec, RestrictionShortens
-----------------------------------------------------------------------------
(* Convergence: a second invariant, on top of Inv.  A worker that commits   *)
(* knows of every paid Invoice, or another event does, and what it read of  *)
(* the Subscription is out of date only while something is left to process. *)

Working(w) == event[w] # NoEvent
Quiet == pending = {} /\ \A w \in Workers : event[w] = NoEvent

\* An adjustment's event tells of one that exists: its commit leaves a trace.
ClaimsAreSeen ==
  \A a \in Adjustments :
    /\ AdjustmentEvent(a) \in pending => claims[a] # "absent"
    /\ \A w \in Workers : event[w] = AdjustmentEvent(a) =>
         claims[a] # "absent" /\ view[w].claims[a] # "absent"

ClaimsRestrict == stored = NoClaims => license \in {"none", "active"}

\* The last worker of all has read the Subscription as it is.
ReadsNow ==
  \A w \in Workers : Working(w) =>
    \/ view[w].subscription = subscription
    \/ pending # {}
    \/ \E u \in Workers \ {w} : Working(u)

\* What Converged says of the Subscription s and a row r.
Agrees(r, s) ==
  /\ s.status \in {"active", "past_due"} =>
       r.recoveryUntil = End(r.paid) + (IF s.ending THEN 0 ELSE Window)
  /\ s.status \in {"unpaid", "canceled"} => r.state = "lapsed"
RowAgrees ==
  license = "active" /\ stored = NoClaims /\ Quiet => Agrees(row, subscription)

\* The Invoices of events that wait, or that a worker has found paid; and those
\* that make a worker without a license buy one.
Carries(w, k) == event[w] = InvoiceEvent(k) /\ k <= view[w].paid
Coming ==
  {k \in InvoiceNumbers :
     InvoiceEvent(k) \in pending \/ \E w \in Workers : Carries(w, k)}
Buying ==
  {k \in InvoiceNumbers :
     \/ InvoiceEvent(k) \in pending
     \/ \E w \in Workers : Carries(w, k) /\ view[w].subscription.status = "active"}

\* Some Invoice of S is paid and no earlier than i.
Reached(i, S) == \E k \in S : IsPaid(k) /\ i <= k
\* CommitMonthly's `buys`.
Buys(v) ==
  \/ v.subscription.status = "active"
  \/ /\ v.subscription.status = "canceled" /\ v.subscription.requested
     /\ v.at < End(1)

PaidIsKnown ==
  license = "active" /\ stored = NoClaims =>
    \A i \in InvoiceNumbers : IsPaid(i) =>
      Reached(i, Coming \cup {k \in InvoiceNumbers : k <= row.paid})
PaidIsToBuy ==
  license = "none" /\ stored = NoClaims /\ subscription.status = "active" =>
    \A i \in InvoiceNumbers \ {1} : IsPaid(i) => Reached(i, Buying)
BuyerKnows ==
  license = "none" /\ stored = NoClaims =>
    \A w \in Workers : Working(w) /\ Buys(view[w]) =>
      \A i \in InvoiceNumbers \ {1} : IsPaid(i) => Reached(i, Coming)

\* A canceled Subscription that still buys is in its first period.
LatestIsDue == subscription.latest > 1 => End(1) <= now

ConvergenceInv ==
  /\ ClaimsAreSeen /\ ClaimsRestrict /\ ReadsNow /\ RowAgrees
  /\ PaidIsKnown /\ PaidIsToBuy /\ BuyerKnows /\ LatestIsDue

-----------------------------------------------------------------------------
(* Events and Invoices *)

LEMMA EventsDiffer ==
  /\ \A i \in InvoiceNumbers :
       /\ InvoiceEvent(i) # NoEvent /\ InvoiceEvent(i) # SessionEvent
       /\ InvoiceEvent(i)[1] \notin Adjustments /\ InvoiceEvent(i)[2] = i
       /\ \A j \in InvoiceNumbers : InvoiceEvent(i) = InvoiceEvent(j) => i = j
  /\ \A a \in Adjustments :
       /\ AdjustmentEvent(a) # NoEvent /\ AdjustmentEvent(a) # SessionEvent
       /\ AdjustmentEvent(a)[1] = a
       /\ \A i \in InvoiceNumbers : InvoiceEvent(i) # AdjustmentEvent(a)
       /\ \A b \in Adjustments : AdjustmentEvent(a) = AdjustmentEvent(b) => a = b
  /\ SessionEvent # NoEvent
  /\ \A e \in Events : e # NoEvent
BY DEF Events, InvoiceEvent, AdjustmentEvent, SessionEvent, NoEvent, Adjustments

\* An Invoice that has been paid is no later than the newest of those looked at.
LEMMA NewestIsLatest ==
  ASSUME NEW a \in 0..MaxInvoices, NEW b \in 0..MaxInvoices,
         NEW k \in {a, b}, IsPaid(k)
  PROVE  k <= Newest({a, b} \ {0})
<1> DEFINE S == {a, b} \ {0}
           paid == {i \in S : invoices[i] = "paid"}
<1>1. S \subseteq InvoiceNumbers /\ k \in paid
  BY Durations DEF InvoiceNumbers, IsPaid
<1>2. \E i \in paid : \A j \in paid : j <= i
  <2>1. \A x, y \in InvoiceNumbers : x <= y \/ y <= x
    BY Durations DEF InvoiceNumbers
  <2>2. \A x \in InvoiceNumbers : x <= x
    BY Durations DEF InvoiceNumbers
  <2>3. CASE \A j \in paid : j <= k
    BY <1>1, <2>3
  <2>4. CASE ~(\A j \in paid : j <= k)
    <3>1. PICK j \in paid : ~(j <= k)
      BY <2>4
    <3>2. k <= j /\ j <= j /\ paid \subseteq {j, k}
      BY <1>1, <2>1, <2>2, <3>1
    <3> QED BY <3>2
  <2> QED BY <2>3, <2>4
<1>3. Newest(S) \in paid /\ \A j \in paid : j <= Newest(S)
  BY <1>1, <1>2 DEF Newest
<1> QED BY <1>1, <1>3

\* Nothing is paid beyond the latest Invoice.
LEMMA LatestIsLast ==
  ASSUME Inv, NEW i \in InvoiceNumbers, IsPaid(i)
  PROVE  i <= subscription.latest /\ subscription.latest \in InvoiceNumbers
<1>1. subscription.latest \in InvoiceNumbers
  BY DEF Inv, TypeOK, Subscription
<1>2. ~(i > subscription.latest)
  BY DEF Inv, ReadIsPaid, IsPaid
<1> QED BY <1>1, <1>2, Durations DEF InvoiceNumbers

\* Every outcome of reconcileSubscription agrees with the Subscription it was given,
\* and records the Invoice it was given.
LEMMA ReconciledAgrees ==
  ASSUME NEW r \in Row, NEW n \in 0..MaxInvoices, PaidRow(r),
         NEW s \in Subscription, NEW t \in Times
  PROVE  LET new == Reconciled(r, s, n, t) IN
         Agrees(new, s) /\ n <= new.paid
<1> DEFINE new == Reconciled(r, s, n, t)
<1>1. PICK b : b = Renewed(r, n)
  OBVIOUS
<1>2. PaidRow(b) /\ b.paid \in {r.paid, n} \ {0}
  <2>1. r # NoRow
    BY DEF PaidRow, NoRow, InvoiceNumbers
  <2> QED BY <1>1, <2>1, RenewedIsPaid
<1>3. /\ s.status \in {"active", "past_due", "unpaid", "canceled"}
      /\ s.ending \in BOOLEAN /\ s.requested \in BOOLEAN
  BY DEF Subscription
<1>4. /\ b \in Row /\ End(b.paid) \in Nat /\ t \in Nat /\ b.paid \in Nat
      /\ b.recoveryUntil \in Nat /\ b.recoveryUntil <= End(b.paid) + Window
  <2>1. b \in Row /\ b.recoveryUntil <= End(b.paid) + Window
    BY <1>2 DEF PaidRow
  <2>2. b.recoveryUntil \in Times /\ b.paid \in 0..MaxInvoices
    BY <2>1 DEF Row
  <2>3. b.paid \in Nat /\ End(b.paid) \in Nat
    BY <2>2, EndGrows, Durations
  <2> QED BY <2>1, <2>2, <2>3, EndIsATime
<1>5. n <= b.paid
  <2>1. n \in Nat /\ r.paid \in Nat /\ End(n) \in Nat /\ End(r.paid) \in Nat
    BY EndGrows, Durations DEF Row
  <2>2. CASE End(n) > End(r.paid)
    <3>1. b.paid = n
      BY <1>1, <2>2 DEF Renewed, Row
    <3> QED BY <2>1, <3>1
  <2>3. CASE ~(End(n) > End(r.paid))
    <3>1. b.paid = r.paid
      BY <1>1, <2>3 DEF Renewed
    <3>2. ~(r.paid < n)
      BY <2>1, <2>3, EndGrows
    <3> QED BY <2>1, <3>1, <3>2
  <2> QED BY <2>2, <2>3
<1>6. /\ new.paid = b.paid
      /\ Agrees(new, s)
  <2>1. Later(b.recoveryUntil, End(b.paid) + Window) = End(b.paid) + Window
    BY <1>4, Durations DEF Later
  <2>2. /\ Recovering(b, t).recoveryUntil = End(b.paid) + Window
        /\ Recovering(b, t).paid = b.paid
    BY <1>4, <2>1 DEF Recovering, Row
  <2>3. /\ Active(b).recoveryUntil = End(b.paid) + Window
        /\ Active(b).paid = b.paid
    BY <1>4 DEF Active, Row
  <2>4. Ending(b, t).recoveryUntil = End(b.paid) + 0 /\ Ending(b, t).paid = b.paid
    BY <1>4 DEF Ending, Row
  <2>5. PICK lapsed : lapsed = [b EXCEPT !.state = "lapsed"]
    OBVIOUS
  <2>6. lapsed.state = "lapsed" /\ lapsed.paid = b.paid
    BY <1>4, <2>5 DEF Row
  <2>7. PICK ended : ended = [lapsed EXCEPT !.recoveryUntil = End(b.paid)]
    OBVIOUS
  <2>8. ended.state = "lapsed" /\ ended.paid = b.paid
    BY <1>4, <2>5, <2>7 DEF Row
  <2>9. CASE s.status \in {"active", "past_due"} /\ s.ending
    <3>1. new = Ending(b, t)
      BY <2>9, <1>1 DEF Reconciled
    <3> QED BY <2>4, <2>9, <3>1 DEF Agrees
  <2>10. CASE s.status = "active" /\ ~s.ending
    <3>1. new \in {Active(b), Recovering(b, t)}
      BY <2>10, <1>1, <1>4 DEF Reconciled
    <3> QED BY <2>2, <2>3, <2>10, <3>1 DEF Agrees
  <2>11. CASE s.status = "past_due" /\ ~s.ending
    <3>1. new = Recovering(b, t)
      BY <2>11, <1>1 DEF Reconciled
    <3> QED BY <2>2, <2>11, <3>1 DEF Agrees
  <2>12. CASE s.status = "unpaid"
    <3>1. new = lapsed
      BY <2>12, <1>1, <2>5 DEF Reconciled
    <3> QED BY <2>6, <2>12, <3>1 DEF Agrees
  <2>13. CASE s.status = "canceled" /\ s.requested
    <3>1. new = ended
      BY <2>13, <1>1, <2>5, <2>7 DEF Reconciled
    <3> QED BY <2>8, <2>13, <3>1 DEF Agrees
  <2>14. CASE s.status = "canceled" /\ ~s.requested
    <3>1. new = lapsed
      BY <2>14, <1>1, <2>5 DEF Reconciled
    <3> QED BY <2>6, <2>14, <3>1 DEF Agrees
  <2> QED BY <1>3, <2>9, <2>10, <2>11, <2>12, <2>13, <2>14
<1> QED BY <1>5, <1>6

-----------------------------------------------------------------------------
(* Stripe: every change announces itself. *)

Announced ==
  /\ pending \subseteq pending' /\ pending' # {}
  /\ \A i \in InvoiceNumbers :
       invoices'[i] = "paid" => IsPaid(i) \/ InvoiceEvent(i) \in pending'
  /\ subscription'.status = "active" /\ subscription.status # "active" =>
       /\ subscription'.latest = subscription.latest
       /\ invoices'[subscription.latest] = "paid"
       /\ InvoiceEvent(subscription.latest) \in pending'
  /\ \A a \in Adjustments :
       /\ claims[a] # "absent" => claims'[a] # "absent"
       /\ AdjustmentEvent(a) \in pending' =>
            AdjustmentEvent(a) \in pending \/ claims'[a] # "absent"
  /\ subscription'.latest > 1 => subscription.latest > 1 \/ End(1) <= now

LEMMA StripeAnnounces ==
  ASSUME Inv, Stripe
  PROVE  Announced
<1>1. /\ subscription \in Subscription /\ claims \in Claims
      /\ invoices \in [InvoiceNumbers -> {"none", "open", "paid"}]
      /\ pending \subseteq Events
  BY DEF Inv, TypeOK
<1>2. subscription.latest \in InvoiceNumbers /\ InvoiceNumbers \subseteq Nat
  BY <1>1 DEF Subscription, InvoiceNumbers
<1>3. CASE Renew
  <2> DEFINE next == subscription.latest + 1
  <2>1. /\ invoices' = [invoices EXCEPT ![next] = "open"]
        /\ subscription' = [subscription EXCEPT !.latest = next]
        /\ pending' = pending \cup {InvoiceEvent(next)}
        /\ claims' = claims
        /\ next \in InvoiceNumbers /\ now >= End(subscription.latest)
    BY <1>3 DEF Renew, Move, Emit
  <2>2. subscription'.status = subscription.status
    BY <1>1, <2>1 DEF Subscription
  <2>3. \A i \in InvoiceNumbers : invoices'[i] = "paid" => IsPaid(i)
    BY <1>1, <2>1 DEF IsPaid
  <2>4. subscription.latest > 1 \/ End(1) <= now
    <3>1. subscription.latest = 1 \/ subscription.latest > 1
      BY <1>2, Durations DEF InvoiceNumbers
    <3>2. End(1) \in Nat /\ now \in Nat
      BY EndGrows, Durations DEF Inv, TypeOK
    <3> QED BY <2>1, <3>1, <3>2
  <2>5. \A a \in Adjustments : AdjustmentEvent(a) \in pending' => AdjustmentEvent(a) \in pending
    BY <2>1, EventsDiffer
  <2> QED BY <2>1, <2>2, <2>3, <2>4, <2>5 DEF Announced
<1>4. ASSUME NEW i \in InvoiceNumbers, Pay(i)
      PROVE  Announced
  <2>1. /\ invoices' = [invoices EXCEPT ![i] = "paid"]
        /\ subscription' = IF i = subscription.latest
                           THEN [subscription EXCEPT !.status = "active"] ELSE subscription
        /\ pending' = pending \cup {InvoiceEvent(i)}
        /\ claims' = claims
    BY <1>4 DEF Pay, Move, Emit
  <2>2. subscription'.latest = subscription.latest
    BY <1>1, <2>1 DEF Subscription
  <2>3. \A j \in InvoiceNumbers :
          invoices'[j] = "paid" => IsPaid(j) \/ InvoiceEvent(j) \in pending'
    BY <1>1, <2>1 DEF IsPaid
  <2>4. subscription'.status = "active" /\ subscription.status # "active" =>
          i = subscription.latest
    BY <2>1
  <2>5. invoices'[i] = "paid"
    BY <1>1, <2>1
  <2>6. \A a \in Adjustments : AdjustmentEvent(a) \in pending' => AdjustmentEvent(a) \in pending
    BY <2>1, EventsDiffer
  <2> QED BY <2>1, <2>2, <2>3, <2>4, <2>5, <2>6 DEF Announced
<1>5. ASSUME NEW s, Become(s), s.latest = subscription.latest,
             s.status = "active" => subscription.status = "active",
             pending' = pending \cup {SessionEvent}
      PROVE  Announced
  <2>1. subscription' = s /\ invoices' = invoices /\ claims' = claims
    BY <1>5 DEF Become
  <2>2. \A a \in Adjustments : AdjustmentEvent(a) \in pending' => AdjustmentEvent(a) \in pending
    BY <1>5, EventsDiffer
  <2>3. \A j \in InvoiceNumbers : invoices'[j] = "paid" => IsPaid(j)
    BY <2>1 DEF IsPaid
  <2> QED BY <1>5, <2>1, <2>2, <2>3 DEF Announced
<1>6. CASE FailPayment
  <2>1. PICK s : s = [subscription EXCEPT !.status = "past_due"]
    OBVIOUS
  <2>2. s.latest = subscription.latest /\ s.status # "active"
    BY <1>1, <2>1 DEF Subscription
  <2> QED BY <1>5, <1>6, <2>1, <2>2 DEF FailPayment, Move, Emit
<1>7. CASE GiveUp
  <2>1. PICK status \in {"unpaid", "canceled"} :
          Become([subscription EXCEPT !.status = status])
    BY <1>7 DEF GiveUp
  <2>2. PICK s : s = [subscription EXCEPT !.status = status]
    OBVIOUS
  <2>3. s.latest = subscription.latest /\ s.status # "active"
    BY <1>1, <2>2 DEF Subscription
  <2> QED BY <1>5, <1>7, <2>1, <2>2, <2>3 DEF GiveUp, Move, Emit
<1>8. CASE Schedule
  <2>1. PICK s : s = [subscription EXCEPT !.ending = ~@]
    OBVIOUS
  <2>2. s.latest = subscription.latest /\ s.status = subscription.status
    BY <1>1, <2>1 DEF Subscription
  <2> QED BY <1>5, <1>8, <2>1, <2>2 DEF Schedule, Move, Emit
<1>9. Canceled.latest = subscription.latest /\ Canceled.status # "active"
  BY <1>1 DEF Canceled, Subscription
<1>10. CASE Cancel
  BY <1>5, <1>9, <1>10 DEF Cancel, Move, Emit
<1>11. CASE CancelForClaim
  BY <1>5, <1>9, <1>11 DEF CancelForClaim, Emit
<1>12. ASSUME NEW a \in Adjustments, Claim(a)
       PROVE  Announced
  <2>1. /\ UNCHANGED <<subscription, invoices>>
        /\ pending' = pending \cup {AdjustmentEvent(a)}
        /\ claims' \in {[claims EXCEPT ![a] = "blocking"], [claims EXCEPT ![a] = "resolved"]}
    BY <1>12 DEF Claim, Move, Emit
  <2>2. \A b \in Adjustments : claims'[b] = claims[b] \/ claims'[b] # "absent"
    BY <1>1, <2>1 DEF Claims
  <2>3. claims'[a] # "absent"
    BY <1>1, <2>1 DEF Claims
  <2>4. \A b \in Adjustments :
          AdjustmentEvent(b) \in pending' => AdjustmentEvent(b) \in pending \/ b = a
    BY <2>1, EventsDiffer
  <2>5. \A j \in InvoiceNumbers : invoices'[j] = "paid" => IsPaid(j)
    BY <2>1 DEF IsPaid
  <2> QED BY <2>1, <2>2, <2>3, <2>4, <2>5 DEF Announced
<1> QED BY <1>3, <1>4, <1>6, <1>7, <1>8, <1>10, <1>11, <1>12 DEF Stripe

LEMMA StripeKeepsConvergence ==
  ASSUME Inv, ConvergenceInv, Stripe
  PROVE  ConvergenceInv'
<1>1. Announced /\ InvoicesGrow /\ UNCHANGED <<now, database, event, view, request>>
  BY StripeStep, StripeAnnounces DEF Inv
<1>2. ClaimsAreSeen'
  BY <1>1 DEF Announced, ConvergenceInv, ClaimsAreSeen
<1>3. ClaimsRestrict' /\ LatestIsDue'
  BY <1>1 DEF Announced, ConvergenceInv, ClaimsRestrict, LatestIsDue, database
<1>4. ReadsNow' /\ RowAgrees'
  BY <1>1 DEF Announced, ReadsNow, RowAgrees, Quiet
<1>5. Coming \subseteq Coming' /\ Buying \subseteq Buying'
  BY <1>1 DEF Announced, Coming, Buying, Carries
<1>6. ASSUME NEW i \in InvoiceNumbers, IsPaid(i)'
      PROVE  IsPaid(i) \/ i \in Coming' \cap Buying'
  BY <1>1, <1>6 DEF Announced, Coming, Buying, IsPaid
<1>7. ASSUME NEW S, NEW T, S \subseteq T, NEW i \in InvoiceNumbers,
             (IsPaid(i) /\ Reached(i, S)) \/ (IsPaid(i)' /\ i \in T)
      PROVE  \E k \in T : IsPaid(k)' /\ i <= k
  <2>1. i <= i
    BY Durations DEF InvoiceNumbers
  <2> QED BY <1>1, <1>7, <2>1 DEF Reached, IsPaid, InvoicesGrow
<1>8. PaidIsKnown'
  <2> DEFINE known == {k \in InvoiceNumbers : k <= row.paid}
  <2> SUFFICES ASSUME license = "active", stored = NoClaims,
                      NEW i \in InvoiceNumbers, IsPaid(i)'
               PROVE  \E k \in Coming' \cup known : IsPaid(k)' /\ i <= k
    BY <1>1 DEF PaidIsKnown, Reached, database
  <2>1. IsPaid(i) => Reached(i, Coming \cup known)
    BY DEF ConvergenceInv, PaidIsKnown
  <2> QED BY <1>5, <1>6, <1>7, <2>1
<1>9. PaidIsToBuy'
  <2> SUFFICES ASSUME license = "none", stored = NoClaims,
                      subscription'.status = "active",
                      NEW i \in InvoiceNumbers \ {1}, IsPaid(i)'
               PROVE  \E k \in Buying' : IsPaid(k)' /\ i <= k
    BY <1>1 DEF PaidIsToBuy, Reached, database
  <2>1. CASE subscription.status = "active"
    <3>1. IsPaid(i) => Reached(i, Buying)
      BY <2>1 DEF ConvergenceInv, PaidIsToBuy
    <3> QED BY <1>5, <1>6, <1>7, <3>1
  <2>2. CASE subscription.status # "active"
    <3>1. PICK n \in InvoiceNumbers : n = subscription.latest
      BY DEF Inv, TypeOK, Subscription
    <3>2. /\ subscription'.latest = n /\ invoices'[n] = "paid"
          /\ InvoiceEvent(n) \in pending'
      BY <1>1, <2>2, <3>1 DEF Announced
    <3>3. IsPaid(n)' /\ n \in Buying'
      BY <3>2 DEF IsPaid, Buying
    <3>4. ~(i > n)
      BY <1>1, <3>2 DEF InvoicesGrow, IsPaid
    <3>5. i <= n
      BY <3>4, Durations DEF InvoiceNumbers
    <3> QED BY <3>3, <3>5
  <2> QED BY <2>1, <2>2
<1>10. BuyerKnows'
  <2> SUFFICES ASSUME license = "none", stored = NoClaims,
                      NEW w \in Workers, Working(w), Buys(view[w]),
                      NEW i \in InvoiceNumbers \ {1}, IsPaid(i)'
               PROVE  \E k \in Coming' : IsPaid(k)' /\ i <= k
    BY <1>1 DEF BuyerKnows, Reached, Working, Buys, database
  <2>1. IsPaid(i) => Reached(i, Coming)
    BY DEF ConvergenceInv, BuyerKnows
  <2> QED BY <1>5, <1>6, <1>7, <2>1
<1> QED BY <1>2, <1>3, <1>4, <1>8, <1>9, <1>10 DEF ConvergenceInv

-----------------------------------------------------------------------------
(* Workers *)

LEMMA BeginKeepsConvergence ==
  ASSUME Inv, ConvergenceInv, NEW w \in Workers, Begin(w)
  PROVE  ConvergenceInv'
<1>1. PICK e \in pending \cup {SessionEvent} :
        /\ event' = [event EXCEPT ![w] = e]
        /\ pending' = pending \ {e}
        /\ view' = [view EXCEPT ![w] =
             [at |-> now, subscription |-> subscription,
              paid |-> Newest(Consulted(subscription.latest, e[2])),
              claims |-> IF e[1] \in Adjustments THEN claims ELSE NoClaims]]
        /\ UNCHANGED <<now, stripe, database, request>>
  BY DEF Begin
<1>2. PICK v :
        v = [at |-> now, subscription |-> subscription,
             paid |-> Newest(Consulted(subscription.latest, e[2])),
             claims |-> IF e[1] \in Adjustments THEN claims ELSE NoClaims]
  OBVIOUS
<1>3. /\ v.at = now /\ v.subscription = subscription
      /\ v.paid = Newest(Consulted(subscription.latest, e[2]))
      /\ v.claims = IF e[1] \in Adjustments THEN claims ELSE NoClaims
  BY <1>2
<1>4. /\ event \in [Workers -> Events \cup {NoEvent}] /\ view \in [Workers -> View]
      /\ e \in Events /\ e # NoEvent /\ event[w] = NoEvent
      /\ subscription \in Subscription
  BY EventsDiffer DEF Begin, Inv, TypeOK, Events
<1>5. /\ event'[w] = e /\ view'[w] = v
      /\ \A u \in Workers \ {w} : event'[u] = event[u] /\ view'[u] = view[u]
  BY <1>1, <1>2, <1>4
<1>6. UNCHANGED <<now, subscription, invoices, claims, row, license, stored>>
  BY <1>1 DEF stripe, database
<1>7. ClaimsAreSeen'
  <2> SUFFICES ASSUME NEW a \in Adjustments
               PROVE  /\ AdjustmentEvent(a) \in pending' => claims[a] # "absent"
                      /\ \A u \in Workers : event'[u] = AdjustmentEvent(a) =>
                           claims[a] # "absent" /\ view'[u].claims[a] # "absent"
    BY <1>6 DEF ClaimsAreSeen
  <2>1. AdjustmentEvent(a) \in pending => claims[a] # "absent"
    BY DEF ConvergenceInv, ClaimsAreSeen
  <2>2. e = AdjustmentEvent(a) => claims[a] # "absent" /\ v.claims[a] # "absent"
    <3>1. AdjustmentEvent(a) # SessionEvent /\ AdjustmentEvent(a)[1] = a
      BY EventsDiffer
    <3> QED BY <1>3, <2>1, <3>1
  <2>3. \A u \in Workers \ {w} : event'[u] = AdjustmentEvent(a) =>
          claims[a] # "absent" /\ view'[u].claims[a] # "absent"
    BY <1>5 DEF ConvergenceInv, ClaimsAreSeen
  <2> QED BY <1>1, <1>5, <2>1, <2>2, <2>3
<1>8. ClaimsRestrict' /\ LatestIsDue'
  BY <1>6 DEF ConvergenceInv, ClaimsRestrict, LatestIsDue
<1>9. ReadsNow'
  BY <1>3, <1>4, <1>5, <1>6 DEF ReadsNow, Working
<1>10. RowAgrees'
  BY <1>4, <1>5 DEF RowAgrees, Quiet
<1>11. ASSUME NEW k \in InvoiceNumbers, IsPaid(k), e = InvoiceEvent(k)
       PROVE  k <= v.paid
  <2>1. subscription.latest \in 0..MaxInvoices /\ k \in 0..MaxInvoices /\ e[2] = k
    BY <1>4, <1>11, EventsDiffer, Durations DEF Subscription, InvoiceNumbers
  <2> QED BY <1>3, <1>11, <2>1, NewestIsLatest DEF Consulted
<1>12. ASSUME NEW k \in InvoiceNumbers, IsPaid(k)
       PROVE  /\ k \in Coming => k \in Coming'
              /\ k \in Buying /\ subscription.status = "active" => k \in Buying'
  <2>1. ~Carries(w, k)
    BY <1>4, EventsDiffer DEF Carries
  <2>2. \A u \in Workers \ {w} : Carries(u, k) =>
          event'[u] = InvoiceEvent(k) /\ k <= view'[u].paid
    BY <1>5 DEF Carries
  <2>3. InvoiceEvent(k) \in pending =>
          InvoiceEvent(k) \in pending' \/ (event'[w] = InvoiceEvent(k) /\ k <= view'[w].paid)
    BY <1>1, <1>5, <1>11, <1>12
  <2>4. k \in Coming => k \in Coming'
    BY <2>1, <2>2, <2>3 DEF Coming, Carries
  <2>5. k \in Buying /\ subscription.status = "active" => k \in Buying'
    BY <1>3, <1>5, <2>1, <2>2, <2>3 DEF Buying, Carries
  <2> QED BY <2>4, <2>5
<1>13. PaidIsKnown'
  BY <1>6, <1>12 DEF ConvergenceInv, PaidIsKnown, Reached, IsPaid
<1>14. PaidIsToBuy'
  BY <1>6, <1>12 DEF ConvergenceInv, PaidIsToBuy, Reached, IsPaid
<1>15. BuyerKnows'
  <2> SUFFICES ASSUME license = "none", stored = NoClaims,
                      NEW u \in Workers, Working(u)', Buys(view'[u]),
                      NEW i \in InvoiceNumbers \ {1}, IsPaid(i)
               PROVE  \E k \in Coming : IsPaid(k) /\ i <= k
    BY <1>6, <1>12 DEF BuyerKnows, Reached, IsPaid
  <2>1. CASE u # w
    <3>1. Working(u) /\ Buys(view[u])
      BY <1>5, <2>1 DEF Working
    <3> QED BY <3>1 DEF ConvergenceInv, BuyerKnows, Reached
  <2>2. CASE u = w /\ subscription.status = "active"
    <3>1. Buying \subseteq Coming
      BY DEF Buying, Coming
    <3> QED BY <2>2, <3>1 DEF ConvergenceInv, PaidIsToBuy, Reached
  <2>3. CASE u = w /\ subscription.status # "active"
    <3>1. now < End(1)
      BY <1>3, <1>5, <2>3 DEF Buys
    <3>2. ~(subscription.latest > 1)
      <4>1. End(1) \in Nat /\ now \in Nat
        BY EndGrows, Durations DEF Inv, TypeOK
      <4> QED BY <3>1, <4>1 DEF ConvergenceInv, LatestIsDue
    <3>3. i <= subscription.latest /\ subscription.latest \in InvoiceNumbers
      BY LatestIsLast
    <3> QED BY <3>2, <3>3, Durations DEF InvoiceNumbers
  <2> QED BY <2>1, <2>2, <2>3
<1> QED BY <1>7, <1>8, <1>9, <1>10, <1>13, <1>14, <1>15 DEF ConvergenceInv

LEMMA FailKeepsConvergence ==
  ASSUME Inv, ConvergenceInv, NEW w \in Workers, Fail(w)
  PROVE  ConvergenceInv'
<1>1. /\ event[w] # NoEvent /\ Leave({w}) /\ pending' = pending \cup {event[w]}
      /\ UNCHANGED <<now, stripe, database, request>>
  BY DEF Fail
<1>2. /\ event'[w] = NoEvent
      /\ \A u \in Workers \ {w} : event'[u] = event[u] /\ view'[u] = view[u]
  BY <1>1 DEF Leave
<1>3. UNCHANGED <<now, subscription, invoices, claims, row, license, stored>>
  BY <1>1 DEF stripe, database
<1>4. ClaimsAreSeen'
  <2> SUFFICES ASSUME NEW a \in Adjustments
               PROVE  /\ AdjustmentEvent(a) \in pending' => claims[a] # "absent"
                      /\ \A u \in Workers : event'[u] = AdjustmentEvent(a) =>
                           claims[a] # "absent" /\ view'[u].claims[a] # "absent"
    BY <1>3 DEF ClaimsAreSeen
  <2>1. /\ AdjustmentEvent(a) \in pending => claims[a] # "absent"
        /\ \A u \in Workers : event[u] = AdjustmentEvent(a) =>
             claims[a] # "absent" /\ view[u].claims[a] # "absent"
    BY DEF ConvergenceInv, ClaimsAreSeen
  <2>2. AdjustmentEvent(a) # NoEvent
    BY EventsDiffer
  <2> QED BY <1>1, <1>2, <2>1, <2>2
<1>5. ClaimsRestrict' /\ LatestIsDue'
  BY <1>3 DEF ConvergenceInv, ClaimsRestrict, LatestIsDue
<1>6. ReadsNow' /\ RowAgrees'
  BY <1>1 DEF ReadsNow, RowAgrees, Quiet
<1>7. Coming \subseteq Coming' /\ Buying \subseteq Buying'
  BY <1>1, <1>2 DEF Coming, Buying, Carries
<1>8. PaidIsKnown' /\ PaidIsToBuy'
  BY <1>3, <1>7 DEF ConvergenceInv, PaidIsKnown, PaidIsToBuy, Reached, IsPaid
<1>9. BuyerKnows'
  <2>1. \A u \in Workers : Working(u)' => u # w /\ Working(u) /\ view'[u] = view[u]
    BY <1>2 DEF Working
  <2>2. \A u \in Workers : Working(u)' /\ Buys(view'[u]) => Buys(view[u])
    BY <2>1
  <2> QED BY <1>3, <1>7, <2>1, <2>2 DEF ConvergenceInv, BuyerKnows, Reached, IsPaid
<1> QED BY <1>4, <1>5, <1>6, <1>8, <1>9 DEF ConvergenceInv

\* After a commit no worker has an event: those of the others have been returned.
LEMMA CommitClears ==
  ASSUME Inv, ConvergenceInv, NEW w \in Workers, Working(w), Commit(w)
  PROVE  /\ UNCHANGED <<now, subscription, invoices, claims>>
         /\ \A u \in Workers : event'[u] = NoEvent
         /\ ClaimsAreSeen' /\ ReadsNow' /\ LatestIsDue' /\ BuyerKnows'
         /\ Quiet' => view[w].subscription = subscription
         /\ \A k \in InvoiceNumbers : k \in Coming => k \in Coming' \/ Carries(w, k)
<1>1. /\ Leave({w} \cup Outdated(w))
      /\ pending' = pending \cup {event[u] : u \in Outdated(w)}
      /\ UNCHANGED <<now, subscription, invoices, claims>>
  BY DEF Commit, stripe
<1>2. \A u \in Workers : event'[u] = NoEvent
  BY <1>1 DEF Leave, Outdated
<1>3. \A u \in Workers \ {w} : event[u] # NoEvent => event[u] \in pending'
  BY <1>1 DEF Outdated
<1>4. ClaimsAreSeen'
  <2> SUFFICES ASSUME NEW a \in Adjustments
               PROVE  /\ AdjustmentEvent(a) \in pending' => claims[a] # "absent"
                      /\ \A u \in Workers : event'[u] # AdjustmentEvent(a)
    BY <1>1 DEF ClaimsAreSeen
  <2>1. AdjustmentEvent(a) \in pending' =>
          AdjustmentEvent(a) \in pending \/ \E u \in Workers : event[u] = AdjustmentEvent(a)
    BY <1>1 DEF Outdated
  <2>2. AdjustmentEvent(a) # NoEvent
    BY EventsDiffer
  <2> QED BY <1>2, <2>1, <2>2 DEF ConvergenceInv, ClaimsAreSeen
<1>5. ReadsNow' /\ BuyerKnows'
  BY <1>2 DEF ReadsNow, BuyerKnows, Working
<1>6. LatestIsDue'
  BY <1>1 DEF ConvergenceInv, LatestIsDue
<1>7. ASSUME Quiet' PROVE view[w].subscription = subscription
  <2>1. pending = {} /\ \A u \in Workers \ {w} : ~Working(u)
    BY <1>1, <1>3, <1>7 DEF Quiet, Working
  <2> QED BY <2>1 DEF ConvergenceInv, ReadsNow
<1>8. ASSUME NEW k \in InvoiceNumbers, k \in Coming
      PROVE  k \in Coming' \/ Carries(w, k)
  <2>1. InvoiceEvent(k) # NoEvent
    BY EventsDiffer
  <2>2. InvoiceEvent(k) \in pending' \/ Carries(w, k)
    BY <1>1, <1>3, <1>8, <2>1 DEF Coming, Carries
  <2> QED BY <2>2 DEF Coming
<1> QED BY <1>1, <1>2, <1>4, <1>5, <1>6, <1>7, <1>8

\* Whatever a monthly commit hands to reconcileSubscription is no older than the
\* Invoice its event is about.
LEMMA SeenIsCarried ==
  ASSUME Inv, NEW w \in Workers, NEW n \in Seen(w)
  PROVE  /\ n \in 0..MaxInvoices
         /\ \A k \in InvoiceNumbers : IsPaid(k) /\ Carries(w, k) => k <= n
<1> DEFINE s == view[w].subscription
<1>1. /\ view[w] \in View /\ s \in Subscription /\ event[w] \in Events \cup {NoEvent}
      /\ view[w].paid \in 0..MaxInvoices /\ TypeOK
  BY DEF Inv, TypeOK, View
<1>2. Newest(Consulted(s.latest, event[w][2])) \in 0..MaxInvoices
  BY <1>1, ConsultedIsPaid
<1>3. ASSUME NEW k \in InvoiceNumbers, IsPaid(k), Carries(w, k)
      PROVE  k <= n
  <2>1. event[w][2] = k /\ k <= view[w].paid
    BY <1>3, EventsDiffer DEF Carries
  <2>2. s.latest \in 0..MaxInvoices /\ k \in 0..MaxInvoices
    BY <1>1, Durations DEF Subscription, InvoiceNumbers
  <2>3. k <= Newest({s.latest, k} \ {0})
    BY <1>3, <2>2, NewestIsLatest
  <2> QED BY <2>1, <2>3 DEF Seen, Consulted
<1> QED BY <1>1, <1>2, <1>3 DEF Seen

\* The license is issued or kept, with a row that agrees and leaves out no Invoice.
LEMMA RecordingConverges ==
  ASSUME Inv, ConvergenceInv, NEW w \in Workers, Working(w), Commit(w),
         UNCHANGED stored, license' = "active",
         NEW base \in Row, PaidRow(base), NEW n \in Seen(w),
         row' = Reconciled(base, view[w].subscription, n, view[w].at),
         stored = NoClaims =>
           \A i \in InvoiceNumbers : IsPaid(i) =>
             Reached(i, Coming \cup {k \in InvoiceNumbers : k <= base.paid})
  PROVE  ConvergenceInv'
<1>1. /\ UNCHANGED <<now, subscription, invoices, claims>>
      /\ \A u \in Workers : event'[u] = NoEvent
      /\ ClaimsAreSeen' /\ ReadsNow' /\ LatestIsDue' /\ BuyerKnows'
      /\ Quiet' => view[w].subscription = subscription
      /\ \A k \in InvoiceNumbers : k \in Coming => k \in Coming' \/ Carries(w, k)
  BY CommitClears
<1>2. view[w].subscription \in Subscription /\ view[w].at \in Times
  BY DEF Inv, TypeOK, View
<1>3. /\ n \in 0..MaxInvoices
      /\ \A k \in InvoiceNumbers : IsPaid(k) /\ Carries(w, k) => k <= n
  BY SeenIsCarried
<1>4. /\ Agrees(row', view[w].subscription) /\ n <= row'.paid
      /\ base.paid <= row'.paid /\ PaidRow(row')
  BY <1>2, <1>3, ReconciledAgrees, ReconciledIsPaid
<1>5. RowAgrees'
  <2>1. PICK s : s = subscription
    OBVIOUS
  <2>2. Quiet' => Agrees(row', s)
    BY <1>1, <1>4, <2>1
  <2> QED BY <1>1, <2>1, <2>2 DEF RowAgrees, Agrees
<1>6. PaidIsKnown'
  <2> SUFFICES ASSUME stored = NoClaims, NEW i \in InvoiceNumbers, IsPaid(i)
               PROVE  \E k \in Coming' \cup {k \in InvoiceNumbers : k <= row'.paid} :
                        IsPaid(k) /\ i <= k
    BY <1>1 DEF PaidIsKnown, Reached, IsPaid
  <2>1. PICK k \in Coming \cup {k \in InvoiceNumbers : k <= base.paid} : IsPaid(k) /\ i <= k
    BY DEF Reached
  <2>2. k \in InvoiceNumbers /\ k \in Nat /\ n \in Nat /\ base.paid \in Nat /\ row'.paid \in Nat
    BY <1>3, <1>4, <2>1, Durations DEF IsPaid, InvoiceNumbers, Row, PaidRow
  <2>3. k \in Coming' \/ k <= row'.paid
    BY <1>1, <1>3, <1>4, <2>1, <2>2
  <2> QED BY <2>1, <2>2, <2>3
<1>7. ClaimsRestrict' /\ PaidIsToBuy'
  BY DEF ClaimsRestrict, PaidIsToBuy
<1> QED BY <1>1, <1>5, <1>6, <1>7 DEF ConvergenceInv

LEMMA CommitMonthlyKeepsConvergence ==
  ASSUME Inv, ConvergenceInv, NEW w \in Workers, CommitMonthly(w)
  PROVE  ConvergenceInv'
<1> DEFINE s == view[w].subscription
           t == view[w].at
<1>1. PICK blocked :
        /\ blocked = \E a \in Adjustments : stored[a] = "blocking"
        /\ Commit(w) /\ UNCHANGED stored /\ event[w][1] \in {"session", "invoice"}
        /\ LET bare == license = "none" /\ Buys(view[w]) /\ ~blocked
               held == license = "active" /\ ~blocked
           IN  \/ /\ bare \/ held
                  /\ license' = "active"
                  /\ \E n \in Seen(w) :
                       row' = Reconciled(IF bare THEN Renewed(NoRow, 1) ELSE row, s, n, t)
               \/ /\ ~bare /\ ~held
                  /\ UNCHANGED <<row, license>>
  BY DEF CommitMonthly, Buys
<1>2. Working(w)
  BY <1>1 DEF Working, NoEvent
<1>3. stored = NoClaims => ~blocked
  BY <1>1 DEF NoClaims
<1>4. row \in Row /\ InvoiceNumbers \subseteq Nat
  BY DEF Inv, TypeOK, InvoiceNumbers
<1>5. CASE license = "none" /\ Buys(view[w]) /\ ~blocked
  <2>1. PICK base : base = Renewed(NoRow, 1)
    OBVIOUS
  <2>2. PICK n \in Seen(w) : row' = Reconciled(base, s, n, t)
    BY <1>1, <1>5, <2>1
  <2>3. base \in Row /\ PaidRow(base) /\ base.paid = 1
    <3>1. NoRow \in Row /\ 1 \in 0..MaxInvoices /\ NoRow.paid = 0
      BY EndIsATime, Durations DEF NoRow, Row
    <3> QED BY <2>1, <3>1, RenewedIsPaid DEF PaidRow
  <2>4. ASSUME stored = NoClaims, NEW i \in InvoiceNumbers, IsPaid(i)
        PROVE  Reached(i, Coming \cup {k \in InvoiceNumbers : k <= base.paid})
    <3>1. CASE i = 1
      BY <1>4, <2>3, <2>4, <3>1 DEF Reached
    <3>2. CASE i # 1
      <4>1. Reached(i, Coming)
        BY <1>2, <1>5, <2>4, <3>2 DEF ConvergenceInv, BuyerKnows
      <4> QED BY <4>1 DEF Reached
    <3> QED BY <3>1, <3>2
  <2>5. license' = "active"
    BY <1>1, <1>5
  <2> QED BY <1>1, <1>2, <2>2, <2>3, <2>4, <2>5, RecordingConverges
<1>6. CASE license = "active" /\ ~blocked
  <2>1. PICK n \in Seen(w) : row' = Reconciled(row, s, n, t)
    BY <1>1, <1>6
  <2>2. PaidRow(row)
    BY <1>6 DEF Inv, RowIsPaid
  <2>3. stored = NoClaims =>
          \A i \in InvoiceNumbers : IsPaid(i) =>
            Reached(i, Coming \cup {k \in InvoiceNumbers : k <= row.paid})
    BY <1>6 DEF ConvergenceInv, PaidIsKnown
  <2>4. license' = "active"
    BY <1>1, <1>6
  <2> QED BY <1>1, <1>2, <1>4, <2>1, <2>2, <2>3, <2>4, RecordingConverges
<1>7. CASE ~(license = "none" /\ Buys(view[w]) /\ ~blocked) /\ ~(license = "active" /\ ~blocked)
  <2>1. UNCHANGED <<row, license>>
    BY <1>1, <1>7
  <2>2. /\ UNCHANGED <<now, subscription, invoices, claims>>
        /\ \A u \in Workers : event'[u] = NoEvent
        /\ ClaimsAreSeen' /\ ReadsNow' /\ LatestIsDue' /\ BuyerKnows'
    BY <1>1, <1>2, CommitClears
  <2>3. stored = NoClaims => license = "none" /\ ~Buys(view[w])
    BY <1>3, <1>7 DEF ConvergenceInv, ClaimsRestrict
  <2>4. ClaimsRestrict' /\ RowAgrees' /\ PaidIsKnown'
    BY <1>1, <2>1, <2>3 DEF ClaimsRestrict, RowAgrees, PaidIsKnown
  <2>5. PaidIsToBuy'
    <3> SUFFICES ASSUME license = "none", stored = NoClaims,
                        subscription.status = "active",
                        NEW i \in InvoiceNumbers \ {1}, IsPaid(i)
                 PROVE  \E k \in Buying' : IsPaid(k) /\ i <= k
      BY <1>1, <2>1, <2>2 DEF PaidIsToBuy, Reached, IsPaid
    <3>1. PICK k \in Buying : IsPaid(k) /\ i <= k
      BY DEF ConvergenceInv, PaidIsToBuy, Reached
    <3>2. view[w].subscription.status # "active"
      BY <2>3 DEF Buys
    <3>3. \A u \in Workers \ {w} : event[u] # NoEvent => event[u] \in pending'
      BY <1>1 DEF Commit, Outdated
    <3>4. k \in InvoiceNumbers /\ InvoiceEvent(k) # NoEvent /\ pending \subseteq pending'
      BY <1>1, <3>1, EventsDiffer DEF Buying, Commit
    <3>5. InvoiceEvent(k) \in pending'
      BY <3>1, <3>2, <3>3, <3>4 DEF Buying, Carries
    <3> QED BY <3>1, <3>4, <3>5 DEF Buying
  <2> QED BY <2>2, <2>4, <2>5 DEF ConvergenceInv
<1> QED BY <1>5, <1>6, <1>7

\* From the first adjustment on, its decision is stored.
LEMMA CommitAdjustmentKeepsConvergence ==
  ASSUME Inv, ConvergenceInv, NEW w \in Workers, CommitAdjustment(w)
  PROVE  ConvergenceInv'
<1>1. PICK a \in Adjustments :
        /\ a = event[w][1] /\ stored' = [stored EXCEPT ![a] = view[w].claims[a]]
        /\ Commit(w)
  BY DEF CommitAdjustment
<1>2. event[w] \in Events \cup {NoEvent} /\ stored \in Claims
  BY DEF Inv, TypeOK
<1>3. event[w] = AdjustmentEvent(a)
  BY <1>1, <1>2 DEF Events, InvoiceEvent, AdjustmentEvent, SessionEvent, NoEvent, Adjustments
<1>4. Working(w)
  BY <1>3, EventsDiffer DEF Working
<1>5. stored' # NoClaims
  <2>1. stored'[a] # "absent"
    BY <1>1, <1>2, <1>3 DEF Claims, ConvergenceInv, ClaimsAreSeen
  <2> QED BY <2>1 DEF NoClaims
<1>6. ClaimsAreSeen' /\ ReadsNow' /\ LatestIsDue' /\ BuyerKnows'
  BY <1>1, <1>4, CommitClears
<1>7. ClaimsRestrict' /\ RowAgrees' /\ PaidIsKnown' /\ PaidIsToBuy'
  BY <1>5 DEF ClaimsRestrict, RowAgrees, PaidIsKnown, PaidIsToBuy, NoClaims
<1> QED BY <1>6, <1>7 DEF ConvergenceInv

\* The clock, requests and stuttering steps change nothing that matters here.
LEMMA TimePasses ==
  ASSUME Inv, ConvergenceInv, now \in Nat, now' \in Nat, now <= now',
         UNCHANGED <<subscription, invoices, claims, row, license, stored,
                     pending, event, view>>
  PROVE  ConvergenceInv'
<1>1. ClaimsAreSeen' /\ ClaimsRestrict' /\ ReadsNow' /\ RowAgrees'
  BY DEF ConvergenceInv, ClaimsAreSeen, ClaimsRestrict, ReadsNow, RowAgrees, Agrees,
         Quiet, Working
<1>2. Coming' = Coming /\ Buying' = Buying
  BY DEF Coming, Buying, Carries
<1>3. PaidIsKnown' /\ PaidIsToBuy'
  BY <1>2 DEF ConvergenceInv, PaidIsKnown, PaidIsToBuy, Reached, IsPaid
<1>4. BuyerKnows'
  BY <1>2 DEF ConvergenceInv, BuyerKnows, Reached, IsPaid, Working, Buys
<1>5. LatestIsDue'
  <2>1. End(1) \in Nat
    BY EndGrows
  <2> QED BY <2>1 DEF ConvergenceInv, LatestIsDue
<1> QED BY <1>1, <1>3, <1>4, <1>5 DEF ConvergenceInv

-----------------------------------------------------------------------------
(* The theorem *)

LEMMA InitConverges == Init => ConvergenceInv
<1> SUFFICES ASSUME Init PROVE ConvergenceInv
  OBVIOUS
<1>1. /\ now = 0 /\ subscription = FirstSubscription /\ pending = {SessionEvent}
      /\ license = "none" /\ stored = NoClaims
      /\ event = [w \in Workers |-> NoEvent]
      /\ invoices = [i \in InvoiceNumbers |-> IF i = 1 THEN "paid" ELSE "none"]
  BY DEF Init
<1>2. ClaimsAreSeen
  BY <1>1, EventsDiffer DEF ClaimsAreSeen
<1>3. ClaimsRestrict /\ ReadsNow /\ RowAgrees /\ PaidIsKnown
  BY <1>1 DEF ClaimsRestrict, ReadsNow, RowAgrees, PaidIsKnown, Working
<1>4. PaidIsToBuy /\ BuyerKnows
  BY <1>1 DEF PaidIsToBuy, BuyerKnows, IsPaid
<1>5. LatestIsDue
  BY <1>1 DEF LatestIsDue, FirstSubscription
<1> QED BY <1>2, <1>3, <1>4, <1>5 DEF ConvergenceInv

LEMMA ConvergenceIsInductive == Inv /\ ConvergenceInv /\ [Next]_vars => ConvergenceInv'
<1> SUFFICES ASSUME Inv, ConvergenceInv, [Next]_vars PROVE ConvergenceInv'
  OBVIOUS
<1>1. now \in Nat
  BY Durations DEF Inv, TypeOK
<1>2. CASE Stripe
  BY <1>2, StripeKeepsConvergence
<1>3. CASE Tick
  <2>1. now' = now + 1 /\ UNCHANGED <<stripe, database, pending, event, view>>
    BY <1>3 DEF Tick
  <2>2. now' \in Nat /\ now <= now'
    BY <1>1, <2>1
  <2> QED BY <1>1, <2>1, <2>2, TimePasses DEF stripe, database
<1>4. CASE UNCHANGED vars
  BY <1>1, <1>4, TimePasses DEF vars
<1>5. ASSUME NEW w \in Workers,
             Begin(w) \/ Fail(w) \/ CommitMonthly(w) \/ CommitAdjustment(w)
      PROVE  ConvergenceInv'
  BY <1>5, BeginKeepsConvergence, FailKeepsConvergence, CommitMonthlyKeepsConvergence,
     CommitAdjustmentKeepsConvergence
<1>6. ASSUME NEW r \in Requests, FindLicense(r) \/ Answer(r)
      PROVE  ConvergenceInv'
  BY <1>1, <1>6, TimePasses DEF FindLicense, Answer, stripe, database
<1> QED BY <1>2, <1>3, <1>4, <1>5, <1>6 DEF Next

LEMMA ConvergenceInvHolds == Spec => []ConvergenceInv
BY InitConverges, InvHolds, ConvergenceIsInductive, PTL DEF Spec

\* When every event has been processed the row says what Stripe says (Converged):
\* monthly commits may read in any order, be overtaken, fail and be retried, but
\* the last to commit has read the Subscription as it is, and every paid Invoice is
\* recorded or still has an event to come.
THEOREM RowConverges == Spec => []Converged
<1>1. ASSUME Inv, ConvergenceInv PROVE Converged
  <2> SUFFICES ASSUME Quiet, license = "active", stored = NoClaims
               PROVE  /\ \A i \in InvoiceNumbers : IsPaid(i) => i <= row.paid
                      /\ Agrees(row, subscription)
    BY DEF Converged, Quiet, Agrees, IsPaid
  <2>1. Agrees(row, subscription)
    BY <1>1 DEF ConvergenceInv, RowAgrees
  <2>2. Coming = {}
    BY EventsDiffer DEF Coming, Carries, Quiet
  <2>3. ASSUME NEW i \in InvoiceNumbers, IsPaid(i) PROVE i <= row.paid
    <3>1. PICK k \in InvoiceNumbers : i <= k /\ k <= row.paid
      BY <1>1, <2>2, <2>3 DEF ConvergenceInv, PaidIsKnown, Reached
    <3>2. i \in Nat /\ k \in Nat /\ row.paid \in Nat
      BY <1>1, <3>1, Durations DEF Inv, TypeOK, Row, InvoiceNumbers
    <3> QED BY <3>1, <3>2
  <2> QED BY <2>1, <2>3
<1> QED BY <1>1, InvHolds, ConvergenceInvHolds, PTL

-----------------------------------------------------------------------------
(* SubscriptionTerms implements LicenseLedger: a third invariant.  What blocks *)
(* was committed once the Subscription had ended, and every worker that read   *)
(* it before has been overtaken since.                                         *)

Ended(s) == s.status = "canceled"

EndIsKnown == \A w \in Workers : Ended(view[w].subscription) => Ended(subscription)
BlockedAfterEnd ==
  Blocking # {} =>
    /\ Ended(subscription)
    /\ \A w \in Workers : Working(w) => Ended(view[w].subscription)
RefundIsFinal ==
  /\ claims["refund"] # "resolved"
  /\ \A w \in Workers : view[w].claims["refund"] # "resolved"
RefundedByRefund == license = "refunded" => "refund" \in Blocking

LicenseInv == EndIsKnown /\ BlockedAfterEnd /\ RefundIsFinal /\ RefundedByRefund

\* A Subscription that has ended does not change, and a refund is not taken back.
LEMMA EndIsFinal ==
  ASSUME Inv, Stripe
  PROVE  /\ Ended(subscription) => UNCHANGED subscription
         /\ claims["refund"] # "resolved" => claims'["refund"] # "resolved"
<1>1. CASE \/ Renew \/ (\E i \in InvoiceNumbers : Pay(i))
           \/ FailPayment \/ GiveUp \/ Schedule \/ Cancel \/ CancelForClaim
  <2>1. ~Ended(subscription)
    BY <1>1 DEF Renew, Pay, FailPayment, GiveUp, Schedule, Cancel, CancelForClaim,
                Collecting, Ended
  <2>2. UNCHANGED claims
    BY <1>1 DEF Renew, Pay, FailPayment, GiveUp, Schedule, Cancel, CancelForClaim, Become
  <2> QED BY <2>1, <2>2
<1>2. ASSUME NEW a \in Adjustments, Claim(a)
      PROVE  /\ UNCHANGED subscription
             /\ claims["refund"] # "resolved" => claims'["refund"] # "resolved"
  BY <1>2 DEF Claim, Inv, TypeOK, Claims, Adjustments
<1> QED BY <1>1, <1>2 DEF Stripe

\* The event of a worker that commits an adjustment, and its decision.
LEMMA DecisionOfAdjustment ==
  ASSUME Inv, ConvergenceInv, NEW w \in Workers, CommitAdjustment(w)
  PROVE  \E a \in Adjustments :
           /\ Working(w) /\ view[w].claims[a] \in {"blocking", "resolved"}
           /\ stored' = [stored EXCEPT ![a] = view[w].claims[a]]
           /\ view[w].claims[a] = "blocking" => Ended(view[w].subscription)
           /\ Restrict(w) \/ Restore(w)
           /\ Commit(w)
<1>1. PICK a \in Adjustments :
        /\ a = event[w][1] /\ stored' = [stored EXCEPT ![a] = view[w].claims[a]]
        /\ view[w].claims[a] = "blocking" => Ended(view[w].subscription)
        /\ Restrict(w) \/ Restore(w)
        /\ Commit(w)
  BY DEF CommitAdjustment, CanBill, Ended
<1>2. event[w] \in Events \cup {NoEvent} /\ view[w] \in View
  BY DEF Inv, TypeOK
<1>3. event[w] = AdjustmentEvent(a)
  BY <1>1, <1>2 DEF Events, InvoiceEvent, AdjustmentEvent, SessionEvent, NoEvent, Adjustments
<1>4. Working(w)
  BY <1>3, EventsDiffer DEF Working
<1>5. view[w].claims[a] \in {"absent", "blocking", "resolved"}
  BY <1>2 DEF View, Claims
<1>6. view[w].claims[a] # "absent"
  BY <1>3 DEF ConvergenceInv, ClaimsAreSeen
<1> QED BY <1>1, <1>4, <1>5, <1>6

\* After a commit nobody has read anything.
LEMMA CommitForgets ==
  ASSUME Inv, NEW w \in Workers, Commit(w), LicenseInv
  PROVE  /\ UNCHANGED <<subscription, claims>>
         /\ \A u \in Workers : ~Working(u)'
         /\ EndIsKnown' /\ RefundIsFinal'
<1>1. /\ UNCHANGED <<subscription, claims>>
      /\ Leave({w} \cup Outdated(w))
  BY DEF Commit, stripe
<1>2. \A u \in Workers : event'[u] = NoEvent /\ (view'[u] = NoView \/ view'[u] = view[u])
  BY <1>1 DEF Leave, Outdated
<1>3. ~Ended(NoView.subscription) /\ NoView.claims["refund"] # "resolved"
  BY DEF NoView, FirstSubscription, NoClaims, Ended, Adjustments
<1> QED BY <1>1, <1>2, <1>3 DEF LicenseInv, EndIsKnown, RefundIsFinal, Working, Ended

\* Settling an adjustment changes one claim.  While some claim blocks, the worker
\* has seen the Subscription end.
LEMMA SettlingBlocks ==
  ASSUME Inv, ConvergenceInv, LicenseInv, NEW w \in Workers, CommitAdjustment(w)
  PROVE  /\ Blocking' # {} => Ended(view[w].subscription) /\ Ended(subscription)
         /\ "refund" \in Blocking => "refund" \in Blocking'
         /\ \E a \in Adjustments :
              \/ Blocking' = Blocking \cup {a}
              \/ a = "dispute" /\ Blocking' = Blocking \ {a}
<1>1. PICK a \in Adjustments :
        /\ Working(w) /\ view[w].claims[a] \in {"blocking", "resolved"}
        /\ stored' = [stored EXCEPT ![a] = view[w].claims[a]]
        /\ view[w].claims[a] = "blocking" => Ended(view[w].subscription)
  BY DecisionOfAdjustment
<1>2. stored \in Claims
  BY DEF Inv, TypeOK
<1>3. view[w].claims[a] = "resolved" => a = "dispute"
  BY DEF LicenseInv, RefundIsFinal, Adjustments
<1>4. /\ stored'[a] = view[w].claims[a]
      /\ \A b \in Adjustments \ {a} : stored'[b] = stored[b]
  BY <1>1, <1>2 DEF Claims
<1>5. CASE view[w].claims[a] = "blocking"
  <2>1. Blocking' = Blocking \cup {a}
    BY <1>4, <1>5 DEF Blocking
  <2>2. Ended(view[w].subscription) /\ Ended(subscription)
    BY <1>1, <1>5 DEF LicenseInv, EndIsKnown
  <2> QED BY <2>1, <2>2
<1>6. CASE view[w].claims[a] = "resolved"
  <2>1. a = "dispute" /\ Blocking' = Blocking \ {a}
    BY <1>3, <1>4, <1>6 DEF Blocking
  <2>2. Blocking # {} => Ended(view[w].subscription) /\ Ended(subscription)
    BY <1>1 DEF LicenseInv, BlockedAfterEnd
  <2> QED BY <2>1, <2>2
<1> QED BY <1>1, <1>5, <1>6

\* What becomes of the license: a restriction while something blocks, else at most
\* a restoration.
LEMMA SettlingJudges ==
  ASSUME Inv, ConvergenceInv, LicenseInv, NEW w \in Workers, CommitAdjustment(w)
  PROVE  \/ /\ Blocking' # {}
            /\ \/ license = "none" /\ UNCHANGED license
               \/ /\ license # "none"
                  /\ license' = IF "refund" \in Blocking' THEN "refunded" ELSE "charged_back"
         \/ /\ Blocking' = {}
            /\ \/ UNCHANGED license
               \/ license \in {"none", "charged_back"} /\ license' = "active"
<1>1. Restrict(w) \/ Restore(w)
  BY DEF CommitAdjustment
<1>2. CASE Restrict(w)
  <2>1. Blocking' # {}
    BY <1>2 DEF Restrict, Blocking
  <2>2. ~CanBill(view[w].subscription)
    BY <2>1, SettlingBlocks DEF Ended, CanBill
  <2> QED BY <1>2, <2>1, <2>2 DEF Restrict, Blocking
<1>3. CASE Restore(w)
  <2>1. Blocking' = {}
    BY <1>3 DEF Restore, Blocking
  <2>2. license \in LicenseStates
    BY DEF Inv, TypeOK
  <2>3. \/ UNCHANGED license
        \/ license # "refunded" /\ license' = "active"
    BY <1>3 DEF Restore
  <2> QED BY <2>1, <2>2, <2>3 DEF LicenseStates
<1> QED BY <1>1, <1>2, <1>3

LEMMA CommitAdjustmentKeepsLicense ==
  ASSUME Inv, ConvergenceInv, LicenseInv, NEW w \in Workers, CommitAdjustment(w)
  PROVE  LicenseInv'
<1>1. /\ UNCHANGED <<subscription, claims>>
      /\ \A u \in Workers : ~Working(u)'
      /\ EndIsKnown' /\ RefundIsFinal'
  BY CommitForgets DEF CommitAdjustment
<1>2. BlockedAfterEnd'
  <2>1. PICK s : s = subscription
    OBVIOUS
  <2>2. Blocking' # {} => Ended(s)
    BY <2>1, SettlingBlocks
  <2> QED BY <1>1, <2>1, <2>2 DEF BlockedAfterEnd, Ended
<1>3. RefundedByRefund'
  BY SettlingJudges, SettlingBlocks DEF LicenseInv, RefundedByRefund
<1> QED BY <1>1, <1>2, <1>3 DEF LicenseInv

LEMMA CommitMonthlyKeepsLicense ==
  ASSUME Inv, LicenseInv, NEW w \in Workers, CommitMonthly(w)
  PROVE  LicenseInv'
<1>1. Commit(w) /\ UNCHANGED stored /\ (UNCHANGED license \/ license' = "active")
  BY DEF CommitMonthly
<1>2. /\ UNCHANGED <<subscription, claims>>
      /\ \A u \in Workers : ~Working(u)'
      /\ EndIsKnown' /\ RefundIsFinal'
  BY <1>1, CommitForgets
<1>3. Blocking' = Blocking
  BY <1>1 DEF Blocking
<1> QED BY <1>1, <1>2, <1>3 DEF LicenseInv, BlockedAfterEnd, RefundedByRefund, Ended

LEMMA BeginKeepsLicense ==
  ASSUME Inv, LicenseInv, NEW w \in Workers, Begin(w)
  PROVE  LicenseInv'
<1>1. PICK v :
        /\ v.subscription = subscription /\ v.claims \in {claims, NoClaims}
        /\ view' = [view EXCEPT ![w] = v]
        /\ \A u \in Workers \ {w} : event'[u] = event[u]
        /\ UNCHANGED <<subscription, claims, license, stored>>
  <2>1. PICK e \in pending \cup {SessionEvent} :
          /\ event' = [event EXCEPT ![w] = e]
          /\ view' = [view EXCEPT ![w] =
               [at |-> now, subscription |-> subscription,
                paid |-> Newest(Consulted(subscription.latest, e[2])),
                claims |-> IF e[1] \in Adjustments THEN claims ELSE NoClaims]]
          /\ UNCHANGED <<now, stripe, database, request>>
    BY DEF Begin
  <2>2. PICK v :
          v = [at |-> now, subscription |-> subscription,
               paid |-> Newest(Consulted(subscription.latest, e[2])),
               claims |-> IF e[1] \in Adjustments THEN claims ELSE NoClaims]
    OBVIOUS
  <2>3. v.subscription = subscription /\ v.claims \in {claims, NoClaims}
    BY <2>2
  <2>4. \A u \in Workers \ {w} : event'[u] = event[u]
    BY <2>1 DEF Inv, TypeOK
  <2>5. UNCHANGED <<subscription, claims, license, stored>>
    BY <2>1 DEF stripe, database
  <2> QED BY <2>1, <2>2, <2>3, <2>4, <2>5
<1>2. view'[w] = v /\ \A u \in Workers \ {w} : view'[u] = view[u]
  BY <1>1 DEF Inv, TypeOK
<1>3. NoClaims["refund"] # "resolved"
  BY DEF NoClaims, Adjustments
<1>4. EndIsKnown'
  BY <1>1, <1>2 DEF LicenseInv, EndIsKnown, Ended
<1>5. BlockedAfterEnd'
  <2>1. Blocking' = Blocking
    BY <1>1 DEF Blocking
  <2>2. \A u \in Workers \ {w} : Working(u)' => Working(u)
    BY <1>1 DEF Working
  <2> QED BY <1>1, <1>2, <2>1, <2>2 DEF LicenseInv, BlockedAfterEnd, Ended
<1>6. RefundIsFinal'
  BY <1>1, <1>2, <1>3 DEF LicenseInv, RefundIsFinal
<1>7. RefundedByRefund'
  BY <1>1 DEF LicenseInv, RefundedByRefund, Blocking
<1> QED BY <1>4, <1>5, <1>6, <1>7 DEF LicenseInv

\* Stripe's steps, and those in which workers at most forget what they have read.
LEMMA OthersKeepLicense ==
  ASSUME LicenseInv, UNCHANGED <<license, stored>>,
         Ended(subscription) => UNCHANGED subscription,
         claims'["refund"] # "resolved",
         \A u \in Workers :
           \/ event'[u] = event[u] /\ view'[u] = view[u]
           \/ event'[u] = NoEvent /\ view'[u] = NoView
  PROVE  LicenseInv'
<1>1. ~Ended(NoView.subscription) /\ NoView.claims["refund"] # "resolved"
  BY DEF NoView, FirstSubscription, NoClaims, Ended, Adjustments
<1>2. EndIsKnown'
  BY <1>1 DEF LicenseInv, EndIsKnown, Ended
<1>3. BlockedAfterEnd'
  BY DEF LicenseInv, BlockedAfterEnd, Blocking, Working, Ended
<1>4. RefundIsFinal' /\ RefundedByRefund'
  BY <1>1 DEF LicenseInv, RefundIsFinal, RefundedByRefund, Blocking
<1> QED BY <1>2, <1>3, <1>4 DEF LicenseInv

LEMMA InitLicense == Init => LicenseInv
<1> SUFFICES ASSUME Init PROVE LicenseInv
  OBVIOUS
<1>1. ~Ended(NoView.subscription) /\ NoView.claims["refund"] # "resolved"
  BY DEF NoView, FirstSubscription, NoClaims, Ended, Adjustments
<1>2. \A w \in Workers : view[w] = NoView
  BY DEF Init
<1>3. Blocking = {} /\ license = "none" /\ claims["refund"] # "resolved"
  BY DEF Init, Blocking, NoClaims, Adjustments
<1> QED BY <1>1, <1>2, <1>3
        DEF LicenseInv, EndIsKnown, BlockedAfterEnd, RefundIsFinal, RefundedByRefund

LEMMA LicenseIsInductive == Inv /\ ConvergenceInv /\ LicenseInv /\ [Next]_vars => LicenseInv'
<1> SUFFICES ASSUME Inv, ConvergenceInv, LicenseInv, [Next]_vars PROVE LicenseInv'
  OBVIOUS
<1>1. claims["refund"] # "resolved"
  BY DEF LicenseInv, RefundIsFinal
<1>2. CASE Stripe
  <2>1. UNCHANGED <<database, event, view>>
    BY <1>2, StripeStep DEF Inv
  <2> QED BY <1>1, <1>2, <2>1, EndIsFinal, OthersKeepLicense DEF database
<1>3. CASE Tick \/ UNCHANGED vars \/ \E r \in Requests : FindLicense(r) \/ Answer(r)
  <2>1. UNCHANGED <<subscription, claims, license, stored, event, view>>
    BY <1>3 DEF Tick, vars, FindLicense, Answer, stripe, database
  <2> QED BY <1>1, <2>1, OthersKeepLicense
<1>4. ASSUME NEW w \in Workers, Fail(w) PROVE LicenseInv'
  <2>1. Leave({w}) /\ UNCHANGED <<stripe, database>>
    BY <1>4 DEF Fail
  <2>2. event \in [Workers -> Events \cup {NoEvent}] /\ view \in [Workers -> View]
    BY DEF Inv, TypeOK
  <2>3. \A u \in Workers :
          \/ event'[u] = event[u] /\ view'[u] = view[u]
          \/ event'[u] = NoEvent /\ view'[u] = NoView
    BY <2>1, <2>2 DEF Leave
  <2> QED BY <1>1, <2>1, <2>3, OthersKeepLicense DEF stripe, database
<1>5. ASSUME NEW w \in Workers, Begin(w) \/ CommitMonthly(w) \/ CommitAdjustment(w)
      PROVE  LicenseInv'
  BY <1>5, BeginKeepsLicense, CommitMonthlyKeepsLicense, CommitAdjustmentKeepsLicense
<1> QED BY <1>2, <1>3, <1>4, <1>5 DEF Next

LEMMA LicenseInvHolds == Spec => []LicenseInv
BY InitLicense, InvHolds, ConvergenceInvHolds, LicenseIsInductive, PTL DEF Spec

\* Every step is a step of the ledger or a stutter.
LEMMA LicenseStep ==
  ASSUME Inv, ConvergenceInv, LicenseInv, [Next]_vars
  PROVE  [Ledger!Next]_(Ledger!licenseVars)
<1>1. ASSUME UNCHANGED <<license, stored>>, UNCHANGED subscription \/ Ended(subscription')
      PROVE  [Ledger!Next]_(Ledger!licenseVars)
  <2>1. UNCHANGED <<license, Blocking>>
    BY <1>1 DEF Blocking
  <2>2. CASE UNCHANGED subscription
    BY <2>1, <2>2 DEF Ledger!licenseVars, Collecting
  <2>3. CASE Ended(subscription')
    <3>1. Collecting' = FALSE
      BY <2>3 DEF Collecting, Ended
    <3> QED BY <2>1, <3>1 DEF Ledger!Stop, Ledger!Next
  <2> QED BY <1>1, <2>2, <2>3
<1>2. ASSUME UNCHANGED <<license, stored, Collecting>>
      PROVE  [Ledger!Next]_(Ledger!licenseVars)
  <2>1. UNCHANGED <<license, Blocking>>
    BY <1>2 DEF Blocking
  <2> QED BY <1>2, <2>1 DEF Ledger!licenseVars
<1>3. CASE Stripe
  <2>1. UNCHANGED <<license, stored>>
    BY <1>3, StripeStep DEF Inv, database
  <2>2. CASE Ended(subscription) \/ Ended(subscription')
    BY <1>1, <1>3, <2>1, <2>2, EndIsFinal
  <2>3. CASE ~Ended(subscription) /\ ~Ended(subscription')
    <3>1. UNCHANGED Collecting
      BY <2>3 DEF Collecting, Ended
    <3> QED BY <1>2, <2>1, <3>1
  <2> QED BY <2>2, <2>3
<1>4. CASE \/ Tick \/ UNCHANGED vars
           \/ \E r \in Requests : FindLicense(r) \/ Answer(r)
           \/ \E w \in Workers : Begin(w) \/ Fail(w)
  BY <1>1, <1>4 DEF Tick, vars, FindLicense, Answer, Begin, Fail, stripe, database
<1>5. ASSUME NEW w \in Workers, CommitMonthly(w)
      PROVE  [Ledger!Next]_(Ledger!licenseVars)
  <2>1. UNCHANGED <<stored, subscription>>
    BY <1>5 DEF CommitMonthly, Commit, stripe
  <2>2. UNCHANGED license \/ (license = "none" /\ Blocking = {} /\ license' = "active")
    BY <1>5 DEF CommitMonthly, Blocking
  <2>3. CASE UNCHANGED license
    BY <1>1, <2>1, <2>3
  <2>4. CASE license = "none" /\ Blocking = {} /\ license' = "active"
    <3>1. UNCHANGED <<Blocking, Collecting>>
      BY <2>1 DEF Blocking, Collecting
    <3> QED BY <2>4, <3>1 DEF Ledger!Issue, Ledger!Next
  <2> QED BY <2>2, <2>3, <2>4
<1>6. ASSUME NEW w \in Workers, CommitAdjustment(w)
      PROVE  [Ledger!Next]_(Ledger!licenseVars)
  <2>1. PICK a \in Adjustments :
          \/ Blocking' = Blocking \cup {a}
          \/ a = "dispute" /\ Blocking' = Blocking \ {a}
    BY <1>6, SettlingBlocks
  <2>2. a \in {"refund"} \cup {"dispute"}
    BY DEF Adjustments
  <2>3. UNCHANGED Collecting
    BY <1>6 DEF CommitAdjustment, Commit, Collecting, stripe
  <2>4. Blocking' = IF a \in Blocking' THEN Blocking \cup {a} ELSE Blocking \ {a}
    BY <2>1
  <2>5. Ledger!Settle(a)
    BY <2>1, <2>2, <2>3, <2>4 DEF Ledger!Settle, Ledger!Weigh
  <2>6. CASE Blocking' # {}
    <3>1. ~Collecting
      BY <1>6, <2>6, SettlingBlocks DEF Collecting, Ended
    <3>2. license \in LicenseStates
      BY DEF Inv, TypeOK
    <3>3. "refund" \in Blocking' <=> Blocking' \cap {"refund"} # {}
      OBVIOUS
    <3>4. \/ license \in {"none", "revoked"} /\ UNCHANGED license
          \/ /\ license \notin {"none", "revoked"}
             /\ license' = IF Blocking' \cap {"refund"} # {} THEN "refunded" ELSE "charged_back"
      BY <1>6, <2>6, <3>2, <3>3, SettlingJudges DEF LicenseStates
    <3>5. Ledger!Restrict(a)
      BY <2>5, <2>6, <3>1, <3>4 DEF Ledger!Restrict
    <3> QED BY <2>2, <3>5 DEF Ledger!Next
  <2>7. CASE Blocking' = {}
    <3>1. Ledger!Lift(a)
      BY <1>6, <2>5, <2>7, SettlingJudges DEF Ledger!Lift
    <3> QED BY <2>2, <3>1 DEF Ledger!Next
  <2> QED BY <2>6, <2>7
<1> QED BY <1>3, <1>4, <1>5, <1>6 DEF Next

LEMMA LicenseInit == Init => Ledger!Init
<1> SUFFICES ASSUME Init PROVE Ledger!Init
  OBVIOUS
<1>1. Blocking = {}
  BY DEF Init, Blocking, NoClaims
<1>2. Collecting \in BOOLEAN
  BY DEF Collecting
<1> QED BY <1>1, <1>2 DEF Init, Ledger!Init

\* The commits of monthly events and adjustments, with their dates and whatever was
\* read before them, implement the same ledger as OrderBilling's handlers.
THEOREM LicenseImplemented == Spec => ImplementsLicense
<1>1. Spec => [][Ledger!Next]_(Ledger!licenseVars)
  BY InvHolds, ConvergenceInvHolds, LicenseInvHolds, LicenseStep, PTL DEF Spec
<1> QED BY <1>1, LicenseInit, PTL DEF Spec, ImplementsLicense, Ledger!Spec
=============================================================================
