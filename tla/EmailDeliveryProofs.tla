------------------------ MODULE EmailDeliveryProofs ------------------------
(***************************************************************************)
(* What holds of the outboxes for any number of licenses, requests and     *)
(* dispatchers and for any delays: the types, that no two dispatchers hold *)
(* the same row, and that no email is dropped before SES has it.           *)
(***************************************************************************)
EXTENDS EmailDelivery, TLAPS

\* A dispatcher that has claimed a row keeps it claimed for as long as its pass
\* lasts: the row is gone, or not due before RetryDelay after the pass began.
Claimed(row, a) ==
  /\ row.state \in {"queued", "gone"}
  /\ row.state = "queued" => row.wait >= RetryDelay - a

Pass(d) ==
  /\ pc[d] \in {"idle", "claim"} => item[d] = Nothing
  /\ pc[d] \in {"prepare", "preparing"} =>
       item[d] \in Jobs /\ Claimed(jobs[item[d]], age[d])
  /\ pc[d] = "preparing" => jobs[item[d]].state = "queued"
  /\ pc[d] \in {"claimed", "accepted"} =>
       item[d] \in Emails /\ Claimed(mail[item[d]], age[d])
  /\ pc[d] = "accepted" => item[d] \in received

\* What has not been prepared or sold has not been mailed.
Fresh ==
  /\ \A j \in Jobs, l \in Licenses : jobs[j].state # "gone" => mail[<<j, l>>].state = "none"
  /\ \A l \in Licenses : keyState[l] = "unsold" => mail[l].state = "none"

Inv ==
  /\ TypeOK
  /\ Fresh
  /\ \A d \in Dispatchers : Pass(d)
  /\ ClaimsExclusive

-----------------------------------------------------------------------------
(* Rows *)

LEMMA Numbers ==
  /\ Margin \in Nat /\ RequestLifetime \in Nat /\ TokenLifetime \in Nat /\ KeyLifetime \in Nat
  /\ PassLimit \in Nat /\ RetryDelay \in Nat /\ MaxChanges \in Nat
  /\ PassLimit < RetryDelay /\ PassLimit <= TokenLifetime
  /\ Nothing \notin Jobs \cup Emails /\ Jobs \cap Emails = {}
  /\ Licenses \cap (Jobs \X Licenses) = {}
  /\ RecoveryDispatchers \cap LicenseDispatchers = {}
BY LifetimesAssumption, TimeoutsAssumption, BoundAssumption, NamesAssumption

LEMMA LivesAreBounded ==
  /\ MaxLife \in Nat
  /\ RequestLifetime <= MaxLife /\ TokenLifetime <= MaxLife /\ KeyLifetime <= MaxLife
<1> DEFINE S == {RequestLifetime, TokenLifetime, KeyLifetime}
<1>1. \E n \in S : \A m \in S : m <= n
  BY Numbers
<1>2. MaxLife = CHOOSE n \in S : \A m \in S : m <= n
  BY DEF MaxLife
<1>3. MaxLife \in S /\ \A m \in S : m <= MaxLife
  <2> HIDE DEF S
  <2> QED BY <1>1, <1>2
<1> QED BY <1>3, Numbers

LEMMA RowFields ==
  ASSUME NEW row \in Row
  PROVE  /\ row.state \in {"none", "queued", "gone"}
         /\ row.wait \in -MaxLife..RetryDelay /\ row.wait \in Int
         /\ row.life \in 0..MaxLife /\ row.life \in Nat
<1>1. /\ row.state \in {"none", "queued", "gone"}
      /\ row.wait \in -MaxLife..RetryDelay /\ row.life \in 0..MaxLife
  BY DEF Row
<1> QED BY <1>1, Numbers, LivesAreBounded

LEMMA NewRow ==
  ASSUME NEW s \in {"none", "queued", "gone"}, NEW w \in -MaxLife..RetryDelay,
         NEW n \in 0..MaxLife
  PROVE  LET row == [state |-> s, wait |-> w, life |-> n] IN
         row \in Row /\ row.state = s /\ row.wait = w /\ row.life = n
BY DEF Row

LEMMA Waits == /\ 0 \in -MaxLife..RetryDelay /\ RetryDelay \in -MaxLife..RetryDelay
               /\ 0 \in 0..MaxLife /\ KeyLifetime \in 0..MaxLife
               /\ RequestLifetime \in 0..MaxLife
               /\ \A a \in 0..PassLimit : /\ -a \in -MaxLife..RetryDelay
                                          /\ RetryDelay - a \in -MaxLife..RetryDelay
                                          /\ RetryDelay - a > 0 /\ a \in Nat
                                          /\ TokenLifetime - a \in 0..MaxLife
BY Numbers, LivesAreBounded

LEMMA GoneRow ==
  ASSUME NEW row \in Row
  PROVE  Gone(row) \in Row /\ Gone(row).state = "gone"
<1>1. Gone(row) = [row EXCEPT !.state = "gone", !.wait = 0]
  BY DEF Gone
<1> QED BY <1>1, Waits DEF Row

LEMMA DeferredRow ==
  ASSUME NEW row \in Row, NEW a \in 0..PassLimit
  PROVE  /\ Defer(row, a) \in Row /\ Defer(row, a).state = row.state
         /\ Defer(row, a).wait = RetryDelay - a
<1>1. Defer(row, a) = [row EXCEPT !.wait = RetryDelay - a]
  BY DEF Defer
<1> QED BY <1>1, Waits DEF Row

LEMMA OlderRow ==
  ASSUME NEW row \in Row
  PROVE  /\ Older(row) \in Row /\ Older(row).state = row.state
         /\ row.state = "queued" => Older(row).wait >= row.wait - 1
<1> DEFINE w == IF row.state = "queued" /\ row.wait > -MaxLife THEN row.wait - 1 ELSE row.wait
<1> DEFINE n == IF row.life > 0 THEN row.life - 1 ELSE 0
<1>1. Older(row) = [row EXCEPT !.wait = w, !.life = n]
  BY DEF Older
<1>2. w \in -MaxLife..RetryDelay /\ w >= row.wait - 1
  BY RowFields, Numbers, LivesAreBounded
<1>3. n \in 0..MaxLife
  BY RowFields, LivesAreBounded
<1> HIDE DEF w, n
<1> QED BY <1>1, <1>2, <1>3 DEF Row

LEMMA NoneAndGone ==
  /\ NoRow \in Row /\ NoRow.state = "none"
  /\ Gone(NoRow) \in Row /\ Gone(NoRow).state = "gone"
<1>1. NoRow \in Row /\ NoRow.state = "none"
  BY NewRow, Waits DEF NoRow
<1> QED BY <1>1, GoneRow

-----------------------------------------------------------------------------
(* Steps *)

TablesTyped ==
  /\ jobs \in [Jobs -> Row] /\ mail \in [Emails -> Row]
  /\ copy \in [Licenses -> BOOLEAN]
  /\ keyState \in [Licenses -> {"unsold", "current", "rotated", "deleted"}]
  /\ standing \in [Licenses -> {"unsold", "active", "restricted"}]
  /\ changes \in 0..MaxChanges /\ calm \in BOOLEAN

DispatchTyped ==
  /\ pc \in [Dispatchers ->
               {"idle", "prepare", "preparing", "claim", "claimed", "accepted"}]
  /\ age \in [Dispatchers -> 0..PassLimit]
  /\ item \in [Dispatchers -> Jobs \cup Emails \cup {Nothing}]
  /\ found \in [Dispatchers -> SUBSET Licenses]
  /\ received \subseteq Emails

LEMMA TypeOKParts == (TypeOK <=> TablesTyped /\ DispatchTyped)
                     /\ (TypeOK' <=> TablesTyped' /\ DispatchTyped')
BY DEF TypeOK, TablesTyped, DispatchTyped

LEMMA InitInv == Init => Inv
<1> SUFFICES ASSUME Init PROVE Inv
  OBVIOUS
<1>1. TypeOK
  <2>1. jobs \in [Jobs -> Row]
    BY NoneAndGone DEF Init
  <2>2. mail \in [Emails -> Row] /\ received \subseteq Emails
    BY NoneAndGone DEF Init, Emails
  <2>3. keyState \in [Licenses -> {"unsold", "current", "rotated", "deleted"}]
        /\ standing \in [Licenses -> {"unsold", "active", "restricted"}]
    BY DEF Init
  <2>4. age \in [Dispatchers -> 0..PassLimit] /\ changes \in 0..MaxChanges
    BY Numbers DEF Init
  <2> QED BY <2>1, <2>2, <2>3, <2>4 DEF Init, TypeOK
<1>2. Fresh
  <2>1. PICK sold \in SUBSET Licenses :
          /\ mail = [e \in Emails |-> IF e \in sold THEN Gone(NoRow) ELSE NoRow]
          /\ keyState = [l \in Licenses |-> IF l \in sold THEN "current" ELSE "unsold"]
    BY DEF Init
  <2>2. \A j \in Jobs, l \in Licenses : <<j, l>> \in Emails /\ <<j, l>> \notin Licenses
    BY Numbers DEF Emails
  <2> QED BY <2>1, <2>2, NoneAndGone DEF Fresh, Emails
<1>3. \A d \in Dispatchers : Pass(d)
  BY DEF Init, Pass
<1>4. ClaimsExclusive
  BY DEF Init, ClaimsExclusive
<1> QED BY <1>1, <1>2, <1>3, <1>4 DEF Inv

\* A step of one dispatcher, or of none: the others keep what they hold, because a
\* row that changes otherwise than by becoming gone was held by none of them.
LEMMA StepKeepsPasses ==
  ASSUME Inv, TypeOK', Fresh',
         NEW moving \in SUBSET Dispatchers, \A d, q \in moving : d = q,
         \A d \in moving : Pass(d)',
         \A q \in Dispatchers \ moving : pc'[q] = pc[q] /\ item'[q] = item[q] /\ age'[q] = age[q],
         received \subseteq received',
         \A d \in moving : item'[d] \in {item[d], Nothing}
                           \/ \A q \in Dispatchers \ moving : item[q] # item'[d],
         \A e \in Emails :
           \/ mail'[e] = mail[e] \/ mail[e].state = "none" \/ mail'[e].state = "gone"
           \/ \A q \in Dispatchers \ moving : item[q] # e,
         \A j \in Jobs :
           \/ jobs'[j] = jobs[j] \/ jobs[j].state = "none"
           \/ jobs'[j].state = "gone" /\ ~Preparing(j)
           \/ \A q \in Dispatchers \ moving : item[q] # j
  PROVE  Inv'
<1>1. ASSUME NEW q \in Dispatchers \ moving PROVE Pass(q)'
  <2>1. pc'[q] = pc[q] /\ item'[q] = item[q] /\ age'[q] = age[q] /\ Pass(q)
    BY DEF Inv
  <2>2. ASSUME item[q] \in Emails, Claimed(mail[item[q]], age[q])
        PROVE  Claimed(mail'[item[q]], age[q])
    BY <2>2 DEF Claimed
  <2>3. ASSUME item[q] \in Jobs, Claimed(jobs[item[q]], age[q])
        PROVE  Claimed(jobs'[item[q]], age[q])
    BY <2>3 DEF Claimed
  <2>4. ASSUME pc[q] = "preparing" PROVE jobs'[item[q]].state = "queued"
    <3>1. item[q] \in Jobs /\ jobs[item[q]].state = "queued"
      BY <2>1, <2>4 DEF Pass
    <3>2. Preparing(item[q])
      BY <2>4 DEF Preparing
    <3> QED BY <3>1, <3>2
  <2>5. (pc[q] \in {"idle", "claim"} => item[q] = Nothing)
        /\ (pc[q] = "accepted" => item[q] \in received')
    BY <2>1 DEF Pass
  <2>6. pc[q] \in {"prepare", "preparing"} =>
          item[q] \in Jobs /\ Claimed(jobs'[item[q]], age[q])
    BY <2>1, <2>3 DEF Pass
  <2>7. pc[q] \in {"claimed", "accepted"} =>
          item[q] \in Emails /\ Claimed(mail'[item[q]], age[q])
    BY <2>1, <2>2 DEF Pass
  <2>8. /\ pc'[q] \in {"idle", "claim"} => item'[q] = Nothing
        /\ pc'[q] \in {"prepare", "preparing"} =>
             item'[q] \in Jobs /\ Claimed(jobs'[item'[q]], age'[q])
        /\ pc'[q] = "preparing" => jobs'[item'[q]].state = "queued"
        /\ pc'[q] \in {"claimed", "accepted"} =>
             item'[q] \in Emails /\ Claimed(mail'[item'[q]], age'[q])
        /\ pc'[q] = "accepted" => item'[q] \in received'
    BY <2>1, <2>4, <2>5, <2>6, <2>7
  <2> QED BY <2>8 DEF Pass, Claimed
<1>2. ClaimsExclusive'
  <2>1. ASSUME NEW d \in Dispatchers, NEW q \in Dispatchers, item'[d] = item'[q], item'[d] # Nothing
        PROVE  d = q
    BY <2>1 DEF Inv, ClaimsExclusive
  <2> QED BY <2>1 DEF ClaimsExclusive
<1> QED BY <1>1, <1>2 DEF Inv

\* A due row, or one that is still to be written, is held by nobody.
LEMMA DueIsFree ==
  ASSUME Inv, NEW d \in Dispatchers, NEW a \in 0..PassLimit
  PROVE  /\ \A e \in Emails : (mail[e].state = "none" \/ Due(mail[e], a)) => item[d] # e
         /\ \A j \in Jobs : (jobs[j].state = "none" \/ Due(jobs[j], a)) => item[d] # j
<1>1. TypeOK /\ Pass(d) /\ age[d] \in 0..PassLimit
  BY DEF Inv, TypeOK
<1>2. ASSUME NEW row \in Row, Claimed(row, age[d])
      PROVE  row.state # "none" /\ ~Due(row, a)
  <2>1. row.wait \in Int /\ RetryDelay - age[d] > 0 /\ a \in Nat /\ age[d] \in Nat
        /\ RetryDelay \in Nat
    BY <1>1, RowFields, Waits, Numbers
  <2> QED BY <1>2, <2>1 DEF Claimed, Due
<1>3. pc[d] \in {"idle", "prepare", "preparing", "claim", "claimed", "accepted"}
  BY <1>1 DEF TypeOK
<1>4. ASSUME NEW e \in Emails, item[d] = e PROVE mail[e].state # "none" /\ ~Due(mail[e], a)
  <2>1. Claimed(mail[e], age[d])
    BY <1>1, <1>3, <1>4, Numbers DEF Pass
  <2> QED BY <1>1, <1>2, <2>1 DEF TypeOK
<1>5. ASSUME NEW j \in Jobs, item[d] = j PROVE jobs[j].state # "none" /\ ~Due(jobs[j], a)
  <2>1. Claimed(jobs[j], age[d])
    BY <1>1, <1>3, <1>5, Numbers DEF Pass
  <2> QED BY <1>1, <1>2, <2>1 DEF TypeOK
<1> QED BY <1>4, <1>5

-----------------------------------------------------------------------------
(* Steps of the rest of the service *)

LEMMA ServiceStepKeepsInv ==
  ASSUME Inv, UNCHANGED <<dispatch, received>>, TablesTyped', Fresh',
         \A e \in Emails :
           mail'[e] = mail[e] \/ mail[e].state = "none" \/ mail'[e].state = "gone",
         \A j \in Jobs :
           \/ jobs'[j] = jobs[j] \/ jobs[j].state = "none"
           \/ jobs'[j].state = "gone" /\ ~Preparing(j)
  PROVE  Inv'
<1>1. UNCHANGED <<pc, age, item, found, received>>
  BY DEF dispatch
<1>2. DispatchTyped'
  BY <1>1, TypeOKParts DEF Inv, DispatchTyped
<1>3. TypeOK'
  BY <1>2, TypeOKParts
<1> DEFINE nobody == {}
<1>4. nobody \in SUBSET Dispatchers /\ \A d \in Dispatchers : d \notin nobody
  OBVIOUS
<1> HIDE DEF nobody
<1> QED BY <1>1, <1>3, <1>4, StepKeepsPasses

LEMMA LicenseEmails ==
  /\ Licenses \subseteq Emails
  /\ \A j \in Jobs, l \in Licenses : <<j, l>> \in Emails /\ <<j, l>> \notin Licenses
  /\ \A j \in Jobs, l \in Licenses, k \in Licenses : <<j, l>> # k
BY Numbers DEF Emails

LEMMA SellKeepsInv ==
  ASSUME Inv, NEW l \in Licenses, Sell(l)
  PROVE  Inv'
<1>1. TypeOK /\ TablesTyped /\ UNCHANGED <<jobs, dispatch, changes, calm, received>>
  BY TypeOKParts DEF Inv, Sell
<1> DEFINE new == [state |-> "queued", wait |-> 0, life |-> KeyLifetime]
<1>2. new \in Row
  BY NewRow, Waits
<1>3. mail' = [mail EXCEPT ![l] = new] /\ mail[l].state = "none"
  BY DEF Sell, Inv, Fresh
<1> HIDE DEF new
<1>4. l \in Emails /\ \A e \in Emails : mail'[e] = IF e = l THEN new ELSE mail[e]
  BY <1>1, <1>3, LicenseEmails DEF TypeOK
<1>5. TablesTyped'
  <2>1. mail' \in [Emails -> Row]
    BY <1>1, <1>2, <1>3 DEF TypeOK
  <2> QED BY <1>1, <2>1 DEF TablesTyped, Sell
<1>6. Fresh'
  <2>1. \A k \in Licenses : keyState'[k] = "unsold" => k # l /\ keyState[k] = "unsold"
    BY <1>1 DEF Sell, TypeOK
  <2> QED BY <1>1, <1>4, <2>1, LicenseEmails DEF Inv, Fresh
<1> QED BY <1>1, <1>3, <1>4, <1>5, <1>6, ServiceStepKeepsInv

LEMMA RequestKeepsInv ==
  ASSUME Inv, NEW j \in Jobs, Request(j)
  PROVE  Inv'
<1>1. TypeOK /\ TablesTyped
      /\ UNCHANGED <<mail, copy, keyState, standing, dispatch, changes, calm, received>>
  BY TypeOKParts DEF Inv, Request
<1> DEFINE new == [state |-> "queued", wait |-> 0, life |-> RequestLifetime]
<1>2. new \in Row
  BY NewRow, Waits
<1>3. jobs' = [jobs EXCEPT ![j] = new] /\ jobs[j].state = "none"
  BY DEF Request
<1> HIDE DEF new
<1>4. \A i \in Jobs : jobs'[i] = IF i = j THEN new ELSE jobs[i]
  BY <1>1, <1>3 DEF TypeOK
<1>5. TablesTyped'
  <2>1. jobs' \in [Jobs -> Row]
    BY <1>1, <1>2, <1>3 DEF TypeOK
  <2> QED BY <1>1, <2>1 DEF TablesTyped
<1>6. Fresh'
  BY <1>1, <1>3, <1>4 DEF Inv, Fresh
<1> QED BY <1>1, <1>3, <1>4, <1>5, <1>6, ServiceStepKeepsInv

LEMMA ChangeKeepsInv ==
  ASSUME Inv, NEW l \in Licenses, Restrict(l) \/ Restore(l) \/ Rotate(l)
  PROVE  Inv'
<1>1. TypeOK /\ TablesTyped /\ UNCHANGED <<jobs, dispatch, calm, received>>
      /\ changes < MaxChanges /\ changes' = changes + 1
  BY TypeOKParts DEF Inv, Restrict, Restore, Rotate, Change
<1>2. changes' \in 0..MaxChanges
  BY <1>1, Numbers DEF TypeOK
<1>3. mail' = mail \/ (mail' = [mail EXCEPT ![l] = Gone(@)] /\ keyState[l] = "rotated")
  BY DEF Restrict, Restore, Rotate, Gone
<1>4. \A k \in Licenses : keyState'[k] = "unsold" => keyState[k] = "unsold"
  BY <1>1 DEF Restrict, Restore, Rotate, TypeOK
<1>5. l \in Emails /\ mail[l] \in Row
  BY <1>1, LicenseEmails DEF TypeOK
<1>6. \A e \in Emails :
        \/ mail'[e] = mail[e]
        \/ e = l /\ mail'[e] = Gone(mail[l]) /\ keyState[l] = "rotated"
  BY <1>1, <1>3, <1>5 DEF TypeOK
<1>7. mail' \in [Emails -> Row]
  <2>1. Gone(mail[l]) \in Row
    BY <1>5, GoneRow
  <2> QED BY <1>1, <1>3, <1>5, <2>1 DEF TypeOK
<1>8. standing' \in [Licenses -> {"unsold", "active", "restricted"}]
      /\ keyState' \in [Licenses -> {"unsold", "current", "rotated", "deleted"}]
      /\ copy' \in [Licenses -> BOOLEAN]
  <2>1. CASE Restrict(l) \/ Restore(l)
    BY <1>1, <2>1 DEF Restrict, Restore, TypeOK
  <2>2. CASE Rotate(l)
    <3>1. /\ standing' = standing
          /\ \E k \in {"rotated", "deleted"} : keyState' = [keyState EXCEPT ![l] = k]
          /\ copy' = copy \/ copy' = [copy EXCEPT ![l] = FALSE]
      BY <2>2 DEF Rotate
    <3> QED BY <1>1, <3>1 DEF TypeOK
  <2> QED BY <2>1, <2>2
<1>9. TablesTyped'
  BY <1>1, <1>2, <1>7, <1>8 DEF TablesTyped
<1>10. Fresh'
  <2>1. \A k \in Licenses : keyState[k] = "unsold" => mail'[k] = mail[k]
    BY <1>6, LicenseEmails
  <2>2. \A i \in Jobs, k \in Licenses : mail'[<<i, k>>] = mail[<<i, k>>]
    BY <1>6, LicenseEmails
  <2> QED BY <1>1, <1>4, <2>1, <2>2 DEF Inv, Fresh
<1>11. \A e \in Emails : mail'[e] = mail[e] \/ mail'[e].state = "gone"
  BY <1>5, <1>6, GoneRow
<1> QED BY <1>1, <1>9, <1>10, <1>11, ServiceStepKeepsInv

LEMMA CleanupKeepsInv ==
  ASSUME Inv, Cleanup
  PROVE  Inv'
<1>1. TypeOK /\ TablesTyped /\ UNCHANGED <<keyState, standing, dispatch, changes, calm, received>>
  BY TypeOKParts DEF Inv, Cleanup, CleanupJobs, CleanupMail, CleanupCopies
<1>2. CASE CleanupJobs
  <2>1. /\ \A j \in Jobs :
           \/ jobs'[j] = jobs[j]
           \/ jobs'[j] = Gone(jobs[j]) /\ ~Preparing(j) /\ jobs[j].state = "queued"
        /\ DOMAIN jobs' = Jobs /\ jobs' = [j \in Jobs |-> jobs'[j]]
        /\ UNCHANGED <<mail, copy>>
    BY <1>2 DEF CleanupJobs, Expired
  <2>2. \A j \in Jobs : Gone(jobs[j]) \in Row /\ Gone(jobs[j]).state = "gone" /\ jobs[j] \in Row
    BY <1>1, GoneRow DEF TypeOK
  <2>3. TablesTyped'
    BY <1>1, <2>1, <2>2 DEF TablesTyped
  <2>4. Fresh'
    BY <1>1, <2>1, <2>2 DEF Inv, Fresh
  <2> QED BY <1>1, <2>1, <2>2, <2>3, <2>4, ServiceStepKeepsInv
<1>3. ASSUME NEW S, CleanupMail(S) PROVE Inv'
  <2>1. /\ \A e \in Emails :
           \/ mail'[e] = mail[e]
           \/ mail'[e] = Gone(mail[e]) /\ mail[e].state = "queued"
        /\ mail' = [e \in Emails |-> mail'[e]]
        /\ UNCHANGED <<jobs, copy>>
    BY <1>3 DEF CleanupMail, Expired
  <2>2. \A e \in Emails : Gone(mail[e]) \in Row /\ Gone(mail[e]).state = "gone" /\ mail[e] \in Row
    BY <1>1, GoneRow DEF TypeOK
  <2>3. TablesTyped'
    BY <1>1, <2>1, <2>2 DEF TablesTyped
  <2>4. Fresh'
    BY <1>1, <2>1, LicenseEmails DEF Inv, Fresh
  <2> QED BY <1>1, <2>1, <2>2, <2>3, <2>4, ServiceStepKeepsInv
<1>4. CASE CleanupCopies
  <2>1. UNCHANGED <<jobs, mail>> /\ copy' \in [Licenses -> BOOLEAN]
    BY <1>1, <1>4 DEF CleanupCopies, TypeOK, ExpiredCopy
  <2>2. TablesTyped' /\ Fresh'
    BY <1>1, <2>1 DEF TablesTyped, Inv, Fresh
  <2> QED BY <1>1, <2>1, <2>2, ServiceStepKeepsInv
<1> QED BY <1>2, <1>3, <1>4 DEF Cleanup

LEMMA CalmDownKeepsInv ==
  ASSUME Inv, CalmDown
  PROVE  Inv'
<1>1. UNCHANGED <<jobs, mail, copy, keyState, standing, changes, dispatch, received>> /\ calm' = TRUE
  BY DEF CalmDown, tables
<1>2. TablesTyped' /\ Fresh'
  BY <1>1, TypeOKParts DEF Inv, TablesTyped, Fresh
<1> QED BY <1>1, <1>2, ServiceStepKeepsInv

-----------------------------------------------------------------------------
(* Steps of one dispatcher *)

\* What d alone does to where it is.
Aside(d) ==
  \A q \in Dispatchers \ {d} : pc'[q] = pc[q] /\ item'[q] = item[q] /\ age'[q] = age[q]

LEMMA StopMoves ==
  ASSUME TypeOK, NEW d \in Dispatchers, Stop(d), received' = received
  PROVE  DispatchTyped' /\ Aside(d) /\ Pass(d)' /\ item'[d] = Nothing
<1>1. pc'[d] = "idle" /\ item'[d] = Nothing /\ Aside(d)
  BY DEF Stop, Aside, TypeOK
<1>2. Pass(d)'
  BY <1>1 DEF Pass
<1>3. DispatchTyped'
  BY Numbers DEF Stop, TypeOK, DispatchTyped
<1> QED BY <1>1, <1>2, <1>3

LEMMA HoldMoves ==
  ASSUME TypeOK, NEW d \in Dispatchers, NEW x \in Jobs \cup Emails \cup {Nothing},
         NEW stage \in {"idle", "prepare", "preparing", "claim", "claimed", "accepted"},
         Hold(d, stage, x), received' \subseteq Emails
  PROVE  DispatchTyped' /\ Aside(d) /\ pc'[d] = stage /\ item'[d] = x /\ age'[d] = age[d]
<1>1. pc'[d] = stage /\ item'[d] = x /\ Aside(d) /\ age'[d] = age[d]
  BY DEF Hold, Aside, TypeOK
<1>2. DispatchTyped'
  BY DEF Hold, TypeOK, DispatchTyped
<1> QED BY <1>1, <1>2

\* The tables stay as they are.
LEMMA MoveKeepsInv ==
  ASSUME Inv, NEW d \in Dispatchers, UNCHANGED <<tables, changes, calm>>,
         DispatchTyped', Aside(d), Pass(d)', item'[d] \in {item[d], Nothing},
         received \subseteq received'
  PROVE  Inv'
<1>1. UNCHANGED <<jobs, mail, copy, keyState, standing, changes, calm>>
  BY DEF tables
<1>2. TypeOK' /\ Fresh'
  BY <1>1, TypeOKParts DEF Inv, TablesTyped, Fresh
<1> DEFINE one == {d}
<1>3. one \in SUBSET Dispatchers /\ (\A q, r \in one : q = r) /\ \A q \in one : q = d
  OBVIOUS
<1>4. \A q \in Dispatchers \ one : pc'[q] = pc[q] /\ item'[q] = item[q] /\ age'[q] = age[q]
  BY DEF Aside
<1>5. (\A q \in one : Pass(q)') /\ \A q \in one : item'[q] \in {item[q], Nothing}
  BY <1>3
<1> HIDE DEF one
<1> QED BY <1>1, <1>2, <1>3, <1>4, <1>5, StepKeepsPasses

\* A table changes too, in a row that nobody else holds, or that is gone then.
LEMMA WriteKeepsInv ==
  ASSUME Inv, NEW d \in Dispatchers, TablesTyped', Fresh',
         DispatchTyped', Aside(d), Pass(d)', received \subseteq received',
         item'[d] \in {item[d], Nothing}
           \/ \A q \in Dispatchers \ {d} : item[q] # item'[d],
         \A e \in Emails :
           \/ mail'[e] = mail[e] \/ mail[e].state = "none" \/ mail'[e].state = "gone"
           \/ \A q \in Dispatchers \ {d} : item[q] # e,
         \A j \in Jobs :
           \/ jobs'[j] = jobs[j] \/ jobs[j].state = "none"
           \/ \A q \in Dispatchers \ {d} : item[q] # j
  PROVE  Inv'
<1>1. TypeOK'
  BY TypeOKParts
<1> DEFINE one == {d}
<1>2. one \in SUBSET Dispatchers /\ (\A q, r \in one : q = r) /\ \A q \in one : q = d
  OBVIOUS
<1>3. \A q \in Dispatchers \ one : pc'[q] = pc[q] /\ item'[q] = item[q] /\ age'[q] = age[q]
  BY DEF Aside
<1>4. \A q \in one : Pass(q)'
  BY <1>2
<1>5. \A q \in one : item'[q] \in {item[q], Nothing}
                     \/ \A p \in Dispatchers \ one : item[p] # item'[q]
  OBVIOUS
<1>6. \A e \in Emails :
           \/ mail'[e] = mail[e] \/ mail[e].state = "none" \/ mail'[e].state = "gone"
           \/ \A q \in Dispatchers \ one : item[q] # e
  OBVIOUS
<1>7. \A j \in Jobs :
           \/ jobs'[j] = jobs[j] \/ jobs[j].state = "none"
           \/ \A q \in Dispatchers \ one : item[q] # j
  OBVIOUS
<1> HIDE DEF one
<1> QED BY <1>1, <1>2, <1>3, <1>4, <1>5, <1>6, <1>7, StepKeepsPasses

LEMMA ClaimMailKeepsInv ==
  ASSUME Inv, NEW d \in Dispatchers, ClaimMail(d)
  PROVE  Inv'
<1>1. TypeOK /\ TablesTyped /\ age[d] \in 0..PassLimit
      /\ UNCHANGED <<jobs, copy, keyState, standing, changes, calm, received>>
  BY TypeOKParts DEF Inv, ClaimMail, TypeOK
<1>2. PICK e \in Emails : /\ Due(mail[e], age[d]) /\ Hold(d, "claimed", e)
                          /\ mail' = [mail EXCEPT ![e] = Defer(mail[e], age[d])]
  BY <1>1, LicenseEmails DEF ClaimMail, Oldest, ClaimableMail, TypeOK, Emails
<1> DEFINE new == Defer(mail[e], age[d])
<1>3. new \in Row /\ new.state = "queued" /\ new.wait = RetryDelay - age[d]
  BY <1>1, <1>2, DeferredRow DEF TypeOK, Due
<1>4. mail' = [mail EXCEPT ![e] = new]
  BY <1>2
<1> HIDE DEF new
<1>5. mail' \in [Emails -> Row] /\ \A x \in Emails : mail'[x] = IF x = e THEN new ELSE mail[x]
  BY <1>1, <1>3, <1>4 DEF TypeOK
<1>6. TablesTyped'
  BY <1>1, <1>5 DEF TablesTyped
<1>7. Fresh'
  <2>1. mail[e].state = "queued"
    BY <1>2 DEF Due
  <2> QED BY <1>1, <1>5, <2>1, LicenseEmails DEF Inv, Fresh
<1>8. received' \subseteq Emails
  BY <1>1 DEF TypeOK
<1>9. DispatchTyped' /\ Aside(d) /\ pc'[d] = "claimed" /\ item'[d] = e /\ age'[d] = age[d]
  BY <1>1, <1>2, <1>8, HoldMoves
<1>10. Pass(d)'
  <2>1. RetryDelay - age[d] >= RetryDelay - age[d]
    BY <1>1, Numbers
  <2>2. Claimed(mail'[e], age[d])
    BY <1>3, <1>5, <2>1 DEF Claimed
  <2> QED BY <1>9, <2>2 DEF Pass, Claimed
<1>11. \A q \in Dispatchers : item[q] # e
  BY <1>1, <1>2, DueIsFree
<1> QED BY <1>1, <1>5, <1>6, <1>7, <1>9, <1>10, <1>11, WriteKeepsInv

LEMMA BeginKeepsInv ==
  ASSUME Inv, NEW d \in Dispatchers, Begin(d)
  PROVE  Inv'
<1>1. ASSUME NEW j \in Oldest(jobs, ClaimableJobs(0)),
             jobs' = [jobs EXCEPT ![j] = Defer(@, 0)], Hold(d, "prepare", j),
             UNCHANGED <<mail, copy, keyState, standing, changes, calm, received>>
      PROVE  Inv'
  <2>1. TypeOK /\ TablesTyped /\ 0 \in 0..PassLimit /\ age[d] \in 0..PassLimit
    BY TypeOKParts, Numbers DEF Inv, TypeOK
  <2>2. j \in Jobs /\ Due(jobs[j], 0)
    BY <1>1 DEF Oldest, ClaimableJobs
  <2> DEFINE new == Defer(jobs[j], 0)
  <2>3. new \in Row /\ new.state = "queued" /\ new.wait = RetryDelay - 0
    BY <2>1, <2>2, DeferredRow DEF TypeOK, Due
  <2>4. jobs' = [jobs EXCEPT ![j] = new]
    BY <1>1
  <2> HIDE DEF new
  <2>5. jobs' \in [Jobs -> Row] /\ \A x \in Jobs : jobs'[x] = IF x = j THEN new ELSE jobs[x]
    BY <2>1, <2>2, <2>3, <2>4 DEF TypeOK
  <2>6. TablesTyped'
    BY <1>1, <2>1, <2>5 DEF TablesTyped
  <2>7. Fresh'
    <3>1. jobs[j].state = "queued"
      BY <2>2 DEF Due
    <3> QED BY <1>1, <2>3, <2>5, <3>1 DEF Inv, Fresh
  <2>8. received' \subseteq Emails
    BY <1>1, <2>1 DEF TypeOK
  <2>9. DispatchTyped' /\ Aside(d) /\ pc'[d] = "prepare" /\ item'[d] = j /\ age'[d] = age[d]
    BY <1>1, <2>1, <2>2, <2>8, HoldMoves
  <2>10. Pass(d)'
    <3>1. RetryDelay - 0 >= RetryDelay - age[d]
      BY <2>1, Numbers
    <3>2. Claimed(jobs'[j], age[d])
      BY <2>2, <2>3, <2>5, <3>1 DEF Claimed
    <3> QED BY <2>2, <2>9, <3>2 DEF Pass, Claimed
  <2>11. \A q \in Dispatchers : item[q] # j
    BY <2>1, <2>2, DueIsFree
  <2> QED BY <1>1, <2>5, <2>6, <2>7, <2>9, <2>10, <2>11, WriteKeepsInv
<1> QED BY <1>1, ClaimMailKeepsInv DEF Begin

LEMMA StopKeepsInv ==
  ASSUME Inv, NEW d \in Dispatchers, Stop(d), UNCHANGED <<tables, changes, calm, received>>
  PROVE  Inv'
<1>1. TypeOK
  BY DEF Inv
<1> QED BY <1>1, StopMoves, MoveKeepsInv

LEMMA ContinueKeepsInv ==
  ASSUME Inv, NEW d \in Dispatchers, Continue(d)
  PROVE  Inv'
BY ClaimMailKeepsInv, StopKeepsInv DEF Continue

\* A pass that goes on to look for an email.
LEMMA ForgetMoves ==
  ASSUME TypeOK, NEW d \in Dispatchers, pc' = [pc EXCEPT ![d] = "claim"],
         item' = [item EXCEPT ![d] = Nothing], age' = age,
         found' \in [Dispatchers -> SUBSET Licenses], received' = received
  PROVE  DispatchTyped' /\ Aside(d) /\ Pass(d)' /\ item'[d] = Nothing
<1>1. pc'[d] = "claim" /\ item'[d] = Nothing /\ Aside(d)
  BY DEF Aside, TypeOK
<1>2. Pass(d)'
  BY <1>1 DEF Pass
<1>3. DispatchTyped'
  BY DEF TypeOK, DispatchTyped
<1> QED BY <1>1, <1>2, <1>3

LEMMA LockJobKeepsInv ==
  ASSUME Inv, NEW d \in Dispatchers, LockJob(d)
  PROVE  Inv'
<1>1. TypeOK /\ Pass(d) /\ pc[d] = "prepare" /\ UNCHANGED <<tables, changes, calm, received>>
  BY DEF Inv, LockJob
<1>2. CASE Hold(d, "claim", Nothing)
  <2>1. /\ pc' = [pc EXCEPT ![d] = "claim"] /\ item' = [item EXCEPT ![d] = Nothing]
        /\ age' = age /\ found' \in [Dispatchers -> SUBSET Licenses]
    BY <1>1, <1>2 DEF Hold, TypeOK
  <2> QED BY <1>1, <2>1, ForgetMoves, MoveKeepsInv
<1>3. CASE /\ jobs[item[d]].state = "queued"
           /\ pc' = [pc EXCEPT ![d] = "preparing"]
           /\ found' = [found EXCEPT ![d] = {l \in Licenses : Stands(l)}]
           /\ UNCHANGED <<age, item>>
  <2>1. pc'[d] = "preparing" /\ item'[d] = item[d] /\ age'[d] = age[d] /\ Aside(d)
    BY <1>1, <1>3 DEF TypeOK, Aside
  <2>2. DispatchTyped'
    BY <1>1, <1>3 DEF TypeOK, DispatchTyped
  <2>3. jobs' = jobs /\ item[d] \in Jobs /\ Claimed(jobs[item[d]], age[d])
    BY <1>1 DEF Pass, tables
  <2>4. Pass(d)'
    BY <1>3, <2>1, <2>3 DEF Pass, Claimed
  <2> QED BY <1>1, <2>1, <2>2, <2>4, MoveKeepsInv
<1> QED BY <1>2, <1>3 DEF LockJob

LEMMA CommitPreparationKeepsInv ==
  ASSUME Inv, NEW d \in Dispatchers, CommitPreparation(d)
  PROVE  Inv'
<1> DEFINE j == item[d]
<1> DEFINE new == [state |-> "queued", wait |-> -age[d], life |-> TokenLifetime - age[d]]
<1> DEFINE over == [Gone(jobs[j]) EXCEPT !.life = 0]
<1>1. TypeOK /\ TablesTyped /\ Pass(d) /\ pc[d] = "preparing" /\ age[d] \in 0..PassLimit
      /\ found[d] \subseteq Licenses
      /\ UNCHANGED <<copy, keyState, standing, age, changes, calm, received>>
  BY TypeOKParts DEF Inv, CommitPreparation, TypeOK
<1>2. j \in Jobs /\ jobs[j].state = "queued" /\ jobs[j] \in Row
  BY <1>1 DEF Pass, TypeOK
<1>3. new \in Row /\ new.state = "queued"
  BY <1>1, NewRow, Waits
<1>4. over \in Row /\ over.state = "gone"
  <2>1. Gone(jobs[j]) \in Row /\ Gone(jobs[j]).state = "gone"
    BY <1>2, GoneRow
  <2> QED BY <2>1, Waits DEF Row
<1>5. /\ mail' = [e \in Emails |-> IF e \in {j} \X found[d] THEN new ELSE mail[e]]
      /\ jobs' = [jobs EXCEPT ![j] = over]
  BY DEF CommitPreparation
<1>6. /\ pc' = [pc EXCEPT ![d] = "claim"] /\ item' = [item EXCEPT ![d] = Nothing]
      /\ found' \in [Dispatchers -> SUBSET Licenses]
  BY <1>1 DEF CommitPreparation, TypeOK
<1>7. \A q \in Dispatchers \ {d} : item[q] # j
  BY <1>2, Numbers DEF Inv, ClaimsExclusive
<1> HIDE DEF j, new, over
<1>8. \A i \in Jobs : jobs'[i] = IF i = j THEN over ELSE jobs[i]
  BY <1>1, <1>2, <1>5 DEF TypeOK
<1>9. \A e \in Emails : mail'[e] = mail[e]
                        \/ (e \in {j} \X found[d] /\ mail[e].state = "none" /\ mail'[e] = new)
  BY <1>1, <1>2, <1>5 DEF Inv, Fresh
<1>10. TablesTyped'
  <2>1. jobs' \in [Jobs -> Row] /\ mail' \in [Emails -> Row]
    BY <1>1, <1>3, <1>4, <1>5 DEF TypeOK
  <2> QED BY <1>1, <2>1 DEF TablesTyped
<1>11. Fresh'
  <2>1. ASSUME NEW i \in Jobs, NEW l \in Licenses, jobs'[i].state # "gone"
        PROVE  mail'[<<i, l>>].state = "none"
    <3>1. i # j /\ jobs[i].state # "gone"
      BY <1>4, <1>8, <2>1
    <3>2. mail'[<<i, l>>] = mail[<<i, l>>]
      BY <1>5, <3>1, LicenseEmails
    <3> QED BY <3>1, <3>2 DEF Inv, Fresh
  <2>2. \A l \in Licenses : l \notin {j} \X found[d]
    BY <1>1, <1>2, LicenseEmails
  <2>3. \A l \in Licenses : mail'[l] = mail[l]
    BY <1>5, <2>2, LicenseEmails
  <2> QED BY <1>1, <2>1, <2>3 DEF Inv, Fresh
<1>12. DispatchTyped' /\ Aside(d) /\ Pass(d)' /\ item'[d] = Nothing
  BY <1>1, <1>6, ForgetMoves
<1> QED BY <1>1, <1>7, <1>8, <1>9, <1>10, <1>11, <1>12, WriteKeepsInv

LEMMA FailPreparationKeepsInv ==
  ASSUME Inv, NEW d \in Dispatchers, FailPreparation(d)
  PROVE  Inv'
<1>1. TypeOK /\ UNCHANGED <<tables, age, changes, calm, received>>
      /\ pc' = [pc EXCEPT ![d] = "claim"] /\ item' = [item EXCEPT ![d] = Nothing]
      /\ found' \in [Dispatchers -> SUBSET Licenses]
  BY DEF Inv, FailPreparation, TypeOK
<1> QED BY <1>1, ForgetMoves, MoveKeepsInv

LEMMA SendKeepsInv ==
  ASSUME Inv, NEW d \in Dispatchers, Send(d)
  PROVE  Inv'
<1>1. TypeOK /\ Pass(d) /\ pc[d] = "claimed" /\ UNCHANGED <<tables, changes, calm>>
      /\ received' = received \cup {item[d]} /\ Hold(d, "accepted", item[d])
  BY DEF Inv, Send
<1>2. item[d] \in Emails /\ Claimed(mail[item[d]], age[d]) /\ mail' = mail
  BY <1>1 DEF Pass, tables
<1>3. received' \subseteq Emails /\ item[d] \in received'
  BY <1>1, <1>2 DEF TypeOK
<1>4. DispatchTyped' /\ Aside(d) /\ pc'[d] = "accepted" /\ item'[d] = item[d] /\ age'[d] = age[d]
  BY <1>1, <1>2, <1>3, HoldMoves
<1>5. Pass(d)'
  BY <1>2, <1>3, <1>4 DEF Pass, Claimed
<1> QED BY <1>1, <1>4, <1>5, MoveKeepsInv

LEMMA AcknowledgeKeepsInv ==
  ASSUME Inv, NEW d \in Dispatchers, Acknowledge(d)
  PROVE  Inv'
<1>1. TypeOK /\ TablesTyped /\ Pass(d) /\ pc[d] = "accepted" /\ Stop(d)
      /\ UNCHANGED <<jobs, keyState, standing, changes, calm, received>>
  BY TypeOKParts DEF Inv, Acknowledge
<1>2. item[d] \in Emails /\ mail[item[d]] \in Row
  BY <1>1 DEF Pass, TypeOK
<1> DEFINE over == Gone(mail[item[d]])
<1>3. over \in Row /\ over.state = "gone"
  BY <1>2, GoneRow
<1>4. \/ mail' = mail /\ copy' = copy
      \/ /\ mail' = [mail EXCEPT ![item[d]] = over] /\ mail[item[d]].state = "queued"
         /\ copy' \in [Licenses -> BOOLEAN]
  BY <1>1 DEF Acknowledge, TypeOK
<1> HIDE DEF over
<1>5. \A e \in Emails : mail'[e] = mail[e] \/ (mail'[e].state = "gone" /\ mail[e].state = "queued")
  BY <1>1, <1>2, <1>3, <1>4 DEF TypeOK
<1>6. TablesTyped'
  <2>1. mail' \in [Emails -> Row] /\ copy' \in [Licenses -> BOOLEAN]
    BY <1>1, <1>3, <1>4 DEF TypeOK
  <2> QED BY <1>1, <2>1 DEF TablesTyped
<1>7. Fresh'
  BY <1>1, <1>5, LicenseEmails DEF Inv, Fresh
<1>8. DispatchTyped' /\ Aside(d) /\ Pass(d)' /\ item'[d] = Nothing
  BY <1>1, StopMoves
<1> QED BY <1>1, <1>5, <1>6, <1>7, <1>8, WriteKeepsInv

\* Time passes for the row as for whoever holds it.
LEMMA TickKeepsInv ==
  ASSUME Inv, Tick
  PROVE  Inv'
<1>1. TypeOK /\ TablesTyped
      /\ UNCHANGED <<copy, keyState, standing, pc, item, found, changes, calm, received>>
  BY TypeOKParts DEF Inv, Tick
<1>2. /\ \A j \in Jobs : jobs'[j] = Older(jobs[j]) /\ jobs[j] \in Row
      /\ \A e \in Emails : mail'[e] = Older(mail[e]) /\ mail[e] \in Row
      /\ jobs' = [j \in Jobs |-> jobs'[j]] /\ mail' = [e \in Emails |-> mail'[e]]
  BY <1>1 DEF Tick, TypeOK
<1>3. jobs' \in [Jobs -> Row] /\ mail' \in [Emails -> Row]
  BY <1>2, OlderRow
<1>4. \A d \in Dispatchers : /\ pc[d] # "idle" => age'[d] = age[d] + 1 /\ age[d] < PassLimit
                             /\ age[d] \in Nat
                             /\ age'[d] \in 0..PassLimit
  <2>1. \A d \in Dispatchers : age[d] \in Nat /\ age[d] \in 0..PassLimit
    BY <1>1, Numbers DEF TypeOK
  <2> QED BY <2>1, Numbers DEF Tick
<1>5. TypeOK'
  <2>1. age' \in [Dispatchers -> 0..PassLimit]
    BY <1>4 DEF Tick
  <2>2. TablesTyped'
    BY <1>1, <1>3 DEF TablesTyped
  <2>3. DispatchTyped'
    BY <1>1, <2>1 DEF TypeOK, DispatchTyped
  <2> QED BY <2>2, <2>3, TypeOKParts
<1>6. Fresh'
  <2>1. \A j \in Jobs : jobs'[j].state = jobs[j].state
    BY <1>2, OlderRow
  <2>2. \A e \in Emails : mail'[e].state = mail[e].state
    BY <1>2, OlderRow
  <2> QED BY <1>1, <2>1, <2>2, LicenseEmails DEF Inv, Fresh
<1>7. ASSUME NEW d \in Dispatchers PROVE Pass(d)'
  <2>1. ASSUME NEW row \in Row, Claimed(row, age[d]), pc[d] # "idle"
        PROVE  Claimed(Older(row), age'[d])
    <3>1. Older(row).state = row.state
          /\ (row.state = "queued" => Older(row).wait >= row.wait - 1)
          /\ Older(row) \in Row
      BY OlderRow
    <3>2. row.wait \in Int /\ Older(row).wait \in Int
      BY <3>1, RowFields
    <3> QED BY <1>4, <2>1, <3>1, <3>2, Numbers DEF Claimed
  <2>2. Pass(d)
    BY DEF Inv
  <2>3. pc[d] \in {"prepare", "preparing"} => item[d] \in Jobs /\ Claimed(jobs'[item[d]], age'[d])
    BY <1>2, <2>1, <2>2 DEF Pass
  <2>4. pc[d] \in {"claimed", "accepted"} => item[d] \in Emails /\ Claimed(mail'[item[d]], age'[d])
    BY <1>2, <2>1, <2>2 DEF Pass
  <2>5. pc[d] = "preparing" => jobs'[item[d]].state = "queued"
    BY <1>2, <2>2, OlderRow DEF Pass
  <2>6. (pc[d] \in {"idle", "claim"} => item[d] = Nothing)
        /\ (pc[d] = "accepted" => item[d] \in received)
    BY <2>2 DEF Pass
  <2> QED BY <1>1, <2>3, <2>4, <2>5, <2>6 DEF Pass, Claimed
<1>8. ClaimsExclusive'
  BY <1>1 DEF Inv, ClaimsExclusive
<1> QED BY <1>5, <1>6, <1>7, <1>8 DEF Inv

-----------------------------------------------------------------------------
LEMMA StepKeepsInv == Inv /\ [Next]_vars => Inv'
<1> SUFFICES ASSUME Inv, [Next]_vars PROVE Inv'
  OBVIOUS
<1>1. ASSUME NEW l \in Licenses, Sell(l) PROVE Inv'
  BY <1>1, SellKeepsInv
<1>2. ASSUME NEW l \in Licenses, Restrict(l) \/ Restore(l) \/ Rotate(l) PROVE Inv'
  BY <1>2, ChangeKeepsInv
<1>3. ASSUME NEW j \in Jobs, Request(j) PROVE Inv'
  BY <1>3, RequestKeepsInv
<1>4. ASSUME NEW d \in Dispatchers, DispatcherStep(d) PROVE Inv'
  <2>1. CASE Begin(d) \/ Continue(d)
    BY <2>1, BeginKeepsInv, ContinueKeepsInv
  <2>2. CASE LockJob(d) \/ CommitPreparation(d) \/ FailPreparation(d)
    BY <2>2, LockJobKeepsInv, CommitPreparationKeepsInv, FailPreparationKeepsInv
  <2>3. CASE Send(d) \/ Acknowledge(d)
    BY <2>3, SendKeepsInv, AcknowledgeKeepsInv
  <2>4. CASE Reject(d)
    BY <2>4, StopKeepsInv DEF Reject
  <2> QED BY <1>4, <2>1, <2>2, <2>3, <2>4 DEF DispatcherStep
<1>5. ASSUME NEW d \in Dispatchers, Crash(d) PROVE Inv'
  BY <1>5, StopKeepsInv DEF Crash
<1>6. CASE UNCHANGED vars
  <2>1. UNCHANGED <<jobs, mail, copy, keyState, standing, pc, age, item, found, changes,
                    calm, received>>
    BY <1>6 DEF vars
  <2>2. TablesTyped' /\ Fresh'
    BY <2>1, TypeOKParts DEF Inv, TablesTyped, Fresh
  <2> QED BY <2>1, <2>2, ServiceStepKeepsInv DEF dispatch
<1> QED BY <1>1, <1>2, <1>3, <1>4, <1>5, <1>6, CleanupKeepsInv, CalmDownKeepsInv,
           TickKeepsInv DEF Next

\* The invariant holds of every behavior of the specification.
THEOREM InvHolds == Spec => []Inv
BY InitInv, StepKeepsInv, PTL DEF Spec

\* Type correctness of the outboxes and the dispatchers (TypeOK).
THEOREM DeliveryTypesHold == Spec => []TypeOK
<1>1. Inv => TypeOK
  BY DEF Inv
<1> QED BY <1>1, InvHolds, PTL

\* No two dispatchers hold the same row (ClaimsExclusive), although a claim is only
\* a time written into the row, cleanup and rotations delete rows that are claimed,
\* and dispatchers stop anywhere.
THEOREM ClaimsExclusiveHolds == Spec => []ClaimsExclusive
<1>1. Inv => ClaimsExclusive
  BY DEF Inv
<1> QED BY <1>1, InvHolds, PTL

\* An email leaves its outbox only when SES has it, when it has expired, or with the
\* key it carries (NothingIsLost).
THEOREM NothingIsLostAlways == Spec => NothingIsLost
<1> DEFINE Kept == \A e \in Emails :
       (mail[e].state = "queued" /\ mail'[e].state = "gone") =>
         \/ e \in received
         \/ mail[e].life = 0
         \/ e \in Licenses /\ keyState'[e] = "deleted"
<1>1. ASSUME Inv, Next, NEW e \in Emails, mail[e].state = "queued", mail'[e].state = "gone"
      PROVE  \/ e \in received
             \/ mail[e].life = 0
             \/ e \in Licenses /\ keyState'[e] = "deleted"
  <2>1. TypeOK /\ mail' # mail
    BY <1>1 DEF Inv
  <2>2. ASSUME NEW l \in Licenses, Sell(l) PROVE FALSE
    <3>1. mail'[e] = mail[e] \/ mail'[e] = [state |-> "queued", wait |-> 0, life |-> KeyLifetime]
      BY <2>1, <2>2, LicenseEmails DEF Sell, TypeOK
    <3> QED BY <1>1, <3>1
  <2>3. ASSUME NEW l \in Licenses, Restrict(l) \/ Restore(l) PROVE FALSE
    BY <2>1, <2>3 DEF Restrict, Restore
  <2>4. ASSUME NEW l \in Licenses, Rotate(l) PROVE e \in Licenses /\ keyState'[e] = "deleted"
    <3>1. mail' = [mail EXCEPT ![l] = Gone(@)] /\ keyState' = [keyState EXCEPT ![l] = "deleted"]
      BY <2>1, <2>4 DEF Rotate
    <3>2. e = l
      BY <1>1, <2>1, <3>1 DEF TypeOK
    <3> QED BY <2>1, <3>1, <3>2 DEF TypeOK
  <2>5. ASSUME NEW j \in Jobs, Request(j) PROVE FALSE
    BY <2>1, <2>5 DEF Request
  <2>6. ASSUME NEW d \in Dispatchers, ClaimMail(d) PROVE FALSE
    <3>1. PICK x \in Oldest(mail, ClaimableMail(d, age[d])) :
            mail' = [mail EXCEPT ![x] = Defer(mail[x], age[d])]
      BY <2>6 DEF ClaimMail
    <3>2. mail[e] \in Row /\ age[d] \in 0..PassLimit
      BY <2>1 DEF TypeOK
    <3>3. mail'[e] \in {mail[e], Defer(mail[e], age[d])}
      BY <2>1, <3>1 DEF TypeOK
    <3> QED BY <1>1, <3>2, <3>3, DeferredRow
  <2>7. ASSUME NEW d \in Dispatchers, CommitPreparation(d) PROVE FALSE
    <3>1. mail'[e] = mail[e] \/ mail'[e] = [state |-> "queued", wait |-> -age[d],
                                            life |-> TokenLifetime - age[d]]
      BY <2>7 DEF CommitPreparation
    <3> QED BY <1>1, <3>1
  <2>8. ASSUME NEW d \in Dispatchers, Acknowledge(d) PROVE e \in received
    <3>1. mail' = [mail EXCEPT ![item[d]] = Gone(@)] /\ pc[d] = "accepted"
      BY <2>1, <2>8 DEF Acknowledge
    <3>2. e = item[d]
      BY <1>1, <2>1, <3>1 DEF TypeOK
    <3> QED BY <1>1, <3>1, <3>2 DEF Inv, Pass
  <2>9. CASE Cleanup
    <3>1. PICK S : CleanupMail(S)
      BY <2>1, <2>9 DEF Cleanup, CleanupJobs, CleanupCopies
    <3>2. Expired(mail[e])
      BY <1>1, <3>1 DEF CleanupMail
    <3> QED BY <3>2 DEF Expired
  <2>10. CASE Tick
    <3>1. mail'[e] = Older(mail[e]) /\ mail[e] \in Row
      BY <2>1, <2>10 DEF Tick, TypeOK
    <3> QED BY <1>1, <3>1, OlderRow
  <2>11. ASSUME NEW d \in Dispatchers,
                \/ Stop(d) /\ UNCHANGED tables
                \/ LockJob(d) \/ FailPreparation(d) \/ Send(d) \/ Reject(d) \/ Crash(d)
         PROVE  FALSE
    BY <2>1, <2>11 DEF LockJob, FailPreparation, Send, Reject, Crash, tables
  <2>12. CASE CalmDown
    BY <2>1, <2>12 DEF CalmDown, tables
  <2>13. ASSUME NEW d \in Dispatchers, Begin(d) \/ Continue(d) PROVE FALSE
    <3>1. ClaimMail(d) \/ mail' = mail \/ (Stop(d) /\ UNCHANGED tables)
      BY <2>13 DEF Begin, Continue
    <3> QED BY <2>1, <2>6, <2>11, <3>1
  <2>14. ASSUME NEW d \in Dispatchers, DispatcherStep(d) PROVE e \in received
    BY <2>7, <2>8, <2>11, <2>13, <2>14 DEF DispatcherStep
  <2> QED BY <1>1, <2>2, <2>3, <2>4, <2>5, <2>9, <2>10, <2>11, <2>12, <2>14 DEF Next
<1>2. Inv /\ [Next]_vars => [Kept]_vars
  BY <1>1
<1> QED BY <1>2, InvHolds, PTL DEF Spec, NothingIsLost
=============================================================================
