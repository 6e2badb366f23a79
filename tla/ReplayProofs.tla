---------------------------- MODULE ReplayProofs ----------------------------
(***************************************************************************)
(* Proofs about the replay of activations, for every number of Macs,       *)
(* requests, keys and days.  The advisory lock lets one transaction at a   *)
(* time work under a license key, and each starts by finding no unexpired  *)
(* response: so the response it stores is the only one, and it stands for  *)
(* its entitlement until the lifetime has passed.                          *)
(***************************************************************************)
EXTENDS ActivationsProofs

\* What holds of one request: the replay store has no response for it while its
\* transaction is open, it plans for the Mac it named, and it has neither an
\* answer nor an entitlement before it is done.
Unreplayed(r) ==
  InTransaction(r) /\ call[r].op = "activate" => Replay(call[r]) = {}
AskedBefore(r) ==
  call[r].op = "activate" => call[r].day \in Nat /\ call[r].day <= today
PlansForItself(r) ==
  Signing(r) => plan[r].inst = call[r].inst
Unanswered(r) ==
  pc[r] # "done" => answer[r] = Pending /\ \A e \in issued : e.by # r
Backed(r) ==
  answer[r].status = "ok" /\ call[r].op \in {"activate", "refresh"} =>
    \E e \in issued : /\ e.inst = call[r].inst
                      /\ e.revision = answer[r].revision
                      /\ answer[r].token \in {NoOne, e.by}
Orderly(r) ==
  Unreplayed(r) /\ AskedBefore(r) /\ PlansForItself(r) /\ Unanswered(r) /\ Backed(r)

\* One open transaction per credential.
CredentialsExclusive ==
  \A q, r \in Requests :
    /\ InTransaction(q) /\ InTransaction(r)
    /\ Credential(call[q]) = Credential(call[r])
    => q = r

OneEntitlementEach ==
  \A a, b \in issued : a.by = b.by => a = b

\* A stored response answers with an entitlement that was committed.
RecordsAreIssued ==
  \A rec \in records :
    \E e \in issued : e.by = rec.token /\ e.inst = rec.inst /\ e.revision = rec.revision

\* The response of a committed activation is stored until its lifetime is over.
Remembered(e) ==
  call[e.by].op = "activate" =>
    \/ call[e.by].day + ReplayLifetime <= today
    \/ \E rec \in records : /\ rec.key = call[e.by].key
                            /\ rec.idem = call[e.by].idem
                            /\ rec.day = call[e.by].day

ReplayInv ==
  /\ \A r \in Requests : Orderly(r)
  /\ CredentialsExclusive
  /\ OneEntitlementEach
  /\ RecordsAreIssued
  /\ \A e \in issued : Remembered(e)
  /\ ReplayExecutesOnce

-----------------------------------------------------------------------------
(* Steps that commit nothing *)

\* What a step of r leaves to the others.
Alone(r) ==
  \A q \in Requests \ {r} :
    call'[q] = call[q] /\ pc'[q] = pc[q] /\ plan'[q] = plan[q] /\ answer'[q] = answer[q]

\* An entitlement's request is done, so no other request's step touches it.
LEMMA IssuersAreDone ==
  ASSUME TypeOK, ReplayInv, NEW e \in issued
  PROVE  e.by \in Requests /\ pc[e.by] = "done" /\ e.at \in Nat
BY TimeAssumption DEF TypeOK, ReplayInv, Orderly, Unanswered, Entitlement

\* A request that commits nothing keeps the invariant if it keeps its own part
\* and enters a transaction only while its credential is free.
LEMMA QuietStep ==
  ASSUME TypeOK, ReplayInv, NEW r \in Requests, Alone(r), pc[r] # "done",
         UNCHANGED <<records, issued, today>>,
         pc[r] = "idle" \/ call'[r] = call[r],
         InTransaction(r)' => InTransaction(r) \/ ~CredentialBusy(call'[r]),
         Orderly(r)'
  PROVE  ReplayInv'
<1>1. ASSUME NEW q \in Requests PROVE Orderly(q)'
  <2>1. CASE q = r
    BY <2>1
  <2>2. CASE q # r
    <3>1. Orderly(q) /\ call'[q] = call[q] /\ pc'[q] = pc[q] /\ plan'[q] = plan[q]
          /\ answer'[q] = answer[q]
      BY <2>2 DEF Alone, ReplayInv
    <3> QED BY <3>1 DEF Orderly, Unreplayed, AskedBefore, PlansForItself, Unanswered,
                        Backed, InTransaction, Replay, Signing
  <2> QED BY <2>1, <2>2
<1>2. CredentialsExclusive'
  <2>1. \A q \in Requests \ {r} : InTransaction(q)' => InTransaction(q)
    BY DEF Alone, InTransaction
  <2>2. InTransaction(r) => call'[r] = call[r]
    BY DEF InTransaction
  <2>3. ASSUME NEW q \in Requests \ {r}, InTransaction(q)', InTransaction(r)',
               Credential(call'[q]) = Credential(call'[r])
        PROVE  FALSE
    <3>1. InTransaction(q) /\ call'[q] = call[q]
      BY <2>1, <2>3 DEF Alone
    <3>2. ~InTransaction(r)
      BY <3>1, <2>2, <2>3 DEF ReplayInv, CredentialsExclusive
    <3> QED BY <3>1, <3>2, <2>3 DEF CredentialBusy
  <2>4. ASSUME NEW q \in Requests \ {r}, NEW p \in Requests \ {r},
               InTransaction(q)', InTransaction(p)',
               Credential(call'[q]) = Credential(call'[p])
        PROVE  q = p
    BY <2>1, <2>4 DEF Alone, ReplayInv, CredentialsExclusive
  <2>5. ASSUME NEW q \in Requests, NEW p \in Requests,
               InTransaction(q)', InTransaction(p)',
               Credential(call'[q]) = Credential(call'[p])
        PROVE  q = p
    BY <2>3, <2>4, <2>5, Zenon
  <2> QED BY <2>5 DEF CredentialsExclusive
<1>3. \A e \in issued : call'[e.by] = call[e.by]
  BY IssuersAreDone DEF Alone
<1>4. \A e \in issued' : Remembered(e)'
  BY <1>3 DEF ReplayInv, Remembered
<1>5. ReplayExecutesOnce'
  BY <1>3 DEF ReplayInv, ReplayExecutesOnce
<1>6. OneEntitlementEach' /\ RecordsAreIssued'
  BY DEF ReplayInv, OneEntitlementEach, RecordsAreIssued
<1> QED BY <1>1, <1>2, <1>4, <1>5, <1>6 DEF ReplayInv

\* Answering is a step of one request.
LEMMA FinishAlone ==
  ASSUME TypeOK, NEW r \in Requests, NEW a, Finish(r, a), UNCHANGED plan,
         \A q \in Requests \ {r} : call'[q] = call[q]
  PROVE  Alone(r) /\ pc'[r] = "done" /\ answer'[r] = a
BY DEF TypeOK, Finish, Alone

\* A refusal promises nothing.
LEMMA RefusedQuiet ==
  ASSUME TypeOK, ReplayInv, NEW r \in Requests, NEW status, Refuse(r, status),
         status # "ok", pc[r] # "done", UNCHANGED today,
         \A q \in Requests \ {r} : call'[q] = call[q],
         pc[r] = "idle" \/ call'[r] = call[r],
         AskedBefore(r)'
  PROVE  ReplayInv'
<1>1. Finish(r, [status |-> status]) /\ UNCHANGED <<records, issued, plan>>
  BY DEF Refuse, tables
<1>2. Alone(r) /\ pc'[r] = "done" /\ answer'[r].status # "ok"
  BY <1>1, FinishAlone
<1>3. Orderly(r)' /\ ~InTransaction(r)'
  BY <1>2 DEF Orderly, Unreplayed, PlansForItself, Unanswered, Backed, InTransaction, Signing
<1> QED BY <1>1, <1>2, <1>3, QuietStep

\* A replayed response, unless it is the conflict, is one that was stored for
\* this Mac, so its entitlement was committed.
LEMMA ReplayedQuiet ==
  ASSUME TypeOK, ReplayInv, NEW r \in Requests,
         Replay(call'[r]) # {}, Finish(r, Answered(call'[r])),
         UNCHANGED <<tables, plan, issued, today>>, pc[r] # "done",
         \A q \in Requests \ {r} : call'[q] = call[q],
         pc[r] = "idle" \/ call'[r] = call[r],
         AskedBefore(r)'
  PROVE  ReplayInv'
<1>1. Alone(r) /\ pc'[r] = "done" /\ answer'[r] = Answered(call'[r])
  BY FinishAlone
<1>2. Backed(r)'
  <2>1. CASE \E rec \in Replay(call'[r]) : rec.inst # call'[r].inst
    BY <1>1, <2>1 DEF Answered, Backed
  <2>2. CASE \A rec \in Replay(call'[r]) : rec.inst = call'[r].inst
    <3> DEFINE rec == CHOOSE x \in Replay(call'[r]) : TRUE
    <3>1. rec \in Replay(call'[r])
      OBVIOUS
    <3>2. rec \in records /\ rec.inst = call'[r].inst
      BY <3>1, <2>2 DEF Replay
    <3>3. answer'[r] = [status |-> "ok", token |-> rec.token, revision |-> rec.revision]
      BY <1>1, <2>2 DEF Answered
    <3>4. \E e \in issued : e.by = rec.token /\ e.inst = rec.inst /\ e.revision = rec.revision
      BY <3>2 DEF ReplayInv, RecordsAreIssued
    <3> HIDE DEF rec
    <3> QED BY <3>2, <3>3, <3>4 DEF Backed
  <2> QED BY <2>1, <2>2
<1>3. Orderly(r)' /\ ~InTransaction(r)'
  BY <1>1, <1>2 DEF Orderly, Unreplayed, PlansForItself, Unanswered, InTransaction, Signing
<1> QED BY <1>1, <1>3, QuietStep DEF tables

\* Moving to a stage of the transaction answers nothing.
LEMMA MovedQuiet ==
  ASSUME TypeOK, ReplayInv, NEW r \in Requests, NEW stage, GoTo(r, stage),
         UNCHANGED today, pc[r] # "done", stage # "done",
         \A q \in Requests \ {r} : call'[q] = call[q] /\ plan'[q] = plan[q],
         pc[r] = "idle" \/ call'[r] = call[r],
         InTransaction(r)' => InTransaction(r) \/ ~CredentialBusy(call'[r]),
         Unreplayed(r)', AskedBefore(r)', PlansForItself(r)'
  PROVE  ReplayInv'
<1>1. UNCHANGED <<records, issued, answer>> /\ Alone(r) /\ pc'[r] = stage
  BY DEF GoTo, tables, TypeOK, Alone
<1>2. Unanswered(r)' /\ Backed(r)'
  BY <1>1 DEF ReplayInv, Orderly, Unanswered, Backed, Pending
<1> QED BY <1>1, <1>2, QuietStep DEF Orderly

-----------------------------------------------------------------------------
(* The steps before the commit *)

\* What a request asked for is fixed once it has begun.
LEMMA BegunIsOrderly ==
  ASSUME ReplayInv, NEW r \in Requests, call' = call, UNCHANGED today
  PROVE  AskedBefore(r)'
BY DEF ReplayInv, Orderly, AskedBefore

\* An activation is replayed, limited or admitted, and asks now.
LEMMA ReceiveActivateQuiet ==
  ASSUME TypeOK, ReplayInv, NEW r \in Requests, ReceiveActivate(r)
  PROVE  ReplayInv'
<1>1. /\ pc[r] = "idle"
      /\ UNCHANGED today
      /\ \A q \in Requests \ {r} : call'[q] = call[q]
      /\ call'[r].day = today
      /\ \/ /\ Replay(call'[r]) # {}
            /\ Finish(r, Answered(call'[r]))
            /\ UNCHANGED <<tables, plan, issued>>
         \/ Refuse(r, "rate_limited")
         \/ GoTo(r, "begin") /\ UNCHANGED <<locks, plan>>
  BY DEF ReceiveActivate, TypeOK
<1>2. AskedBefore(r)'
  BY <1>1, TimeAssumption DEF AskedBefore, TypeOK
<1>3. CASE /\ Replay(call'[r]) # {}
           /\ Finish(r, Answered(call'[r]))
           /\ UNCHANGED <<tables, plan, issued>>
  BY <1>1, <1>2, <1>3, ReplayedQuiet
<1>4. CASE Refuse(r, "rate_limited")
  BY <1>1, <1>2, <1>4, RefusedQuiet
<1>5. CASE GoTo(r, "begin") /\ UNCHANGED <<locks, plan>>
  <2>1. pc'[r] = "begin"
    BY <1>5 DEF GoTo, TypeOK
  <2>2. ~InTransaction(r)' /\ ~Signing(r)'
    BY <2>1 DEF InTransaction, Signing
  <2> QED BY <1>1, <1>2, <1>5, <2>2, MovedQuiet DEF Unreplayed, PlansForItself
<1> QED BY <1>1, <1>3, <1>4, <1>5

\* The transaction begins with its credential held and nothing to replay.
LEMMA BeginActivateQuiet ==
  ASSUME TypeOK, ReplayInv, NEW r \in Requests, BeginActivate(r)
  PROVE  ReplayInv'
<1>1. call' = call /\ UNCHANGED today /\ pc[r] = "begin" /\ AskedBefore(r)'
  BY BegunIsOrderly DEF BeginActivate
<1>2. CASE Refuse(r, "busy") \/ Refuse(r, "unauthorized")
  BY <1>1, <1>2, RefusedQuiet
<1>3. CASE /\ Replay(call[r]) # {}
           /\ Finish(r, Answered(call[r]))
           /\ UNCHANGED <<tables, plan, issued>>
  BY <1>1, <1>3, ReplayedQuiet
<1>4. CASE /\ ~CredentialBusy(call[r])
           /\ Replay(call[r]) = {}
           /\ GoTo(r, "license")
           /\ UNCHANGED <<locks, plan>>
  <2>1. pc'[r] = "license" /\ UNCHANGED records
    BY <1>4 DEF GoTo, TypeOK, tables
  <2>2. Unreplayed(r)' /\ PlansForItself(r)'
    BY <1>1, <1>4, <2>1 DEF Unreplayed, PlansForItself, Replay, Signing
  <2> QED BY <1>1, <1>4, <2>2, MovedQuiet
<1> QED BY <1>2, <1>3, <1>4 DEF BeginActivate

\* A token request enters its transaction only while the token is free.
LEMMA ReceiveTokenQuiet ==
  ASSUME TypeOK, ReplayInv, NEW r \in Requests, ReceiveToken(r)
  PROVE  ReplayInv'
<1>1. /\ pc[r] = "idle"
      /\ UNCHANGED today
      /\ \A q \in Requests \ {r} : call'[q] = call[q]
      /\ call'[r].op # "activate"
      /\ \/ Refuse(r, "busy")
         \/ Refuse(r, "unauthorized")
         \/ ~CredentialBusy(call'[r]) /\ GoTo(r, "license") /\ UNCHANGED <<locks, plan>>
  BY DEF ReceiveToken, TypeOK
<1>2. AskedBefore(r)' /\ Unreplayed(r)'
  BY <1>1 DEF AskedBefore, Unreplayed
<1>3. CASE Refuse(r, "busy") \/ Refuse(r, "unauthorized")
  BY <1>1, <1>2, <1>3, RefusedQuiet
<1>4. CASE ~CredentialBusy(call'[r]) /\ GoTo(r, "license") /\ UNCHANGED <<locks, plan>>
  <2>1. PlansForItself(r)'
    BY <1>4 DEF GoTo, TypeOK, PlansForItself, Signing
  <2> QED BY <1>1, <1>2, <1>4, <2>1, MovedQuiet
<1> QED BY <1>1, <1>3, <1>4

\* Moving within the transaction: the credential stays held, and nothing has
\* been stored to replay.
LEMMA AdvancedQuiet ==
  ASSUME TypeOK, ReplayInv, NEW r \in Requests, NEW stage, GoTo(r, stage),
         call' = call, UNCHANGED today, InTransaction(r), stage # "done",
         \A q \in Requests \ {r} : plan'[q] = plan[q],
         PlansForItself(r)'
  PROVE  ReplayInv'
<1>1. UNCHANGED records
  BY DEF GoTo, tables
<1>2. Unreplayed(r)'
  BY <1>1 DEF ReplayInv, Orderly, Unreplayed, Replay
<1> QED BY <1>2, BegunIsOrderly, MovedQuiet DEF InTransaction

\* The decisions plan for the Mac of the request; saving keeps the plan.
LEMMA WorkQuiet ==
  ASSUME TypeOK, ReplayInv, NEW r \in Requests,
         \/ DecideActivate(r) \/ LockLicense(r) \/ DecideRefresh(r)
         \/ DecideDeactivate(r) \/ Save(r) \/ RollBack(r)
  PROVE  ReplayInv'
<1>1. call' = call /\ UNCHANGED today /\ pc[r] \notin {"idle", "done"}
  BY DEF DecideActivate, LockLicense, DecideRefresh, DecideDeactivate, Save, RollBack
<1>2. ASSUME NEW status \in {"not_eligible", "limit", "failed", "unauthorized", "deactivated"},
             Refuse(r, status)
      PROVE  ReplayInv'
  BY <1>1, <1>2, BegunIsOrderly, RefusedQuiet
<1>3. ASSUME NEW stage \in {"row", "signing", "saved"}, GoTo(r, stage), InTransaction(r),
             \A q \in Requests \ {r} : plan'[q] = plan[q],
             PlansForItself(r)'
      PROVE  ReplayInv'
  BY <1>1, <1>3, AdvancedQuiet
<1>4. CASE DecideActivate(r)
  <2>1. CASE Refuse(r, "not_eligible") \/ Refuse(r, "limit") \/ Refuse(r, "failed")
    BY <1>2, <2>1
  <2>2. CASE /\ plan' = [plan EXCEPT ![r] =
                   [inst |-> call[r].inst, revision |-> NextRevision(call[r].inst)]]
             /\ GoTo(r, "signing")
    <3>1. plan'[r].inst = call'[r].inst /\ \A q \in Requests \ {r} : plan'[q] = plan[q]
      BY <1>1, <2>2 DEF TypeOK
    <3> QED BY <1>3, <1>4, <2>2, <3>1 DEF PlansForItself, InTransaction, DecideActivate
  <2> QED BY <1>4, <2>1, <2>2 DEF DecideActivate
<1>5. CASE LockLicense(r)
  <2>1. GoTo(r, "row") /\ UNCHANGED plan /\ InTransaction(r)
    BY <1>5 DEF LockLicense, InTransaction
  <2>2. PlansForItself(r)'
    BY <2>1 DEF GoTo, TypeOK, PlansForItself, Signing
  <2> QED BY <1>3, <2>1, <2>2
<1>6. CASE DecideRefresh(r)
  <2>1. CASE \/ Refuse(r, "unauthorized") \/ Refuse(r, "deactivated")
             \/ Refuse(r, "not_eligible") \/ Refuse(r, "failed")
    BY <1>2, <2>1
  <2>2. CASE /\ plan' = [plan EXCEPT ![r] =
                   [inst |-> call[r].inst, revision |-> NextRevision(call[r].inst)]]
             /\ GoTo(r, "signing")
    <3>1. plan'[r].inst = call'[r].inst /\ \A q \in Requests \ {r} : plan'[q] = plan[q]
      BY <1>1, <2>2 DEF TypeOK
    <3> QED BY <1>3, <1>6, <2>2, <3>1 DEF PlansForItself, InTransaction, DecideRefresh
  <2> QED BY <1>6, <2>1, <2>2 DEF DecideRefresh
<1>7. CASE DecideDeactivate(r)
  <2>1. CASE Refuse(r, "unauthorized")
    BY <1>2, <2>1
  <2>2. ASSUME NEW i \in TokenOwners(call[r].token),
               plan' = [plan EXCEPT ![r] = [inst |-> i, revision |-> rows[i].revision]],
               GoTo(r, "saved")
        PROVE  ReplayInv'
    <3>1. \A q \in Requests \ {r} : plan'[q] = plan[q]
      BY <2>2 DEF TypeOK
    <3>2. InTransaction(r) /\ call[r].op = "deactivate"
      BY <1>7 DEF DecideDeactivate, InTransaction
    <3> QED BY <1>1, <1>3, <2>2, <3>1, <3>2 DEF PlansForItself, Signing
  <2> QED BY <1>7, <2>1, <2>2 DEF DecideDeactivate
<1>8. CASE Save(r)
  <2>1. GoTo(r, "saved") /\ UNCHANGED plan /\ InTransaction(r) /\ pc[r] = "signing"
    BY <1>8 DEF Save, InTransaction
  <2>2. PlansForItself(r)'
    BY <1>1, <2>1 DEF ReplayInv, Orderly, PlansForItself, Signing
  <2> QED BY <1>3, <2>1, <2>2
<1>9. CASE RollBack(r)
  BY <1>2, <1>9 DEF RollBack
<1> QED BY <1>4, <1>5, <1>6, <1>7, <1>8, <1>9

-----------------------------------------------------------------------------
(* The commits *)

\* Committing an entitlement: what is left to each of the two commits is what
\* it does to the stored responses.
LEMMA CommittedStep ==
  ASSUME TypeOK, ReplayInv, NEW r \in Requests,
         pc[r] = "saved", call[r].op \in {"activate", "refresh"},
         call' = call, UNCHANGED <<plan, today>>,
         NEW t \in {NoOne, r},
         Finish(r, [status |-> "ok", token |-> t, revision |-> plan[r].revision]),
         issued' = issued \cup {Signed(r)},
         \A q \in Requests \ {r} : Unreplayed(q)',
         RecordsAreIssued',
         \A e \in issued' : Remembered(e)',
         \A a \in issued :
           /\ call[a.by].op = "activate" /\ call[r].op = "activate"
           /\ call[a.by].key = call[r].key /\ call[a.by].idem = call[r].idem
           => today >= call[a.by].day + ReplayLifetime
  PROVE  ReplayInv'
<1> DEFINE e == Signed(r)
<1>1. /\ Alone(r) /\ pc'[r] = "done"
      /\ answer'[r] = [status |-> "ok", token |-> t, revision |-> plan[r].revision]
  BY FinishAlone
<1>2. e.by = r /\ e.inst = call[r].inst /\ e.revision = plan[r].revision /\ e.at = today
  BY DEF ReplayInv, Orderly, PlansForItself, Signing, Signed
<1>3. \A a \in issued : a.by # r
  BY DEF ReplayInv, Orderly, Unanswered
<1> HIDE DEF e
<1>4. ASSUME NEW q \in Requests PROVE Orderly(q)'
  <2>1. CASE q = r
    <3>1. Backed(r)'
      BY <1>1, <1>2 DEF Backed, e
    <3>2. AskedBefore(r)'
      BY BegunIsOrderly
    <3> QED BY <1>1, <2>1, <3>1, <3>2
            DEF Orderly, Unreplayed, PlansForItself, Unanswered, InTransaction, Signing
  <2>2. CASE q # r
    <3>1. Orderly(q) /\ pc'[q] = pc[q] /\ answer'[q] = answer[q] /\ Unreplayed(q)'
      BY <1>1, <2>2 DEF Alone, ReplayInv
    <3>2. AskedBefore(q)'
      BY BegunIsOrderly
    <3>3. Unanswered(q)'
      BY <1>2, <2>2, <3>1 DEF Orderly, Unanswered, e
    <3>4. PlansForItself(q)' /\ Backed(q)'
      BY <3>1 DEF Orderly, PlansForItself, Signing, Backed
    <3> QED BY <3>1, <3>2, <3>3, <3>4 DEF Orderly
  <2> QED BY <2>1, <2>2
<1>5. CredentialsExclusive'
  <2>1. \A q \in Requests : InTransaction(q)' => InTransaction(q)
    BY <1>1 DEF Alone, InTransaction
  <2> QED BY <2>1 DEF ReplayInv, CredentialsExclusive
<1>6. OneEntitlementEach'
  BY <1>2, <1>3 DEF ReplayInv, OneEntitlementEach, e
<1>7. ReplayExecutesOnce'
  <2>1. ASSUME NEW a \in issued,
               call[a.by].op = "activate" /\ call[r].op = "activate",
               call[a.by].key = call[r].key /\ call[a.by].idem = call[r].idem
        PROVE  e.at >= call[a.by].day + ReplayLifetime
    BY <1>2, <2>1
  <2>2. ReplayExecutesOnce
    BY DEF ReplayInv
  <2> QED BY <1>2, <2>1, <2>2 DEF ReplayExecutesOnce, e
<1> QED BY <1>4, <1>5, <1>6, <1>7 DEF ReplayInv

\* An activation stores its response in place of expired ones.  No other open
\* transaction looks for it, and what it replaced had outlived its lifetime.
LEMMA CommitActivateReplay ==
  ASSUME TypeOK, ReplayInv, NEW r \in Requests, CommitActivate(r)
  PROVE  ReplayInv'
<1> DEFINE c == call[r]
           rec == [key |-> c.key, idem |-> c.idem, inst |-> plan[r].inst, token |-> r,
                   revision |-> plan[r].revision, day |-> c.day]
<1>1. pc[r] = "saved" /\ c.op = "activate" /\ call' = call /\ UNCHANGED today
  BY DEF CommitActivate
<1>2. CASE Refuse(r, "failed")
  BY <1>1, <1>2, BegunIsOrderly, RefusedQuiet
<1>3. CASE /\ ~ReplayCollision(c)
           /\ records' = (records \ StaleRecords(c)) \cup {rec}
           /\ issued' = issued \cup {Signed(r)}
           /\ Finish(r, [status |-> "ok", token |-> r, revision |-> plan[r].revision])
           /\ UNCHANGED plan
  <2>1. /\ rec.key = c.key /\ rec.idem = c.idem /\ rec.inst = plan[r].inst
        /\ rec.token = r /\ rec.revision = plan[r].revision /\ rec.day = c.day
    OBVIOUS
  <2> HIDE DEF rec
  <2>2. AskedBefore(r) /\ ReplayLifetime \in Nat /\ today \in Nat
    BY TimeAssumption DEF ReplayInv, Orderly, TypeOK
  <2>3. ASSUME NEW q \in Requests \ {r} PROVE Unreplayed(q)'
    <3> SUFFICES ASSUME InTransaction(q)', call[q].op = "activate"
                 PROVE  Replay(call[q])' = {}
      BY <1>1 DEF Unreplayed
    <3>1. InTransaction(q) /\ InTransaction(r)
      BY <1>1, <1>3, FinishAlone DEF Alone, InTransaction
    <3>2. call[q].key # c.key
      BY <1>1, <3>1 DEF ReplayInv, CredentialsExclusive, Credential
    <3>3. Replay(call[q]) = {}
      BY <3>1 DEF ReplayInv, Orderly, Unreplayed
    <3> QED BY <1>1, <1>3, <2>1, <3>2, <3>3 DEF Replay
  <2>4. RecordsAreIssued'
    <3>1. /\ Signed(r).by = rec.token /\ Signed(r).inst = rec.inst
          /\ Signed(r).revision = rec.revision
      BY <2>1 DEF Signed
    <3> QED BY <1>3, <3>1 DEF ReplayInv, RecordsAreIssued
  <2>5. ASSUME NEW a \in issued, call[a.by].op = "activate"
        PROVE  \/ call[a.by].day + ReplayLifetime <= today
               \/ \E old \in records \ StaleRecords(c) :
                    /\ old.key = call[a.by].key /\ old.idem = call[a.by].idem
                    /\ old.day = call[a.by].day
    <3>1. Remembered(a)
      BY DEF ReplayInv
    <3>2. ASSUME NEW old \in StaleRecords(c), old.day = call[a.by].day
          PROVE  call[a.by].day + ReplayLifetime <= today
      <4>1. ~(old.day + ReplayLifetime > c.day)
        BY <1>3 DEF ReplayCollision
      <4>2. c.day \in Nat /\ c.day <= today
        BY <1>1, <2>2 DEF AskedBefore
      <4>3. call[a.by].day \in Nat
        BY <2>5, IssuersAreDone DEF ReplayInv, Orderly, AskedBefore
      <4> QED BY <2>2, <3>2, <4>1, <4>2, <4>3
    <3> QED BY <2>5, <3>1, <3>2 DEF Remembered
  <2>6. \A e \in issued' : Remembered(e)'
    <3>1. ASSUME NEW a \in issued PROVE Remembered(a)'
      BY <1>1, <1>3, <2>5 DEF Remembered
    <3>2. ASSUME NEW e, e.by = r PROVE Remembered(e)'
      BY <1>1, <1>3, <2>1, <3>2 DEF Remembered
    <3>3. Signed(r).by = r
      BY DEF Signed
    <3> QED BY <1>3, <3>1, <3>2, <3>3
  <2>7. ASSUME NEW a \in issued, call[a.by].op = "activate",
               call[a.by].key = c.key, call[a.by].idem = c.idem
        PROVE  today >= call[a.by].day + ReplayLifetime
    <3>1. call[a.by].day \in Nat
      BY <2>7, IssuersAreDone DEF ReplayInv, Orderly, AskedBefore
    <3>2. ~\E old \in records \ StaleRecords(c) :
             old.key = call[a.by].key /\ old.idem = call[a.by].idem
      BY <2>7 DEF StaleRecords
    <3> QED BY <2>2, <2>5, <2>7, <3>1, <3>2
  <2> QED BY <1>1, <1>3, <2>3, <2>4, <2>6, <2>7, CommittedStep
<1> QED BY <1>2, <1>3 DEF CommitActivate

\* A refresh stores no response.
LEMMA CommitRefreshReplay ==
  ASSUME TypeOK, ReplayInv, NEW r \in Requests, CommitRefresh(r)
  PROVE  ReplayInv'
<1>1. /\ pc[r] = "saved" /\ call[r].op = "refresh"
      /\ call' = call /\ UNCHANGED <<plan, today, records>>
      /\ issued' = issued \cup {Signed(r)}
      /\ Finish(r, [status |-> "ok", token |-> NoOne, revision |-> plan[r].revision])
  BY DEF CommitRefresh
<1>2. \A q \in Requests \ {r} : Unreplayed(q)'
  <2>1. \A q \in Requests \ {r} : InTransaction(q)' => InTransaction(q)
    BY <1>1, FinishAlone DEF Alone, InTransaction
  <2> QED BY <1>1, <2>1 DEF ReplayInv, Orderly, Unreplayed, Replay
<1>3. RecordsAreIssued'
  BY <1>1 DEF ReplayInv, RecordsAreIssued
<1>4. \A e \in issued' : Remembered(e)'
  <2>1. Signed(r).by = r
    BY DEF Signed
  <2> QED BY <1>1, <2>1 DEF ReplayInv, Remembered
<1> QED BY <1>1, <1>2, <1>3, <1>4, CommittedStep

\* A release answers without an entitlement.
LEMMA CommitDeactivateReplay ==
  ASSUME TypeOK, ReplayInv, NEW r \in Requests, CommitDeactivate(r)
  PROVE  ReplayInv'
<1>1. /\ pc[r] = "saved" /\ call[r].op = "deactivate"
      /\ UNCHANGED <<call, plan, today, records, issued>>
      /\ Finish(r, [status |-> "ok", token |-> NoOne, revision |-> 0])
  BY DEF CommitDeactivate
<1>2. Alone(r) /\ pc'[r] = "done"
  BY <1>1, FinishAlone
<1>3. Orderly(r)' /\ ~InTransaction(r)'
  BY <1>1, <1>2, BegunIsOrderly
     DEF Orderly, Unreplayed, PlansForItself, Unanswered, Backed, InTransaction, Signing
<1> QED BY <1>1, <1>2, <1>3, QuietStep

-----------------------------------------------------------------------------
(* The rest of the service *)

\* Cleanup only takes responses whose lifetime is over, and time only passes.
LEMMA AgedStep ==
  ASSUME TypeOK, ReplayInv, today' \in Nat, today <= today',
         UNCHANGED <<pc, call, plan, answer, issued>>,
         records' \subseteq records,
         \A rec \in records \ records' : rec.day + ReplayLifetime <= today
  PROVE  ReplayInv'
<1>1. today \in Nat /\ ReplayLifetime \in Nat
  BY TimeAssumption DEF TypeOK
<1>2. ASSUME NEW r \in Requests PROVE Orderly(r)'
  <2>1. Orderly(r)
    BY DEF ReplayInv
  <2>2. AskedBefore(r)'
    BY <1>1, <2>1 DEF Orderly, AskedBefore
  <2>3. Unreplayed(r)'
    BY <2>1 DEF Orderly, Unreplayed, InTransaction, Replay
  <2> QED BY <2>1, <2>2, <2>3 DEF Orderly, PlansForItself, Signing, Unanswered, Backed
<1>3. ASSUME NEW e \in issued PROVE Remembered(e)'
  <2> SUFFICES ASSUME call[e.by].op = "activate" PROVE Remembered(e)'
    BY DEF Remembered
  <2>1. call[e.by].day \in Nat
    BY IssuersAreDone DEF ReplayInv, Orderly, AskedBefore
  <2>2. CASE call[e.by].day + ReplayLifetime <= today
    BY <1>1, <2>1, <2>2 DEF Remembered
  <2>3. ASSUME NEW rec \in records, rec.key = call[e.by].key,
               rec.idem = call[e.by].idem, rec.day = call[e.by].day
        PROVE  Remembered(e)'
    <3>1. CASE rec \in records'
      BY <2>3, <3>1 DEF Remembered
    <3>2. CASE rec \notin records'
      BY <1>1, <2>1, <2>3, <3>2 DEF Remembered
    <3> QED BY <3>1, <3>2
  <2>4. Remembered(e)
    BY DEF ReplayInv
  <2> QED BY <2>2, <2>3, <2>4 DEF Remembered
<1>4. CredentialsExclusive' /\ OneEntitlementEach' /\ RecordsAreIssued' /\ ReplayExecutesOnce'
  BY DEF ReplayInv, CredentialsExclusive, InTransaction, OneEntitlementEach,
         RecordsAreIssued, ReplayExecutesOnce
<1> QED BY <1>2, <1>3, <1>4 DEF ReplayInv

\* Releases, rotations and adjustments touch no replay, no request and no time.
LEMMA OtherReplay ==
  ASSUME TypeOK, ReplayInv,
         \/ \E i \in Installations : DeactivateManaged(i)
         \/ \E k \in Keys : RotateLicenseKey(k)
         \/ AdjustLicense
         \/ \E rec \in records : CleanupRecord(rec)
         \/ Tick
         \/ UNCHANGED vars
  PROVE  ReplayInv'
<1>1. today \in Nat
  BY TimeAssumption DEF TypeOK
<1>2. ASSUME UNCHANGED <<records, today, pc, call, plan, answer, issued>>
      PROVE  ReplayInv'
  BY <1>1, <1>2, AgedStep
<1>3. CASE \/ \E i \in Installations : DeactivateManaged(i)
           \/ \E k \in Keys : RotateLicenseKey(k)
           \/ AdjustLicense
           \/ UNCHANGED vars
  BY <1>2, <1>3, BillTouches DEF DeactivateManaged, RotateLicenseKey, vars, requests
<1>4. ASSUME NEW rec \in records, CleanupRecord(rec) PROVE ReplayInv'
  BY <1>1, <1>4, AgedStep DEF CleanupRecord, requests
<1>5. CASE Tick
  <2>1. today' \in Nat /\ today <= today'
    BY <1>1, <1>5 DEF Tick
  <2> QED BY <1>5, <2>1, AgedStep DEF Tick, tables, requests
<1> QED BY <1>3, <1>4, <1>5

-----------------------------------------------------------------------------
(* The theorems *)

\* Nothing asked, stored or issued.
LEMMA ReplayInit == Init => ReplayInv
<1> SUFFICES ASSUME Init PROVE ReplayInv
  OBVIOUS
<1>1. \A r \in Requests : Orderly(r)
  BY DEF Init, Orderly, Unreplayed, AskedBefore, PlansForItself, Unanswered, Backed,
         InTransaction, Signing, Pending
<1>2. CredentialsExclusive
  BY DEF Init, CredentialsExclusive, InTransaction
<1> QED
  BY <1>1, <1>2 DEF Init, ReplayInv, OneEntitlementEach, RecordsAreIssued, ReplayExecutesOnce

\* Every step keeps the invariant.
LEMMA ReplayStep == TypeOK /\ ReplayInv /\ [Next]_vars => ReplayInv'
<1> SUFFICES ASSUME TypeOK, ReplayInv, [Next]_vars PROVE ReplayInv'
  OBVIOUS
<1>1. ASSUME NEW r \in Requests,
             ReceiveActivate(r) \/ ReceiveToken(r) \/ BeginActivate(r)
      PROVE  ReplayInv'
  BY <1>1, ReceiveActivateQuiet, ReceiveTokenQuiet, BeginActivateQuiet
<1>2. ASSUME NEW r \in Requests,
             \/ DecideActivate(r) \/ LockLicense(r) \/ DecideRefresh(r)
             \/ DecideDeactivate(r) \/ Save(r) \/ RollBack(r)
      PROVE  ReplayInv'
  BY <1>2, WorkQuiet
<1>3. ASSUME NEW r \in Requests,
             CommitActivate(r) \/ CommitRefresh(r) \/ CommitDeactivate(r)
      PROVE  ReplayInv'
  BY <1>3, CommitActivateReplay, CommitRefreshReplay, CommitDeactivateReplay
<1>4. CASE \/ \E i \in Installations : DeactivateManaged(i)
           \/ \E k \in Keys : RotateLicenseKey(k)
           \/ AdjustLicense
           \/ \E rec \in records : CleanupRecord(rec)
           \/ Tick
           \/ UNCHANGED vars
  BY <1>4, OtherReplay
<1> QED BY <1>1, <1>2, <1>3, <1>4 DEF Next, Work

\* In every behaviour of the handlers one transaction works under a credential,
\* and the response of an activation is stored until its lifetime is over.
THEOREM ReplayInvHolds == Spec => []ReplayInv
<1>1. Init => ReplayInv
  BY ReplayInit
<1>2. TypeOK /\ ReplayInv /\ [Next]_vars => ReplayInv'
  BY ReplayStep
<1> QED BY <1>1, <1>2, TypesHold, PTL DEF Spec

\* An activation retried with its idempotency key is not executed again before
\* the replay lifetime has passed, whatever retries, rotations, failures and
\* cleanups come between (Activate, storeAndCommit, cleanupExpired).
THEOREM ReplayExecutesOnceHolds == Spec => []ReplayExecutesOnce
BY ReplayInvHolds, PTL DEF ReplayInv

\* Every successful answer of Activate or RefreshEntitlement, replayed or not,
\* carries an entitlement that was committed for the Mac that asked.
THEOREM AnswersAreIssuedHolds == Spec => []AnswersAreIssued
<1>1. ReplayInv => AnswersAreIssued
  BY DEF ReplayInv, Orderly, Backed, AnswersAreIssued
<1> QED BY ReplayInvHolds, <1>1, PTL

\* The branch of storeAndCommit that finds another unexpired response is never
\* taken.
THEOREM NoReplayCollisionHolds == Spec => []NoReplayCollision
<1>1. ReplayInv => NoReplayCollision
  BY DEF ReplayInv, Orderly, Unreplayed, InTransaction, Replay, NoReplayCollision,
         ReplayCollision, StaleRecords
<1> QED BY ReplayInvHolds, <1>1, PTL
=============================================================================
