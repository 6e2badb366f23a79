-------------------------- MODULE ActivationsProofs --------------------------
(***************************************************************************)
(* Proofs about Activations, for every number of installations, requests,  *)
(* keys and slots.  One inductive invariant carries all of them: whoever   *)
(* has decided holds the license row until its transaction ends, so the    *)
(* slot it counted and the revision it read are still there when it        *)
(* commits.                                                                *)
(***************************************************************************)
EXTENDS Activations, TLAPS, FiniteSetTheorems

Signing(r) == pc[r] \in {"signing", "saved"} /\ call[r].op # "deactivate"

\* What a request between its decision and its commit may rely on: it holds the
\* license row, the slot it is about to take is counted, the revision it is
\* about to write is one above the stored one, and a refresh holds the row of
\* its token.
Reserved(r) ==
  /\ pc[r] = "begin" => call[r].op = "activate"
  /\ pc[r] = "signing" => call[r].op \in {"activate", "refresh"}
  /\ pc[r] \in {"row", "signing", "saved"} => licenseLock = r
  /\ Signing(r) =>
       /\ Entitled(r)
       /\ plan[r].revision = rows[plan[r].inst].revision + 1
       /\ plan[r].revision \in 1..MaxRevision
  /\ Signing(r) /\ call[r].op = "activate" =>
       Cardinality(ActiveSlots \cup {plan[r].inst}) <= MaximumActivations
  /\ Signing(r) /\ call[r].op = "refresh" =>
       /\ rowLock[plan[r].inst] = r
       /\ rows[plan[r].inst].state = "active"
       /\ rows[plan[r].inst].token = call[r].token

\* No entitlement was ever issued above the stored revision.
IssuedBelow ==
  \A e \in issued : e.revision <= rows[e.inst].revision

ActivationsInv ==
  /\ TypeOK
  /\ \A r \in Requests : Reserved(r)
  /\ SlotLimit
  /\ IssuedBelow
  /\ OneEntitlementPerRevision

-----------------------------------------------------------------------------
(* Types *)

USE DEF Stages

\* A call has joined no subscription before it begins to wait for the license.
LEMMA NoDatesType == NoDates \in Dates
BY TimeAssumption DEF NoDates, Dates

\* What billing writes of a subscription in good standing is a row of it.
LEMMA PaidDatesType ==
  ASSUME NEW from \in Nat
  PROVE  PaidDates(from) \subseteq Dates
BY NoDatesType, TimeAssumption DEF PaidDates, Dates

\* Answering a request and dropping its locks keeps the types of both.
LEMMA FinishTypes ==
  ASSUME TypeOK, NEW r \in Requests,
         NEW a \in Success \cup Refusal, Finish(r, a)
  PROVE  /\ pc' \in [Requests -> Stages]
         /\ answer' \in [Requests -> Success \cup Refusal \cup {Pending}]
         /\ licenseLock' \in Requests \cup {NoOne}
         /\ rowLock' \in [Installations -> Requests \cup {NoOne}]
         /\ joined' \in [Requests -> Dates]
BY NoDatesType DEF TypeOK, Finish

\* A refused request changes nothing but its own answer and its locks.
LEMMA RefuseTypes ==
  ASSUME TypeOK, NEW r \in Requests,
         NEW status, [status |-> status] \in Refusal, Refuse(r, status),
         call' \in [Requests -> Calls], UNCHANGED today
  PROVE  TypeOK'
<1>1. Finish(r, [status |-> status]) /\ UNCHANGED <<tables, plan, issued>>
  BY DEF Refuse
<1> QED BY <1>1, FinishTypes DEF TypeOK, tables

\* A replayed record, or the conflict with it, is an answer.
LEMMA AnsweredType ==
  ASSUME TypeOK, NEW c, Replay(c) # {}
  PROVE  Answered(c) \in Success \cup Refusal
<1>1. Replay(c) \subseteq Record BY DEF TypeOK, Replay
<1>2. (CHOOSE rec \in Replay(c) : TRUE) \in Replay(c) OBVIOUS
<1>3. [status |-> "conflict"] \in Refusal BY DEF Refusal
<1>4. ASSUME NEW rec \in Record
      PROVE  [status |-> "ok", token |-> rec.token, revision |-> rec.revision] \in Success
  BY RevisionAssumption DEF Record, Success
<1> QED BY <1>1, <1>2, <1>3, <1>4 DEF Answered

\* The empty license: nothing activated, nothing issued.
LEMMA InitTypes == Init => TypeOK
<1> SUFFICES ASSUME Init PROVE TypeOK
  OBVIOUS
<1>1. rows \in [Installations -> Row]
  BY RevisionAssumption DEF Init, Row
<1>2. call \in [Requests -> Calls] /\ answer \in [Requests -> Success \cup Refusal \cup {Pending}]
  BY DEF Init, Calls
<1>3. plan \in [Requests -> Plan]
  BY RevisionAssumption DEF Init, Plan
<1>4. dates \in Dates /\ joined \in [Requests -> Dates]
  BY PaidDatesType, NoDatesType DEF Init
<1> QED
  BY <1>1, <1>2, <1>3, <1>4, TimeAssumption DEF Init, TypeOK

\* An activation request is replayed, limited or admitted.
LEMMA ReceiveActivateTypes ==
  ASSUME TypeOK, NEW r \in Requests, ReceiveActivate(r)
  PROVE  TypeOK'
<1> PICK i \in Installations, k \in Keys, m \in IdempotencyKeys :
      LET c == [op |-> "activate", inst |-> i, key |-> k, idem |-> m, day |-> today]
      IN  /\ pc[r] = "idle"
          /\ call' = [call EXCEPT ![r] = c]
          /\ \/ /\ Replay(c) # {}
                /\ Finish(r, Answered(c))
                /\ UNCHANGED <<tables, plan, issued>>
             \/ Refuse(r, "rate_limited")
             \/ /\ GoTo(r, "begin")
                /\ UNCHANGED <<locks, plan>>
          /\ UNCHANGED today
  BY DEF ReceiveActivate
<1> DEFINE c == [op |-> "activate", inst |-> i, key |-> k, idem |-> m, day |-> today]
<1>1. call' \in [Requests -> Calls]
  BY DEF TypeOK, Calls
<1>2. CASE Replay(c) # {} /\ Finish(r, Answered(c)) /\ UNCHANGED <<tables, plan, issued>>
  BY <1>1, <1>2, AnsweredType, FinishTypes DEF TypeOK, tables
<1>3. CASE Refuse(r, "rate_limited")
  BY <1>1, <1>3, RefuseTypes DEF Refusal
<1>4. CASE GoTo(r, "begin") /\ UNCHANGED <<locks, plan>>
  BY <1>1, <1>4 DEF TypeOK, GoTo, tables, locks
<1> QED BY <1>2, <1>3, <1>4

\* Beginning the transaction writes only where the request is.
LEMMA BeginActivateTypes ==
  ASSUME TypeOK, NEW r \in Requests, BeginActivate(r)
  PROVE  TypeOK'
<1>1. call' \in [Requests -> Calls] /\ UNCHANGED today
  BY DEF BeginActivate, TypeOK
<1>2. CASE Refuse(r, "busy") \/ Refuse(r, "unauthorized")
  BY <1>1, <1>2, RefuseTypes DEF Refusal
<1>3. CASE /\ Replay(call[r]) # {}
           /\ Finish(r, Answered(call[r]))
           /\ UNCHANGED <<tables, plan, issued>>
  BY <1>1, <1>3, AnsweredType, FinishTypes DEF TypeOK, tables
<1>4. CASE GoTo(r, "license") /\ UNCHANGED <<locks, plan>>
  BY <1>1, <1>4 DEF TypeOK, GoTo, tables, locks
<1> QED BY <1>2, <1>3, <1>4 DEF BeginActivate

\* The next revision is one the row can store.
LEMMA NextRevisionType ==
  ASSUME TypeOK, NEW i \in Installations, ~Exhausted(i)
  PROVE  NextRevision(i) \in 1..MaxRevision
<1>1. rows[i].revision \in 0..MaxRevision
  BY DEF TypeOK, Row
<1>2. rows[i].revision # MaxRevision
  BY DEF Exhausted
<1> QED BY <1>1, <1>2, RevisionAssumption DEF NextRevision

\* The revision planned is one the row can store.
LEMMA DecideActivateTypes ==
  ASSUME TypeOK, NEW r \in Requests, DecideActivate(r)
  PROVE  TypeOK'
<1>1. call' \in [Requests -> Calls] /\ UNCHANGED today
  BY DEF DecideActivate, TypeOK
<1> DEFINE i == call[r].inst
<1>2. i \in Installations
  BY DEF DecideActivate, TypeOK, Calls
<1>3. CASE Refuse(r, "not_eligible") \/ Refuse(r, "limit") \/ Refuse(r, "failed")
  BY <1>1, <1>3, RefuseTypes DEF Refusal
<1>4. CASE /\ ~Exhausted(i)
           /\ TakeLicense(r)
           /\ plan' = [plan EXCEPT ![r] = [inst |-> i, revision |-> NextRevision(i)]]
           /\ GoTo(r, "signing")
           /\ UNCHANGED rowLock
  <2>1. [inst |-> i, revision |-> NextRevision(i)] \in Plan
    BY <1>2, <1>4, NextRevisionType, RevisionAssumption DEF Plan
  <2> QED BY <1>1, <1>4, <2>1 DEF TypeOK, TakeLicense, GoTo, tables
<1> QED BY <1>3, <1>4 DEF DecideActivate

\* A refresh or deactivation is refused or admitted.
LEMMA ReceiveTokenTypes ==
  ASSUME TypeOK, NEW r \in Requests, ReceiveToken(r)
  PROVE  TypeOK'
<1>1. call' \in [Requests -> Calls] /\ UNCHANGED today
  <2>1. 0..today \subseteq 0..MaxDay
    BY TimeAssumption DEF TypeOK
  <2>2. PICK c \in [op : {"refresh"}, inst : Installations, token : Requests, day : 0..today]
                   \cup [op : {"deactivate"}, token : Requests] :
          call' = [call EXCEPT ![r] = c] /\ UNCHANGED today
    BY DEF ReceiveToken
  <2>3. c \in Calls
    BY <2>1, <2>2 DEF Calls
  <2> QED BY <2>2, <2>3 DEF TypeOK
<1>2. CASE Refuse(r, "busy") \/ Refuse(r, "unauthorized")
  BY <1>1, <1>2, RefuseTypes DEF Refusal
<1>3. CASE GoTo(r, "license") /\ UNCHANGED <<locks, plan>>
  BY <1>1, <1>3 DEF TypeOK, GoTo, tables, locks
<1> QED BY <1>2, <1>3 DEF ReceiveToken

\* A refresh plans for the row its token owns.
LEMMA DecideRefreshTypes ==
  ASSUME TypeOK, NEW r \in Requests, DecideRefresh(r)
  PROVE  TypeOK'
<1>1. call' \in [Requests -> Calls] /\ UNCHANGED today
  BY DEF DecideRefresh, TypeOK
<1> DEFINE i == call[r].inst
<1>2. i \in Installations
  BY DEF DecideRefresh, TypeOK, Calls
<1>3. CASE \/ Refuse(r, "unauthorized") \/ Refuse(r, "deactivated")
           \/ Refuse(r, "not_eligible") \/ Refuse(r, "failed")
  BY <1>1, <1>3, RefuseTypes DEF Refusal
<1>4. CASE /\ ~Exhausted(i)
           /\ LockRow(r, i)
           /\ plan' = [plan EXCEPT ![r] = [inst |-> i, revision |-> NextRevision(i)]]
           /\ GoTo(r, "signing")
           /\ UNCHANGED licenseLock
  <2>1. [inst |-> i, revision |-> NextRevision(i)] \in Plan
    BY <1>2, <1>4, NextRevisionType, RevisionAssumption DEF Plan
  <2> QED BY <1>1, <1>4, <2>1 DEF TypeOK, LockRow, GoTo, tables
<1> QED BY <1>3, <1>4 DEF DecideRefresh

\* A deactivation plans to keep the revision of the row.
LEMMA DecideDeactivateTypes ==
  ASSUME TypeOK, NEW r \in Requests, DecideDeactivate(r)
  PROVE  TypeOK'
<1>1. call' \in [Requests -> Calls] /\ UNCHANGED today
  BY DEF DecideDeactivate, TypeOK
<1>2. CASE Refuse(r, "unauthorized")
  BY <1>1, <1>2, RefuseTypes DEF Refusal
<1>3. ASSUME NEW i \in TokenOwners(call[r].token),
             LockRow(r, i),
             plan' = [plan EXCEPT ![r] = [inst |-> i, revision |-> rows[i].revision]],
             GoTo(r, "saved"), UNCHANGED licenseLock
      PROVE  TypeOK'
  <2>1. [inst |-> i, revision |-> rows[i].revision] \in Plan
    BY DEF Plan, TypeOK, Row, TokenOwners
  <2> QED BY <1>1, <1>3, <2>1 DEF TypeOK, LockRow, GoTo, tables, TokenOwners
<1> QED BY <1>2, <1>3 DEF DecideDeactivate

\* The row, the replay record, the entitlement and the answer of an activation
\* are all built from its call and its plan.
LEMMA CommitActivateTypes ==
  ASSUME TypeOK, NEW r \in Requests, Reserved(r), CommitActivate(r)
  PROVE  TypeOK'
<1> DEFINE c == call[r]
           i == plan[r].inst
           rec == [key |-> c.key, idem |-> c.idem, inst |-> i, token |-> r,
                   revision |-> plan[r].revision, day |-> c.day]
<1>1. call' \in [Requests -> Calls] /\ UNCHANGED today
  BY DEF CommitActivate, TypeOK
<1>2. CASE Refuse(r, "failed")
  BY <1>1, <1>2, RefuseTypes DEF Refusal
<1>3. CASE /\ rows' = [rows EXCEPT ![i] =
                 [state |-> "active", revision |-> plan[r].revision, token |-> r]]
           /\ records' = (records \ StaleRecords(c)) \cup {rec}
           /\ issued' = issued \cup {Signed(r)}
           /\ Finish(r, [status |-> "ok", token |-> r, revision |-> plan[r].revision])
           /\ UNCHANGED <<keyState, license, dates, plan>>
  <2>1. i \in Installations /\ plan[r].revision \in 1..MaxRevision
    BY DEF CommitActivate, TypeOK, Plan, Reserved, Signing
  <2>2. plan[r].revision \in 0..MaxRevision
    BY <2>1
  <2>3. c.key \in Keys /\ c.idem \in IdempotencyKeys /\ c.day \in 0..MaxDay
    BY DEF CommitActivate, TypeOK, Calls
  <2>4. rows' \in [Installations -> Row]
    BY <1>3, <2>2 DEF TypeOK, Row
  <2>5. rec \in Record /\ Signed(r) \in Entitlement
    BY <2>1, <2>3 DEF TypeOK, Record, Signed, Entitlement
  <2>6. records' \subseteq Record /\ issued' \subseteq Entitlement
    BY <1>3, <2>5 DEF TypeOK, StaleRecords
  <2>7. [status |-> "ok", token |-> r, revision |-> plan[r].revision] \in Success
    BY <2>2 DEF Success
  <2> QED BY <1>1, <1>3, <2>4, <2>6, <2>7, FinishTypes DEF TypeOK
<1> QED BY <1>2, <1>3 DEF CommitActivate

\* A refresh writes the planned revision into a row that is there.
LEMMA CommitRefreshTypes ==
  ASSUME TypeOK, NEW r \in Requests, Reserved(r), CommitRefresh(r)
  PROVE  TypeOK'
<1> DEFINE i == plan[r].inst
<1>1. i \in Installations /\ plan[r].revision \in 1..MaxRevision
  BY DEF CommitRefresh, TypeOK, Plan, Reserved, Signing
<1>2. plan[r].revision \in 0..MaxRevision
  BY <1>1
<1>3. rows' \in [Installations -> Row]
  BY <1>1, <1>2 DEF CommitRefresh, TypeOK, Row
<1>4. Signed(r) \in Entitlement
  BY <1>1 DEF TypeOK, Signed, Entitlement
<1>5. [status |-> "ok", token |-> NoOne, revision |-> plan[r].revision] \in Success
  BY <1>2 DEF Success
<1> QED BY <1>3, <1>4, <1>5, FinishTypes DEF CommitRefresh, TypeOK

\* A deactivation writes the state of one row.
LEMMA CommitDeactivateTypes ==
  ASSUME TypeOK, NEW r \in Requests, CommitDeactivate(r)
  PROVE  TypeOK'
<1>1. rows' \in [Installations -> Row]
  BY DEF CommitDeactivate, TypeOK, Row, Plan
<1>2. [status |-> "ok", token |-> NoOne, revision |-> 0] \in Success
  BY RevisionAssumption DEF Success
<1> QED BY <1>1, <1>2, FinishTypes DEF CommitDeactivate, TypeOK

\* Billing and the operator wait for the license row, and touch nothing but it
\* and its dates.
LEMMA BillTouches ==
  ASSUME AdjustLicense
  PROVE  /\ licenseLock = NoOne
         /\ UNCHANGED <<rows, records, keyState, today, locks, requests>>
BY DEF AdjustLicense, RestrictLicense, RestoreLicense, RevokeLicense, Bill

\* They leave a license and dates there can be.
LEMMA BillTypes ==
  ASSUME TypeOK, AdjustLicense
  PROVE  license' \in {"active", "restricted", "revoked"} /\ dates' \in Dates
<1>1. TerminalDates \subseteq Dates
  BY NoDatesType DEF TerminalDates
<1>2. PaidDates(0) \subseteq Dates
  BY PaidDatesType
<1>3. CASE RestrictLicense
  BY <1>1, <1>3 DEF RestrictLicense, Bill
<1>4. CASE RestoreLicense
  BY <1>2, <1>4 DEF RestoreLicense, Bill
<1>5. CASE RevokeLicense
  BY <1>5 DEF RevokeLicense, Bill, TypeOK
<1> QED BY <1>3, <1>4, <1>5 DEF AdjustLicense

\* The other steps touch one variable each.
LEMMA OtherTypes ==
  ASSUME TypeOK,
         \/ \E r \in Requests : LockLicense(r) \/ Save(r) \/ RollBack(r)
         \/ \E i \in Installations : DeactivateManaged(i)
         \/ \E k \in Keys : RotateLicenseKey(k)
         \/ AdjustLicense
         \/ \E rec \in records : CleanupRecord(rec)
         \/ Tick
         \/ UNCHANGED vars
  PROVE  TypeOK'
<1>1. ASSUME NEW r \in Requests, LockLicense(r) PROVE TypeOK'
  BY <1>1 DEF LockLicense, TakeLicense, GoTo, TypeOK, tables
<1>2. ASSUME NEW r \in Requests, Save(r) PROVE TypeOK'
  BY <1>2 DEF Save, LockRow, GoTo, TypeOK, tables, Plan
<1>3. ASSUME NEW r \in Requests, RollBack(r) PROVE TypeOK'
  BY <1>3, RefuseTypes DEF RollBack, Refusal, TypeOK
<1>4. ASSUME NEW i \in Installations, DeactivateManaged(i) PROVE TypeOK'
  BY <1>4 DEF DeactivateManaged, TypeOK, Row, locks, requests
<1>5. ASSUME NEW k \in Keys, RotateLicenseKey(k) PROVE TypeOK'
  BY <1>5 DEF RotateLicenseKey, TypeOK, locks, requests
<1>6. CASE AdjustLicense
  BY <1>6, BillTouches, BillTypes DEF TypeOK, locks, requests
<1>7. ASSUME NEW rec \in records, CleanupRecord(rec) PROVE TypeOK'
  BY <1>7 DEF CleanupRecord, TypeOK, locks, requests
<1>8. CASE Tick
  BY <1>8, TimeAssumption DEF Tick, TypeOK, tables, locks, requests
<1>9. CASE UNCHANGED vars
  BY <1>9 DEF vars, TypeOK
<1> QED BY <1>1, <1>2, <1>3, <1>4, <1>5, <1>6, <1>7, <1>8, <1>9

\* Every step of the specification preserves TypeOK.
LEMMA TypeStep ==
  ASSUME TypeOK, \A r \in Requests : Reserved(r), [Next]_vars
  PROVE  TypeOK'
<1>1. ASSUME NEW r \in Requests,
             \/ ReceiveActivate(r) \/ ReceiveToken(r) \/ BeginActivate(r)
             \/ DecideActivate(r) \/ DecideRefresh(r) \/ DecideDeactivate(r)
             \/ CommitActivate(r) \/ CommitRefresh(r) \/ CommitDeactivate(r)
      PROVE  TypeOK'
  BY <1>1, ReceiveActivateTypes, ReceiveTokenTypes, BeginActivateTypes,
     DecideActivateTypes, DecideRefreshTypes, DecideDeactivateTypes,
     CommitActivateTypes, CommitRefreshTypes, CommitDeactivateTypes
<1> QED BY <1>1, OtherTypes DEF Next, Work

-----------------------------------------------------------------------------
(* Reservations *)

\* Slots can be counted: any set of installations is finite.
LEMMA SlotsFinite ==
  ASSUME NEW S \in SUBSET Installations
  PROVE  IsFiniteSet(S) /\ Cardinality(S) \in Nat
BY FS_Subset, FS_CardinalityType, InstallationsAssumption

\* A set of slots within another counts no more than it.
LEMMA FewerSlots ==
  ASSUME NEW T \in SUBSET Installations, NEW S \in SUBSET T
  PROVE  Cardinality(S) <= Cardinality(T)
BY FS_Subset, SlotsFinite

\* A request keeps what it reserved across any step that leaves it where it is,
\* takes no lock from it, and changes only other activations.
LEMMA ReservedKept ==
  ASSUME TypeOK, TypeOK', NEW q \in Requests, Reserved(q),
         pc'[q] = pc[q], call'[q] = call[q], plan'[q] = plan[q],
         licenseLock = q => licenseLock' = q,
         Signing(q) =>
           /\ license' = license /\ joined'[q] = joined[q]
           /\ rows'[plan[q].inst].revision = rows[plan[q].inst].revision
           /\ ActiveSlots' \subseteq ActiveSlots
           /\ rowLock[plan[q].inst] = q =>
                /\ rowLock'[plan[q].inst] = q
                /\ rows'[plan[q].inst] = rows[plan[q].inst]
  PROVE  Reserved(q)'
<1>1. Signing(q)' <=> Signing(q)
  BY DEF Signing
<1>2. ASSUME Signing(q)', call'[q].op = "activate"
      PROVE  Cardinality(ActiveSlots' \cup {plan'[q].inst}) <= MaximumActivations
  <2> DEFINE S == ActiveSlots \cup {plan[q].inst}
             T == ActiveSlots' \cup {plan'[q].inst}
  <2>1. S \in SUBSET Installations /\ T \in SUBSET S
    BY <1>1, <1>2 DEF ActiveSlots, TypeOK, Plan
  <2>2. Cardinality(S) <= MaximumActivations
    BY <1>1, <1>2 DEF Reserved
  <2>3. Cardinality(T) <= Cardinality(S) /\ Cardinality(T) \in Nat /\ Cardinality(S) \in Nat
    BY <2>1, FewerSlots, SlotsFinite
  <2> QED BY <2>2, <2>3, LimitAssumption
<1>3. Signing(q) => Entitled(q)'
  BY DEF Reserved, Entitled
<1> QED BY <1>1, <1>2, <1>3 DEF Reserved

\* The same, when the activations are left alone altogether.
LEMMA ReservedUntouched ==
  ASSUME TypeOK, TypeOK', NEW q \in Requests, Reserved(q),
         pc'[q] = pc[q], call'[q] = call[q], plan'[q] = plan[q],
         licenseLock = q => licenseLock' = q,
         \A i \in Installations : rowLock[i] = q => rowLock'[i] = q,
         UNCHANGED rows, joined'[q] = joined[q],
         licenseLock = q => license' = license
  PROVE  Reserved(q)'
<1>1. Signing(q) => licenseLock = q /\ plan[q].inst \in Installations
  BY DEF Reserved, Signing, TypeOK, Plan
<1> QED BY <1>1, ReservedKept DEF ActiveSlots

\* Finish releases only the locks of its own request.
LEMMA FinishKeepsOthers ==
  ASSUME TypeOK, NEW r \in Requests, NEW q \in Requests, q # r, NEW a, Finish(r, a)
  PROVE  /\ pc'[q] = pc[q] /\ joined'[q] = joined[q]
         /\ licenseLock = q => licenseLock' = q
         /\ \A i \in Installations : rowLock[i] = q => rowLock'[i] = q
BY DEF Finish, TypeOK

\* A finished request has nothing reserved.
LEMMA FinishedReservesNothing ==
  ASSUME TypeOK, NEW r \in Requests, NEW a, Finish(r, a)
  PROVE  Reserved(r)'
BY DEF Finish, TypeOK, Reserved, Signing

\* A refusal disturbs no reservation: the requests that reserved something
\* keep their locks, and no row changes.
LEMMA RefusedReserved ==
  ASSUME TypeOK, TypeOK', \A q \in Requests : Reserved(q),
         NEW r \in Requests, NEW status, Refuse(r, status),
         \A q \in Requests \ {r} : call'[q] = call[q]
  PROVE  \A q \in Requests : Reserved(q)'
<1>1. Finish(r, [status |-> status]) /\ UNCHANGED <<rows, license, plan>>
  BY DEF Refuse, tables
<1>2. Reserved(r)'
  BY <1>1, FinishedReservesNothing
<1>3. ASSUME NEW q \in Requests \ {r} PROVE Reserved(q)'
  BY <1>1, <1>3, FinishKeepsOthers, ReservedUntouched
<1> QED BY <1>2, <1>3

\* Moving one request to another stage without taking or dropping a lock.
LEMMA MovedReserved ==
  ASSUME TypeOK, TypeOK', \A q \in Requests : Reserved(q),
         NEW r \in Requests, NEW stage, GoTo(r, stage),
         UNCHANGED <<licenseLock, rowLock>>,
         \A q \in Requests \ {r} : call'[q] = call[q] /\ plan'[q] = plan[q],
         Reserved(r)'
  PROVE  \A q \in Requests : Reserved(q)'
<1>1. ASSUME NEW q \in Requests \ {r} PROVE Reserved(q)'
  BY <1>1, ReservedUntouched DEF GoTo, tables, TypeOK
<1> QED BY <1>1

\* Receiving an activation takes no lock and changes no row.
LEMMA ReceiveActivateReserved ==
  ASSUME TypeOK, TypeOK', \A q \in Requests : Reserved(q),
         NEW r \in Requests, ReceiveActivate(r)
  PROVE  \A q \in Requests : Reserved(q)'
<1>1. \A q \in Requests \ {r} : call'[q] = call[q]
  BY DEF ReceiveActivate, TypeOK
<1>2. CASE Refuse(r, "rate_limited")
  BY <1>1, <1>2, RefusedReserved
<1>3. ASSUME NEW a, Finish(r, a), UNCHANGED <<tables, plan, issued>>
      PROVE  \A q \in Requests : Reserved(q)'
  BY <1>1, <1>3, FinishedReservesNothing, FinishKeepsOthers, ReservedUntouched DEF tables
<1>4. CASE GoTo(r, "begin") /\ UNCHANGED <<locks, plan>>
  <2>1. pc'[r] = "begin" /\ call'[r].op = "activate"
    BY <1>4 DEF ReceiveActivate, GoTo, TypeOK
  <2>2. Reserved(r)'
    BY <2>1 DEF Reserved, Signing
  <2> QED BY <1>1, <1>4, <2>2, MovedReserved DEF locks
<1> QED BY <1>2, <1>3, <1>4 DEF ReceiveActivate

\* Nor does beginning its transaction.
LEMMA BeginActivateReserved ==
  ASSUME TypeOK, TypeOK', \A q \in Requests : Reserved(q),
         NEW r \in Requests, BeginActivate(r)
  PROVE  \A q \in Requests : Reserved(q)'
<1>1. UNCHANGED call
  BY DEF BeginActivate
<1>2. CASE Refuse(r, "busy") \/ Refuse(r, "unauthorized")
  BY <1>1, <1>2, RefusedReserved
<1>3. ASSUME NEW a, Finish(r, a), UNCHANGED <<tables, plan, issued>>
      PROVE  \A q \in Requests : Reserved(q)'
  BY <1>1, <1>3, FinishedReservesNothing, FinishKeepsOthers, ReservedUntouched DEF tables
<1>4. CASE GoTo(r, "license") /\ UNCHANGED <<locks, plan>>
  <2>1. Reserved(r)'
    BY <1>4 DEF Reserved, Signing, GoTo, TypeOK
  <2> QED BY <1>1, <1>4, <2>1, MovedReserved DEF locks
<1> QED BY <1>2, <1>3, <1>4 DEF BeginActivate

\* Nor does receiving a refresh or a deactivation.
LEMMA ReceiveTokenReserved ==
  ASSUME TypeOK, TypeOK', \A q \in Requests : Reserved(q),
         NEW r \in Requests, ReceiveToken(r)
  PROVE  \A q \in Requests : Reserved(q)'
<1>1. \A q \in Requests \ {r} : call'[q] = call[q]
  BY DEF ReceiveToken, TypeOK
<1>2. CASE Refuse(r, "busy") \/ Refuse(r, "unauthorized")
  BY <1>1, <1>2, RefusedReserved
<1>3. CASE GoTo(r, "license") /\ UNCHANGED <<locks, plan>>
  <2>1. Reserved(r)'
    BY <1>3 DEF Reserved, Signing, GoTo, TypeOK
  <2> QED BY <1>1, <1>3, <2>1, MovedReserved DEF locks
<1> QED BY <1>2, <1>3 DEF ReceiveToken

\* A step of the request that takes or already holds the license row.
LEMMA HolderReserved ==
  ASSUME TypeOK, TypeOK', \A q \in Requests : Reserved(q),
         NEW r \in Requests, licenseLock \in {NoOne, r},
         \A q \in Requests \ {r} : pc'[q] = pc[q] /\ call'[q] = call[q] /\ plan'[q] = plan[q],
         Reserved(r)'
  PROVE  \A q \in Requests : Reserved(q)'
<1>1. ASSUME NEW q \in Requests \ {r} PROVE Reserved(q)'
  <2>1. licenseLock # q /\ Reserved(q)
    BY <1>1, NoOneAssumption
  <2>2. pc[q] \notin {"row", "signing", "saved"} /\ (pc[q] = "begin" => call[q].op = "activate")
    BY <2>1 DEF Reserved
  <2>3. pc'[q] = pc[q] /\ call'[q] = call[q]
    BY <1>1
  <2>4. ~Signing(q)'
    BY <2>2, <2>3 DEF Signing
  <2> QED BY <2>2, <2>3, <2>4 DEF Reserved
<1> QED BY <1>1

\* The license is free, so the slot this request counts is still counted when
\* it commits.
LEMMA DecideActivateReserved ==
  ASSUME TypeOK, TypeOK', \A q \in Requests : Reserved(q), SlotLimit,
         NEW r \in Requests, DecideActivate(r)
  PROVE  \A q \in Requests : Reserved(q)'
<1>1. UNCHANGED call /\ licenseLock = NoOne /\ call[r].op = "activate"
  BY DEF DecideActivate
<1> DEFINE i == call[r].inst
<1>2. i \in Installations
  BY <1>1 DEF TypeOK, Calls
<1>3. CASE Refuse(r, "not_eligible") \/ Refuse(r, "limit") \/ Refuse(r, "failed")
  BY <1>1, <1>3, RefusedReserved
<1>4. CASE /\ Entitled(r)
           /\ ~(NeedsSlot(i) /\ SlotsFull)
           /\ ~Exhausted(i)
           /\ TakeLicense(r)
           /\ plan' = [plan EXCEPT ![r] = [inst |-> i, revision |-> NextRevision(i)]]
           /\ GoTo(r, "signing")
           /\ UNCHANGED rowLock
  <2>1. /\ pc'[r] = "signing" /\ plan'[r].inst = i /\ plan'[r].revision = NextRevision(i)
        /\ licenseLock' = r /\ UNCHANGED <<rows, license, joined>>
    BY <1>4 DEF GoTo, TypeOK, TakeLicense, tables
  <2>2. plan'[r].revision = rows'[i].revision + 1 /\ plan'[r].revision \in 1..MaxRevision
    BY <1>2, <1>4, <2>1, NextRevisionType DEF NextRevision
  <2>3. Cardinality(ActiveSlots \cup {i}) <= MaximumActivations
    <3>1. ActiveSlots \in SUBSET Installations
      BY DEF ActiveSlots
    <3>2. CASE NeedsSlot(i)
      <4>1. Cardinality(ActiveSlots) < MaximumActivations
        BY <1>4, <3>1, <3>2, SlotsFinite, LimitAssumption DEF SlotsFull
      <4>2. i \notin ActiveSlots
        BY <3>2 DEF NeedsSlot, ActiveSlots
      <4>3. Cardinality(ActiveSlots \cup {i}) = Cardinality(ActiveSlots) + 1
        BY <3>1, <4>2, SlotsFinite, FS_AddElement
      <4> QED BY <4>1, <4>3, <3>1, SlotsFinite, LimitAssumption
    <3>3. CASE ~NeedsSlot(i)
      <4>1. ActiveSlots \cup {i} = ActiveSlots
        BY <1>2, <3>3 DEF NeedsSlot, ActiveSlots
      <4> QED BY <4>1 DEF SlotLimit
    <3> QED BY <3>2, <3>3
  <2>4. ActiveSlots' = ActiveSlots
    BY <2>1 DEF ActiveSlots
  <2>5. Reserved(r)'
    BY <1>1, <1>4, <2>1, <2>2, <2>3, <2>4 DEF Reserved, Signing, Entitled
  <2> QED BY <1>1, <1>4, <2>5, HolderReserved DEF GoTo, TypeOK
<1> QED BY <1>3, <1>4 DEF DecideActivate

\* Taking the license row leaves nobody else between decision and commit.
LEMMA LockLicenseReserved ==
  ASSUME TypeOK, TypeOK', \A q \in Requests : Reserved(q),
         NEW r \in Requests, LockLicense(r)
  PROVE  \A q \in Requests : Reserved(q)'
<1>1. Reserved(r)'
  BY DEF LockLicense, TakeLicense, GoTo, TypeOK, Reserved, Signing
<1> QED BY <1>1, HolderReserved DEF LockLicense, TakeLicense, GoTo, TypeOK

\* The refresh now holds the row of its token, and the license already.
LEMMA DecideRefreshReserved ==
  ASSUME TypeOK, TypeOK', \A q \in Requests : Reserved(q),
         NEW r \in Requests, DecideRefresh(r)
  PROVE  \A q \in Requests : Reserved(q)'
<1>1. UNCHANGED call /\ licenseLock = r /\ call[r].op = "refresh"
  BY DEF DecideRefresh, Reserved
<1> DEFINE i == call[r].inst
<1>2. i \in Installations
  BY <1>1 DEF TypeOK, Calls
<1>3. CASE \/ Refuse(r, "unauthorized") \/ Refuse(r, "deactivated")
           \/ Refuse(r, "not_eligible") \/ Refuse(r, "failed")
  BY <1>1, <1>3, RefusedReserved
<1>4. CASE /\ i \in TokenOwners(call[r].token)
           /\ rows[i].state = "active"
           /\ Entitled(r)
           /\ ~Exhausted(i)
           /\ LockRow(r, i)
           /\ plan' = [plan EXCEPT ![r] = [inst |-> i, revision |-> NextRevision(i)]]
           /\ GoTo(r, "signing")
           /\ UNCHANGED licenseLock
  <2>1. /\ pc'[r] = "signing" /\ plan'[r].inst = i /\ plan'[r].revision = NextRevision(i)
        /\ UNCHANGED <<rows, license, joined>>
        /\ rowLock'[i] = r
    BY <1>2, <1>4 DEF GoTo, TypeOK, LockRow, tables
  <2>2. plan'[r].revision = rows'[i].revision + 1 /\ plan'[r].revision \in 1..MaxRevision
    BY <1>2, <1>4, <2>1, NextRevisionType DEF NextRevision
  <2>3. rows'[i].token = call'[r].token /\ rows'[i].state = "active"
    BY <1>1, <1>4, <2>1 DEF TokenOwners
  <2>4. Reserved(r)'
    BY <1>1, <1>4, <2>1, <2>2, <2>3 DEF Reserved, Signing, Entitled
  <2> QED BY <1>1, <1>4, <2>4, HolderReserved DEF GoTo, TypeOK
<1> QED BY <1>3, <1>4 DEF DecideRefresh

\* A deactivation reserves only its locks.
LEMMA DecideDeactivateReserved ==
  ASSUME TypeOK, TypeOK', \A q \in Requests : Reserved(q),
         NEW r \in Requests, DecideDeactivate(r)
  PROVE  \A q \in Requests : Reserved(q)'
<1>1. UNCHANGED call /\ licenseLock = r /\ call[r].op = "deactivate"
  BY DEF DecideDeactivate, Reserved
<1>2. CASE Refuse(r, "unauthorized")
  BY <1>1, <1>2, RefusedReserved
<1>3. ASSUME NEW i \in TokenOwners(call[r].token),
             LockRow(r, i),
             plan' = [plan EXCEPT ![r] = [inst |-> i, revision |-> rows[i].revision]],
             GoTo(r, "saved"), UNCHANGED licenseLock
      PROVE  \A q \in Requests : Reserved(q)'
  <2>1. Reserved(r)'
    BY <1>1, <1>3 DEF Reserved, Signing, GoTo, TypeOK
  <2> QED BY <1>1, <1>3, <2>1, HolderReserved DEF GoTo, TypeOK
<1> QED BY <1>2, <1>3 DEF DecideDeactivate

\* Saving adds a row lock to what is reserved.
LEMMA SaveReserved ==
  ASSUME TypeOK, TypeOK', \A q \in Requests : Reserved(q),
         NEW r \in Requests, Save(r)
  PROVE  \A q \in Requests : Reserved(q)'
<1>1. /\ licenseLock = r /\ licenseLock' = r /\ UNCHANGED <<rows, license, joined, plan, call>>
      /\ pc'[r] = "saved"
  <2>1. pc[r] = "signing" /\ GoTo(r, "saved") /\ UNCHANGED <<licenseLock, plan, call>>
    BY DEF Save
  <2>2. UNCHANGED <<rows, license, joined>> /\ pc'[r] = "saved"
    BY <2>1 DEF GoTo, tables, TypeOK
  <2> QED BY <2>1, <2>2 DEF Reserved
<1>2. Signing(r) /\ rowLock'[plan[r].inst] = r
  BY DEF Save, LockRow, Reserved, Signing, TypeOK, Plan
<1>3. ActiveSlots' = ActiveSlots
  BY <1>1 DEF ActiveSlots
<1>4. Reserved(r)'
  BY <1>1, <1>2, <1>3 DEF Reserved, Signing, Entitled
<1> QED BY <1>1, <1>4, HolderReserved DEF Save, GoTo, TypeOK

\* A commit ends its request, and nobody else has decided anything.
LEMMA CommitReserved ==
  ASSUME TypeOK, TypeOK', \A q \in Requests : Reserved(q), NEW r \in Requests,
         pc[r] = "saved", NEW a, Finish(r, a), UNCHANGED <<call, plan>>
  PROVE  \A q \in Requests : Reserved(q)'
<1>1. licenseLock = r /\ Reserved(r)'
  BY FinishedReservesNothing DEF Reserved
<1> QED BY <1>1, HolderReserved DEF Finish, TypeOK

\* A managed release does without the license row, and is harmless all the
\* same: it frees a slot, keeps the revision, and skips a locked row.
LEMMA DeactivateManagedReserved ==
  ASSUME TypeOK, TypeOK', \A q \in Requests : Reserved(q),
         NEW i \in Installations, DeactivateManaged(i)
  PROVE  \A q \in Requests : Reserved(q)'
<1>1. /\ rows' = [rows EXCEPT ![i].state = "deactivated"]
      /\ rowLock[i] = NoOne
      /\ UNCHANGED <<license, licenseLock, rowLock, pc, call, joined, plan>>
  BY DEF DeactivateManaged, locks, requests
<1>2. ActiveSlots' \subseteq ActiveSlots
  BY <1>1 DEF ActiveSlots, TypeOK
<1>3. ASSUME NEW q \in Requests PROVE Reserved(q)'
  <2>1. plan[q].inst \in Installations
    BY DEF TypeOK, Plan
  <2>2. rows'[plan[q].inst].revision = rows[plan[q].inst].revision
    BY <1>1, <2>1 DEF TypeOK, Row
  <2>3. rowLock[plan[q].inst] = q => rows'[plan[q].inst] = rows[plan[q].inst]
    BY <1>1, <2>1, NoOneAssumption DEF TypeOK
  <2> QED BY <1>1, <1>2, <2>2, <2>3, ReservedKept
<1> QED BY <1>3

\* Every step preserves every reservation.
LEMMA ReservedStep ==
  ASSUME TypeOK, TypeOK', \A q \in Requests : Reserved(q), SlotLimit, [Next]_vars
  PROVE  \A q \in Requests : Reserved(q)'
<1>1. ASSUME NEW r \in Requests,
             \/ ReceiveActivate(r) \/ ReceiveToken(r) \/ BeginActivate(r)
             \/ DecideActivate(r) \/ LockLicense(r) \/ DecideRefresh(r)
             \/ DecideDeactivate(r) \/ Save(r)
      PROVE  \A q \in Requests : Reserved(q)'
  BY <1>1, ReceiveActivateReserved, ReceiveTokenReserved, BeginActivateReserved,
     DecideActivateReserved, LockLicenseReserved, DecideRefreshReserved,
     DecideDeactivateReserved, SaveReserved
<1>2. ASSUME NEW r \in Requests, CommitActivate(r)
      PROVE  \A q \in Requests : Reserved(q)'
  <2>1. CASE Refuse(r, "failed")
    BY <1>2, <2>1, RefusedReserved DEF CommitActivate
  <2>2. CASE ~Refuse(r, "failed")
    BY <1>2, <2>2, CommitReserved DEF CommitActivate
  <2> QED BY <2>1, <2>2
<1>3. ASSUME NEW r \in Requests, CommitRefresh(r) \/ CommitDeactivate(r)
      PROVE  \A q \in Requests : Reserved(q)'
  BY <1>3, CommitReserved DEF CommitRefresh, CommitDeactivate
<1>4. ASSUME NEW r \in Requests, RollBack(r)
      PROVE  \A q \in Requests : Reserved(q)'
  BY <1>4, RefusedReserved DEF RollBack
<1>5. ASSUME NEW i \in Installations, DeactivateManaged(i)
      PROVE  \A q \in Requests : Reserved(q)'
  BY <1>5, DeactivateManagedReserved
<1>6. CASE AdjustLicense
  <2>1. /\ \A q \in Requests : licenseLock # q
        /\ UNCHANGED <<rows, licenseLock, rowLock, pc, call, joined, plan>>
    BY <1>6, BillTouches, NoOneAssumption DEF locks, requests
  <2> QED BY <2>1, ReservedUntouched
<1>7. CASE \/ \E k \in Keys : RotateLicenseKey(k)
           \/ \E rec \in records : CleanupRecord(rec)
           \/ Tick
           \/ UNCHANGED vars
  <2>1. UNCHANGED <<rows, license, licenseLock, rowLock, pc, call, joined, plan>>
    BY <1>7 DEF RotateLicenseKey, CleanupRecord, Tick, vars, tables, locks, requests
  <2> QED BY <2>1, ReservedUntouched
<1> QED BY <1>1, <1>2, <1>3, <1>4, <1>5, <1>6, <1>7 DEF Next, Work

-----------------------------------------------------------------------------
(* Slots and revisions *)

\* Only three transactions write activations; everything else leaves them, and
\* what was issued, alone.
Writes == \/ \E r \in Requests : CommitActivate(r) \/ CommitRefresh(r) \/ CommitDeactivate(r)
          \/ \E i \in Installations : DeactivateManaged(i)

\* Only the three commits and the managed release write activations.
LEMMA OtherStepsWriteNothing ==
  ASSUME [Next]_vars, ~Writes
  PROVE  UNCHANGED <<rows, issued>>
<1> DEFINE Kept == UNCHANGED <<rows, issued>>
<1>1. ASSUME NEW r \in Requests, NEW x, Refuse(r, x) \/ GoTo(r, x) PROVE Kept
  BY <1>1 DEF Refuse, GoTo, tables
<1>2. ASSUME NEW r \in Requests,
             ReceiveActivate(r) \/ BeginActivate(r) \/ DecideActivate(r) PROVE Kept
  BY <1>1, <1>2 DEF ReceiveActivate, BeginActivate, DecideActivate, tables
<1>3. ASSUME NEW r \in Requests,
             \/ ReceiveToken(r) \/ LockLicense(r) \/ DecideRefresh(r)
             \/ DecideDeactivate(r) \/ Save(r) \/ RollBack(r) PROVE Kept
  BY <1>1, <1>3 DEF ReceiveToken, LockLicense, DecideRefresh, DecideDeactivate, Save, RollBack
<1>4. CASE \/ \E k \in Keys : RotateLicenseKey(k)
           \/ AdjustLicense
           \/ \E rec \in records : CleanupRecord(rec)
           \/ Tick
           \/ UNCHANGED vars
  BY <1>4, BillTouches DEF RotateLicenseKey, CleanupRecord, Tick, tables, requests, vars
<1> QED BY <1>2, <1>3, <1>4 DEF Next, Work, Writes

\* A commit fills only the slot it had counted.
LEMMA SlotLimitStep ==
  ASSUME TypeOK, TypeOK', \A q \in Requests : Reserved(q), SlotLimit, [Next]_vars
  PROVE  SlotLimit'
<1>1. ActiveSlots \in SUBSET Installations
  BY DEF ActiveSlots
<1>2. ASSUME ActiveSlots' \subseteq ActiveSlots PROVE SlotLimit'
  BY <1>1, <1>2, FewerSlots, SlotsFinite, LimitAssumption DEF SlotLimit
<1>3. CASE ~Writes
  BY <1>2, <1>3, OtherStepsWriteNothing DEF ActiveSlots
<1>4. ASSUME NEW r \in Requests, CommitActivate(r) PROVE SlotLimit'
  <2>1. CASE Refuse(r, "failed")
    BY <1>2, <2>1 DEF Refuse, tables, ActiveSlots
  <2>2. CASE ~Refuse(r, "failed")
    <3> DEFINE S == ActiveSlots \cup {plan[r].inst}
    <3>1. S \in SUBSET Installations
      BY <1>1 DEF TypeOK, Plan
    <3>2. ActiveSlots' \in SUBSET S
      BY <1>4, <2>2 DEF CommitActivate, ActiveSlots, TypeOK
    <3>3. Cardinality(S) <= MaximumActivations
      BY <1>4 DEF CommitActivate, Reserved, Signing
    <3> QED BY <3>1, <3>2, <3>3, FewerSlots, SlotsFinite, LimitAssumption DEF SlotLimit
  <2> QED BY <2>1, <2>2
<1>5. ASSUME NEW r \in Requests, CommitRefresh(r) \/ CommitDeactivate(r) PROVE SlotLimit'
  <2>1. ActiveSlots' \subseteq ActiveSlots
    BY <1>5 DEF CommitRefresh, CommitDeactivate, ActiveSlots, TypeOK, Row
  <2> QED BY <1>2, <2>1
<1>6. ASSUME NEW i \in Installations, DeactivateManaged(i) PROVE SlotLimit'
  <2>1. ActiveSlots' \subseteq ActiveSlots
    BY <1>6 DEF DeactivateManaged, ActiveSlots, TypeOK, Row
  <2> QED BY <1>2, <2>1
<1> QED BY <1>3, <1>4, <1>5, <1>6 DEF Writes

\* What is signed is above everything issued before.
LEMMA SignedIsNew ==
  ASSUME TypeOK, IssuedBelow, OneEntitlementPerRevision, NEW r \in Requests,
         plan[r].revision = rows[plan[r].inst].revision + 1,
         \A j \in Installations :
           rows'[j].revision = IF j = plan[r].inst THEN plan[r].revision
                               ELSE rows[j].revision,
         issued' = issued \cup {Signed(r)}
  PROVE  IssuedBelow' /\ OneEntitlementPerRevision'
<1>1. \A e \in issued : e.inst \in Installations /\ e.revision \in Nat
  BY RevisionAssumption DEF TypeOK, Entitlement
<1>2. \A j \in Installations : rows[j].revision \in Nat
  BY RevisionAssumption DEF TypeOK, Row
<1>3. /\ plan[r].inst \in Installations
      /\ Signed(r).inst = plan[r].inst /\ Signed(r).revision = plan[r].revision
  BY DEF TypeOK, Plan, Signed
<1>4. \A e \in issued : e.inst = plan[r].inst => e.revision < plan[r].revision
  BY <1>1, <1>2, <1>3 DEF IssuedBelow
<1>5. IssuedBelow'
  BY <1>1, <1>2, <1>3, <1>4 DEF IssuedBelow
<1>6. OneEntitlementPerRevision'
  BY <1>1, <1>3, <1>4 DEF OneEntitlementPerRevision
<1> QED BY <1>5, <1>6

\* A commit issues the one revision above the stored one, which nothing issued
\* has reached yet.
LEMMA RevisionStep ==
  ASSUME TypeOK, TypeOK', \A q \in Requests : Reserved(q), IssuedBelow,
         OneEntitlementPerRevision, [Next]_vars
  PROVE  IssuedBelow' /\ OneEntitlementPerRevision'
<1>1. ASSUME UNCHANGED issued,
             \A j \in Installations : rows'[j].revision = rows[j].revision
      PROVE  IssuedBelow' /\ OneEntitlementPerRevision'
  BY <1>1 DEF IssuedBelow, OneEntitlementPerRevision, TypeOK, Entitlement
<1>2. CASE ~Writes
  BY <1>1, <1>2, OtherStepsWriteNothing
<1>3. ASSUME NEW r \in Requests, CommitActivate(r)
      PROVE  IssuedBelow' /\ OneEntitlementPerRevision'
  <2>1. CASE Refuse(r, "failed")
    BY <1>1, <2>1 DEF Refuse, tables
  <2>2. CASE ~Refuse(r, "failed")
    <3>1. plan[r].revision = rows[plan[r].inst].revision + 1
      BY <1>3 DEF CommitActivate, Reserved, Signing
    <3> QED BY <1>3, <2>2, <3>1, SignedIsNew DEF CommitActivate, TypeOK
  <2> QED BY <2>1, <2>2
<1>4. ASSUME NEW r \in Requests, CommitRefresh(r)
      PROVE  IssuedBelow' /\ OneEntitlementPerRevision'
  <2>1. plan[r].revision = rows[plan[r].inst].revision + 1
    BY <1>4 DEF CommitRefresh, Reserved, Signing
  <2> QED BY <1>4, <2>1, SignedIsNew DEF CommitRefresh, TypeOK, Row
<1>5. ASSUME NEW r \in Requests, CommitDeactivate(r)
      PROVE  IssuedBelow' /\ OneEntitlementPerRevision'
  BY <1>1, <1>5 DEF CommitDeactivate, TypeOK, Row
<1>6. ASSUME NEW i \in Installations, DeactivateManaged(i)
      PROVE  IssuedBelow' /\ OneEntitlementPerRevision'
  BY <1>1, <1>6 DEF DeactivateManaged, TypeOK, Row, requests
<1> QED BY <1>2, <1>3, <1>4, <1>5, <1>6 DEF Writes

-----------------------------------------------------------------------------
(* Theorems *)

\* The inductive invariant holds initially.
LEMMA InitInv == Init => ActivationsInv
<1> SUFFICES ASSUME Init PROVE ActivationsInv
  OBVIOUS
<1>1. ActiveSlots = {} /\ issued = {}
  BY DEF Init, ActiveSlots
<1>2. SlotLimit
  BY <1>1, FS_EmptySet, LimitAssumption DEF SlotLimit
<1>3. \A r \in Requests : Reserved(r)
  BY DEF Init, Reserved, Signing
<1> QED BY <1>1, <1>2, <1>3, InitTypes
        DEF ActivationsInv, IssuedBelow, OneEntitlementPerRevision

\* The inductive invariant is inductive.
LEMMA InvStep == ActivationsInv /\ [Next]_vars => ActivationsInv'
BY TypeStep, ReservedStep, SlotLimitStep, RevisionStep DEF ActivationsInv

\* In every behaviour of the handlers, whoever has decided keeps what it decided
\* on until its transaction ends.
THEOREM InvHolds == Spec => []ActivationsInv
BY InitInv, InvStep, PTL DEF Spec

\* Every table, lock, request and answer keeps its type, for every number of
\* Macs, requests and keys.
THEOREM TypesHold == Spec => []TypeOK
BY InvHolds, PTL DEF ActivationsInv

\* Whatever keys, retries and releases are in flight, a license never has more
\* active Macs than its maximum.
THEOREM SlotLimitHolds == Spec => []SlotLimit
BY InvHolds, PTL DEF ActivationsInv

\* No revision of a Mac's entitlement is signed and committed twice.
THEOREM OneEntitlementPerRevisionHolds == Spec => []OneEntitlementPerRevision
BY InvHolds, PTL DEF ActivationsInv

\* What is signed is signed, up to the commit, for a license that may be signed
\* for: a perpetual one that is active, a monthly one whose joined dates leave time
\* in the state it is in, never a revoked one; and, on refresh, for an activation
\* that is still active under the token presented.
THEOREM SignedInGoodStandingHolds == Spec => []SignedInGoodStanding
<1>1. ActivationsInv => SignedInGoodStanding
  BY DEF ActivationsInv, Reserved, Signing, SignedInGoodStanding
<1> QED BY InvHolds, <1>1, PTL

-----------------------------------------------------------------------------
(* Refinement *)

\* The abstract numbering, as a function of the rows.
Numbers == [i \in Installations |-> rows[i].revision]

\* Cardinality, as SlotLedger instantiates it, is the same operator.
LEMMA SameCardinality ==
  ASSUME NEW S PROVE Ledger!Cardinality(S) = Cardinality(S)
BY DEF Ledger!Cardinality, Cardinality

\* A committed activation is a Grant of the ledger.
LEMMA CommitActivateGrants ==
  ASSUME ActivationsInv, NEW r \in Requests, NEW i \in Installations,
         i = plan[r].inst, CommitActivate(r), ~Refuse(r, "failed")
  PROVE  Ledger!Grant(i)
<1>1. /\ rows' = [rows EXCEPT ![i] =
             [state |-> "active", revision |-> plan[r].revision, token |-> r]]
      /\ UNCHANGED license
  BY DEF CommitActivate
<1>2. /\ Standing
      /\ plan[r].revision = rows[i].revision + 1
      /\ Cardinality(ActiveSlots \cup {i}) <= MaximumActivations
  BY DEF ActivationsInv, TypeOK, Plan, Reserved, Signing, CommitActivate,
         Entitled, Standing
<1>3. ActiveSlots' = ActiveSlots \cup {i}
  BY <1>1, <1>2 DEF ActiveSlots, ActivationsInv, TypeOK
<1>4. Numbers' = [Numbers EXCEPT ![i] = @ + 1]
  BY <1>1, <1>2 DEF Numbers, ActivationsInv, TypeOK
<1> QED BY <1>1, <1>2, <1>3, <1>4, SameCardinality DEF Ledger!Grant, Numbers, Standing

\* A committed refresh is a Renew of the ledger.
LEMMA CommitRefreshRenews ==
  ASSUME ActivationsInv, NEW r \in Requests, NEW i \in Installations,
         i = plan[r].inst, CommitRefresh(r)
  PROVE  Ledger!Renew(i)
<1>1. /\ rows' = [rows EXCEPT ![i].revision = plan[r].revision]
      /\ UNCHANGED license
  BY DEF CommitRefresh
<1>2. /\ Standing
      /\ plan[r].revision = rows[i].revision + 1
      /\ i \in ActiveSlots
  BY DEF ActivationsInv, TypeOK, Plan, Reserved, Signing, CommitRefresh, ActiveSlots,
         Entitled, Standing
<1>3. ActiveSlots' = ActiveSlots
  BY <1>1, <1>2 DEF ActiveSlots, ActivationsInv, TypeOK, Row
<1>4. Numbers' = [Numbers EXCEPT ![i] = @ + 1]
  BY <1>1, <1>2 DEF Numbers, ActivationsInv, TypeOK, Row
<1> QED BY <1>1, <1>2, <1>3, <1>4 DEF Ledger!Renew, Numbers, Standing

\* DeactivateCurrent and DeactivateManaged change the state of one row.
LEMMA DeactivationReleases ==
  ASSUME ActivationsInv, NEW i \in Installations,
         rows' = [rows EXCEPT ![i].state = "deactivated"], UNCHANGED license
  PROVE  Ledger!Release(i)
<1>1. ActiveSlots' = ActiveSlots \ {i}
  BY DEF ActiveSlots, ActivationsInv, TypeOK, Row
<1>2. Numbers' = Numbers
  BY DEF Numbers, ActivationsInv, TypeOK, Row
<1> QED BY <1>1, <1>2 DEF Ledger!Release, Numbers, Standing

\* Only billing and the operator change the state of the license.
LEMMA OtherStepsStutter ==
  ASSUME [Next]_vars, ~Writes, ~AdjustLicense
  PROVE  UNCHANGED license
<1> DEFINE Kept == UNCHANGED license
<1>1. ASSUME NEW r \in Requests, NEW x, Refuse(r, x) \/ GoTo(r, x) PROVE Kept
  BY <1>1 DEF Refuse, GoTo, tables
<1>2. ASSUME NEW r \in Requests,
             ReceiveActivate(r) \/ BeginActivate(r) \/ DecideActivate(r) PROVE Kept
  BY <1>1, <1>2 DEF ReceiveActivate, BeginActivate, DecideActivate, tables
<1>3. ASSUME NEW r \in Requests,
             \/ ReceiveToken(r) \/ LockLicense(r) \/ DecideRefresh(r)
             \/ DecideDeactivate(r) \/ Save(r) \/ RollBack(r) PROVE Kept
  BY <1>1, <1>3 DEF ReceiveToken, LockLicense, DecideRefresh, DecideDeactivate, Save, RollBack
<1>4. CASE \/ \E k \in Keys : RotateLicenseKey(k)
           \/ \E rec \in records : CleanupRecord(rec)
           \/ Tick
           \/ UNCHANGED vars
  BY <1>4 DEF RotateLicenseKey, CleanupRecord, Tick, tables, requests, vars
<1> QED BY <1>2, <1>3, <1>4 DEF Next, Work, Writes

\* Every step of the handlers is a step of the ledger or leaves it alone.
LEMMA LedgerStep ==
  ASSUME ActivationsInv, [Next]_vars
  PROVE  [Ledger!Next]_(Ledger!ledgerVars)
<1>1. ASSUME UNCHANGED <<rows, license>> PROVE UNCHANGED Ledger!ledgerVars
  BY <1>1 DEF Ledger!ledgerVars, ActiveSlots, Standing
<1>2. CASE ~Writes /\ ~AdjustLicense
  BY <1>1, <1>2, OtherStepsWriteNothing, OtherStepsStutter
<1>3. CASE AdjustLicense
  <2>1. UNCHANGED rows
    BY <1>3, BillTouches
  <2>2. CASE Standing' = Standing
    BY <2>1, <2>2 DEF Ledger!ledgerVars, ActiveSlots
  <2>3. CASE Standing' = ~Standing
    BY <2>1, <2>3 DEF Ledger!Next, Ledger!Judge, ActiveSlots
  <2>4. Standing' \in BOOLEAN /\ Standing \in BOOLEAN
    BY DEF Standing
  <2> QED BY <2>2, <2>3, <2>4
<1>4. ASSUME NEW r \in Requests, CommitActivate(r)
      PROVE  [Ledger!Next]_(Ledger!ledgerVars)
  <2>1. CASE Refuse(r, "failed")
    BY <1>1, <2>1 DEF Refuse, tables
  <2>2. CASE ~Refuse(r, "failed")
    <3>1. PICK i \in Installations : i = plan[r].inst
      BY DEF ActivationsInv, TypeOK, Plan
    <3>2. Ledger!Grant(i)
      BY <1>4, <2>2, <3>1, CommitActivateGrants
    <3> QED BY <3>2 DEF Ledger!Next
  <2> QED BY <2>1, <2>2
<1>5. ASSUME NEW r \in Requests, CommitRefresh(r)
      PROVE  [Ledger!Next]_(Ledger!ledgerVars)
  <2>1. PICK i \in Installations : i = plan[r].inst
    BY DEF ActivationsInv, TypeOK, Plan
  <2>2. Ledger!Renew(i)
    BY <1>5, <2>1, CommitRefreshRenews
  <2> QED BY <2>2 DEF Ledger!Next
<1>6. ASSUME NEW r \in Requests, CommitDeactivate(r)
      PROVE  [Ledger!Next]_(Ledger!ledgerVars)
  <2>1. PICK i \in Installations : i = plan[r].inst
    BY DEF ActivationsInv, TypeOK, Plan
  <2>2. Ledger!Release(i)
    BY <1>6, <2>1, DeactivationReleases DEF CommitDeactivate
  <2> QED BY <2>2 DEF Ledger!Next
<1>7. ASSUME NEW i \in Installations, DeactivateManaged(i)
      PROVE  [Ledger!Next]_(Ledger!ledgerVars)
  BY <1>7, DeactivationReleases DEF DeactivateManaged, Ledger!Next
<1> QED BY <1>2, <1>3, <1>4, <1>5, <1>6, <1>7 DEF Writes

\* Initial states map to the initial state of the ledger.
LEMMA LedgerInit == Init => Ledger!Init
BY DEF Init, Ledger!Init, ActiveSlots, Standing

\* The handlers, with their locks, retries and half-done transactions, behave
\* as if every slot were taken or returned in one atomic step.
THEOREM LedgerImplemented == Spec => ImplementsLedger
<1>1. Spec => [][Ledger!Next]_(Ledger!ledgerVars)
  BY InvHolds, LedgerStep, PTL DEF Spec
<1> QED BY <1>1, LedgerInit, PTL DEF Spec, ImplementsLedger, Ledger!Spec
=============================================================================
