----------------------------- MODULE Activations -----------------------------
(***************************************************************************)
(* The activation slots of one license (internal/activation/service.go,    *)
(* lifecycle.go, management.go): Activate, RefreshEntitlement,             *)
(* DeactivateCurrent and DeactivateManaged, run by concurrent requests     *)
(* against PostgreSQL at READ COMMITTED.                                   *)
(*                                                                         *)
(* A request is a process.  What its transaction writes is visible to      *)
(* others only from its Commit; until then it lives in `plan`.  A request  *)
(* holds an advisory lock on its credential, the row lock of the license   *)
(* and the row lock of one activation, in that order, and the license key  *)
(* it presented may be rotated away while it waits.  The KMS signs between *)
(* the reads and the write.  Any transaction may fail before its commit.   *)
(*                                                                         *)
(* Whether the license may be signed for depends on its state, which is    *)
(* locked, and for a monthly license on the dates of its subscription,     *)
(* which the same statement joins without a lock.  What the dates are made *)
(* of is left to SubscriptionTerms: here they are the days on which        *)
(* entitlements stop, grace included.  `restricted` is refunded or charged *)
(* back, which OrderBilling tells apart.                                   *)
(*                                                                         *)
(* Time is counted in days of the replay store.  Rate limiting is the one  *)
(* decision left open here: a limited request answers and changes nothing  *)
(* of this state.                                                          *)
(***************************************************************************)
EXTENDS Integers, FiniteSets

CONSTANTS
  LicensePlan,         \* licenses.plan
  Installations,       \* installation ids of the Macs
  Requests,            \* HTTP requests; a request mints at most one token
  Keys,                \* license keys the license ever gets, by rotation
  IdempotencyKeys,
  MaximumActivations,
  MaxRevision,         \* stands for MaxInt64, the last revision there is
  ReplayLifetime,      \* idempotencyLifetime, in days
  MaxDay,              \* bound on the clock
  NoTime,              \* terminal_at IS NULL
  NoOne                \* no request

ASSUME PlanAssumption == LicensePlan \in {"perpetual_v1", "monthly"}
ASSUME InstallationsAssumption == IsFiniteSet(Installations)
ASSUME LimitAssumption == MaximumActivations \in Nat
ASSUME RevisionAssumption == MaxRevision \in Nat
ASSUME TimeAssumption == ReplayLifetime \in Nat \ {0} /\ MaxDay \in Nat
ASSUME NoOneAssumption == NoOne \notin Requests
ASSUME NoTimeAssumption == NoTime \notin Int

VARIABLES
  rows,           \* activations: one row per installation
  records,        \* idempotency_records: the 2xx responses kept for replay
  keyState,       \* license_keys
  license,        \* licenses.state
  dates,          \* subscriptions: when entitlements stop
  today,          \* the clock
  licenseLock,    \* who holds the license row
  rowLock,        \* who holds each activation row
  pc,             \* where each request is
  call,           \* what each request asked for
  joined,         \* the dates each open transaction has joined
  plan,           \* what each open transaction is about to write
  answer,         \* what each finished request was told
  issued          \* history: every entitlement committed

tables == <<rows, records, keyState, license, dates>>
locks == <<licenseLock, rowLock>>
requests == <<pc, call, joined, plan, answer, issued>>
vars == <<rows, records, keyState, license, dates, today, licenseLock, rowLock,
          pc, call, joined, plan, answer, issued>>

-----------------------------------------------------------------------------
Row == [state : {"absent", "active", "deactivated"},
        revision : 0..MaxRevision,
        token : Requests \cup {NoOne}]

Calls ==
  [op : {"activate"}, inst : Installations, key : Keys,
   idem : IdempotencyKeys, day : 0..MaxDay]
  \cup [op : {"refresh"}, inst : Installations, token : Requests, day : 0..MaxDay]
  \cup [op : {"deactivate"}, token : Requests]
  \cup [op : {"none"}]

\* recovery_until and terminal_at, with the grace added; day MaxDay + 1 is later
\* than the clock gets.  A perpetual license has no such row.
Dates == [until : 0..(MaxDay + 1), terminal : 0..(MaxDay + 1) \cup {NoTime}]
NoDates == [until |-> 0, terminal |-> NoTime]
PaidDates(from) ==
  IF LicensePlan = "monthly"
  THEN [until : from..(MaxDay + 1), terminal : {NoTime}] ELSE {NoDates}

Plan == [inst : Installations, revision : 0..MaxRevision]

Record == [key : Keys, idem : IdempotencyKeys, inst : Installations,
           token : Requests, revision : 1..MaxRevision, day : 0..MaxDay]

\* 2xx bodies carry the token and the entitlement's revision.
Success == [status : {"ok"}, token : Requests \cup {NoOne},
            revision : 0..MaxRevision]
Refusal == [status : {"rate_limited", "busy", "unauthorized", "conflict",
                      "not_eligible", "limit", "deactivated", "failed"}]
Pending == [status |-> "pending"]

Entitlement == [by : Requests, inst : Installations,
                revision : 1..MaxRevision, at : 0..MaxDay]

Stages == {"idle", "begin", "license", "row", "signing", "saved", "done"}

TypeOK ==
  /\ rows \in [Installations -> Row]
  /\ records \subseteq Record
  /\ keyState \in [Keys -> {"unused", "active", "revoked"}]
  /\ license \in {"active", "restricted", "revoked"}
  /\ dates \in Dates
  /\ today \in 0..MaxDay
  /\ licenseLock \in Requests \cup {NoOne}
  /\ rowLock \in [Installations -> Requests \cup {NoOne}]
  /\ pc \in [Requests -> Stages]
  /\ call \in [Requests -> Calls]
  /\ joined \in [Requests -> Dates]
  /\ plan \in [Requests -> Plan]
  /\ answer \in [Requests -> Success \cup Refusal \cup {Pending}]
  /\ issued \subseteq Entitlement

Init ==
  /\ rows = [i \in Installations |->
               [state |-> "absent", revision |-> 0, token |-> NoOne]]
  /\ records = {}
  /\ \E k \in Keys :
       keyState = [j \in Keys |-> IF j = k THEN "active" ELSE "unused"]
  /\ license = "active"
  /\ dates \in PaidDates(1)
  /\ today = 0
  /\ licenseLock = NoOne
  /\ rowLock = [i \in Installations |-> NoOne]
  /\ pc = [r \in Requests |-> "idle"]
  /\ call = [r \in Requests |-> [op |-> "none"]]
  /\ joined = [r \in Requests |-> NoDates]
  /\ \E i \in Installations :
       plan = [r \in Requests |-> [inst |-> i, revision |-> 0]]
  /\ answer = [r \in Requests |-> Pending]
  /\ issued = {}

-----------------------------------------------------------------------------
ActiveSlots == {i \in Installations : rows[i].state = "active"}

InTransaction(r) == pc[r] \in {"license", "row", "signing", "saved"}

\* The transaction-scoped advisory lock on a credential: a license key for
\* Activate, an activation token for the other two.
Credential(c) == IF c.op = "activate" THEN <<"key", c.key>> ELSE <<"token", c.token>>

\* Variant: no advisory lock is taken.
CredentialFree(c) == FALSE
CredentialBusy(c) ==
  \E q \in Requests : InTransaction(q) /\ Credential(call[q]) = Credential(c)

\* loadIdempotency: the unexpired record of this key, if any.  The request
\* compares expiry with the time at which it began.
Replay(c) ==
  {rec \in records : /\ rec.key = c.key
                     /\ rec.idem = c.idem
                     /\ rec.day + ReplayLifetime > c.day}

\* Variant: the stored request hash is not compared.
AnsweredUnchecked(c) ==
  LET rec == CHOOSE rec \in Replay(c) : TRUE
  IN  [status |-> "ok", token |-> rec.token, revision |-> rec.revision]
Answered(c) ==
  IF \E rec \in Replay(c) : rec.inst # c.inst
  THEN [status |-> "conflict"]
  ELSE LET rec == CHOOSE rec \in Replay(c) : TRUE
       IN [status |-> "ok", token |-> rec.token, revision |-> rec.revision]

\* Answer r; the end of its transaction, if it has one, drops its locks.
Finish(r, a) ==
  /\ pc' = [pc EXCEPT ![r] = "done"]
  /\ joined' = [joined EXCEPT ![r] = NoDates]
  /\ answer' = [answer EXCEPT ![r] = a]
  /\ licenseLock' = IF licenseLock = r THEN NoOne ELSE licenseLock
  /\ rowLock' = [i \in Installations |->
                   IF rowLock[i] = r THEN NoOne ELSE rowLock[i]]

Refuse(r, status) ==
  /\ Finish(r, [status |-> status])
  /\ UNCHANGED <<tables, plan, issued>>

\* A statement that waits for the license has joined the subscription when it
\* began to: the lock is on the license row alone (FOR NO KEY UPDATE OF l).
GoTo(r, stage) ==
  /\ pc' = [pc EXCEPT ![r] = stage]
  /\ joined' = IF stage = "license" THEN [joined EXCEPT ![r] = dates] ELSE joined
  /\ UNCHANGED <<answer, tables, issued>>

TokenOwners(t) == {i \in Installations : rows[i].token = t}

-----------------------------------------------------------------------------
(* Activate *)

\* The replay lookup before any transaction, then the rate limits, which
\* commit on their own.
ReceiveActivate(r) ==
  \E i \in Installations, k \in Keys, m \in IdempotencyKeys :
    LET c == [op |-> "activate", inst |-> i, key |-> k, idem |-> m, day |-> today]
    IN  /\ pc[r] = "idle"
        /\ keyState[k] # "unused"
        /\ call' = [call EXCEPT ![r] = c]
        /\ \/ /\ Replay(c) # {}
              /\ Finish(r, Answered(c))
              /\ UNCHANGED <<tables, plan, issued>>
           \/ /\ Replay(c) = {}
              /\ Refuse(r, "rate_limited")
           \/ /\ Replay(c) = {}
              /\ GoTo(r, "begin")
              /\ UNCHANGED <<locks, plan>>
        /\ UNCHANGED today

\* Begin the transaction: take the credential or give up, look the replay up
\* again, and start the statement that reads the key.  Its snapshot is taken
\* here; the row lock it then waits for does not read license_keys again.
BeginActivate(r) ==
  /\ pc[r] = "begin"
  /\ \/ /\ CredentialBusy(call[r])
        /\ Refuse(r, "busy")
     \/ /\ ~CredentialBusy(call[r])
        /\ Replay(call[r]) # {}
        /\ Finish(r, Answered(call[r]))
        /\ UNCHANGED <<tables, plan, issued>>
     \/ /\ ~CredentialBusy(call[r])
        /\ Replay(call[r]) = {}
        /\ keyState[call[r].key] # "active"
        /\ Refuse(r, "unauthorized")
     \/ /\ ~CredentialBusy(call[r])
        /\ Replay(call[r]) = {}
        /\ keyState[call[r].key] = "active"
        /\ GoTo(r, "license")
        /\ UNCHANGED <<locks, plan>>
  /\ UNCHANGED <<call, today>>

\* Variant: the license is read without FOR NO KEY UPDATE.
ReadLicense(r) == UNCHANGED licenseLock

\* SELECT ... FOR NO KEY UPDATE OF the license: wait for its row, then hold it.
TakeLicense(r) ==
  /\ licenseLock = NoOne
  /\ licenseLock' = r

\* Variant: the activation is read without FOR UPDATE.
ReadRow(r, i) == UNCHANGED rowLock

\* SELECT ... FOR UPDATE of an activation: wait for its row, then hold it.
LockRow(r, i) ==
  /\ rowLock[i] \in {NoOne, r}
  /\ rowLock' = [rowLock EXCEPT ![i] = r]

\* Variant: the revision is compared only after it was incremented.
ExhaustedLate(i) == rows[i].revision > MaxRevision
Exhausted(i) == rows[i].revision = MaxRevision

\* Variant: an activation that was released starts over.
RevisionRestarted(i) == IF rows[i].state = "active" THEN rows[i].revision + 1 ELSE 1
NextRevision(i) == rows[i].revision + 1

\* entitlementTerms: the license as it is locked, the subscription as joined, the
\* time as noted by the call.
Entitled(r) ==
  \/ LicensePlan = "perpetual_v1" /\ license = "active"
  \/ LicensePlan = "monthly" /\ license = "active" /\ call[r].day < joined[r].until
  \/ /\ LicensePlan = "monthly" /\ license = "restricted"
     /\ joined[r].terminal # NoTime /\ call[r].day < joined[r].terminal

\* "terminal monthly license has no terminal time": it was restricted after its
\* subscription had been joined.
Inconsistent(r) ==
  LicensePlan = "monthly" /\ license = "restricted" /\ joined[r].terminal = NoTime

NeedsSlot(i) == rows[i].state # "active"
SlotsFull == Cardinality(ActiveSlots) >= MaximumActivations

\* With the license locked: eligibility, the activation row (read without a
\* lock of its own), the slot count, and the revision to sign.
DecideActivate(r) ==
  /\ pc[r] = "license"
  /\ call[r].op = "activate"
  /\ licenseLock = NoOne
  /\ LET i == call[r].inst IN
     \/ Inconsistent(r) /\ Refuse(r, "failed")
     \/ ~Inconsistent(r) /\ ~Entitled(r) /\ Refuse(r, "not_eligible")
     \/ Entitled(r) /\ NeedsSlot(i) /\ SlotsFull /\ Refuse(r, "limit")
     \/ /\ Entitled(r)
        /\ ~(NeedsSlot(i) /\ SlotsFull)
        /\ Exhausted(i)
        /\ Refuse(r, "failed")
     \/ /\ Entitled(r)
        /\ ~(NeedsSlot(i) /\ SlotsFull)
        /\ ~Exhausted(i)
        /\ TakeLicense(r)
        /\ plan' = [plan EXCEPT ![r] =
                       [inst |-> i, revision |-> NextRevision(i)]]
        /\ GoTo(r, "signing")
        /\ UNCHANGED rowLock
  /\ UNCHANGED <<call, today>>

-----------------------------------------------------------------------------
(* RefreshEntitlement and DeactivateCurrent *)

\* Take the token's advisory lock or give up, find whose token it is without
\* locking the row, and start the statement that locks the license.  The time was
\* noted before the transaction began.
ReceiveToken(r) ==
  \E c \in [op : {"refresh"}, inst : Installations, token : Requests, day : 0..today]
           \cup [op : {"deactivate"}, token : Requests] :
    /\ pc[r] = "idle"
    /\ pc[c.token] = "done"
    /\ call' = [call EXCEPT ![r] = c]
    /\ \/ CredentialBusy(c) /\ Refuse(r, "busy")
       \/ /\ ~CredentialBusy(c)
          /\ TokenOwners(c.token) = {}
          /\ Refuse(r, "unauthorized")
       \/ /\ ~CredentialBusy(c)
          /\ TokenOwners(c.token) # {}
          /\ GoTo(r, "license")
          /\ UNCHANGED <<locks, plan>>
    /\ UNCHANGED today

\* Variant: the activation row is locked before the license.
LockRowFirst(r) ==
  /\ pc[r] = "license"
  /\ call[r].op \in {"refresh", "deactivate"}
  /\ \/ TokenOwners(call[r].token) = {} /\ Refuse(r, "unauthorized")
     \/ \E i \in TokenOwners(call[r].token) :
          \/ /\ rowLock[i] = NoOne
             /\ LockRow(r, i)
             /\ UNCHANGED <<licenseLock, pc, joined, answer, tables, issued, plan>>
          \/ /\ rowLock[i] = r
             /\ TakeLicense(r)
             /\ GoTo(r, "row")
             /\ UNCHANGED <<rowLock, plan>>
  /\ UNCHANGED <<call, today>>

\* Activation mutations lock the license before the activation row.
LockLicense(r) ==
  /\ pc[r] = "license"
  /\ call[r].op \in {"refresh", "deactivate"}
  /\ TakeLicense(r)
  /\ GoTo(r, "row")
  /\ UNCHANGED <<rowLock, plan, call, today>>

\* findActivationByToken reads the row again, now locked: the token may have
\* been replaced while the request waited for the license.
DecideRefresh(r) ==
  /\ pc[r] = "row"
  /\ call[r].op = "refresh"
  /\ \/ /\ call[r].inst \notin TokenOwners(call[r].token)
        /\ Refuse(r, "unauthorized")
     \/ /\ call[r].inst \in TokenOwners(call[r].token)
        /\ rowLock[call[r].inst] \in {NoOne, r}
        /\ LET i == call[r].inst IN
           \/ rows[i].state = "deactivated" /\ Refuse(r, "deactivated")
           \/ /\ rows[i].state = "active"
              /\ ~Inconsistent(r) /\ ~Entitled(r)
              /\ Refuse(r, "not_eligible")
           \/ /\ rows[i].state = "active"
              /\ Inconsistent(r) \/ (Entitled(r) /\ Exhausted(i))
              /\ Refuse(r, "failed")
           \/ /\ rows[i].state = "active"
              /\ Entitled(r)
              /\ ~Exhausted(i)
              /\ LockRow(r, i)
              /\ plan' = [plan EXCEPT ![r] =
                             [inst |-> i, revision |-> NextRevision(i)]]
              /\ GoTo(r, "signing")
              /\ UNCHANGED licenseLock
  /\ UNCHANGED <<call, today>>

\* A repeated deactivation finds the row deactivated and succeeds again.
DecideDeactivate(r) ==
  /\ pc[r] = "row"
  /\ call[r].op = "deactivate"
  /\ \/ /\ TokenOwners(call[r].token) = {}
        /\ Refuse(r, "unauthorized")
     \/ \E i \in TokenOwners(call[r].token) :
          /\ LockRow(r, i)
          /\ plan' = [plan EXCEPT ![r] = [inst |-> i, revision |-> rows[i].revision]]
          /\ GoTo(r, "saved")
          /\ UNCHANGED licenseLock
  /\ UNCHANGED <<call, today>>

-----------------------------------------------------------------------------
(* The ends of a transaction *)

\* The KMS has signed; write the row.  A row already there is locked by the
\* UPDATE; RefreshEntitlement holds it since it read it.
Save(r) ==
  /\ pc[r] = "signing"
  /\ LockRow(r, plan[r].inst)
  /\ GoTo(r, "saved")
  /\ UNCHANGED <<licenseLock, plan, call, today>>

Signed(r) == [by |-> r, inst |-> plan[r].inst, revision |-> plan[r].revision,
              at |-> today]

\* storeAndCommit replaces a record only once it has expired, and fails the
\* whole transaction if it finds another one.
StaleRecords(c) ==
  {rec \in records : rec.key = c.key /\ rec.idem = c.idem}
ReplayCollision(c) ==
  \E rec \in StaleRecords(c) : rec.day + ReplayLifetime > c.day

CommitActivate(r) ==
  LET c == call[r]
      i == plan[r].inst
      rec == [key |-> c.key, idem |-> c.idem, inst |-> i, token |-> r,
              revision |-> plan[r].revision, day |-> c.day]
  IN  /\ pc[r] = "saved"
      /\ c.op = "activate"
      /\ \/ ReplayCollision(c) /\ Refuse(r, "failed")
         \/ /\ ~ReplayCollision(c)
            /\ rows' = [rows EXCEPT ![i] =
                 [state |-> "active", revision |-> plan[r].revision, token |-> r]]
            /\ records' = (records \ StaleRecords(c)) \cup {rec}
            /\ issued' = issued \cup {Signed(r)}
            /\ Finish(r, [status |-> "ok", token |-> r,
                          revision |-> plan[r].revision])
            /\ UNCHANGED <<keyState, license, dates, plan>>
      /\ UNCHANGED <<call, today>>

CommitRefresh(r) ==
  /\ pc[r] = "saved"
  /\ call[r].op = "refresh"
  /\ rows' = [rows EXCEPT ![plan[r].inst].revision = plan[r].revision]
  /\ issued' = issued \cup {Signed(r)}
  /\ Finish(r, [status |-> "ok", token |-> NoOne, revision |-> plan[r].revision])
  /\ UNCHANGED <<records, keyState, license, dates, plan, call, today>>

\* Variant: the row is deleted, and with it the numbering of the Mac.
CommitDelete(r) ==
  /\ pc[r] = "saved"
  /\ call[r].op = "deactivate"
  /\ rows' = [rows EXCEPT ![plan[r].inst] =
                [state |-> "absent", revision |-> 0, token |-> NoOne]]
  /\ Finish(r, [status |-> "ok", token |-> NoOne, revision |-> 0])
  /\ UNCHANGED <<records, keyState, license, dates, plan, call, today, issued>>

CommitDeactivate(r) ==
  /\ pc[r] = "saved"
  /\ call[r].op = "deactivate"
  /\ rows' = [rows EXCEPT ![plan[r].inst].state = "deactivated"]
  /\ Finish(r, [status |-> "ok", token |-> NoOne, revision |-> 0])
  /\ UNCHANGED <<records, keyState, license, dates, plan, call, today, issued>>

\* The KMS refuses, a statement or the commit fails, the client goes away or
\* the process stops: the transaction leaves nothing.
RollBack(r) ==
  /\ pc[r] \in {"begin", "license", "row", "signing", "saved"}
  /\ Refuse(r, "failed")
  /\ UNCHANGED <<call, today>>

-----------------------------------------------------------------------------
(* What the rest of the service does to the same rows *)

\* DeactivateManaged: one statement, with the activation row locked NOWAIT and
\* without the license.  A busy row answers 503 and changes nothing.
DeactivateManaged(i) ==
  /\ rows[i].state = "active"
  /\ rowLock[i] = NoOne
  /\ rows' = [rows EXCEPT ![i].state = "deactivated"]
  /\ UNCHANGED <<records, keyState, license, dates, today, locks, requests>>

\* RotateLicenseKey takes the license NOWAIT and commits without waiting for
\* anything else.
RotateLicenseKey(k) ==
  /\ licenseLock = NoOne
  /\ keyState[k] = "unused"
  /\ keyState' = [j \in Keys |-> IF j = k THEN "active"
                     ELSE IF keyState[j] = "active" THEN "revoked" ELSE keyState[j]]
  /\ UNCHANGED <<rows, records, license, dates, today, locks, requests>>

\* Billing and the operator change the license, and the subscription with it,
\* under the lock of the license row.
Bill(state, D) ==
  /\ licenseLock = NoOne
  /\ license' = state
  /\ dates' \in D
  /\ UNCHANGED <<rows, records, keyState, today, locks, requests>>

\* A refund or a dispute.  The terminal time is the earliest of those it was
\* given and of the deadline.
TerminalDates ==
  IF LicensePlan = "monthly"
  THEN {d \in Dates : /\ d.until = dates.until
                      /\ d.terminal \in 0..d.until
                      /\ dates.terminal # NoTime => d.terminal <= dates.terminal}
  ELSE {NoDates}
RestrictLicense == license # "revoked" /\ Bill("restricted", TerminalDates)

\* A dispute that was won, and what is projected of an active subscription.
RestoreLicense == license # "revoked" /\ Bill("active", PaidDates(0))

RevokeLicense == Bill("revoked", {dates})

AdjustLicense == RestrictLicense \/ RestoreLicense \/ RevokeLicense

\* cleanupExpired deletes expired records, in batches of any size.
\* Variant: the lifetime is forgotten, and every record of the past goes.
CleanupEarly(rec) ==
  /\ rec.day <= today
  /\ records' = records \ {rec}
  /\ UNCHANGED <<rows, keyState, license, dates, today, locks, requests>>

CleanupRecord(rec) ==
  /\ rec.day + ReplayLifetime <= today
  /\ records' = records \ {rec}
  /\ UNCHANGED <<rows, keyState, license, dates, today, locks, requests>>

Tick ==
  /\ today < MaxDay
  /\ today' = today + 1
  /\ UNCHANGED <<tables, locks, requests>>

Work(r) ==
  \/ BeginActivate(r) \/ DecideActivate(r)
  \/ LockLicense(r) \/ DecideRefresh(r) \/ DecideDeactivate(r)
  \/ Save(r)
  \/ CommitActivate(r) \/ CommitRefresh(r) \/ CommitDeactivate(r)

Next ==
  \/ \E r \in Requests :
       ReceiveActivate(r) \/ ReceiveToken(r) \/ Work(r) \/ RollBack(r)
  \/ \E i \in Installations : DeactivateManaged(i)
  \/ \E k \in Keys : RotateLicenseKey(k)
  \/ AdjustLicense
  \/ \E rec \in records : CleanupRecord(rec)
  \/ Tick

Spec == Init /\ [][Next]_vars

\* Every statement returns: a lock is granted in the order it was asked for,
\* and the KMS call and the transaction end within the request's deadline.
FairSpec == Spec /\ \A r \in Requests : WF_vars(Work(r))

-----------------------------------------------------------------------------
(* Correctness *)

\* A license never has more than MaximumActivations active Macs, whatever
\* keys, retries and releases are in flight while slots are counted
\* (activeActivationCount relies on the license row staying locked).
SlotLimit == Cardinality(ActiveSlots) <= MaximumActivations

\* Two committed entitlements of one Mac never carry the same revision: no
\* Activate and Refresh may both read a revision before either has written it.
OneEntitlementPerRevision ==
  \A a, b \in issued : a.inst = b.inst /\ a.revision = b.revision => a = b

\* An activation retried with its idempotency key is executed again only when
\* the earlier response has outlived the replay lifetime.
ReplayExecutesOnce ==
  \A a, b \in issued :
    /\ a # b
    /\ call[a.by].op = "activate" /\ call[b.by].op = "activate"
    /\ call[a.by].key = call[b.by].key /\ call[a.by].idem = call[b.by].idem
    => \/ a.at >= call[b.by].day + ReplayLifetime
       \/ b.at >= call[a.by].day + ReplayLifetime

\* Every successful answer that carries an entitlement carries one that was
\* committed for the Mac that asked, also when it is replayed.
AnswersAreIssued ==
  \A r \in Requests :
    answer[r].status = "ok" /\ call[r].op \in {"activate", "refresh"} =>
      \E e \in issued : /\ e.inst = call[r].inst
                        /\ e.revision = answer[r].revision
                        /\ answer[r].token \in {NoOne, e.by}

\* While the KMS signs and until the commit, the license stays one that may be
\* signed for: not revoked meanwhile, restricted only with time left (a perpetual
\* license has none), and a refreshed activation stays active under the token
\* presented.  The state is the one in force until the commit; the dates are those
\* the request has joined, which billing may have changed since (SubscriptionTerms'
\* SignedInTime says what they are still good for).
SignedInGoodStanding ==
  \A r \in Requests :
    pc[r] \in {"signing", "saved"} /\ call[r].op # "deactivate" =>
      /\ Entitled(r)
      /\ call[r].op = "refresh" =>
           rows[plan[r].inst].state = "active" /\ rows[plan[r].inst].token = call[r].token

\* storeAndCommit never meets an unexpired record: its "idempotency replay
\* changed while its resource was locked" is unreachable.
NoReplayCollision ==
  \A r \in Requests :
    pc[r] = "saved" /\ call[r].op = "activate" => ~ReplayCollision(call[r])

\* Every request that was admitted is answered: no two handlers wait for each
\* other's license and activation rows.
EveryRequestAnswered ==
  \A r \in Requests : pc[r] # "idle" ~> pc[r] = "done"

\* Whether the license may be signed for at all.  For a perpetual license that is
\* the whole of its eligibility; a monthly one keeps it until it is revoked, and
\* its dates are not the ledger's concern.
Standing ==
  license = "active" \/ (LicensePlan = "monthly" /\ license = "restricted")

Ledger == INSTANCE SlotLedger WITH
  holders <- ActiveSlots,
  signed <- [i \in Installations |-> rows[i].revision],
  standing <- Standing

\* The handlers behave as if each took or returned its slot, or signed, in one
\* atomic step on a license that may be signed for.
ImplementsLedger == Ledger!Spec
=============================================================================
