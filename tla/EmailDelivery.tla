--------------------------- MODULE EmailDelivery ---------------------------
(***************************************************************************)
(* The emails of one address (internal/activation/recovery_dispatch.go,    *)
(* license_dispatch.go, purchase.go, retention.go): the initial key of     *)
(* each license, and the tokens a recovery request fans out to.  Each waits *)
(* in an outbox until a dispatcher has claimed it, handed it to SES and    *)
(* acknowledged it, in three separate steps and with no transaction around *)
(* the call; several servers run dispatchers, and any of them may stop in  *)
(* between.                                                                 *)
(*                                                                         *)
(* Time is relative: a row says how long until its next attempt (`wait`)   *)
(* and until it expires (`life`), a dispatcher how long ago its pass       *)
(* noted the time (`age`), and Tick moves all of them.  A pass computes    *)
(* with the time at which it began.                                         *)
(*                                                                         *)
(* `calm` says that calls no longer fail, except for the jobs and emails   *)
(* in Undeliverable, which never succeed.                                   *)
(***************************************************************************)
EXTENDS Integers, FiniteSets

CONSTANTS
  Licenses,             \* licenses of one email address
  Jobs,                 \* recovery requests for it
  RecoveryDispatchers,  \* runRecoveryEmailDispatch, one per server
  LicenseDispatchers,   \* runLicenseEmailDispatch, one per server
  RetryDelay,           \* recoveryRetryDelay
  Margin,               \* recoveryMinimumDeliveryLifetime
  RequestLifetime,      \* recoveryRequestLifetime
  TokenLifetime,        \* recoveryTokenLifetime
  KeyLifetime,          \* IssuePurchasedLicense: the delivery copy's lifetime
  PassLimit,            \* the timeouts of one pass, added up
  MaxChanges,           \* bounds the rotations, restrictions and restorations
  Undeliverable,        \* jobs and emails that always fail
  Nothing               \* no job or email

\* The email of a license's first key is named by the license, a recovery email
\* by its request and its license.
Emails == Licenses \cup (Jobs \X Licenses)
Dispatchers == RecoveryDispatchers \cup LicenseDispatchers

ASSUME NamesAssumption ==
  /\ Licenses \cap (Jobs \X Licenses) = {}
  /\ Jobs \cap Emails = {}
  /\ Nothing \notin Jobs \cup Emails
  /\ RecoveryDispatchers \cap LicenseDispatchers = {}
ASSUME LifetimesAssumption ==
  /\ {Margin, RequestLifetime, TokenLifetime, KeyLifetime} \subseteq Nat
  /\ PassLimit \in Nat
  /\ RetryDelay \in Nat
\* A pass is over after 22 seconds (four statements of 3 seconds and 10 seconds
\* for SES); a claim is repeated after 60, an email needs 300 to be claimed, and a
\* token lasts longer.
ASSUME TimeoutsAssumption ==
  PassLimit < RetryDelay /\ PassLimit <= Margin /\ Margin <= TokenLifetime
ASSUME BoundAssumption == MaxChanges \in Nat

VARIABLES
  jobs,      \* recovery_request_jobs
  mail,      \* license_delivery_outbox and recovery_email_outbox
  copy,      \* license_keys.delivery_ciphertext IS NOT NULL
  keyState,  \* license_keys: the key each license was sold with
  standing,  \* licenses.state
  pc,        \* where each dispatcher is in its pass
  age,       \* the time since its pass began
  item,      \* the job or email it has claimed
  found,     \* the licenses a preparation has found
  changes,   \* how often a license was rotated, restricted or restored
  calm,      \* whether failures have ended
  received   \* history: the emails SES has accepted

tables == <<jobs, mail, copy, keyState, standing>>
dispatch == <<pc, age, item, found>>
vars == <<jobs, mail, copy, keyState, standing, pc, age, item, found, changes,
          calm, received>>

-----------------------------------------------------------------------------
MaxLife ==
  CHOOSE n \in {RequestLifetime, TokenLifetime, KeyLifetime} :
    \A m \in {RequestLifetime, TokenLifetime, KeyLifetime} : m <= n
Row == [state : {"none", "queued", "gone"}, wait : -MaxLife..RetryDelay,
        life : 0..MaxLife]

TypeOK ==
  /\ jobs \in [Jobs -> Row]
  /\ mail \in [Emails -> Row]
  /\ copy \in [Licenses -> BOOLEAN]
  /\ keyState \in [Licenses -> {"unsold", "current", "rotated", "deleted"}]
  /\ standing \in [Licenses -> {"unsold", "active", "restricted"}]
  /\ pc \in [Dispatchers ->
               {"idle", "prepare", "preparing", "claim", "claimed", "accepted"}]
  /\ age \in [Dispatchers -> 0..PassLimit]
  /\ item \in [Dispatchers -> Jobs \cup Emails \cup {Nothing}]
  /\ found \in [Dispatchers -> SUBSET Licenses]
  /\ changes \in 0..MaxChanges
  /\ calm \in BOOLEAN
  /\ received \subseteq Emails

NoRow == [state |-> "none", wait |-> 0, life |-> 0]
Gone(row) == [row EXCEPT !.state = "gone", !.wait = 0]

\* Some licenses were sold, and their keys delivered, before, and some recovery
\* requests prepared for an address that had no license then.
Init ==
  /\ \E prepared \in SUBSET Jobs :
       jobs = [j \in Jobs |-> IF j \in prepared THEN Gone(NoRow) ELSE NoRow]
  /\ \E sold \in SUBSET Licenses :
       /\ mail = [e \in Emails |-> IF e \in sold THEN Gone(NoRow) ELSE NoRow]
       /\ keyState = [l \in Licenses |-> IF l \in sold THEN "current" ELSE "unsold"]
       /\ standing = [l \in Licenses |-> IF l \in sold THEN "active" ELSE "unsold"]
       /\ received = sold
  /\ copy = [l \in Licenses |-> FALSE]
  /\ pc = [d \in Dispatchers |-> "idle"]
  /\ age = [d \in Dispatchers |-> 0]
  /\ item = [d \in Dispatchers |-> Nothing]
  /\ found = [d \in Dispatchers |-> {}]
  /\ changes = 0
  /\ calm = FALSE

-----------------------------------------------------------------------------
(* What fills the outboxes *)

LicenseOf(e) == IF e \in Licenses THEN e ELSE e[2]
Stands(l) == standing[l] = "active"

\* IssuePurchasedLicense: license, key with an encrypted copy, and outbox row.
Sell(l) ==
  /\ keyState[l] = "unsold"
  /\ keyState' = [keyState EXCEPT ![l] = "current"]
  /\ standing' = [standing EXCEPT ![l] = "active"]
  /\ copy' = [copy EXCEPT ![l] = TRUE]
  /\ mail' = [mail EXCEPT ![l] =
                [state |-> "queued", wait |-> 0, life |-> KeyLifetime]]
  /\ UNCHANGED <<jobs, dispatch, changes, calm, received>>

\* enqueueRecoveryRequest
Request(j) ==
  /\ jobs[j].state = "none"
  /\ jobs' = [jobs EXCEPT ![j] =
                [state |-> "queued", wait |-> 0, life |-> RequestLifetime]]
  /\ UNCHANGED <<mail, copy, keyState, standing, dispatch, changes, calm, received>>

-----------------------------------------------------------------------------
(* Claims *)

\* Variant: the claim leaves next_attempt_at as it is.
Keep(row, a) == row
\* Variant: the next attempt is counted from the end of the pass.
DeferLate(row, a) == [row EXCEPT !.wait = RetryDelay + a]
\* next_attempt_at = now + recoveryRetryDelay
Defer(row, a) == [row EXCEPT !.wait = RetryDelay - a]

Due(row, a) == row.state = "queued" /\ row.wait <= -a

Preparing(j) == \E d \in Dispatchers : pc[d] = "preparing" /\ item[d] = j
ClaimableJobs(a) ==
  {j \in Jobs : Due(jobs[j], a) /\ jobs[j].life + a > 0 /\ ~Preparing(j)}

\* An initial key is mailed only while it is the active key and its copy is kept.
Mailable(e) ==
  /\ Stands(LicenseOf(e))
  /\ e \in Licenses => keyState[e] = "current" /\ copy[e]
ClaimableMail(d, a) ==
  {e \in IF d \in LicenseDispatchers THEN Licenses ELSE Jobs \X Licenses :
     Due(mail[e], a) /\ mail[e].life + a > Margin /\ Mailable(e)}

\* Variant: no ORDER BY.
AnyOne(rows, S) == S
\* ORDER BY next_attempt_at LIMIT 1
Oldest(rows, S) == {x \in S : \A y \in S : rows[x].wait <= rows[y].wait}

Stop(d) ==
  /\ pc' = [pc EXCEPT ![d] = "idle"]
  /\ age' = [age EXCEPT ![d] = 0]
  /\ item' = [item EXCEPT ![d] = Nothing]
  /\ found' = [found EXCEPT ![d] = {}]

Hold(d, stage, x) ==
  /\ pc' = [pc EXCEPT ![d] = stage]
  /\ item' = [item EXCEPT ![d] = x]
  /\ UNCHANGED <<age, found>>

ClaimMail(d) ==
  \E e \in Oldest(mail, ClaimableMail(d, age[d])) :
    /\ mail' = [mail EXCEPT ![e] = Defer(@, age[d])]
    /\ Hold(d, "claimed", e)
    /\ UNCHANGED <<jobs, copy, keyState, standing, changes, calm, received>>

\* A pass of runEmailDispatch begins.  Recovery looks for a request to prepare
\* before it looks for an email, which it does also when it fails to claim one.
Begin(d) ==
  /\ pc[d] = "idle"
  /\ \/ /\ d \in RecoveryDispatchers
        /\ \E j \in Oldest(jobs, ClaimableJobs(0)) :
             /\ jobs' = [jobs EXCEPT ![j] = Defer(@, 0)]
             /\ Hold(d, "prepare", j)
             /\ UNCHANGED <<mail, copy, keyState, standing, changes, calm, received>>
     \/ /\ d \in LicenseDispatchers \/ ClaimableJobs(0) = {} \/ ~calm
        /\ ClaimMail(d)

\* After the preparation, however it ended, the pass looks for an email.
Continue(d) ==
  /\ pc[d] = "claim"
  /\ \/ ClaimMail(d)
     \/ /\ ClaimableMail(d, age[d]) = {}
        /\ Stop(d)
        /\ UNCHANGED <<tables, changes, calm, received>>

-----------------------------------------------------------------------------
(* prepareRecoveryRequest *)

\* The row is locked; findRecoveryLicenses reads without locks.
LockJob(d) ==
  /\ pc[d] = "prepare"
  /\ \/ /\ jobs[item[d]].state = "gone"
        /\ Hold(d, "claim", Nothing)
     \/ /\ jobs[item[d]].state = "queued"
        /\ ~Preparing(item[d])
        /\ pc' = [pc EXCEPT ![d] = "preparing"]
        /\ found' = [found EXCEPT ![d] = {l \in Licenses : Stands(l)}]
        /\ UNCHANGED <<age, item>>
  /\ UNCHANGED <<tables, changes, calm, received>>

\* createRecoveryDelivery for each license, and the job is deleted.
CommitPreparation(d) ==
  /\ pc[d] = "preparing"
  /\ item[d] \notin Undeliverable
  /\ mail' = [e \in Emails |->
                IF e \in {item[d]} \X found[d]
                THEN [state |-> "queued", wait |-> -age[d],
                      life |-> TokenLifetime - age[d]]
                ELSE mail[e]]
  /\ jobs' = [jobs EXCEPT ![item[d]] = [Gone(@) EXCEPT !.life = 0]]
  /\ pc' = [pc EXCEPT ![d] = "claim"]
  /\ item' = [item EXCEPT ![d] = Nothing]
  /\ found' = [found EXCEPT ![d] = {}]
  /\ UNCHANGED <<copy, keyState, standing, age, changes, calm, received>>

\* A statement fails; the transaction is rolled back.
FailPreparation(d) ==
  /\ pc[d] \in {"prepare", "preparing"}
  /\ calm => item[d] \in Undeliverable
  /\ pc' = [pc EXCEPT ![d] = "claim"]
  /\ item' = [item EXCEPT ![d] = Nothing]
  /\ found' = [found EXCEPT ![d] = {}]
  /\ UNCHANGED <<tables, age, changes, calm, received>>

-----------------------------------------------------------------------------
(* Sending *)

\* Variant: the row is deleted before SES is called.
SendAcknowledged(d) ==
  /\ pc[d] = "claimed"
  /\ item[d] \notin Undeliverable
  /\ mail' = [mail EXCEPT ![item[d]] = Gone(@)]
  /\ Hold(d, "accepted", item[d])
  /\ UNCHANGED <<jobs, copy, keyState, standing, changes, calm, received>>

Send(d) ==
  /\ pc[d] = "claimed"
  /\ item[d] \notin Undeliverable
  /\ received' = received \cup {item[d]}
  /\ Hold(d, "accepted", item[d])
  /\ UNCHANGED <<tables, changes, calm>>

\* SES refuses, or nothing is heard from it in time.
Reject(d) ==
  /\ pc[d] = "claimed"
  /\ calm => item[d] \in Undeliverable
  /\ Stop(d)
  /\ UNCHANGED <<tables, changes, calm, received>>

\* Outbox row and key copy go in one transaction.  If the row is gone already,
\* nothing changes.
Acknowledge(d) ==
  LET e == item[d] IN
  /\ pc[d] = "accepted"
  /\ Stop(d)
  /\ IF mail[e].state = "queued"
     THEN /\ mail' = [mail EXCEPT ![e] = Gone(@)]
          /\ copy' = [l \in Licenses |-> copy[l] /\ l # e]
     ELSE UNCHANGED <<mail, copy>>
  /\ UNCHANGED <<jobs, keyState, standing, changes, calm, received>>

\* The process stops, or the acknowledgement fails.
Crash(d) ==
  /\ ~calm
  /\ pc[d] # "idle"
  /\ Stop(d)
  /\ UNCHANGED <<tables, changes, calm, received>>

-----------------------------------------------------------------------------
(* The rest of the service *)

Change ==
  /\ changes < MaxChanges
  /\ changes' = changes + 1
  /\ UNCHANGED <<jobs, dispatch, calm, received>>

Restrict(l) ==
  /\ Stands(l)
  /\ standing' = [standing EXCEPT ![l] = "restricted"]
  /\ UNCHANGED <<mail, copy, keyState>>
  /\ Change

Restore(l) ==
  /\ standing[l] = "restricted"
  /\ standing' = [standing EXCEPT ![l] = "active"]
  /\ UNCHANGED <<mail, copy, keyState>>
  /\ Change

\* RotateLicenseKey: a first rotation revokes the key, a second deletes it, and
\* with it its outbox row (ON DELETE CASCADE).  The state of the license is not
\* asked for.
Rotate(l) ==
  /\ \/ /\ keyState[l] = "current"
        /\ keyState' = [keyState EXCEPT ![l] = "rotated"]
        /\ UNCHANGED <<mail, copy>>
     \/ /\ keyState[l] = "rotated"
        /\ keyState' = [keyState EXCEPT ![l] = "deleted"]
        /\ mail' = [mail EXCEPT ![l] = Gone(@)]
        /\ copy' = [copy EXCEPT ![l] = FALSE]
  /\ UNCHANGED standing
  /\ Change

\* cleanupExpired, one statement after the other.
Expired(row) == row.state = "queued" /\ row.life = 0

CleanupJobs ==
  /\ \E j \in Jobs : Expired(jobs[j]) /\ ~Preparing(j)
  /\ jobs' = [j \in Jobs |-> IF Expired(jobs[j]) /\ ~Preparing(j)
                             THEN Gone(jobs[j]) ELSE jobs[j]]
  /\ UNCHANGED <<mail, copy, keyState, standing, dispatch, changes, calm, received>>

CleanupMail(S) ==
  /\ \E e \in S : Expired(mail[e])
  /\ mail' = [e \in Emails |-> IF e \in S /\ Expired(mail[e])
                               THEN Gone(mail[e]) ELSE mail[e]]
  /\ UNCHANGED <<jobs, copy, keyState, standing, dispatch, changes, calm, received>>

\* Variant: the statement joins the outbox, whose rows were just deleted.
ExpiredQueuedCopy(l) == copy[l] /\ Expired(mail[l])
ExpiredCopy(l) == copy[l] /\ mail[l].life = 0

CleanupCopies ==
  /\ \E l \in Licenses : ExpiredCopy(l)
  /\ copy' = [l \in Licenses |-> copy[l] /\ ~ExpiredCopy(l)]
  /\ UNCHANGED <<jobs, mail, keyState, standing, dispatch, changes, calm, received>>

CalmDown ==
  /\ ~calm
  /\ calm' = TRUE
  /\ UNCHANGED <<tables, dispatch, changes, received>>

\* An idle dispatcher looks for work every second, so that once calls no longer
\* fail nothing that can be claimed waits for a whole unit of time.
HasWork(d) ==
  /\ pc[d] = "idle"
  /\ \/ ClaimableMail(d, 0) # {}
     \/ d \in RecoveryDispatchers /\ ClaimableJobs(0) # {}

\* How long a row has been due decides whose turn it is.  One that has been due
\* for MaxLife has expired.
Older(row) ==
  [row EXCEPT !.wait = IF row.state = "queued" /\ @ > -MaxLife THEN @ - 1 ELSE @,
              !.life = IF @ > 0 THEN @ - 1 ELSE 0]

Tick ==
  /\ \A d \in Dispatchers : pc[d] # "idle" => age[d] < PassLimit
  /\ calm => \A d \in Dispatchers : ~HasWork(d)
  /\ jobs' = [j \in Jobs |-> Older(jobs[j])]
  /\ mail' = [e \in Emails |-> Older(mail[e])]
  /\ age' = [d \in Dispatchers |-> IF pc[d] = "idle" THEN 0 ELSE age[d] + 1]
  /\ UNCHANGED <<copy, keyState, standing, pc, item, found, changes,
                 calm, received>>

-----------------------------------------------------------------------------
DispatcherStep(d) ==
  \/ Begin(d)
  \/ Continue(d)
  \/ LockJob(d)
  \/ CommitPreparation(d)
  \/ FailPreparation(d)
  \/ Send(d)
  \/ Reject(d)
  \/ Acknowledge(d)

Cleanup ==
  \/ CleanupJobs
  \/ CleanupMail(Jobs \X Licenses)
  \/ CleanupMail(Licenses)
  \/ CleanupCopies

Next ==
  \/ \E l \in Licenses : Sell(l) \/ Restrict(l) \/ Restore(l) \/ Rotate(l)
  \/ \E j \in Jobs : Request(j)
  \/ \E d \in Dispatchers : DispatcherStep(d) \/ Crash(d)
  \/ Cleanup
  \/ CalmDown
  \/ Tick

Spec == Init /\ [][Next]_vars

\* The loops of main.go go on: time passes, a dispatcher takes its next step or
\* runs into its timeout, and the cleanup worker runs every minute.
Fairness ==
  /\ \A d \in Dispatchers : WF_vars(DispatcherStep(d))
  /\ WF_vars(Cleanup)
  /\ WF_vars(Tick)

FairSpec == Spec /\ Fairness

-----------------------------------------------------------------------------
(* Properties *)

\* No two dispatchers hold the same email, or prepare the same request, although
\* nothing is locked while SES is called: the claim outlasts the pass.
ClaimsExclusive ==
  \A d1, d2 \in Dispatchers :
    (item[d1] = item[d2] /\ item[d1] # Nothing) => d1 = d2

\* An email leaves its outbox only when SES has accepted it, when it has expired,
\* or with the key it carries, wherever the dispatcher stops.
NothingIsLost ==
  [][\A e \in Emails :
       (mail[e].state = "queued" /\ mail'[e].state = "gone") =>
         \/ e \in received
         \/ mail[e].life = 0
         \/ e \in Licenses /\ keyState'[e] = "deleted"]_vars

\* A row waits for one pass of each other row that is or will be in its table, and
\* for one that began before it was due.
Turn(rows, S) == Cardinality({x \in S : rows[x].state # "gone"}) * PassLimit

\* Once calls succeed, an email arrives whose life is long enough for its next
\* attempt and then for its turn, whatever happened to earlier claims of it.  The
\* others of its outbox may be such that they can never be sent, and may be enough
\* to keep every dispatcher busy with their retries: ORDER BY next_attempt_at gives
\* each its turn.  The promise shrinks as the outbox grows.
EmailArrives ==
  \A e \in Emails \ Undeliverable :
    (calm /\ mail[e].state = "queued"
     /\ mail[e].life > Margin + RetryDelay
                         + Turn(mail, IF e \in Licenses THEN Licenses ELSE Jobs \X Licenses))
      ~> (e \in received \/ ~Mailable(e))

\* In the same circumstances a recovery request reaches every license of its
\* address that stands, unless a preparation has already looked for them.  The
\* request must outlast also the pass that prepares it: until its row is locked it
\* can expire.
RequestReachesAll ==
  \A j \in Jobs \ Undeliverable : \A l \in {k \in Licenses : <<j, k>> \notin Undeliverable} :
    (calm /\ jobs[j].state = "queued"
     /\ jobs[j].life > RetryDelay + Turn(jobs, Jobs) + PassLimit
     /\ ~Preparing(j) /\ Stands(l))
      ~> (<<j, l>> \in received \/ ~Stands(l))

\* The readable copy of a key never stays for good.
CopiesAreCleared == \A l \in Licenses : copy[l] ~> ~copy[l]
=============================================================================
