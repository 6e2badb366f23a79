# TLA+ models of GlassEQServer

GlassEQServer sells and licenses a Mac application. Customers buy through Stripe
Payment Links; Stripe's webhooks tell the server, which issues a license and
emails its key; Macs activate against the license, take one of a few slots and
receive signed entitlements they renew from time to time. All state is in
PostgreSQL. Several requests, webhooks and background workers, on one or more
server processes, work on the same rows, and call Stripe, AWS KMS or SES in the
middle.

The modules here model the parts of the server in which a wrong interleaving, a
crash or a date costs someone a license, access or money: the activation slots of
one license; the life of one purchase under Stripe's events, and the dates that
follow from it; the ways to a lost license; the emails; and the limits on how often
one may ask.

```
tlc -config Activations_slots.cfg MCActivations      # one of the twelve runs below
tlapm ActivationsProofs.tla                          # and ReplayProofs, OrderBillingProofs,
                                                     # ConvergenceProofs, LicenseAccessProofs,
                                                     # SubscriptionTermsProofs, AdmissionProofs,
                                                     # EmailDeliveryProofs
```

## The system

| part | source | state | operations | correct when | module |
|---|---|---|---|---|---|
| Activations | `internal/activation/service.go`, `lifecycle.go`, `management.go` | `activations`, `licenses`, `license_keys`, `idempotency_records` | `Activate`, `RefreshEntitlement`, `DeactivateCurrent`, `DeactivateManaged` | never more active Macs than slots; one entitlement per revision; a retry is answered, not repeated; nothing is signed for a license that is revoked, nor for one that is restricted unless it is monthly and its terminal time, with the grace, is still ahead | `Activations` |
| Purchases | `internal/billing/event.go`, `monthly_event.go`, `purchase.go`, `internal/activation/purchase.go` | `stripe_events`, `checkout_orders`, `licenses` | `processEvent`, `processMonthlyEvent`, `IssuePurchasedLicense` | one license per purchase; the order of events does not matter | `OrderBilling` |
| Adjustments | `adjustment_event.go`, `adjustment.go` | `billing_adjustments` | prepare, cancel the Subscription, read again, commit; `RepairPendingAdjustment` | a settled refund or dispute restricts the license, only after billing stopped; a crash in between is repaired; terminal states hold | `OrderBilling`, `OrderRepair` |
| Reconciliation | `reconciliation.go` | none of its own | daily scan of paid Sessions | a purchase whose webhook was lost is served | `OrderBilling`, `OrderRepair` |
| Subscription projection | `subscription.go`, `adjustment_event.go` | `subscriptions` | `reconcileSubscription`, `restorationProjection`, the terminal time of a restriction | access follows payment, whatever was read before and committed after what | `SubscriptionTerms` |
| Entitlement terms | `service.go` `monthlyEntitlementTerms` | none | pure, but on rows read at different times | dates in order, none after the license ends | `SubscriptionTerms` |
| Key rotation, management sessions | `rotation.go`, `management.go` | `license_keys`, `access_tokens` | `CreateManagementSession`, `RotateLicenseKey` | one active key, one rotation a day, a lost answer is not a lost key | `LicenseAccess`, `AccessLedger` (a step of `Activations`) |
| Recovery | `recovery_request.go`, `recovery.go` | `recovery_request_jobs`, `access_tokens` | `RequestRecovery`, `ExchangeRecoveryToken` | one job per request, a token opens one session | `Admission`, `EmailDelivery`, `LicenseAccess` |
| Email outboxes | `recovery_dispatch.go`, `license_dispatch.go` | `license_delivery_outbox`, `recovery_email_outbox` | claim, prepare, send, acknowledge, expire | nobody sends what another sends; nothing is dropped; what can be sent in time arrives; the stored key copy does not outlive it | `EmailDelivery` |
| Rate limits | `service.go`, `recovery_request.go` | `activation_rate_limits` | `consumeRateLimits`, `recoveryRateLimited` | a window never admits more than its limit | `Admission` |
| Retention | `retention.go` | the rows that expire | `cleanupExpired` | deletes nothing that is still in force | steps of `Activations`, `LicenseAccess`, `EmailDelivery`, `Admission` |
| Signing, secrets, HTTP, Stripe client, configuration | `internal/entitlement`, `cipher.go`, `internal/httpapi`, `stripe.go`, `config` | none | I/O and encoding | | not modelled |

How they interact. HTTP handlers call the services and translate errors; a
webhook that fails answers 503 (`httpapi/webhook.go`), so that Stripe delivers
the event again. Services do not call each other: they meet in the database. The
license row (`licenses`) is where billing and activations meet: an adjustment
updates its state, an activation locks it while it checks eligibility, counts
slots and signs. The order row (`checkout_orders`) is where webhooks, the repair
worker and the reconciler meet. `main.go` runs the workers on timers: repair of
adjustments, reconciliation, cleanup, and two email dispatchers.

What is hard about it:

* READ COMMITTED. A statement that waits for a row sees the newest version of
  that row only, and what it read from other rows is as old as its snapshot. The
  handlers lock the license before the activation; managed release does not lock
  the license at all, and a rotation revokes the key another request has
  already presented.
* External calls. The KMS signs inside the transaction; Stripe is read outside,
  so what a handler commits may be older than what it contradicts.
* Events that are duplicated, reordered, concurrent or lost; a cancellation
  whose response is lost; a process that stops between any two steps.
* Retries with an idempotency key, while the first request still runs or after
  its record has expired.
* Claims without locks. No transaction is open while SES is called; a dispatcher
  owns an email only because its next attempt has been put off.
* Boundaries of time. A request compares everything with the moment it began,
  however long it waits; windows, lifetimes, cooldowns and paid periods end in
  between.

Every such place is listed, with its line, under `hazards` in `PROJECT.json`,
together with the property that would notice it going wrong.

## Modules

| module | what it is |
|---|---|
| `SlotLedger` | abstract: what a license promises about slots and numbering, in atomic steps |
| `Activations` | the handlers, their locks and transactions; implements `SlotLedger` |
| `MCActivations` | symmetry for TLC |
| `ActivationsProofs`, `ReplayProofs` | theorems about `Activations`, checked by TLAPS: its slots and revisions, its replays |
| `LicenseLedger` | abstract: what refunds and disputes may do to a license, in atomic steps |
| `OrderBilling` | one purchase: Stripe, the webhooks, the transactions, the workers; implements `LicenseLedger` |
| `OrderBillingProofs`, `ConvergenceProofs` | theorems about `OrderBilling`, checked by TLAPS: what holds at any time; what holds once every event is processed |
| `OrderRepair` | the same under fairness: what the workers promise |
| `SubscriptionTerms` | the dates of a monthly purchase, which `OrderBilling` leaves out; implements `LicenseLedger` too |
| `MCSubscriptionTerms`, `SubscriptionTermsProofs` | symmetry for TLC; theorems |
| `AccessLedger` | abstract: what the owner may rely on when a key is lost or leaked |
| `LicenseAccess` | sessions, recovery tokens, rotation; implements `AccessLedger` |
| `MCLicenseAccess`, `LicenseAccessProofs` | symmetry for TLC; theorems |
| `EmailDelivery` | both outboxes, their dispatchers and their cleanup |
| `MCEmailDelivery`, `EmailDeliveryProofs` | a small instance for TLC; theorems |
| `Admission` | rate limits, and the transaction of a recovery request |
| `MCAdmission`, `AdmissionProofs` | symmetry for TLC; theorems |

In each module, a definition that begins with a comment "Variant:" is a
plausible mistake in the code, and no action uses it. Each property of each run
fails when the definition named in `PROJECT.json` is replaced by its variant;
this shows that the property can tell the difference.

### Activations

A request is a process. `pc` is where it is: after `begin` (replay lookup and
rate limits done), waiting for the `license` row, waiting for the activation
`row`, `signing`, `saved` (rows written, not committed), `done`. What a
transaction has written is in `plan` and becomes part of `rows`, `records` and
`issued` only with its `Commit...` action, so no other request sees it before.
`licenseLock` and `rowLock` are the row locks (`FOR NO KEY UPDATE`, `FOR
UPDATE`, or an `UPDATE`); the advisory lock on a credential is held as long as
the request is in its transaction, and is derived from `pc` and `call`.
`RollBack` can take place at any stage before the commit: a failing KMS, a lost
connection, a deadline, a stopped process.

Code and actions:

| code | action |
|---|---|
| `Activate`: lookup, rate limits | `ReceiveActivate` |
| `Activate`: advisory lock, second lookup, snapshot of `findLicense` | `BeginActivate` |
| `findLicense` gets the row; eligibility, slot count, revision | `DecideActivate` |
| upsert after signing | `Save` |
| `storeAndCommit` | `CommitActivate` |
| `RefreshEntitlement`, `DeactivateCurrent`: advisory lock, token lookup | `ReceiveToken` |
| `findLicenseByID` waits for the license row | `LockLicense` |
| second token lookup with the row lock | `DecideRefresh`, `DecideDeactivate` |
| update and commit | `CommitRefresh`, `CommitDeactivate` |
| `DeactivateManaged`, `RotateLicenseKey`, an adjustment, `cleanupExpired` | one action each: they never wait for a lock inside their transaction |

A Mac's token is identified by the request that minted it; tokens are random
and never repeat. Keys come into force one after the other (`keyState`). The
clock counts days of the replay store; `now` is read once, when a request
begins, and all its comparisons of expiry use that value, as in the code.

Eligibility is `Entitled` (`entitlementTerms`). A perpetual license is eligible while
it is active. A monthly one is eligible while it is active and its recovery window and
grace last, and when it is `restricted` (refunded or charged back) until its terminal
time and grace: the server goes on signing for it until then, as
`TestMonthlyEntitlementTerms` expects (`service_test.go:100`). The state is that of the
locked row. The dates are those the same statement has joined without a lock: `GoTo`
notes them in `joined` when the statement begins to wait, and billing may change `dates`
before it gets the license. A license restricted meanwhile has, as joined, no terminal
time, and the request fails (`Inconsistent`). `SignedInGoodStanding` therefore speaks of
the state in force and of the dates joined.

Abstracted: whether a request is rate limited; what `dates` are made of (they are the
days on which entitlements stop, grace included, and `SubscriptionTerms` says where they
come from); a body is what it tells about token and revision.

`SlotLedger` is what the owner of a license sees. `ImplementsLedger` maps the
active rows to `holders`, the revisions to `signed` and `Standing` to `standing`: an
activation is atomic at its commit although the slots were counted and the license was
checked well before. For a perpetual license `Standing` is its eligibility. For a
monthly one it only says that the license is not revoked: the dates are not the
ledger's concern, and entitlements signed by dates that are out of date are
`SubscriptionTerms`' (`SignedInTime`).

### OrderBilling

One purchase, for either plan (`Plan`). The environment is Stripe and the
operator: the checkout, disputes, refunds and the Subscription change, and each
change adds an event to `emitted`. Events stay there, so that they can be
delivered at any time, by any number of handlers; a lost webhook is one that is
never delivered. An event processed once is acknowledged without effect.

Workers are webhook handlers, the repair worker and the reconciler. Each call
to Stripe and each transaction is an action. `view` is what a worker has read
from Stripe. `billing_revision` is compared only for equality with the value read
before, so the model keeps the result of that comparison: `fresh[w]` is set when
`w` captures the revision, and `AdvanceRevision` clears it for all who must lose.

| code | actions |
|---|---|
| `Process`, `processEvent`: record, route | `Deliver`, `Reconcile`, `Repair` |
| perpetual Session: read, ensure the order row | `Retrieve` |
| transaction of `processEvent` | `Fulfill` |
| `processMonthlyEvent`: capture the revision; read Session and Subscription; read the Invoices; commit | `ReadMonthlyOrder`; `HydrateMonthly`; `ReadInvoices`; `CommitMonthly` |
| `processAdjustment`: find the purchase, capture the revision | `Identify` |
| `hydrateAdjustment`: the object; its Charge; the Subscription | `Hydrate`; `ReadCharge`; `ReadSubscription` |
| `prepareAdjustment` | `Prepare` |
| durable intents, `CancelSubscription`, hydrate again | `ReadIntent`, `CancelSubscription`, `Hydrate`, `ReadCharge`, `ReadSubscription` |
| `commitAdjustment`, `applyAdjustments` | `CommitAdjustment`, `Apply` |
| any error or crash | `Fail` |

The reconciliation event has an identifier per day. `NextDay` stands for the
next one by making the same event unknown again.

Abstracted: dates (whether a canceled Subscription still covers a paid period
is left open; see `SubscriptionTerms`), identifiers that fail to match, invoices (their events take the path of
Subscription events, and reading them takes time and may fail), ignored Sessions of other products.

`updated_at`, by which the repair worker chooses the oldest adjustment, is kept
as the order it induces on pending adjustments (`older`). Two equal times cannot
be told apart from either order.

What the model shows besides its properties: a refund that fails after it had
succeeded restricts nothing, but a dispute resolved while the Charge still counted
as refunded restored nothing (`applyAdjustments` looks at `charge.Refunded`), and no
later event looks at that dispute again. The license then stays restricted although
nothing blocks it. It takes five events at Stripe; `Converged` leaves it out
(`RefundUndone`), and no document says otherwise: `Docs/Billing.md:54` says that a won
dispute may restore access.

`LicenseLedger` is what a customer and a bookkeeper see: a claim is recorded, and later
settled together with what it means for the license; a license is restricted only
while a claim blocks and nobody is billed, and comes back only when the last dispute is
resolved, never after a refund or a revocation. `ImplementsLicense` maps the blocking
rows of `billing_adjustments` to `blocking`, those no longer pending to `settled`, and a
Subscription that is not canceled to `collecting`. It has `SettledBlockRestricts`,
`RestrictedIsNotBilled` and `TerminalStatesHold` as consequences. `SubscriptionTerms`
implements the same ledger, and that is how the two models of a monthly purchase fit
together: one has the intents and the crashes, the other the dates, and either does to
the license only what the ledger allows.

### OrderRepair

Adds `calm`: from some moment on, calls do not fail and webhooks are no longer
delivered. Under `RepairSpec` reconciliation stops too; under `ScanSpec` it goes
on day after day, while Stripe may still change.

### SubscriptionTerms

The dates of one monthly purchase. Stripe's side is a Subscription, its Invoices,
a refund and a dispute of the first charge; each change adds its event to `pending`.
A worker notes the time and the revision and reads the Subscription (`Begin`), reads
the Invoices some time later (`Seen`), which for a restoration as for an ordinary event
may be well before its commit, and commits if nobody has committed since:
as in `OrderBilling` the revision is kept as its result, here by having the others
fail in the step of the commit (`Outdated`). The n-th Invoice pays up to
`End(n)`, so `billing_period_end` and `last_paid_invoice_id` are one number,
`row.paid`. The unit of time is a week.

| code | definitions |
|---|---|
| `reconcileSubscription` and its helpers | `Reconciled`, `Renewed`, `Active`, `Recovering`, `Ending` |
| `restorationProjection` | `Restored` |
| `processMonthlyEvent` | `Begin`, `CommitMonthly`, `Fail` |
| `commitAdjustment`, `applyAdjustments` with dates | `CommitAdjustment`, `Restrict`, `Restore`, `Terminal` |
| `findLicense` before and after its wait | `FindLicense`, `Answer` |
| `monthlyEntitlementTerms` | `Signable`, `TermsOf` |

The intents, the prepare transaction and the cancellation are `OrderBilling`'s.

What the model shows besides its properties, none of it contradicted by a comment,
document or test of the repository:

* `findLicense` locks the license only. After the wait the license is new and
  the subscription it was joined with is not. An entitlement signed while a
  restoration commits can therefore mix both; `SignedInTime` bounds what it can
  promise by the paid period, the recovery window and the grace. If a
  restriction commits, the joined row has no terminal time, and nothing is signed.
* A restoration consults the first Invoice, that of the charge, and the latest. A
  renewal paid while the license was restricted, with a later one open, is not taken
  into account; so `Converged` is about purchases without adjustments.
* A Subscription that becomes unpaid keeps the deadline it had, which depends on
  what was processed before; `Converged` speaks of its state only.
* The schema's check that a monthly row's period does not end after
  `recovery_until` cannot fail (first part of `AccessIsPaid`).

### LicenseAccess

A client is a process that sends one request after the other, with any key, token
and idempotency key it has been given so far; a lost answer needs no step, since
the client may simply ask again. `pc` is `begun`, `looked` (first lookup done, no
transaction yet), `writing` (row locks held, decided), or `inserting` for the single
statement of `CreateManagementSession` between its snapshot and its insert.

| code | actions |
|---|---|
| validation, time | `Receive` |
| first `loadIdempotency` | `Lookup` |
| `FOR UPDATE NOWAIT` refused | `Busy` |
| `CreateManagementSession` | `ReadKey`, `InsertSession` |
| `ExchangeRecoveryToken` | `DecideExchange`, `CommitExchange` |
| `RotateLicenseKey` | `DecideRotate`, `CommitRotate` |
| any error, cancellation or stop | `RollBack` |
| `createRecoveryDelivery`, billing, `cleanupExpired` | `MailLink`, `AdjustLicense`, `CleanupRecords`, `CleanupTokens` |

`AccessLedger` is what the owner of the license sees: a rotation is one step, the
next one at least a cooldown later, and a recovery link opens one session, while the
license stands. `ImplementsLedger` is not obvious because a request is judged by the
time it began, old keys are deleted by the rotation that reads them, and the
answer's lifetime ends in the middle of it all.

Abstracted: tokens and keys are numbers in the order of their commit; the two row
locks of an exchange or a rotation are one, because the license's row is always one
of them; the hash of a request's body is left out, since the tokens alone make it.

### EmailDelivery

The emails of one address: the initial key of each license, and a token per license
for each recovery request. Rows are `none`, `queued` or `gone`; a row says how long
until its next attempt and until it expires, and a dispatcher how long ago its pass
began. A pass uses the time at which it began, so `Defer` subtracts its age.

| code | actions |
|---|---|
| `IssuePurchasedLicense`, `enqueueRecoveryRequest` | `Sell`, `Request` |
| `claimRecoveryRequest`, the claims of both outboxes | `Begin`, `Continue` (`ClaimMail`) |
| `prepareRecoveryRequest`: row lock and `findRecoveryLicenses`; the inserts and the commit; any failure | `LockJob`; `CommitPreparation`; `FailPreparation` |
| SES | `Send`, `Reject` |
| delete the row, clear the key's copy | `Acknowledge` |
| a stopped process | `Crash` |
| adjustments, `RotateLicenseKey`, `cleanupExpired` | `Restrict`, `Restore`, `Rotate`, `Cleanup...` |

What TLC taught: a recovery request can expire between its claim and the row lock
that protects it from cleanup, so `RequestReachesAll` asks for a little more life
than a retry delay; and a license restored after a preparation has looked for
licenses is not mailed by it.

How far `EmailArrives` goes. A dispatcher sends one email at a time; SES may take 10
seconds to refuse it (a pass may take 22, with its four statements), and the row is due
again 60 seconds after its pass began. So from about six rows that can never be sent, or
three when every statement is slow too, they keep a dispatcher busy for as long as they
live. What lets another email through is only that a claim takes the row with the oldest
`next_attempt_at`: a row put off comes behind those already due. The property says just
that: an email arrives if its life covers a retry delay, the margin and one pass for each
row of its outbox (`Turn`), its own included. It promises less as an outbox grows, and
nothing to an email that expires before its turn; with 30 minutes to live for a link and a
week for a key, that takes an outbox of many dozens of such rows. The run has what it
takes for starvation: a retry comes one unit after a pass that lasted one, so two
unsendable rows keep the only recovery dispatcher busy, and without the order the third
never arrives (`AnyOne`).

Abstracted: what an email says; that a claim is refused while another transaction
holds the row (`SKIP LOCKED`), except for the preparation, which holds it longest.

### Admission

A request goes through its stages, and what it has counted is added to the counters
when it commits: an increment locks its row, and nobody reads the counters without
incrementing them. `window` and `at` are noted when the request begins.

| code | actions |
|---|---|
| first lookup, `now.Truncate(rateLimitWindow)` | `Call` |
| `lockRecoveryCredential`, second lookup | `LockCredential` |
| `incrementRateLimit`, address first, subject only if that is within its limit | `CountAddress`, `CountSubject` |
| commit; for a recovery request with its job and its stored answer | `Commit` |
| failure or stop | `RollBack` |
| `cleanupExpired` | `CleanupCounter`, `CleanupRecord` |

The windows are fixed ones (the repository's `README.md:127` gives the numbers per
hour): across the end of a window twice the limit can get in, which no property
denies. A request that was delayed beyond its window may find its counter swept and
start from one again; `admissions` therefore counts who was let in while the window
was current.

## Runs

| run | instance | distinct states | shows |
|---|---|---|---|
| `slots` | perpetual; 3 Macs, 3 requests, 2 keys, 2 idempotency keys, 2 slots, revisions to 2 | 301,019 | the type invariant, `SlotLimit`, `OneEntitlementPerRevision`, `AnswersAreIssued`, `NoReplayCollision`, and `ImplementsLedger` |
| `replay` | monthly; 1 Mac, 3 requests, 1 key, 2 idempotency keys, 2 days with a lifetime of 1, dates on and after either | 1,836,120 | `ReplayExecutesOnce`, `SignedInGoodStanding` |
| `liveness` | perpetual; 1 Mac, 3 requests, 2 keys | 132,984 | `EveryRequestAnswered` |
| `perpetual` | 1 dispute, 1 refund, webhook, repair, reconciler, 3 events | 505,613 | `TypeOK`, `OneLicense`, `SettledBlockRestricts`, `Converged` |
| `monthly` | 1 dispute, 1 refund, webhook, repair, 3 events | 686,793 | `RestrictedIsNotBilled`, `PendingIsRetryable`, `IntentIsPending`, `Converged`, `ImplementsLicense` |
| `repair_monthly` | 1 dispute, webhook, repair, 3 events | 563,784 | `AdjustmentsFinish` |
| `repair_perpetual` | 1 dispute, 1 refund, webhook, repair, 3 events | 141,910 | `AdjustmentsFinish` |
| `scan` | 1 dispute, webhook, repair, reconciler, 3 events | 403,020 | `PaidIsServed` |
| `access` | 2 clients, 1 recovery link, 2 idempotency keys, 2 sessions; lifetimes of link, session and answer 1, 1, 2; cooldown 2; time to 2 | 1,119,344 | `TypeOK`, `ImplementsLedger`, `RotatedKeyIsNotLost`, `KeyIsCurrent` |
| `email` | 3 licenses, 1 recovery request, 1 recovery and 2 license dispatchers; retry delay 2, margin 1, lifetimes of request, token and key 5, 7, 6, passes up to 1; 2 changes; the emails of two licenses are never sent | 121,752 | `TypeOK`, `ClaimsExclusive`, `NothingIsLost`, `EmailArrives`, `RequestReachesAll`, `CopiesAreCleared` |
| `terms` | 2 workers, 1 request, 3 Invoices of 2 weeks, window 2, grace 1, refresh 1, time to 4, 3 events at Stripe | 2,683,545 | `TypeOK`, `AccessIsPaid`, `SignedInTime`, `Converged`, `RestrictionShortens`, `ImplementsLicense` |
| `admission` | 2 requests at a time, 4 in all, 2 addresses, 1 key, 1 email, 2 idempotency keys; limits 2 and 1; window and replay lifetime 2, time to 3 | 1,175,622 | `TypeOK`, `AttemptsAreLimited`, `OneJobPerKey` |

Why the bounds are enough. In `slots`, three requests are one more than any
hazard listed needs, three Macs are one more than the slots, two keys are what it
takes for two activations not to exclude each other by the advisory lock, and two
revisions cover a first entitlement, a renewal or re-activation, and the refusal
at the last revision. In `replay` the lifetime of one day puts the boundary
(exactly as old as the lifetime) among the reachable cases, with a request that
began the day before still running; one Mac and one key are enough, since its properties
speak of one Mac, and of retries with the same key. Its license is monthly, and entitlements can stop on the first
day, on the second, or later, so a license is restricted, restored, revoked or run out
while a request waits, and the dates it has joined are wrong in either direction. In `liveness` the contended resources are
one license, one activation and two credentials, which is every kind of lock there is.
In the billing runs three events of Stripe's own making (`MaxEvents`; the
cancellation the server itself causes is not counted) allow a payment with a
dispute that is opened and resolved, or a dispute and a refund, in every order,
and three workers (two in the monthly runs) allow an outdated reader next to
any two transactions.

In `access` two clients are what a race, or a request and its overtaking retry,
takes; two sessions let one be consumed by the rotation while the other competes.
The answer of a rotation lives as long as the cooldown, as in the code, and the
clock passes the end of both, so that the last moment and the first after it are
reached with requests that began before. In `email` either outbox is used, not
both at once: dispatchers of different outboxes share no row but the license, which
`Change` alters at any time. Two licenses whose recovery emails are undeliverable are
as many as keep the one recovery dispatcher busy, while the third must still get its
turn, and the lifetimes are long enough for an attempt to fail, for the retry delay, and
for a pass of every row (the premises of `EmailArrives` and `RequestReachesAll`). The
license outbox has two dispatchers, whose claims compete; that two recovery dispatchers
exclude each other is left to the theorem `ClaimsExclusiveHolds`. In `terms` the second Invoice can be
open, paid or unpaid, be overtaken by the third, and be paid after it; the time passes
a whole period, its window and its grace. In `admission` the clock crosses a
window's end with requests of the window before still under way, an address can go
over its limit with one subject and try another, and an answer can expire and be
replaced.

`CHECK_DEADLOCK FALSE` in `terms` and `admission`: time, the events at Stripe and the
requests are bounded, and when they are used up nothing is left to do.
`CHECK_DEADLOCK FALSE` in the billing configurations: the environment has a
bounded number of events, so a purchase for which Stripe has nothing more to do
really stops. In the activation runs requests are never reused either, but
managed steps and `AdjustLicense` always remain possible; deadlock is checked, and
`EveryRequestAnswered` says the real thing.

## Fairness

* `Activations!FairSpec`: weak fairness of every request's own next step. The
  statements of PostgreSQL return, row locks are granted to those who wait, and
  KMS calls and transactions end within the deadline the HTTP server gives them.
  Weak fairness is enough although a lock may be taken and released many times:
  requests are finitely many, and each is answered once. Nothing is assumed about
  failures (`RollBack`), cleanup, rotations or new requests.
* `RepairSpec`: the repair worker's timer fires again and again
  (`runAdjustmentRepair`), and handlers that began go on. It is assumed of the
  world, not of the program, that failures end (`calm`): a Stripe that always
  fails leaves adjustments pending for ever. No webhook is needed.
* `EmailDelivery!FairSpec`: weak fairness of each dispatcher's own next step, of
  the cleanup worker and of time. Dispatchers look for work every second and the
  cleanup worker runs every minute (`main.go`); statements and the call to SES have
  timeouts. Nothing is assumed about crashes, rotations or restrictions. That
  failures end (`calm`) is again assumed of the world; for the undeliverable rows
  they never do. Time waits for a pass until its timeouts are up (`PassLimit`), and,
  once calm, for an idle dispatcher that has something to claim: a unit of time is
  many seconds.
* `ScanSpec`: also the day changes and the daily scan is started
  (`runPaymentLinkReconciliation`).

## Proofs

`ActivationsProofs` proves, for every finite set of Macs and any sets of
requests, keys and idempotency keys, every limit, lifetime and last revision:

| theorem | property |
|---|---|
| `InvHolds` | the inductive invariant |
| `TypesHold` | `TypeOK` |
| `SlotLimitHolds` | `SlotLimit` |
| `OneEntitlementPerRevisionHolds` | `OneEntitlementPerRevision` |
| `SignedInGoodStandingHolds` | `SignedInGoodStanding` |
| `LedgerImplemented` | `ImplementsLedger`: `Spec => SlotLedger!Spec` |

They assume what the module's `ASSUME`s say: the plan is one of the two there are, the
Macs are finitely many, limits are natural numbers, the lifetime is positive, `NoOne` is
not a request, and `NoTime` is not a date.

The argument. `SlotLimit` by itself is not inductive: at the commit nothing is
counted any more. The strengthening (`Reserved`) says what a request that has
decided still owns. It holds the license row until its transaction ends; so at
most one request has decided at any time, and neither another decision nor an
adjustment comes in between. Since then the number of active Macs can only have gone
down, by managed releases, so the Mac it activates still fits; the state of the license
is the one it was judged by, and with the dates the request has joined, which nobody
else touches, it may still be signed for; and the revision it signed is still the next one of
that Mac. A refresh also holds the row of its Mac, so no managed release touches
it. `IssuedBelow` relates the history to the table: no entitlement committed for
a Mac carries a revision above that Mac's row, so the one about to be committed is
new. These, with `TypeOK`, `SlotLimit` and `OneEntitlementPerRevision`, are
preserved by each action; the proof has one lemma per action. The refinement then
maps each commit to `Grant`, `Renew` or `Release`, `DeactivateManaged` to
`Release`, `AdjustLicense` to `Judge` or a stutter (a monthly license keeps its standing when it is
restricted), and everything else to a stutter.

`ReplayProofs`, about the same module and for the same constants:

| theorem | property |
|---|---|
| `ReplayInvHolds` | the inductive invariant of the replay store |
| `ReplayExecutesOnceHolds` | `ReplayExecutesOnce` |
| `AnswersAreIssuedHolds` | `AnswersAreIssued` |
| `NoReplayCollisionHolds` | `NoReplayCollision` |

The argument. The advisory lock allows one open transaction per credential, and it
starts by finding no unexpired response, so there is none until its commit:
`storeAndCommit` cannot collide, and what it replaces had outlived its lifetime when
the request was received. A stored response always stands for a committed entitlement
of the same request, Mac and revision; so does a replay of it. And the response of every
committed activation is stored until its lifetime is over (`Remembered`), whether
cleanup removes it then or a later activation replaces it; so the same key and
idempotency key are executed again only after that. This part is independent of the
license row's lock.

`OrderBillingProofs` proves, for either plan and any sets of disputes, refunds,
handlers and reconcilers, and any number of events:

| theorem | property |
|---|---|
| `BillingInvHolds` | the inductive invariant |
| `BillingTypesHold` | `TypeOK` |
| `OneLicenseHolds` | `OneLicense` |
| `SettledBlockRestrictsHolds` | `SettledBlockRestricts` |
| `RestrictedIsNotBilledHolds` | `RestrictedIsNotBilled` |
| `PendingIsRetryableHolds` | `PendingIsRetryable` |
| `IntentIsPendingHolds` | `IntentIsPending` |
| `TerminalStatesHoldAlways` | `TerminalStatesHold`, which the runs check as part of `ImplementsLicense` |

They assume that the plan is one of the two there are, and that the names of
disputes, refunds, workers and the other Stripe objects differ.

The argument. That a purchase has one license follows from the order row: it is
fulfilled as soon as there is a license and never leaves that state, and the
three places that issue look at it, or at the license, in the transaction that
issues (`LicenseCounted`). The rest turns on the billing revision. A handler
commits an adjustment with what it read of the Subscription possibly minutes
ago. `SettledBlockRestricts` would fail if that Subscription could still bill,
because then nothing is restricted, while some adjustment blocks. `CoversBlocks`
excludes this: as long as the handler's revision is current, each recorded block
either still carries the intent to cancel, which the handler finds in
`ReadIntent` and acts upon, or had lost it before the handler read the
Subscription, which was canceled by then (`CanceledWhenBlocked`) and stays so.
Every transaction that records or settles anything takes the revision away from
everyone else, so nothing has to be shown of outdated handlers but that they
are outdated. `MayCommit` is the result: a handler about to commit with a
Subscription that can bill has nothing to restrict and no intent to drop.

`ConvergenceProofs`, about the same module and for the same constants:

| theorem | property |
|---|---|
| `ConvergenceInvHolds` | the inductive invariant of what is processed |
| `ConvergedHolds` | `Converged` |
| `LicenseImplemented` | `ImplementsLicense`: `Spec => LicenseLedger!Spec` |

The argument. `Converged` speaks of a state in which everything is processed, which
says nothing about how it came to be; the invariant has to say, while events are still
open, what the processed ones have already settled. Two facts about the code carry
it. A status of a dispute or refund never comes back (`Past`, `MovesForward`), so the event
of the status an object has now was emitted last, and whoever processed it has read
that status (`ReadsCurrent`). And every transaction that processes an event of the
purchase advances the revision, so a handler that read Stripe before is outdated
afterwards and cannot write its older decision over the newer one; one that is not
outdated has read what that event told (`fresh[w] /\ UpToDate(o)`). Hence an
object whose current event is processed has the right decision in the database
(`Adjusted`), for as long as it keeps that status. For the license, `Granted` says
the same of the Session: once the event that tells of the payment is processed, a
license is missing only while something blocks or is pending, or after a refund.

`LicenseImplemented` needs no invariant of its own besides these two. `Prepare` is `Record`,
`CommitAdjustment` is `Restrict` or `Lift`, and what else changes the license, the
claims or the Subscription is `Issue`, `Revoke` or `Stop`. That nobody is billed when the
license is restricted is `MayCommit` again; that a refund once settled goes on blocking,
so that "refunded" is never left for "charged_back", is `RefundedBlocks`; and only a
dispute is ever resolved (`ResolvedIsWon`).

`SubscriptionTermsProofs` proves, for any number of workers, requests and Invoices
and any durations, from the module's two assumptions that they are positive:

| theorem | property |
|---|---|
| `TermsTypesHold` | `TypeOK` |
| `AccessIsPaidHolds` | `AccessIsPaid` |
| `SignedInTimeHolds` | `SignedInTime` |
| `RestrictionShortensAlways` | `RestrictionShortens` |
| `RowConverges` | `Converged` |
| `LicenseImplemented` | `ImplementsLicense`: `Spec => LicenseLedger!Spec` |

The argument. A paid Invoice stays paid, and one beyond the latest does not exist
yet (`ReadIsPaid`): so whatever a worker has read as paid may be committed later,
and `Renewed` never takes a period back. The lemmas about `Reconciled` and `Restored`
say that they turn a paid row into a paid row, for every status; none needs to know
how old the view is. A terminal time exists exactly while the license is
restricted (`TerminalTime`); what a waiting request has read is a paid row whose
period the current one has at least reached (`RequestReadSo`), which bounds the
entitlement it gets in either case.

`RowConverges` needs a second invariant (`ConvergenceInv`). The last worker to commit
has read the Subscription as it is, unless an event is still waiting or another worker
is still at work (`ReadsNow`): what changes at Stripe announces itself, and a worker
that was overtaken starts again. Payments are different, since a row keeps what it
once learned: each paid Invoice is covered by the row, by an event that waits, or by a
worker that carries that event and has found the Invoice paid (`PaidIsKnown`). Before
there is a license the row does not exist, and what has to be known is that somebody
will still create it and will know of the later Invoices (`PaidIsToBuy`,
`BuyerKnows`); the first Invoice is excepted, because the row starts with it.

`LicenseImplemented` adds to it (`LicenseInv`) that what a worker has seen to have ended
has ended (`EndIsKnown`), that whoever is at work while a claim blocks has seen the end
(`BlockedAfterEnd`), and that a refund is never resolved (`RefundIsFinal`), nor anybody
"refunded" without one (`RefundedByRefund`). So the commit of any adjustment while another
one blocks restricts, and with a Subscription Stripe no longer bills.

`LicenseAccessProofs` proves, for any number of clients, tokens and idempotency
keys and any lifetimes, provided that the replay lifetime is not longer than the
cooldown (both are 24 hours):

| theorem | property |
|---|---|
| `AccessTypesHold` | `TypeOK` |
| `KeyIsCurrentAlways` | `KeyIsCurrent` |
| `RotatedKeyIsNotLostAlways` | `RotatedKeyIsNotLost` |
| `LedgerImplemented` | `ImplementsLedger`: `Spec => AccessLedger!Spec` |

The argument. Each key but the first came from one rotation, rotations are a cooldown
apart in the order of their keys, and the one revoked key that is kept remembers the
last (`KeysAreRotated`): hence a request that passes `CoolingDown` is a cooldown later
than every rotation. While an answer is stored that has not expired, its rotation is
the last one, because the next would have had to wait longer than the answer
lives; this is where the assumption enters, and without it a stored answer could
name a key that is revoked. `RotationsAreRecorded` relates rotations, consumed
sessions and stored answers; `LookedInVain` says that a repeated request past its
first lookup came too late for the answer, so it is never told that its session is
unknown. What is decided under the locks stays true until the commit (`Decided`),
which makes `CommitRotate` and `CommitExchange` steps of the ledger.

`EmailDeliveryProofs` proves, for any number of licenses, requests and dispatchers
and any delays, provided that a pass ends before its claims do (`TimeoutsAssumption`):

| theorem | property |
|---|---|
| `DeliveryTypesHold` | `TypeOK` |
| `ClaimsExclusiveHolds` | `ClaimsExclusive` |
| `NothingIsLostAlways` | `NothingIsLost` |

The argument. A dispatcher's row is gone, or it is queued and not due before the
retry delay has passed since its pass began (`Claimed`, `Pass`); a pass is never
that old, so the row is not due for anybody else. Time moves both sides alike. A row
that changes in another way than by going was held by nobody: it was due, or not
there (`Fresh`: nothing is mailed for what is not yet sold or prepared). That an
acknowledged email is one that SES has is part of `Pass`.

`AdmissionProofs` proves, for any number of requests, addresses, keys and emails
and any limits and durations:

| theorem | property |
|---|---|
| `AdmissionTypesHold` | `TypeOK` |
| `AdmittedWithinLimitsHolds` | `AdmittedWithinLimits`, the first part of `AttemptsAreLimited` |
| `AttemptsAreLimitedHolds` | `AttemptsAreLimited` |
| `OneJobPerKeyAlways` | `OneJobPerKey` |

The argument. Counters and credentials are held by one request each
(`LocksExclude`), so what a request found when it took them is still so at its
commit (`StillSo`): no answer that could be replayed, an address within its limit.
The last job of a key has an answer stored with it or after it until that has
expired (`JobsAreRecorded`), whether cleanup has removed it or a limited retry has
replaced it; so whoever adds a job comes a replay lifetime later. Cleanup spares the
current window, and windows follow each other (a lemma about `%`), so in the current
window nobody is admitted without being counted (`AdmissionsAreCounted`).

That the attempts counted on both sides agree (`CountsAgree`) would naturally be an
equation between two sums, which the provers cannot reason about. It is stated
instead about two sets of pairs: the n-th attempt of x, for every n up to x's counter.
A commit adds one pair to each set or none to either (`SidesAgree`): a
request whose address is over its limit counts nothing else, and one that counts for its
subject counts for its address within the limit. A new window starts with two empty
sets, because nobody has counted in it before it began (`NothingAhead`).

Only model-checked: `EveryRequestAnswered`, `AdjustmentsFinish`, `PaidIsServed`,
`EmailArrives`, `RequestReachesAll` and `CopiesAreCleared`, which are liveness under
fairness and out of reach of TLAPS. Every invariant and every action property that a
run checks is also proved.

## Not modelled, and why

* KMS, AES-GCM, key formats, hashing, configuration, HTTP encoding: no state that
  another step reads. Hashes and random tokens are taken to be distinct.
* Paging of Stripe lists, validation of catalog and identifiers: pure I/O; a
  failure there is one more `Fail`.
* `ListManagedActivations` and health checks: they read. The table `releases` is not
  used by any code.
* The batch size of `cleanupExpired`: each statement may leave rows for the next run;
  where that matters (`Admission`) rows go one by one, elsewhere the rows of one
  statement go together.
* Operators who edit rows by hand, other than revoking a license.

## Plan

Written, in this order: `SlotLedger`, `Activations`, `OrderBilling`, `OrderRepair`,
`ActivationsProofs`, `OrderBillingProofs`; then `AccessLedger` with
`LicenseAccess`, `EmailDelivery`, `SubscriptionTerms`, `Admission`, a module of
proofs for each of the last four, `ReplayProofs` and `ConvergenceProofs`; then
`LicenseLedger`, the common abstraction of `OrderBilling` and `SubscriptionTerms`, with
a proof for each. What is left:

* A refund that fails after it had succeeded. `SubscriptionTerms` lets a refund only
  succeed, and `Converged` of `OrderBilling` leaves `RefundUndone` out; what a customer
  may then expect would have to be settled first.
* Eligibility in one place. `Activations` takes the dates of a license as given and lets
  billing change them at will; `SubscriptionTerms` says which dates there can be. A ledger of
  eligibility that both implement would join them as `LicenseLedger` joins the other two.
* The bound of `EmailArrives` on the outbox, which is model-checked for one size, proved for
  any: it needs liveness, which TLAPS does not reach here.
