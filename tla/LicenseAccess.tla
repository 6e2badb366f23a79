--------------------------- MODULE LicenseAccess ---------------------------
(***************************************************************************)
(* How the owner of one license gets at it without an activated Mac        *)
(* (internal/activation/management.go, recovery.go, rotation.go): a        *)
(* management session is opened with the license key, or with the one-time *)
(* token of a recovery email, and is spent on a new license key.           *)
(*                                                                         *)
(* A client sends one request after the other, as often as it likes and    *)
(* with any token it ever received, so a lost answer and its retry need no *)
(* step of their own.  A request notes the time when it begins and compares *)
(* every expiry with that; the clock, the cleanup worker and billing go on *)
(* meanwhile.  Exchange and rotation lock the token and the license NOWAIT *)
(* and write under these locks; one lock stands for both, because there is *)
(* one license.  Sessions and keys are numbered as they are committed.     *)
(*                                                                         *)
(* Rate limits (module Admission) and managed activations (Activations)    *)
(* are left out.                                                           *)
(***************************************************************************)
EXTENDS Integers, FiniteSets

CONSTANTS
  Clients,
  Links,            \* recovery tokens that are ever mailed
  IdempotencyKeys,
  LinkLifetime,     \* recoveryTokenLifetime
  SessionLifetime,  \* managementTokenLifetime
  ReplayLifetime,   \* idempotencyLifetime
  Cooldown,         \* licenseKeyRotationCooldown
  MaxTime,          \* bound on the clock
  MaxSessions,      \* bound on the sessions ever opened
  NoOne             \* no client, no token, no idempotency key

ASSUME LifetimesAssumption ==
  /\ LinkLifetime \in Nat \ {0}
  /\ SessionLifetime \in Nat \ {0}
  /\ ReplayLifetime \in Nat \ {0}
  /\ Cooldown \in Nat
\* Both are 24 hours in the code.
ASSUME CooldownAssumption == ReplayLifetime <= Cooldown
ASSUME BoundsAssumption == MaxTime \in Nat /\ MaxSessions \in Nat
ASSUME NamesAssumption ==
  /\ NoOne \notin Clients \cup Links \cup IdempotencyKeys
  /\ Links \cap (Nat \cup {NoOne}) = {}
  /\ NoOne \notin Nat

VARIABLES
  activeKey,    \* license_keys: the active row, by number
  revokedKeys,  \* license_keys: the revoked rows
  standing,     \* licenses.state = 'active'
  links,        \* access_tokens of purpose 'recovery'
  sessions,     \* access_tokens of purpose 'management'
  records,      \* idempotency_records
  now,          \* the clock
  licenseLock,  \* who holds the license row and a token row
  pc,           \* where each client's request is
  call,         \* what it asked for
  reply,        \* the answer given in the last step
  mailed,       \* history: the recovery tokens minted so far
  minted,       \* history: the number of sessions opened so far
  rotations,    \* history: every rotation committed
  opened        \* history: every session opened with a recovery token

tables == <<activeKey, revokedKeys, standing, links, sessions, records>>
history == <<mailed, minted, rotations, opened>>
vars == <<activeKey, revokedKeys, standing, links, sessions, records, now,
          licenseLock, pc, call, reply, mailed, minted, rotations, opened>>

-----------------------------------------------------------------------------
Tokens == 1..MaxSessions
Times == 0..MaxTime
Expiries == 0..(MaxTime + LinkLifetime + SessionLifetime)
KeyNumbers == Nat \ {0}

RevokedKey == [key : KeyNumbers, at : Times]
Link == [token : Links, expires : Expiries, consumed : BOOLEAN]
Session == [token : Tokens, expires : Expiries]

\* A stored 2xx answer: the new session of an exchange, the key of a rotation.
Record == [cred : Links, idem : IdempotencyKeys, session : Tokens, at : Times]
          \cup [cred : Tokens, idem : IdempotencyKeys, key : KeyNumbers, at : Times]

\* `current` and `repeat` are history: the key in force when the request began,
\* and whether the rotation it asks for had been committed by then.
Calls ==
  [op : {"create"}, at : Times, key : KeyNumbers]
  \cup [op : {"exchange"}, at : Times, cred : Links, idem : IdempotencyKeys]
  \cup [op : {"rotate"}, at : Times, cred : Tokens, idem : IdempotencyKeys,
        current : KeyNumbers, repeat : BOOLEAN]
  \cup [op : {"none"}]
NoCall == [op |-> "none"]

Replies ==
  [to : Clients, status : {"session"}, session : Tokens]
  \cup [to : Clients, status : {"key"}, key : KeyNumbers]
  \cup [to : Clients,
        status : {"busy", "unauthorized", "rate_limited", "failed"}]
  \cup [to : {NoOne}, status : {"none"}]
Silence == [to |-> NoOne, status |-> "none"]

Rotation == [session : Tokens, idem : IdempotencyKeys, key : KeyNumbers,
             at : Times]

TypeOK ==
  /\ activeKey \in KeyNumbers
  /\ revokedKeys \subseteq RevokedKey
  /\ standing \in BOOLEAN
  /\ links \subseteq Link
  /\ sessions \subseteq Session
  /\ records \subseteq Record
  /\ now \in Times
  /\ licenseLock \in Clients \cup {NoOne}
  /\ pc \in [Clients -> {"idle", "begun", "looked", "inserting", "writing"}]
  /\ call \in [Clients -> Calls]
  /\ reply \in Replies
  /\ mailed \subseteq Links
  /\ minted \in 0..MaxSessions
  /\ rotations \subseteq Rotation
  /\ opened \subseteq Links \X Tokens

Init ==
  /\ activeKey = 1
  /\ revokedKeys = {}
  /\ standing = TRUE
  /\ links = {}
  /\ sessions = {}
  /\ records = {}
  /\ now = 0
  /\ licenseLock = NoOne
  /\ pc = [c \in Clients |-> "idle"]
  /\ call = [c \in Clients |-> NoCall]
  /\ reply = Silence
  /\ mailed = {}
  /\ minted = 0
  /\ rotations = {}
  /\ opened = {}

-----------------------------------------------------------------------------
(* Steps of a request *)

Proceed(c, stage) ==
  /\ pc' = [pc EXCEPT ![c] = stage]
  /\ reply' = Silence
  /\ UNCHANGED call

\* The answer of request c; its transaction, if any, is over.
Finish(c, answer) ==
  /\ pc' = [pc EXCEPT ![c] = "idle"]
  /\ call' = [call EXCEPT ![c] = NoCall]
  /\ reply' = answer
  /\ licenseLock' = IF licenseLock = c THEN NoOne ELSE licenseLock

\* A non-2xx answer changes no row.
Refuse(c, status) ==
  /\ Finish(c, [to |-> c, status |-> status])
  /\ UNCHANGED <<tables, history>>

\* Variant: the expiry of a stored answer is left to the cleanup worker.
ReplayUnexpired(x) ==
  {rec \in records : rec.cred = x.cred /\ rec.idem = x.idem}
\* loadIdempotency
Replay(x) ==
  {rec \in records : /\ rec.cred = x.cred
                     /\ rec.idem = x.idem
                     /\ rec.at + ReplayLifetime > x.at}

AnswerReplay(c) ==
  \E rec \in Replay(call[c]) :
    /\ Finish(c, IF call[c].op = "exchange"
                 THEN [to |-> c, status |-> "session", session |-> rec.session]
                 ELSE [to |-> c, status |-> "key", key |-> rec.key])
    /\ UNCHANGED <<tables, history>>

\* storeAndCommit replaces an expired record of the same key.
Store(x, rec) ==
  records' = {old \in records : old.cred # x.cred \/ old.idem # x.idem}
             \cup {rec}

Repeats(s, i) == \E r \in rotations : r.session = s /\ r.idem = i

\* What a client can ask for: with a key or a token it was given at some time.
NewCalls ==
  [op : {"create"}, at : {now}, key : 1..activeKey]
  \cup [op : {"exchange"}, at : {now}, cred : mailed, idem : IdempotencyKeys]
  \cup {[op |-> "rotate", at |-> now, cred |-> s, idem |-> i,
         current |-> activeKey, repeat |-> Repeats(s, i)] :
           s \in 1..minted, i \in IdempotencyKeys}

\* The handler validates its input and notes the time.
Receive(c) ==
  /\ pc[c] = "idle"
  /\ \E x \in NewCalls : call' = [call EXCEPT ![c] = x]
  /\ pc' = [pc EXCEPT ![c] = "begun"]
  /\ reply' = Silence
  /\ UNCHANGED <<tables, licenseLock, now, history>>

\* Variant: the answer is looked up only once the session is locked.
LookupSkipped(c) ==
  /\ pc[c] = "begun"
  /\ call[c].op \in {"exchange", "rotate"}
  /\ Proceed(c, "looked")
  /\ UNCHANGED <<tables, licenseLock, now, history>>

\* The first loadIdempotency, outside any transaction.
Lookup(c) ==
  /\ pc[c] = "begun"
  /\ call[c].op \in {"exchange", "rotate"}
  /\ \/ AnswerReplay(c)
     \/ /\ Replay(call[c]) = {}
        /\ Proceed(c, "looked")
        /\ UNCHANGED <<tables, licenseLock, history>>
  /\ UNCHANGED now

\* The row locks are taken NOWAIT.  Handlers of the other modules hold the
\* license row too, so any attempt may find it busy.
Busy(c) ==
  /\ pc[c] = "looked"
  /\ Refuse(c, "busy")
  /\ UNCHANGED now

TakeLocks(c) ==
  /\ licenseLock = NoOne
  /\ licenseLock' = c

-----------------------------------------------------------------------------
(* CreateManagementSession: one INSERT ... SELECT.  Its snapshot sees the   *)
(* key as it was when the statement began.                                  *)

ReadKey(c) ==
  /\ pc[c] = "begun"
  /\ call[c].op = "create"
  /\ \/ call[c].key # activeKey /\ Refuse(c, "unauthorized")
     \/ /\ call[c].key = activeKey
        /\ Proceed(c, "inserting")
        /\ UNCHANGED <<tables, licenseLock, history>>
  /\ UNCHANGED now

NewSession(at) == [token |-> minted + 1, expires |-> at + SessionLifetime]

\* The foreign key waits for a transaction that holds the license FOR UPDATE,
\* which an exchange does and a rotation does not.
InsertSession(c) ==
  /\ pc[c] = "inserting"
  /\ licenseLock # NoOne => call[licenseLock].op = "rotate"
  /\ minted < MaxSessions
  /\ sessions' = sessions \cup {NewSession(call[c].at)}
  /\ minted' = minted + 1
  /\ Finish(c, [to |-> c, status |-> "session", session |-> minted + 1])
  /\ UNCHANGED <<activeKey, revokedKeys, standing, links, records, now, mailed,
                 rotations, opened>>

-----------------------------------------------------------------------------
(* ExchangeRecoveryToken *)

RowsOf(l) == {row \in links : row.token = l}

\* Variant: consumed_at is not looked at.
AvailableAgain(row, at) == row.expires > at /\ standing
Available(row, at) == row.expires > at /\ ~row.consumed /\ standing

\* Under the locks: the second loadIdempotency, then the decision.  No row at
\* all locks nothing.
DecideExchange(c) ==
  /\ pc[c] = "looked"
  /\ call[c].op = "exchange"
  /\ \/ RowsOf(call[c].cred) = {} /\ Refuse(c, "unauthorized")
     \/ /\ RowsOf(call[c].cred) # {}
        /\ licenseLock = NoOne
        /\ AnswerReplay(c)
     \/ \E row \in RowsOf(call[c].cred) :
          /\ licenseLock = NoOne
          /\ Replay(call[c]) = {}
          /\ ~Available(row, call[c].at)
          /\ Refuse(c, "unauthorized")
     \/ \E row \in RowsOf(call[c].cred) :
          /\ TakeLocks(c)
          /\ Replay(call[c]) = {}
          /\ Available(row, call[c].at)
          /\ Proceed(c, "writing")
          /\ UNCHANGED <<tables, history>>
  /\ UNCHANGED now

\* The recovery token is consumed, the session inserted and the answer stored.
CommitExchange(c) ==
  LET x == call[c] IN
  /\ pc[c] = "writing"
  /\ x.op = "exchange"
  /\ minted < MaxSessions
  /\ links' = {IF row.token = x.cred THEN [row EXCEPT !.consumed = TRUE]
               ELSE row : row \in links}
  /\ sessions' = sessions \cup {NewSession(x.at)}
  /\ minted' = minted + 1
  /\ Store(x, [cred |-> x.cred, idem |-> x.idem, session |-> minted + 1,
               at |-> x.at])
  /\ opened' = opened \cup {<<x.cred, minted + 1>>}
  /\ Finish(c, [to |-> c, status |-> "session", session |-> minted + 1])
  /\ UNCHANGED <<activeKey, revokedKeys, standing, now, mailed, rotations>>

-----------------------------------------------------------------------------
(* RotateLicenseKey *)

\* licenseKeyRotationRetryAfter, from the keys that are still stored.
CoolingDown(at) == \E k \in revokedKeys : at < k.at + Cooldown

\* lockManagementLicense selects the session only while it is in force, and
\* does not ask whether the license stands.
InForce(x) == \E s \in sessions : s.token = x.cred /\ s.expires > x.at

DecideRotate(c) ==
  /\ pc[c] = "looked"
  /\ call[c].op = "rotate"
  /\ \/ ~InForce(call[c]) /\ Refuse(c, "unauthorized")
     \/ InForce(call[c]) /\ licenseLock = NoOne /\ AnswerReplay(c)
     \/ /\ InForce(call[c])
        /\ licenseLock = NoOne
        /\ Replay(call[c]) = {}
        /\ CoolingDown(call[c].at)
        /\ Refuse(c, "rate_limited")
     \/ /\ InForce(call[c])
        /\ TakeLocks(c)
        /\ Replay(call[c]) = {}
        /\ ~CoolingDown(call[c].at)
        /\ Proceed(c, "writing")
        /\ UNCHANGED <<tables, history>>
  /\ UNCHANGED now

\* Variants: the row just revoked is deleted with the older ones; the end of
\* the cooldown is stored instead of its beginning.
KeepNone(at) == {}
KeepDeadline(at) == {[key |-> activeKey, at |-> at + Cooldown]}
\* The active key is revoked; the rows revoked earlier are deleted.
KeepPrevious(at) == {[key |-> activeKey, at |-> at]}

CommitRotate(c) ==
  LET x == call[c] IN
  /\ pc[c] = "writing"
  /\ x.op = "rotate"
  /\ revokedKeys' = KeepPrevious(x.at)
  /\ activeKey' = activeKey + 1
  /\ sessions' = {s \in sessions : s.token # x.cred}
  /\ Store(x, [cred |-> x.cred, idem |-> x.idem, key |-> activeKey + 1,
               at |-> x.at])
  /\ rotations' = rotations \cup
       {[session |-> x.cred, idem |-> x.idem, key |-> activeKey + 1, at |-> x.at]}
  /\ Finish(c, [to |-> c, status |-> "key", key |-> activeKey + 1])
  /\ UNCHANGED <<standing, links, now, mailed, minted, opened>>

\* A statement or the commit fails, the client goes away or the process stops.
RollBack(c) ==
  /\ pc[c] \in {"begun", "looked", "inserting", "writing"}
  /\ Refuse(c, "failed")
  /\ UNCHANGED now

-----------------------------------------------------------------------------
(* The rest of the service *)

\* createRecoveryDelivery mints a token (module EmailDelivery), if need be for
\* a license restricted since findRecoveryLicenses saw it.
MailLink(l) ==
  /\ l \notin mailed
  /\ mailed' = mailed \cup {l}
  /\ links' = links \cup
       {[token |-> l, expires |-> now + LinkLifetime, consumed |-> FALSE]}
  /\ reply' = Silence
  /\ UNCHANGED <<activeKey, revokedKeys, standing, sessions, records, now,
                 licenseLock, pc, call, minted, rotations, opened>>

\* Billing restricts or restores the license; its UPDATE waits for the row.
AdjustLicense ==
  /\ licenseLock = NoOne
  /\ standing' = ~standing
  /\ reply' = Silence
  /\ UNCHANGED <<activeKey, revokedKeys, links, sessions, records, now,
                 licenseLock, pc, call, history>>

SparesRecord(rec) == rec.at + ReplayLifetime > now

CleanupRecords ==
  /\ \E rec \in records : ~SparesRecord(rec)
  /\ records' = {rec \in records : SparesRecord(rec)}
  /\ reply' = Silence
  /\ UNCHANGED <<activeKey, revokedKeys, standing, links, sessions, now,
                 licenseLock, pc, call, history>>

\* A token that a transaction has locked is skipped.
SparesToken(row) ==
  \/ row.expires > now
  \/ licenseLock # NoOne /\ call[licenseLock].cred = row.token

CleanupTokens ==
  /\ \E row \in links \cup sessions : ~SparesToken(row)
  /\ links' = {row \in links : SparesToken(row)}
  /\ sessions' = {row \in sessions : SparesToken(row)}
  /\ reply' = Silence
  /\ UNCHANGED <<activeKey, revokedKeys, standing, records, now, licenseLock,
                 pc, call, history>>

Tick ==
  /\ now < MaxTime
  /\ now' = now + 1
  /\ reply' = Silence
  /\ UNCHANGED <<tables, licenseLock, pc, call, history>>

-----------------------------------------------------------------------------
Next ==
  \/ \E c \in Clients :
       \/ Receive(c)
       \/ Lookup(c)
       \/ Busy(c)
       \/ ReadKey(c)
       \/ InsertSession(c)
       \/ DecideExchange(c)
       \/ CommitExchange(c)
       \/ DecideRotate(c)
       \/ CommitRotate(c)
       \/ RollBack(c)
  \/ \E l \in Links : MailLink(l)
  \/ AdjustLicense
  \/ CleanupRecords
  \/ CleanupTokens
  \/ Tick

Spec == Init /\ [][Next]_vars

-----------------------------------------------------------------------------
(* Properties *)

\* The time of the last rotation, which minted the key in force.
LastRotation ==
  IF rotations = {} THEN -Cooldown
  ELSE (CHOOSE r \in rotations : r.key = activeKey).at

Ledger == INSTANCE AccessLedger WITH
            key <- activeKey, rotatedAt <- LastRotation
\* Rotations take effect one at a time and at least the cooldown apart, although
\* old keys are deleted, sessions are many and a request compares with the time it
\* began; a recovery token opens at most one session, and none once the license
\* has been restricted, although both were checked before the commit.
ImplementsLedger == Ledger!Spec

\* Whether the rotation that request x repeats can still be replayed at time t.
Retrievable(x, t) ==
  \E r \in rotations : /\ r.session = x.cred
                       /\ r.idem = x.idem
                       /\ r.at + ReplayLifetime > t

\* A rotation whose answer was lost is not a lost key.  Whoever repeats the
\* request with the same idempotency key, after the commit and within the replay
\* lifetime, gets the new key or is told to try again, although the session was
\* consumed by that rotation and the cooldown has begun.
RotatedKeyIsNotLost ==
  [][\A c \in Clients :
       (/\ reply'.to = c
        /\ call[c].op = "rotate"
        /\ call[c].repeat
        /\ Retrievable(call[c], now))
       => reply'.status \in {"key", "busy", "failed"}]_vars

\* A key handed out, fresh or replayed, was in force when the request began or
\* came into force since: no stored answer outlives its key.
KeyIsCurrent ==
  [][\A c \in Clients :
       (reply'.to = c /\ reply'.status = "key") => reply'.key >= call[c].current]_vars
=============================================================================
