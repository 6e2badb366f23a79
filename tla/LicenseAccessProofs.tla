------------------------ MODULE LicenseAccessProofs ------------------------
(***************************************************************************)
(* What holds of access to a license for any number of clients, links,     *)
(* sessions and keys and for any lifetimes: the types, that a key handed   *)
(* out is no older than the request, that a lost answer is not a lost key, *)
(* and that the handlers implement AccessLedger.                           *)
(***************************************************************************)
EXTENDS LicenseAccess, TLAPS

\* Every key but the first came into force by one rotation, one cooldown or more
\* after the one before it, and the last revoked key remembers when.
KeysAreRotated ==
  /\ \A k \in 2..activeKey : \E r \in rotations : r.key = k
  /\ \A r \in rotations : r.key \in 2..activeKey /\ r.at <= now
  /\ \A r, q \in rotations : r.key = q.key => r = q
  /\ \A r, q \in rotations : r.key < q.key => r.at + Cooldown <= q.at
  /\ \A r \in rotations : r.key = activeKey => \E k \in revokedKeys : k.at = r.at

\* A rotation consumed its session, and its answer is kept for its lifetime.
RotationsAreRecorded ==
  /\ \A s \in sessions : s.token <= minted
  /\ \A r \in rotations : r.session <= minted /\ \A s \in sessions : s.token # r.session
  /\ \A rec \in records : rec.cred \in Tokens =>
       \E r \in rotations : r.key = rec.key /\ r.at = rec.at
  /\ \A r \in rotations : r.at + ReplayLifetime > now =>
       \E rec \in records : rec.cred = r.session /\ rec.idem = r.idem /\ rec.at = r.at

\* A recovery token that has opened a session is consumed.
LinksAreConsumed ==
  /\ \A row \in links : row.token \in mailed
  /\ \A p \in opened : p[1] \in mailed
  /\ \A row \in links, p \in opened : p[1] = row.token => row.consumed

\* What a request to rotate knew when it began.
RequestsAreLater ==
  \A c \in Clients : LET x == call[c] IN
    /\ x.op # "none" => x.at <= now
    /\ x.op = "exchange" => x.cred \in mailed
    /\ x.op = "rotate" =>
         /\ x.cred <= minted /\ x.current <= activeKey
         /\ \A r \in rotations : r.key <= x.current => r.at <= x.at
         /\ x.repeat => Repeats(x.cred, x.idem)

\* One that has looked for its answer in vain has come too late for it.
LookedInVain ==
  \A c \in Clients : LET x == call[c] IN
    (pc[c] \in {"looked", "writing"} /\ x.op = "rotate" /\ x.repeat) =>
      ~Retrievable(x, now)

\* What was decided under the locks stays true until the commit.
Decided ==
  \A c \in Clients : LET x == call[c] IN
    /\ pc[c] # "idle" => x.op # "none"
    /\ pc[c] = "inserting" => x.op = "create"
    /\ pc[c] = "writing" =>
         /\ licenseLock = c /\ x.op \in {"exchange", "rotate"}
         /\ x.op = "exchange" => standing /\ \A p \in opened : p[1] # x.cred
         /\ x.op = "rotate" =>
              ~CoolingDown(x.at) /\ \A r \in rotations : r.session # x.cred

Inv ==
  /\ TypeOK
  /\ KeysAreRotated
  /\ RotationsAreRecorded
  /\ LinksAreConsumed
  /\ RequestsAreLater
  /\ LookedInVain
  /\ Decided

-----------------------------------------------------------------------------
(* Types *)

LEMMA Numbers ==
  /\ LinkLifetime \in Nat /\ SessionLifetime \in Nat /\ ReplayLifetime \in Nat
  /\ ReplayLifetime > 0 /\ Cooldown \in Nat /\ ReplayLifetime <= Cooldown
  /\ MaxTime \in Nat /\ MaxSessions \in Nat
  /\ NoOne \notin Clients /\ NoOne \notin Nat
  /\ Links \cap Nat = {}
BY LifetimesAssumption, CooldownAssumption, BoundsAssumption, NamesAssumption

LEMMA TokensAreNumbers == Tokens \subseteq Nat /\ Links \cap Tokens = {} /\ Times \subseteq Nat
BY Numbers DEF Tokens, Times

LEMMA CallFields ==
  ASSUME NEW x \in Calls
  PROVE  /\ x.op \in {"create", "exchange", "rotate", "none"}
         /\ x.op # "none" => x.at \in Times
         /\ x.op = "create" => x.key \in KeyNumbers
         /\ x.op = "exchange" => x.cred \in Links /\ x.idem \in IdempotencyKeys
         /\ x.op = "rotate" => /\ x.cred \in Tokens /\ x.idem \in IdempotencyKeys
                               /\ x.current \in KeyNumbers /\ x.repeat \in BOOLEAN
BY DEF Calls

LEMMA RecordFields ==
  ASSUME NEW rec \in Record
  PROVE  /\ rec.at \in Times /\ rec.idem \in IdempotencyKeys
         /\ rec.cred \in Links \cup Tokens
         /\ rec.cred \in Links => rec.session \in Tokens
         /\ rec.cred \in Tokens => rec.key \in KeyNumbers
BY TokensAreNumbers DEF Record

Statuses == {"busy", "unauthorized", "rate_limited", "failed"}

LEMMA RepliesAreTyped ==
  /\ Silence \in Replies /\ NoCall \in Calls
  /\ \A c \in Clients : \A status \in Statuses : [to |-> c, status |-> status] \in Replies
  /\ \A c \in Clients, s \in Tokens :
       [to |-> c, status |-> "session", session |-> s] \in Replies
  /\ \A c \in Clients, k \in KeyNumbers :
       [to |-> c, status |-> "key", key |-> k] \in Replies
BY DEF Silence, NoCall, Calls, Replies, Statuses

\* What a step does to the request itself, and to the lock.
RequestTyped ==
  /\ licenseLock' \in Clients \cup {NoOne}
  /\ pc' \in [Clients -> {"idle", "begun", "looked", "inserting", "writing"}]
  /\ call' \in [Clients -> Calls]
  /\ reply' \in Replies

LEMMA FinishIsTyped ==
  ASSUME TypeOK, NEW c \in Clients, NEW answer \in Replies, Finish(c, answer)
  PROVE  RequestTyped
BY RepliesAreTyped DEF TypeOK, Finish, RequestTyped

LEMMA ProceedIsTyped ==
  ASSUME TypeOK, NEW c \in Clients, NEW stage \in {"looked", "inserting", "writing"},
         Proceed(c, stage), licenseLock' \in Clients \cup {NoOne}
  PROVE  RequestTyped
BY RepliesAreTyped DEF TypeOK, Proceed, RequestTyped

-----------------------------------------------------------------------------
(* Steps that write nothing *)

\* Request c ends, goes on to another stage, or is new; the lock is as it was, or
\* passes between c and nobody.
Moves(c) ==
  /\ UNCHANGED <<tables, history, now>>
  /\ RequestTyped
  /\ \A d \in Clients \ {c} : pc'[d] = pc[d] /\ call'[d] = call[d]
  /\ \A d \in Clients \ {c} : licenseLock = d => licenseLock' = d

\* The invariant of c alone.
OwnRequest(c) ==
  LET x == call'[c] IN
  /\ x.op # "none" => x.at <= now
  /\ x.op = "exchange" => x.cred \in mailed
  /\ x.op = "rotate" =>
       /\ x.cred <= minted /\ x.current <= activeKey
       /\ \A r \in rotations : r.key <= x.current => r.at <= x.at
       /\ x.repeat => Repeats(x.cred, x.idem)
  /\ (pc'[c] \in {"looked", "writing"} /\ x.op = "rotate" /\ x.repeat) =>
       ~Retrievable(x, now)
  /\ pc'[c] # "idle" => x.op # "none"
  /\ pc'[c] = "inserting" => x.op = "create"
  /\ pc'[c] = "writing" =>
       /\ licenseLock' = c /\ x.op \in {"exchange", "rotate"}
       /\ x.op = "exchange" => standing /\ \A p \in opened : p[1] # x.cred
       /\ x.op = "rotate" =>
            ~CoolingDown(x.at) /\ \A r \in rotations : r.session # x.cred

LEMMA MovesKeepInv ==
  ASSUME Inv, NEW c \in Clients, Moves(c), OwnRequest(c)
  PROVE  Inv'
<1>1. /\ UNCHANGED <<activeKey, revokedKeys, standing, links, sessions, records, now,
                     mailed, minted, rotations, opened>>
  BY DEF Moves, tables, history
<1>2. TypeOK'
  BY <1>1 DEF Inv, TypeOK, Moves, RequestTyped
<1>3. KeysAreRotated' /\ RotationsAreRecorded' /\ LinksAreConsumed'
  BY <1>1 DEF Inv, KeysAreRotated, RotationsAreRecorded, LinksAreConsumed
<1>4. \A s, i : Repeats(s, i)' = Repeats(s, i)
  BY <1>1 DEF Repeats
<1>5. \A x, t : Retrievable(x, t)' = Retrievable(x, t)
  BY <1>1 DEF Retrievable
<1>6. \A t : CoolingDown(t)' = CoolingDown(t)
  BY <1>1 DEF CoolingDown
<1>7. RequestsAreLater'
  BY <1>1, <1>4 DEF Inv, RequestsAreLater, Moves, OwnRequest
<1>8. LookedInVain'
  BY <1>1, <1>5 DEF Inv, LookedInVain, Moves, OwnRequest
<1>9. Decided'
  BY <1>1, <1>6 DEF Inv, Decided, Moves, OwnRequest
<1> QED BY <1>2, <1>3, <1>7, <1>8, <1>9 DEF Inv

\* A request that ends leaves nothing behind.
LEMMA FinishKeepsInv ==
  ASSUME Inv, NEW c \in Clients, NEW answer \in Replies, Finish(c, answer),
         UNCHANGED <<tables, history, now>>
  PROVE  Inv'
<1>1. Moves(c)
  <2>1. RequestTyped
    BY FinishIsTyped DEF Inv
  <2>2. \A d \in Clients \ {c} : pc'[d] = pc[d] /\ call'[d] = call[d]
    BY DEF Finish, Inv, TypeOK
  <2>3. \A d \in Clients \ {c} : licenseLock = d => licenseLock' = d
    BY DEF Finish
  <2> QED BY <2>1, <2>2, <2>3 DEF Moves
<1>2. pc'[c] = "idle" /\ call'[c].op = "none"
  BY DEF Finish, NoCall, Inv, TypeOK
<1>3. OwnRequest(c)
  BY <1>2 DEF OwnRequest
<1> QED BY <1>1, <1>3, MovesKeepInv

LEMMA RefuseKeepsInv ==
  ASSUME Inv, NEW c \in Clients, NEW status \in Statuses, Refuse(c, status),
         UNCHANGED now
  PROVE  Inv'
BY RepliesAreTyped, FinishKeepsInv DEF Refuse

LEMMA AnswerReplayKeepsInv ==
  ASSUME Inv, NEW c \in Clients, AnswerReplay(c), call[c].op \in {"exchange", "rotate"},
         UNCHANGED now
  PROVE  Inv'
<1>1. PICK rec \in Replay(call[c]) :
        /\ Finish(c, IF call[c].op = "exchange"
                     THEN [to |-> c, status |-> "session", session |-> rec.session]
                     ELSE [to |-> c, status |-> "key", key |-> rec.key])
        /\ UNCHANGED <<tables, history>>
  BY DEF AnswerReplay
<1>2. rec \in Record /\ rec.cred = call[c].cred /\ call[c] \in Calls
  BY DEF Replay, Inv, TypeOK
<1>3. CASE call[c].op = "exchange"
  <2>1. rec.session \in Tokens
    BY <1>2, <1>3, CallFields, RecordFields
  <2>2. Finish(c, [to |-> c, status |-> "session", session |-> rec.session])
    BY <1>1, <1>3
  <2> QED BY <1>1, <2>1, <2>2, RepliesAreTyped, FinishKeepsInv
<1>4. CASE call[c].op = "rotate"
  <2>1. rec.key \in KeyNumbers
    BY <1>2, <1>4, CallFields, RecordFields
  <2>2. Finish(c, [to |-> c, status |-> "key", key |-> rec.key])
    BY <1>1, <1>4
  <2> QED BY <1>1, <2>1, <2>2, RepliesAreTyped, FinishKeepsInv
<1> QED BY <1>3, <1>4

\* A request that goes on without having decided anything.
LEMMA ProceedKeepsInv ==
  ASSUME Inv, NEW c \in Clients, NEW stage \in {"looked", "inserting"}, Proceed(c, stage),
         pc[c] = "begun", stage = "inserting" => call[c].op = "create",
         stage = "looked" /\ call[c].op = "rotate" /\ call[c].repeat
           => ~Retrievable(call[c], now),
         UNCHANGED <<tables, history, now, licenseLock>>
  PROVE  Inv'
<1>1. Moves(c)
  <2>1. RequestTyped
    BY ProceedIsTyped DEF Inv, TypeOK
  <2>2. \A d \in Clients \ {c} : pc'[d] = pc[d] /\ call'[d] = call[d]
    BY DEF Proceed, Inv, TypeOK
  <2> QED BY <2>1, <2>2 DEF Moves
<1>2. pc'[c] = stage /\ call'[c] = call[c]
  BY DEF Proceed, Inv, TypeOK
<1>3. OwnRequest(c)
  BY <1>2 DEF OwnRequest, Inv, RequestsAreLater, Decided
<1> QED BY <1>1, <1>3, MovesKeepInv

LEMMA ReceiveKeepsInv ==
  ASSUME Inv, NEW c \in Clients, Receive(c)
  PROVE  Inv'
<1>1. PICK x \in NewCalls : call' = [call EXCEPT ![c] = x]
  BY DEF Receive
<1>2. /\ pc' = [pc EXCEPT ![c] = "begun"] /\ reply' = Silence
      /\ UNCHANGED <<tables, licenseLock, now, history>>
  BY DEF Receive
<1>3. /\ now \in Times /\ activeKey \in KeyNumbers /\ mailed \subseteq Links
      /\ 1..minted \subseteq Tokens
      /\ call \in [Clients -> Calls]
      /\ pc \in [Clients -> {"idle", "begun", "looked", "inserting", "writing"}]
  BY Numbers DEF Inv, TypeOK, Tokens
<1>4. x \in Calls /\ x.op # "none" /\ x.at = now
  <2>1. CASE x \in [op : {"create"}, at : {now}, key : 1..activeKey]
    <3>1. 1..activeKey \subseteq KeyNumbers
      BY <1>3 DEF KeyNumbers
    <3> QED BY <1>3, <2>1, <3>1 DEF Calls
  <2>2. CASE x \in [op : {"exchange"}, at : {now}, cred : mailed, idem : IdempotencyKeys]
    BY <1>3, <2>2 DEF Calls
  <2>3. ASSUME NEW s \in 1..minted, NEW i \in IdempotencyKeys,
               x = [op |-> "rotate", at |-> now, cred |-> s, idem |-> i,
                    current |-> activeKey, repeat |-> Repeats(s, i)]
        PROVE  x \in Calls /\ x.op # "none" /\ x.at = now
    <3>1. Repeats(s, i) \in BOOLEAN
      BY DEF Repeats
    <3> QED BY <1>3, <2>3, <3>1 DEF Calls
  <2> QED BY <2>1, <2>2, <2>3 DEF NewCalls
<1>5. /\ x.op = "exchange" => x.cred \in mailed
      /\ x.op = "rotate" =>
           /\ x.current = activeKey /\ x.cred <= minted
           /\ x.repeat => Repeats(x.cred, x.idem)
  BY DEF NewCalls
<1>6. Moves(c)
  <2>1. RequestTyped
    BY <1>1, <1>2, <1>3, <1>4, RepliesAreTyped DEF RequestTyped, Inv, TypeOK
  <2> QED BY <1>1, <1>2, <1>3, <2>1 DEF Moves
<1>7. pc'[c] = "begun" /\ call'[c] = x
  BY <1>1, <1>2, <1>3
<1>8. OwnRequest(c)
  <2>1. now \in Nat /\ activeKey \in Nat
    BY <1>3, TokensAreNumbers DEF KeyNumbers
  <2>2. \A r \in rotations : r.at <= now
    BY DEF Inv, KeysAreRotated
  <2> QED BY <1>4, <1>5, <1>7, <2>1, <2>2 DEF OwnRequest
<1> QED BY <1>6, <1>8, MovesKeepInv

\* Without a stored answer, no rotation can be repeated any more.
LEMMA NothingToReplay ==
  ASSUME Inv, NEW c \in Clients, call[c].op = "rotate", Replay(call[c]) = {}
  PROVE  ~Retrievable(call[c], now)
<1> SUFFICES ASSUME NEW r \in rotations, r.session = call[c].cred, r.idem = call[c].idem,
                    r.at + ReplayLifetime > now
             PROVE  FALSE
  BY DEF Retrievable
<1>1. PICK rec \in records : rec.cred = r.session /\ rec.idem = r.idem /\ rec.at = r.at
  BY DEF Inv, RotationsAreRecorded
<1>2. call[c].at <= now /\ call[c].at \in Nat /\ now \in Nat /\ r.at \in Nat
  BY CallFields, TokensAreNumbers DEF Inv, TypeOK, RequestsAreLater, Rotation
<1>3. rec.at + ReplayLifetime > call[c].at
  BY <1>1, <1>2, Numbers
<1> QED BY <1>1, <1>3 DEF Replay

LEMMA LookupKeepsInv ==
  ASSUME Inv, NEW c \in Clients, Lookup(c)
  PROVE  Inv'
<1>1. CASE AnswerReplay(c)
  BY <1>1, AnswerReplayKeepsInv DEF Lookup
<1>2. CASE Replay(call[c]) = {} /\ Proceed(c, "looked")
           /\ UNCHANGED <<tables, licenseLock, history>>
  BY <1>2, NothingToReplay, ProceedKeepsInv DEF Lookup
<1> QED BY <1>1, <1>2 DEF Lookup

LEMMA ReadKeyKeepsInv ==
  ASSUME Inv, NEW c \in Clients, ReadKey(c)
  PROVE  Inv'
<1>1. CASE Refuse(c, "unauthorized")
  BY <1>1, RefuseKeepsInv DEF ReadKey, Statuses
<1>2. CASE Proceed(c, "inserting") /\ UNCHANGED <<tables, licenseLock, history>>
  BY <1>2, ProceedKeepsInv DEF ReadKey
<1> QED BY <1>1, <1>2 DEF ReadKey

LEMMA BusyKeepsInv ==
  ASSUME Inv, NEW c \in Clients, Busy(c)
  PROVE  Inv'
BY RefuseKeepsInv DEF Busy, Statuses

LEMMA RollBackKeepsInv ==
  ASSUME Inv, NEW c \in Clients, RollBack(c)
  PROVE  Inv'
BY RefuseKeepsInv DEF RollBack, Statuses

\* A decision to write is taken by whoever gets the locks.
LEMMA DecisionKeepsInv ==
  ASSUME Inv, NEW c \in Clients, pc[c] = "looked", TakeLocks(c), Proceed(c, "writing"),
         UNCHANGED <<tables, history, now>>,
         call[c].op \in {"exchange", "rotate"},
         call[c].op = "exchange" => standing /\ \A p \in opened : p[1] # call[c].cred,
         call[c].op = "rotate" =>
           ~CoolingDown(call[c].at) /\ \A r \in rotations : r.session # call[c].cred
  PROVE  Inv'
<1>1. licenseLock = NoOne /\ licenseLock' = c
  BY DEF TakeLocks
<1>2. Moves(c)
  <2>1. RequestTyped
    BY <1>1, ProceedIsTyped DEF Inv
  <2>2. \A d \in Clients \ {c} : pc'[d] = pc[d] /\ call'[d] = call[d]
    BY DEF Proceed, Inv, TypeOK
  <2> QED BY <1>1, <2>1, <2>2, Numbers DEF Moves
<1>3. pc'[c] = "writing" /\ call'[c] = call[c]
  BY DEF Proceed, Inv, TypeOK
<1>4. OwnRequest(c)
  BY <1>1, <1>3 DEF OwnRequest, Inv, RequestsAreLater, LookedInVain
<1> QED BY <1>2, <1>4, MovesKeepInv

LEMMA DecideExchangeKeepsInv ==
  ASSUME Inv, NEW c \in Clients, DecideExchange(c)
  PROVE  Inv'
<1>1. CASE Refuse(c, "unauthorized")
  BY <1>1, RefuseKeepsInv DEF DecideExchange, Statuses
<1>2. CASE AnswerReplay(c)
  BY <1>2, AnswerReplayKeepsInv DEF DecideExchange
<1>3. ASSUME NEW row \in RowsOf(call[c].cred), TakeLocks(c),
             Available(row, call[c].at), Proceed(c, "writing"),
             UNCHANGED <<tables, history>>
      PROVE  Inv'
  <2>1. standing /\ ~row.consumed /\ row \in links /\ row.token = call[c].cred
    BY <1>3 DEF Available, RowsOf
  <2>2. \A p \in opened : p[1] # call[c].cred
    BY <2>1 DEF Inv, LinksAreConsumed
  <2> QED BY <1>3, <2>1, <2>2, DecisionKeepsInv DEF DecideExchange
<1> QED BY <1>1, <1>2, <1>3 DEF DecideExchange

LEMMA DecideRotateKeepsInv ==
  ASSUME Inv, NEW c \in Clients, DecideRotate(c)
  PROVE  Inv'
<1>1. CASE Refuse(c, "unauthorized") \/ Refuse(c, "rate_limited")
  BY <1>1, RefuseKeepsInv DEF DecideRotate, Statuses
<1>2. CASE AnswerReplay(c)
  BY <1>2, AnswerReplayKeepsInv DEF DecideRotate
<1>3. CASE /\ InForce(call[c]) /\ TakeLocks(c) /\ ~CoolingDown(call[c].at)
           /\ Proceed(c, "writing") /\ UNCHANGED <<tables, history>>
  <2>1. \A r \in rotations : r.session # call[c].cred
    BY <1>3 DEF InForce, Inv, RotationsAreRecorded
  <2> QED BY <1>3, <2>1, DecisionKeepsInv DEF DecideRotate
<1> QED BY <1>1, <1>2, <1>3 DEF DecideRotate

-----------------------------------------------------------------------------
(* Steps that write *)

\* The others do not notice that c has ended.
LEMMA FinishLeavesOthers ==
  ASSUME Inv, NEW c \in Clients, NEW answer, Finish(c, answer)
  PROVE  /\ pc'[c] = "idle" /\ call'[c].op = "none"
         /\ \A d \in Clients \ {c} : pc'[d] = pc[d] /\ call'[d] = call[d]
         /\ \A d \in Clients \ {c} : licenseLock = d => licenseLock' = d
BY DEF Finish, NoCall, Inv, TypeOK

LEMMA NewSessionIsTyped ==
  ASSUME Inv, NEW at \in Times, minted < MaxSessions
  PROVE  /\ minted + 1 \in Tokens /\ minted + 1 \in 0..MaxSessions
         /\ NewSession(at) \in Session /\ NewSession(at).token = minted + 1
<1>1. minted + 1 \in Tokens /\ minted + 1 \in 0..MaxSessions
  BY Numbers DEF Inv, TypeOK, Tokens
<1>2. at + SessionLifetime \in Expiries
  BY Numbers DEF Times, Expiries
<1> QED BY <1>1, <1>2 DEF NewSession, Session

\* A session more changes nothing for keys, rotations and requests.
LEMMA SessionKeepsRotations ==
  ASSUME Inv, NEW at \in Times, minted < MaxSessions,
         sessions' = sessions \cup {NewSession(at)}, minted' = minted + 1,
         UNCHANGED <<activeKey, revokedKeys, now, rotations>>,
         records \subseteq records' \/
           \A rec \in records \ records' : rec.cred \in Links,
         \A rec \in records' \ records : rec.cred \in Links
  PROVE  KeysAreRotated' /\ RotationsAreRecorded'
<1>1. KeysAreRotated'
  BY DEF Inv, KeysAreRotated
<1>2. NewSession(at).token = minted + 1 /\ minted \in Nat
  BY NewSessionIsTyped, Numbers DEF Inv, TypeOK
<1>3. \A s \in sessions' : s.token <= minted'
  <2>1. \A s \in sessions : s.token \in Nat /\ s.token <= minted
    BY TokensAreNumbers DEF Inv, TypeOK, Session, RotationsAreRecorded
  <2> QED BY <1>2, <2>1
<1>4. \A r \in rotations : r.session <= minted' /\ \A s \in sessions' : s.token # r.session
  <2>1. \A r \in rotations : /\ r.session \in Nat /\ r.session <= minted
                             /\ \A s \in sessions : s.token # r.session
    BY TokensAreNumbers DEF Inv, TypeOK, Rotation, RotationsAreRecorded
  <2> QED BY <1>2, <2>1
<1>5. \A rec \in records' : rec.cred \in Tokens =>
        \E r \in rotations : r.key = rec.key /\ r.at = rec.at
  BY TokensAreNumbers DEF Inv, RotationsAreRecorded
<1>6. \A r \in rotations : r.at + ReplayLifetime > now =>
        \E rec \in records' : rec.cred = r.session /\ rec.idem = r.idem /\ rec.at = r.at
  <2> SUFFICES ASSUME NEW r \in rotations, r.at + ReplayLifetime > now
               PROVE  \E rec \in records' :
                        rec.cred = r.session /\ rec.idem = r.idem /\ rec.at = r.at
    OBVIOUS
  <2>1. PICK rec \in records : rec.cred = r.session /\ rec.idem = r.idem /\ rec.at = r.at
    BY DEF Inv, RotationsAreRecorded
  <2>2. rec.cred \notin Links
    BY <2>1, TokensAreNumbers DEF Inv, TypeOK, Rotation
  <2> QED BY <2>1, <2>2
<1> QED BY <1>1, <1>3, <1>4, <1>5, <1>6 DEF RotationsAreRecorded

\* Nor does anything that leaves keys and rotations alone, for the other requests.
LEMMA OthersKeepInv ==
  ASSUME Inv, NEW c \in Clients, NEW answer, Finish(c, answer),
         UNCHANGED <<activeKey, revokedKeys, standing, now, mailed, rotations>>,
         minted' \in {minted, minted + 1},
         opened' = opened \/
           (licenseLock = c /\ opened \subseteq opened' /\
             \A d \in Clients : licenseLock = d => d = c)
  PROVE  RequestsAreLater' /\ LookedInVain' /\ Decided'
<1>1. \A s, i : Repeats(s, i)' = Repeats(s, i)
  BY DEF Repeats
<1>2. \A x, t : Retrievable(x, t)' = Retrievable(x, t)
  BY DEF Retrievable
<1>3. \A t : CoolingDown(t)' = CoolingDown(t)
  BY DEF CoolingDown
<1>4. RequestsAreLater'
  <2>1. \A d \in Clients : call[d].op = "rotate" =>
          call[d].cred <= minted /\ call[d].cred \in Nat /\ minted \in Nat
    <3>1. \A d \in Clients : call[d].op = "rotate" => call[d].cred \in Tokens
      BY CallFields DEF Inv, TypeOK
    <3>2. minted \in Nat
      BY Numbers DEF Inv, TypeOK
    <3> QED BY <3>1, <3>2, TokensAreNumbers DEF Inv, RequestsAreLater
  <2>2. \A d \in Clients : call[d].op = "rotate" => call[d].cred <= minted'
    BY <2>1
  <2> QED BY <1>1, <2>2, FinishLeavesOthers DEF Inv, RequestsAreLater
<1>5. LookedInVain'
  BY <1>2, FinishLeavesOthers DEF Inv, LookedInVain
<1>6. Decided'
  BY <1>3, FinishLeavesOthers DEF Inv, Decided
<1> QED BY <1>4, <1>5, <1>6

LEMMA InsertSessionKeepsInv ==
  ASSUME Inv, NEW c \in Clients, InsertSession(c)
  PROVE  Inv'
<1>1. /\ minted < MaxSessions /\ minted' = minted + 1
      /\ sessions' = sessions \cup {NewSession(call[c].at)}
      /\ Finish(c, [to |-> c, status |-> "session", session |-> minted + 1])
      /\ UNCHANGED <<activeKey, revokedKeys, standing, links, records, now, mailed,
                     rotations, opened>>
  BY DEF InsertSession
<1>2. call[c].at \in Times
  <2>1. pc[c] # "idle" /\ call[c] \in Calls
    BY DEF InsertSession, Inv, TypeOK
  <2> QED BY <2>1, CallFields DEF Inv, Decided
<1>3. /\ minted + 1 \in Tokens /\ minted + 1 \in 0..MaxSessions
      /\ NewSession(call[c].at) \in Session
  BY <1>1, <1>2, NewSessionIsTyped
<1>4. RequestTyped
  BY <1>1, <1>3, RepliesAreTyped, FinishIsTyped DEF Inv
<1>5. TypeOK'
  BY <1>1, <1>3, <1>4 DEF Inv, TypeOK, RequestTyped
<1>6. KeysAreRotated' /\ RotationsAreRecorded'
  BY <1>1, <1>2, SessionKeepsRotations
<1>7. LinksAreConsumed'
  BY <1>1 DEF Inv, LinksAreConsumed
<1>8. RequestsAreLater' /\ LookedInVain' /\ Decided'
  BY <1>1, OthersKeepInv
<1> QED BY <1>5, <1>6, <1>7, <1>8 DEF Inv

\* Nobody else is about to write.
LEMMA OneWriter ==
  ASSUME Inv, NEW c \in Clients, pc[c] = "writing"
  PROVE  licenseLock = c /\ \A d \in Clients : pc[d] = "writing" => d = c
BY DEF Inv, Decided

LEMMA CommitExchangeKeepsInv ==
  ASSUME Inv, NEW c \in Clients, CommitExchange(c)
  PROVE  Inv'
<1> DEFINE x == call[c]
           rec == [cred |-> x.cred, idem |-> x.idem, session |-> minted + 1, at |-> x.at]
<1>1. /\ pc[c] = "writing" /\ x.op = "exchange"
      /\ minted < MaxSessions /\ minted' = minted + 1
      /\ links' = {IF row.token = x.cred THEN [row EXCEPT !.consumed = TRUE]
                   ELSE row : row \in links}
      /\ sessions' = sessions \cup {NewSession(x.at)}
      /\ records' = {old \in records : old.cred # x.cred \/ old.idem # x.idem} \cup {rec}
      /\ opened' = opened \cup {<<x.cred, minted + 1>>}
      /\ Finish(c, [to |-> c, status |-> "session", session |-> minted + 1])
      /\ UNCHANGED <<activeKey, revokedKeys, standing, now, mailed, rotations>>
  BY DEF CommitExchange, Store
<1>2. x.at \in Times /\ x.cred \in Links /\ x.idem \in IdempotencyKeys
  BY <1>1, CallFields DEF Inv, TypeOK
<1>3. /\ minted + 1 \in Tokens /\ minted + 1 \in 0..MaxSessions
      /\ NewSession(x.at) \in Session
  BY <1>1, <1>2, NewSessionIsTyped
<1>4. RequestTyped
  BY <1>1, <1>3, RepliesAreTyped, FinishIsTyped DEF Inv
<1>5. rec \in Record
  BY <1>2, <1>3 DEF Record
<1>6. links' \subseteq Link /\ \A row \in links' :
        /\ \E old \in links : old.token = row.token /\ (old.consumed => row.consumed)
        /\ row.token = x.cred => row.consumed
  BY <1>1 DEF Inv, TypeOK, Link
<1>7. TypeOK'
  BY <1>1, <1>2, <1>3, <1>4, <1>5, <1>6 DEF Inv, TypeOK, RequestTyped
<1>8. KeysAreRotated' /\ RotationsAreRecorded'
  <2>1. \A old \in records \ records' : old.cred \in Links
    BY <1>1, <1>2
  <2>2. \A new \in records' \ records : new.cred \in Links
    BY <1>1, <1>2
  <2> QED BY <1>1, <1>2, <2>1, <2>2, SessionKeepsRotations
<1>9. LinksAreConsumed'
  <2>1. x.cred \in mailed
    BY <1>1 DEF Inv, RequestsAreLater
  <2> QED BY <1>1, <1>6, <2>1 DEF Inv, LinksAreConsumed
<1>10. RequestsAreLater' /\ LookedInVain' /\ Decided'
  BY <1>1, OneWriter, OthersKeepInv
<1> QED BY <1>7, <1>8, <1>9, <1>10 DEF Inv

LEMMA CommitRotateKeepsInv ==
  ASSUME Inv, NEW c \in Clients, CommitRotate(c)
  PROVE  Inv'
<1> DEFINE x == call[c]
           rec == [cred |-> x.cred, idem |-> x.idem, key |-> activeKey + 1, at |-> x.at]
           new == [session |-> x.cred, idem |-> x.idem, key |-> activeKey + 1, at |-> x.at]
<1>1. /\ pc[c] = "writing" /\ x.op = "rotate"
      /\ revokedKeys' = {[key |-> activeKey, at |-> x.at]}
      /\ activeKey' = activeKey + 1
      /\ sessions' = {s \in sessions : s.token # x.cred}
      /\ records' = {old \in records : old.cred # x.cred \/ old.idem # x.idem} \cup {rec}
      /\ rotations' = rotations \cup {new}
      /\ Finish(c, [to |-> c, status |-> "key", key |-> activeKey + 1])
      /\ UNCHANGED <<standing, links, now, mailed, minted, opened>>
  BY DEF CommitRotate, Store, KeepPrevious
<1>0. /\ new.session = x.cred /\ new.idem = x.idem /\ new.at = x.at
      /\ rec.cred = x.cred /\ rec.idem = x.idem /\ rec.at = x.at
      /\ new.key = activeKey + 1 /\ rec.key = activeKey + 1
  OBVIOUS
<1>2. /\ x.at \in Times /\ x.cred \in Tokens /\ x.idem \in IdempotencyKeys
      /\ x.at <= now
  <2>1. x \in Calls
    BY DEF Inv, TypeOK
  <2>2. x.at <= now
    BY <1>1 DEF Inv, RequestsAreLater
  <2>3. x.op = "rotate"
    BY <1>1
  <2> HIDE DEF x
  <2> QED BY <2>1, <2>2, <2>3, CallFields
<1>3. /\ activeKey \in Nat /\ activeKey > 0 /\ activeKey + 1 \in KeyNumbers
      /\ x.at \in Nat
  <2>1. activeKey \in Nat \ {0}
    BY DEF Inv, TypeOK, KeyNumbers
  <2>2. activeKey > 0 /\ activeKey + 1 \in KeyNumbers
    BY <2>1 DEF KeyNumbers
  <2>3. x.at \in Nat
    BY <1>2, TokensAreNumbers
  <2> QED BY <2>1, <2>2, <2>3
<1>4. RequestTyped
  BY <1>1, <1>3, RepliesAreTyped, FinishIsTyped DEF Inv
<1>5. rec \in Record /\ new \in Rotation
  BY <1>2, <1>3 DEF Record, Rotation
<1> HIDE DEF new, rec
<1>6. [key |-> activeKey, at |-> x.at] \in RevokedKey
  BY <1>2, <1>3 DEF RevokedKey, KeyNumbers
<1>7. TypeOK'
  BY <1>0, <1>1, <1>3, <1>4, <1>5, <1>6 DEF Inv, TypeOK, RequestTyped
<1>8. /\ ~CoolingDown(x.at) /\ \A r \in rotations : r.session # x.cred
      /\ \A d \in Clients : pc[d] = "writing" => d = c
  <2>1. pc[c] = "writing" /\ call[c].op = "rotate"
    BY <1>1
  <2>2. ~CoolingDown(call[c].at) /\ \A r \in rotations : r.session # call[c].cred
    BY <2>1 DEF Inv, Decided
  <2>3. \A d \in Clients : pc[d] = "writing" => d = c
    BY <2>1, OneWriter
  <2> QED BY <2>2, <2>3
<1>9. \A r \in rotations : /\ r.key \in 2..activeKey /\ r.at \in Nat /\ r.session \in Nat
                           /\ r.key \in Nat
  <2>1. \A r \in rotations : r.at \in Times /\ r.session \in Tokens
    BY DEF Inv, TypeOK, Rotation
  <2>2. \A r \in rotations : r.key \in 2..activeKey
    BY DEF Inv, KeysAreRotated
  <2>3. \A n \in 2..activeKey : n \in Nat
    BY <1>3
  <2> QED BY <2>1, <2>2, <2>3, TokensAreNumbers
<1>10. KeysAreRotated'
  <2>1. ASSUME NEW k \in 2..activeKey' PROVE \E r \in rotations' : r.key = k
    <3>1. CASE k = activeKey + 1
      BY <1>0, <1>1, <3>1
    <3>2. CASE k # activeKey + 1
      <4>1. k \in 2..activeKey
        BY <1>0, <1>1, <1>3, <3>2
      <4> QED BY <1>0, <1>1, <4>1 DEF Inv, KeysAreRotated
    <3> QED BY <3>1, <3>2
  <2>2. ASSUME NEW r \in rotations' PROVE r.key \in 2..activeKey' /\ r.at <= now'
    BY <1>0, <1>1, <1>2, <1>3, <1>9 DEF Inv, KeysAreRotated
  <2>3. ASSUME NEW r \in rotations', NEW q \in rotations', r.key = q.key PROVE r = q
    <3>1. \A p \in rotations : p.key # activeKey + 1
      BY <1>3, <1>9
    <3> QED BY <1>0, <1>1, <2>3, <3>1 DEF Inv, KeysAreRotated
  <2>4. ASSUME NEW r \in rotations PROVE r.at + Cooldown <= x.at
    <3>1. activeKey \in 2..activeKey
      BY <1>3, <1>9
    <3>2. PICK last \in rotations : last.key = activeKey
      BY <3>1 DEF Inv, KeysAreRotated
    <3>3. PICK k \in revokedKeys : k.at = last.at
      BY <3>2 DEF Inv, KeysAreRotated
    <3>4. last.at + Cooldown <= x.at
      BY <1>3, <1>8, <1>9, <3>2, <3>3, Numbers DEF CoolingDown
    <3>5. CASE r.key = activeKey
      BY <3>2, <3>4, <3>5 DEF Inv, KeysAreRotated
    <3>6. CASE r.key # activeKey
      <4>1. r.key < last.key
        BY <1>3, <1>9, <3>2, <3>6
      <4>2. r.at + Cooldown <= last.at
        BY <4>1 DEF Inv, KeysAreRotated
      <4> QED BY <1>3, <1>9, <3>4, <4>2, Numbers
    <3> QED BY <3>5, <3>6
  <2>5. ASSUME NEW r \in rotations', NEW q \in rotations', r.key < q.key
        PROVE  r.at + Cooldown <= q.at
    <3>1. r # new
      <4>1. q.key <= activeKey + 1
        BY <1>0, <1>1, <1>3, <1>9
      <4> QED BY <1>0, <1>1, <1>3, <1>9, <2>5, <4>1
    <3>2. CASE q = new
      BY <1>0, <1>1, <2>4, <3>1, <3>2
    <3>3. CASE q # new
      BY <1>0, <1>1, <2>5, <3>1, <3>3 DEF Inv, KeysAreRotated
    <3> QED BY <3>2, <3>3
  <2>6. ASSUME NEW r \in rotations', r.key = activeKey'
        PROVE  \E k \in revokedKeys' : k.at = r.at
    <3>1. r = new
      BY <1>0, <1>1, <1>3, <1>9, <2>6
    <3> QED BY <1>0, <1>1, <3>1
  <2> QED BY <2>1, <2>2, <2>3, <2>5, <2>6 DEF KeysAreRotated
<1>11. RotationsAreRecorded'
  <2>1. \A s \in sessions' : s.token <= minted'
    BY <1>1 DEF Inv, RotationsAreRecorded
  <2>2. \A r \in rotations' :
          r.session <= minted' /\ \A s \in sessions' : s.token # r.session
    <3>1. x.cred <= minted
      BY <1>1 DEF Inv, RequestsAreLater
    <3>2. new.session = x.cred /\ \A s \in sessions' : s \in sessions /\ s.token # x.cred
      BY <1>0, <1>1
    <3>3. \A r \in rotations :
            r.session <= minted /\ \A s \in sessions : s.token # r.session
      BY DEF Inv, RotationsAreRecorded
    <3> QED BY <1>0, <1>1, <3>1, <3>2, <3>3
  <2>3. ASSUME NEW old \in records', old.cred \in Tokens
        PROVE  \E r \in rotations' : r.key = old.key /\ r.at = old.at
    <3>1. CASE old = rec
      BY <1>0, <1>1, <3>1
    <3>2. CASE old # rec
      <4>1. old \in records
        BY <1>0, <1>1, <3>2
      <4> QED BY <1>0, <1>1, <2>3, <4>1 DEF Inv, RotationsAreRecorded
    <3> QED BY <3>1, <3>2
  <2>4. ASSUME NEW r \in rotations', r.at + ReplayLifetime > now'
        PROVE  \E old \in records' :
                 old.cred = r.session /\ old.idem = r.idem /\ old.at = r.at
    <3>1. CASE r = new
      BY <1>0, <1>1, <3>1
    <3>2. CASE r # new
      <4>1. PICK old \in records :
              old.cred = r.session /\ old.idem = r.idem /\ old.at = r.at
        BY <1>0, <1>1, <2>4, <3>2 DEF Inv, RotationsAreRecorded
      <4> QED BY <1>0, <1>1, <1>8, <3>2, <4>1
    <3> QED BY <3>1, <3>2
  <2> QED BY <2>1, <2>2, <2>3, <2>4 DEF RotationsAreRecorded
<1>12. LinksAreConsumed'
  BY <1>1 DEF Inv, LinksAreConsumed
<1>13. /\ pc'[c] = "idle" /\ call'[c].op = "none"
       /\ \A d \in Clients \ {c} : pc'[d] = pc[d] /\ call'[d] = call[d]
  BY <1>0, <1>1, FinishLeavesOthers
<1>14. ASSUME NEW d \in Clients \ {c}, call[d].op = "rotate"
       PROVE  /\ call[d].current <= activeKey' /\ call[d].current \in Nat
              /\ \A r \in rotations' : r.key <= call[d].current => r.at <= call[d].at
              /\ call[d].repeat =>
                   Repeats(call[d].cred, call[d].idem)' /\ call[d].cred # x.cred
  <2>1. call[d].current \in Nat /\ call[d].current <= activeKey
    BY <1>14, CallFields DEF Inv, TypeOK, RequestsAreLater, KeyNumbers
  <2>2. ~(new.key <= call[d].current)
    BY <1>0, <1>3, <2>1
  <2>3. call[d].repeat => Repeats(call[d].cred, call[d].idem)
    BY <1>14 DEF Inv, RequestsAreLater
  <2>4. call[d].repeat => call[d].cred # x.cred
    BY <1>8, <2>3 DEF Repeats
  <2>5. call[d].repeat => Repeats(call[d].cred, call[d].idem)'
    BY <1>0, <1>1, <1>13, <2>3 DEF Repeats
  <2>6. call[d].current <= activeKey'
    BY <1>0, <1>1, <1>3, <2>1
  <2>7. \A r \in rotations' : r.key <= call[d].current => r.at <= call[d].at
    BY <1>0, <1>1, <1>14, <2>2 DEF Inv, RequestsAreLater
  <2> QED BY <2>1, <2>4, <2>5, <2>6, <2>7
<1>15. RequestsAreLater'
  BY <1>0, <1>1, <1>13, <1>14 DEF Inv, RequestsAreLater
<1>16. LookedInVain'
  BY <1>0, <1>1, <1>13, <1>14 DEF Inv, LookedInVain, Retrievable
<1>17. Decided'
  BY <1>8, <1>13 DEF Inv, Decided
<1> QED BY <1>7, <1>10, <1>11, <1>12, <1>15, <1>16, <1>17 DEF Inv

-----------------------------------------------------------------------------
(* The mailer, billing, the cleanup worker and the clock *)

LEMMA MailLinkKeepsInv ==
  ASSUME Inv, NEW l \in Links, MailLink(l)
  PROVE  Inv'
<1>1. PICK new : new = [token |-> l, expires |-> now + LinkLifetime, consumed |-> FALSE]
  OBVIOUS
<1>2. /\ l \notin mailed /\ mailed' = mailed \cup {l} /\ links' = links \cup {new}
      /\ reply' = Silence
      /\ UNCHANGED <<activeKey, revokedKeys, standing, sessions, records, now,
                     licenseLock, pc, call, minted, rotations, opened>>
  BY <1>1 DEF MailLink
<1>3. new \in Link /\ new.token = l
  <2>1. now + LinkLifetime \in Expiries
    BY Numbers DEF Inv, TypeOK, Times, Expiries
  <2> QED BY <1>1, <2>1 DEF Link
<1>4. TypeOK'
  BY <1>2, <1>3, RepliesAreTyped DEF Inv, TypeOK
<1>5. KeysAreRotated' /\ RotationsAreRecorded'
  BY <1>2 DEF Inv, KeysAreRotated, RotationsAreRecorded
<1>6. LinksAreConsumed'
  BY <1>2, <1>3 DEF Inv, LinksAreConsumed
<1>7. RequestsAreLater'
  BY <1>2 DEF Inv, RequestsAreLater, Repeats
<1>8. LookedInVain'
  BY <1>2 DEF Inv, LookedInVain, Retrievable
<1>9. Decided'
  BY <1>2 DEF Inv, Decided, CoolingDown
<1> QED BY <1>4, <1>5, <1>6, <1>7, <1>8, <1>9 DEF Inv

LEMMA AdjustLicenseKeepsInv ==
  ASSUME Inv, AdjustLicense
  PROVE  Inv'
<1>1. /\ licenseLock = NoOne /\ standing' = ~standing /\ reply' = Silence
      /\ UNCHANGED <<activeKey, revokedKeys, links, sessions, records, now, licenseLock,
                     pc, call, mailed, minted, rotations, opened>>
  BY DEF AdjustLicense, history
<1>2. TypeOK'
  BY <1>1, RepliesAreTyped DEF Inv, TypeOK
<1>3. KeysAreRotated' /\ RotationsAreRecorded' /\ LinksAreConsumed'
  BY <1>1 DEF Inv, KeysAreRotated, RotationsAreRecorded, LinksAreConsumed
<1>4. RequestsAreLater'
  BY <1>1 DEF Inv, RequestsAreLater, Repeats
<1>5. LookedInVain'
  BY <1>1 DEF Inv, LookedInVain, Retrievable
<1>6. \A c \in Clients : pc[c] # "writing"
  BY <1>1, Numbers DEF Inv, Decided
<1>7. Decided'
  BY <1>1, <1>6 DEF Inv, Decided
<1> QED BY <1>2, <1>3, <1>4, <1>5, <1>7 DEF Inv

LEMMA CleanupRecordsKeepsInv ==
  ASSUME Inv, CleanupRecords
  PROVE  Inv'
<1>1. /\ records' = {rec \in records : SparesRecord(rec)} /\ reply' = Silence
      /\ UNCHANGED <<activeKey, revokedKeys, standing, links, sessions, now, licenseLock,
                     pc, call, mailed, minted, rotations, opened>>
  BY DEF CleanupRecords, history
<1>2. TypeOK'
  BY <1>1, RepliesAreTyped DEF Inv, TypeOK
<1>3. KeysAreRotated' /\ LinksAreConsumed'
  BY <1>1 DEF Inv, KeysAreRotated, LinksAreConsumed
<1>4. RotationsAreRecorded'
  BY <1>1 DEF Inv, RotationsAreRecorded, SparesRecord
<1>5. RequestsAreLater'
  BY <1>1 DEF Inv, RequestsAreLater, Repeats
<1>6. LookedInVain'
  BY <1>1 DEF Inv, LookedInVain, Retrievable
<1>7. Decided'
  BY <1>1 DEF Inv, Decided, CoolingDown
<1> QED BY <1>2, <1>3, <1>4, <1>5, <1>6, <1>7 DEF Inv

LEMMA CleanupTokensKeepsInv ==
  ASSUME Inv, CleanupTokens
  PROVE  Inv'
<1>1. /\ links' \subseteq links /\ sessions' \subseteq sessions /\ reply' = Silence
      /\ UNCHANGED <<activeKey, revokedKeys, standing, records, now, licenseLock,
                     pc, call, mailed, minted, rotations, opened>>
  BY DEF CleanupTokens, history
<1>2. TypeOK'
  BY <1>1, RepliesAreTyped DEF Inv, TypeOK
<1>3. KeysAreRotated' /\ LinksAreConsumed'
  BY <1>1 DEF Inv, KeysAreRotated, LinksAreConsumed
<1>4. RotationsAreRecorded'
  BY <1>1 DEF Inv, RotationsAreRecorded
<1>5. RequestsAreLater'
  BY <1>1 DEF Inv, RequestsAreLater, Repeats
<1>6. LookedInVain'
  BY <1>1 DEF Inv, LookedInVain, Retrievable
<1>7. Decided'
  BY <1>1 DEF Inv, Decided, CoolingDown
<1> QED BY <1>2, <1>3, <1>4, <1>5, <1>6, <1>7 DEF Inv

LEMMA TickKeepsInv ==
  ASSUME Inv, Tick
  PROVE  Inv'
<1>1. /\ now' = now + 1 /\ now < MaxTime /\ reply' = Silence
      /\ UNCHANGED <<activeKey, revokedKeys, standing, links, sessions, records,
                     licenseLock, pc, call, mailed, minted, rotations, opened>>
  BY DEF Tick, tables, history
<1>2. now \in Nat /\ now' \in Times
  BY <1>1, Numbers DEF Inv, TypeOK, Times
<1>3. TypeOK'
  BY <1>1, <1>2, RepliesAreTyped DEF Inv, TypeOK
<1>4. \A r \in rotations : r.at \in Nat
  BY TokensAreNumbers DEF Inv, TypeOK, Rotation
<1>5. \A r \in rotations : r.at + ReplayLifetime > now' => r.at + ReplayLifetime > now
  BY <1>1, <1>2, <1>4, Numbers
<1>6. KeysAreRotated'
  <2>1. \A r \in rotations : r.at <= now'
    BY <1>1, <1>2, <1>4 DEF Inv, KeysAreRotated
  <2> QED BY <1>1, <2>1 DEF Inv, KeysAreRotated
<1>7. RotationsAreRecorded'
  BY <1>1, <1>5 DEF Inv, RotationsAreRecorded
<1>8. LinksAreConsumed'
  BY <1>1 DEF Inv, LinksAreConsumed
<1>9. RequestsAreLater'
  <2>1. \A c \in Clients : call[c].op # "none" => call[c].at <= now'
    <3>1. \A c \in Clients : call[c].op # "none" => call[c].at \in Nat
      BY CallFields, TokensAreNumbers DEF Inv, TypeOK
    <3> QED BY <1>1, <1>2, <3>1 DEF Inv, RequestsAreLater
  <2> QED BY <1>1, <2>1 DEF Inv, RequestsAreLater, Repeats
<1>10. LookedInVain'
  BY <1>1, <1>5 DEF Inv, LookedInVain, Retrievable
<1>11. Decided'
  BY <1>1 DEF Inv, Decided, CoolingDown
<1> QED BY <1>3, <1>6, <1>7, <1>8, <1>9, <1>10, <1>11 DEF Inv

LEMMA StutterKeepsInv ==
  ASSUME Inv, UNCHANGED vars
  PROVE  Inv'
<1>1. TypeOK'
  BY DEF Inv, TypeOK, vars
<1>2. KeysAreRotated' /\ RotationsAreRecorded' /\ LinksAreConsumed'
  BY DEF Inv, vars, KeysAreRotated, RotationsAreRecorded, LinksAreConsumed
<1>3. RequestsAreLater'
  BY DEF Inv, vars, RequestsAreLater, Repeats
<1>4. LookedInVain'
  BY DEF Inv, vars, LookedInVain, Retrievable
<1>5. Decided'
  BY DEF Inv, vars, Decided, CoolingDown
<1> QED BY <1>1, <1>2, <1>3, <1>4, <1>5 DEF Inv

LEMMA InitHolds == Init => Inv
<1> SUFFICES ASSUME Init PROVE Inv
  OBVIOUS
<1>1. 0 \in Times /\ 1 \in KeyNumbers /\ 0 \in 0..MaxSessions
  BY Numbers DEF Times, KeyNumbers
<1>2. TypeOK
  BY <1>1, RepliesAreTyped DEF Init, TypeOK
<1>3. KeysAreRotated /\ RotationsAreRecorded /\ LinksAreConsumed
  BY DEF Init, KeysAreRotated, RotationsAreRecorded, LinksAreConsumed
<1>4. RequestsAreLater /\ LookedInVain /\ Decided
  BY DEF Init, RequestsAreLater, LookedInVain, Decided, NoCall
<1> QED BY <1>2, <1>3, <1>4 DEF Inv

LEMMA InvIsInductive == Inv /\ [Next]_vars => Inv'
<1> SUFFICES ASSUME Inv, [Next]_vars PROVE Inv'
  OBVIOUS
<1>1. ASSUME NEW c \in Clients,
             \/ Receive(c) \/ Lookup(c) \/ Busy(c) \/ ReadKey(c) \/ InsertSession(c)
             \/ DecideExchange(c) \/ CommitExchange(c) \/ DecideRotate(c)
             \/ CommitRotate(c) \/ RollBack(c)
      PROVE  Inv'
  BY <1>1, ReceiveKeepsInv, LookupKeepsInv, BusyKeepsInv, ReadKeyKeepsInv,
     InsertSessionKeepsInv, DecideExchangeKeepsInv, CommitExchangeKeepsInv,
     DecideRotateKeepsInv, CommitRotateKeepsInv, RollBackKeepsInv
<1>2. CASE \/ (\E l \in Links : MailLink(l)) \/ AdjustLicense \/ CleanupRecords
           \/ CleanupTokens \/ Tick \/ UNCHANGED vars
  BY <1>2, MailLinkKeepsInv, AdjustLicenseKeepsInv, CleanupRecordsKeepsInv,
     CleanupTokensKeepsInv, TickKeepsInv, StutterKeepsInv
<1> QED BY <1>1, <1>2 DEF Next

LEMMA InvHolds == Spec => []Inv
BY InitHolds, InvIsInductive, PTL DEF Spec

-----------------------------------------------------------------------------
(* Answers *)

\* Only its own step answers a request.
LEMMA AnsweredBy ==
  ASSUME Inv, Next, NEW c \in Clients, reply'.to = c
  PROVE  \/ Lookup(c) \/ Busy(c) \/ ReadKey(c) \/ InsertSession(c) \/ DecideExchange(c)
         \/ CommitExchange(c) \/ DecideRotate(c) \/ CommitRotate(c) \/ RollBack(c)
<1>1. Silence.to = NoOne /\ c # NoOne
  BY Numbers DEF Silence
<1>3. ~(\/ \E l \in Links : MailLink(l)
        \/ AdjustLicense \/ CleanupRecords \/ CleanupTokens \/ Tick)
  BY <1>1 DEF MailLink, AdjustLicense, CleanupRecords, CleanupTokens, Tick
<1>4. ASSUME NEW d \in Clients, d # c
      PROVE  ~(\/ Receive(d) \/ Lookup(d) \/ Busy(d) \/ ReadKey(d) \/ InsertSession(d)
               \/ DecideExchange(d) \/ CommitExchange(d) \/ DecideRotate(d)
               \/ CommitRotate(d) \/ RollBack(d))
  <2>1. ASSUME NEW status, Refuse(d, status) PROVE FALSE
    BY <1>4, <2>1 DEF Refuse, Finish
  <2>2. ASSUME NEW stage, Proceed(d, stage) PROVE FALSE
    BY <1>1, <2>2 DEF Proceed
  <2>3. ~AnswerReplay(d)
    BY <1>4 DEF AnswerReplay, Finish
  <2>4. ~Receive(d)
    BY <1>1 DEF Receive
  <2>5. ~Lookup(d) /\ ~Busy(d) /\ ~ReadKey(d) /\ ~RollBack(d)
    BY <2>1, <2>2, <2>3 DEF Lookup, Busy, ReadKey, RollBack
  <2>6. ~DecideExchange(d) /\ ~DecideRotate(d)
    BY <2>1, <2>2, <2>3 DEF DecideExchange, DecideRotate
  <2>7. ~InsertSession(d) /\ ~CommitExchange(d) /\ ~CommitRotate(d)
    BY <1>4 DEF InsertSession, CommitExchange, CommitRotate, Finish
  <2> QED BY <2>4, <2>5, <2>6, <2>7
<1>5. ~Receive(c)
  BY <1>1 DEF Receive
<1> QED BY <1>3, <1>4, <1>5 DEF Next

\* A stored answer is younger than the cooldown, so that no later rotation can have
\* been committed when the request began.
LEMMA StoredKeyIsCurrent ==
  ASSUME Inv, NEW c \in Clients, call[c].op = "rotate", NEW rec \in Replay(call[c])
  PROVE  rec.key >= call[c].current
<1>1. rec \in records /\ rec.cred = call[c].cred /\ rec.at + ReplayLifetime > call[c].at
  BY DEF Replay
<1>2. /\ call[c].cred \in Tokens /\ call[c].current \in Nat /\ call[c].at \in Nat
      /\ call[c].current <= activeKey /\ activeKey \in Nat
  <2>1. call[c] \in Calls /\ activeKey \in KeyNumbers
    BY DEF Inv, TypeOK
  <2>2. call[c].current <= activeKey
    BY DEF Inv, RequestsAreLater
  <2> QED BY <2>1, <2>2, CallFields, TokensAreNumbers DEF KeyNumbers
<1>3. PICK r \in rotations : r.key = rec.key /\ r.at = rec.at
  BY <1>1, <1>2 DEF Inv, RotationsAreRecorded
<1>4. r.key \in 2..activeKey /\ r.at \in Nat
  BY <1>3, TokensAreNumbers DEF Inv, TypeOK, Rotation, KeysAreRotated
<1> SUFFICES ASSUME r.key < call[c].current PROVE FALSE
  BY <1>2, <1>3, <1>4
<1>5. call[c].current \in 2..activeKey
  BY <1>2, <1>4
<1>6. PICK q \in rotations : q.key = call[c].current
  BY <1>5 DEF Inv, KeysAreRotated
<1>7. r.at + Cooldown <= q.at
  BY <1>6 DEF Inv, KeysAreRotated
<1>8. q.at <= call[c].at /\ q.at \in Nat
  <2>1. q.key <= call[c].current
    BY <1>2, <1>6
  <2>2. q.at \in Nat
    BY TokensAreNumbers DEF Inv, TypeOK, Rotation
  <2> QED BY <2>1, <2>2 DEF Inv, RequestsAreLater
<1> QED BY <1>1, <1>2, <1>3, <1>4, <1>7, <1>8, Numbers

-----------------------------------------------------------------------------
(* The theorems *)

\* The variables keep their types (TypeOK).
THEOREM AccessTypesHold == Spec => []TypeOK
<1>1. Inv => TypeOK
  BY DEF Inv
<1> QED BY <1>1, InvHolds, PTL


\* A key handed out, fresh or from a stored answer, is at least the one in force when
\* the request began (KeyIsCurrent): RotateLicenseKey never replays a key that has
\* been rotated away since, whatever the clock, retries and cleanup do.
THEOREM KeyIsCurrentAlways == Spec => KeyIsCurrent
<1> DEFINE Current == \A c \in Clients :
      (reply'.to = c /\ reply'.status = "key") => reply'.key >= call[c].current
<1>1. ASSUME Inv, Next, NEW c \in Clients, reply'.to = c, reply'.status = "key"
      PROVE  reply'.key >= call[c].current
  <2>1. ~Refuse(c, "busy") /\ ~Refuse(c, "unauthorized") /\ ~Refuse(c, "rate_limited")
        /\ ~Refuse(c, "failed")
    BY <1>1 DEF Refuse, Finish
  <2>2. ASSUME NEW stage PROVE ~Proceed(c, stage)
    BY <1>1, Numbers DEF Proceed, Silence
  <2>3. ASSUME AnswerReplay(c), call[c].op \in {"exchange", "rotate"}
        PROVE  reply'.key >= call[c].current
    <3>1. PICK rec \in Replay(call[c]) :
            reply' = IF call[c].op = "exchange"
                     THEN [to |-> c, status |-> "session", session |-> rec.session]
                     ELSE [to |-> c, status |-> "key", key |-> rec.key]
      BY <2>3 DEF AnswerReplay, Finish
    <3>2. call[c].op = "rotate"
      BY <1>1, <2>3, <3>1
    <3>3. reply'.key = rec.key
      BY <3>1, <3>2
    <3> QED BY <1>1, <3>2, <3>3, StoredKeyIsCurrent
  <2>4. ~Busy(c) /\ ~ReadKey(c) /\ ~RollBack(c)
    BY <2>1, <2>2 DEF Busy, ReadKey, RollBack
  <2>5. ~InsertSession(c) /\ ~CommitExchange(c)
    BY <1>1 DEF InsertSession, CommitExchange, Finish
  <2>6. ASSUME Lookup(c) \/ DecideExchange(c) \/ DecideRotate(c)
        PROVE  AnswerReplay(c) /\ call[c].op \in {"exchange", "rotate"}
    BY <2>1, <2>2, <2>6 DEF Lookup, DecideExchange, DecideRotate
  <2>7. ASSUME CommitRotate(c) PROVE reply'.key >= call[c].current
    <3>1. reply'.key = activeKey + 1 /\ pc[c] = "writing" /\ call[c].op = "rotate"
      BY <2>7 DEF CommitRotate, Finish
    <3>2. call[c].current <= activeKey /\ call[c].current \in Nat /\ activeKey \in Nat
      <4>1. call[c] \in Calls /\ activeKey \in Nat
        BY <1>1 DEF Inv, TypeOK, KeyNumbers
      <4>2. call[c].current <= activeKey
        BY <1>1, <3>1 DEF Inv, RequestsAreLater
      <4> QED BY <3>1, <4>1, <4>2, CallFields DEF KeyNumbers
    <3> QED BY <3>1, <3>2
  <2> QED BY <1>1, <2>3, <2>4, <2>5, <2>6, <2>7, AnsweredBy
<1>2. Inv /\ [Next]_vars => [Current]_vars
  BY <1>1
<1> QED BY <1>2, InvHolds, PTL DEF Spec, KeyIsCurrent

\* A lost answer is not a lost key (RotatedKeyIsNotLost): the second lookup of
\* RotateLicenseKey is not needed by whoever repeats a committed rotation, because
\* the first one has found the answer; so neither the consumed session nor the
\* cooldown can be what the client is told.
THEOREM RotatedKeyIsNotLostAlways == Spec => RotatedKeyIsNotLost
<1> DEFINE NotLost == \A c \in Clients :
      (/\ reply'.to = c
       /\ call[c].op = "rotate"
       /\ call[c].repeat
       /\ Retrievable(call[c], now))
      => reply'.status \in {"key", "busy", "failed"}
<1>1. ASSUME Inv, Next, NEW c \in Clients, reply'.to = c, call[c].op = "rotate",
             call[c].repeat, Retrievable(call[c], now)
      PROVE  reply'.status \in {"key", "busy", "failed"}
  <2>1. pc[c] \notin {"looked", "writing"}
    BY <1>1 DEF Inv, LookedInVain
  <2>2. pc[c] # "inserting"
    BY <1>1 DEF Inv, Decided
  <2>3. ~Busy(c) /\ ~DecideExchange(c) /\ ~DecideRotate(c)
        /\ ~CommitExchange(c) /\ ~CommitRotate(c) /\ ~InsertSession(c)
    BY <2>1, <2>2 DEF Busy, DecideExchange, DecideRotate, CommitExchange, CommitRotate,
       InsertSession
  <2>4. ~ReadKey(c)
    BY <1>1 DEF ReadKey
  <2>5. ASSUME Lookup(c) PROVE reply'.status = "key"
    <3>1. ~Proceed(c, "looked")
      BY <1>1, Numbers DEF Proceed, Silence
    <3>2. PICK rec \in Replay(call[c]) :
            reply' = [to |-> c, status |-> "key", key |-> rec.key]
      BY <1>1, <2>5, <3>1 DEF Lookup, AnswerReplay, Finish
    <3> QED BY <3>2
  <2>6. ASSUME RollBack(c) PROVE reply'.status = "failed"
    BY <2>6 DEF RollBack, Refuse, Finish
  <2> QED BY <1>1, <2>3, <2>4, <2>5, <2>6, AnsweredBy
<1>2. Inv /\ [Next]_vars => [NotLost]_vars
  BY <1>1
<1> QED BY <1>2, InvHolds, PTL DEF Spec, RotatedKeyIsNotLost

-----------------------------------------------------------------------------
(* The refinement *)

LEMMA LedgerInit == Init => Ledger!Init
BY DEF Init, Ledger!Init, LastRotation

LEMMA RotationIsAtomic ==
  ASSUME Inv, Inv', NEW c \in Clients, CommitRotate(c)
  PROVE  Ledger!Rotate
<1>1. /\ pc[c] = "writing" /\ call[c].op = "rotate" /\ activeKey' = activeKey + 1
      /\ revokedKeys' = {[key |-> activeKey, at |-> call[c].at]}
      /\ UNCHANGED <<opened, standing>>
  BY DEF CommitRotate, KeepPrevious
<1>2. PICK new \in rotations' : new.key = activeKey' /\ new.at = call[c].at
  <2> DEFINE fresh == [session |-> call[c].cred, idem |-> call[c].idem,
                       key |-> activeKey + 1, at |-> call[c].at]
  <2>1. fresh \in rotations'
    BY DEF CommitRotate
  <2>2. fresh.key = activeKey + 1 /\ fresh.at = call[c].at
    OBVIOUS
  <2> HIDE DEF fresh
  <2> QED BY <1>1, <2>1, <2>2
<1>3. LastRotation' = call[c].at
  <2>1. \A r \in rotations' : r.key = activeKey' => r = new
    BY <1>2 DEF Inv, KeysAreRotated
  <2>2. (CHOOSE r \in rotations' : r.key = activeKey') = new
    BY <1>2, <2>1
  <2> QED BY <1>2, <2>2 DEF LastRotation
<1>4. call[c].at \in Nat /\ ~CoolingDown(call[c].at)
  BY <1>1, CallFields, TokensAreNumbers DEF Inv, TypeOK, Decided
<1>5. LastRotation + Cooldown <= call[c].at
  <2>1. CASE rotations = {}
    BY <1>4, <2>1, Numbers DEF LastRotation
  <2>2. CASE rotations # {}
    <3>1. activeKey \in 2..activeKey
      <4>1. \A r \in rotations : r.key \in 2..activeKey
        BY DEF Inv, KeysAreRotated
      <4>2. activeKey \in Nat
        BY DEF Inv, TypeOK, KeyNumbers
      <4> QED BY <2>2, <4>1, <4>2
    <3>2. \E r \in rotations : r.key = activeKey
      BY <3>1 DEF Inv, KeysAreRotated
    <3>3. PICK last \in rotations : last.key = activeKey /\ LastRotation = last.at
      BY <2>2, <3>2 DEF LastRotation
    <3>4. PICK k \in revokedKeys : k.at = last.at
      BY <3>3 DEF Inv, KeysAreRotated
    <3>5. last.at \in Nat
      BY TokensAreNumbers DEF Inv, TypeOK, Rotation
    <3> QED BY <1>4, <3>3, <3>4, <3>5, Numbers DEF CoolingDown
  <2> QED BY <2>1, <2>2
<1> QED BY <1>1, <1>3, <1>5 DEF Ledger!Rotate

LEMMA ExchangeIsAtomic ==
  ASSUME Inv, NEW c \in Clients, CommitExchange(c)
  PROVE  \E l \in Links : Ledger!Redeem(l)
<1>1. /\ pc[c] = "writing" /\ call[c].op = "exchange"
      /\ opened' = opened \cup {<<call[c].cred, minted + 1>>}
      /\ UNCHANGED <<activeKey, standing, rotations>>
  BY DEF CommitExchange
<1>2. call[c].cred \in Links
  BY <1>1, CallFields DEF Inv, TypeOK
<1>3. standing /\ \A p \in opened : p[1] # call[c].cred
  BY <1>1 DEF Inv, Decided
<1>4. LastRotation' = LastRotation
  BY <1>1 DEF LastRotation
<1>5. minted + 1 \in {p[2] : p \in opened'}
  <2> DEFINE pair == <<call[c].cred, minted + 1>>
  <2>1. pair \in opened' /\ pair[2] = minted + 1
    BY <1>1
  <2> HIDE DEF pair
  <2> QED BY <2>1
<1>6. Ledger!Redeem(call[c].cred)
  BY <1>1, <1>3, <1>4, <1>5 DEF Ledger!Redeem
<1> QED BY <1>2, <1>6

LEMMA LedgerStep ==
  ASSUME Inv, Inv', [Next]_vars
  PROVE  [Ledger!Next]_(Ledger!accessVars)
<1>1. ASSUME UNCHANGED <<activeKey, rotations, opened, standing>>
      PROVE  UNCHANGED Ledger!accessVars
  BY <1>1 DEF Ledger!accessVars, LastRotation
<1>2. CASE AdjustLicense
  <2>1. UNCHANGED LastRotation
    BY <1>2 DEF AdjustLicense, history, LastRotation
  <2> QED BY <1>2, <2>1 DEF AdjustLicense, history, Ledger!Judge, Ledger!Next
<1>3. ASSUME NEW c \in Clients, CommitRotate(c) PROVE [Ledger!Next]_(Ledger!accessVars)
  BY <1>3, RotationIsAtomic DEF Ledger!Next
<1>4. ASSUME NEW c \in Clients, CommitExchange(c) PROVE [Ledger!Next]_(Ledger!accessVars)
  BY <1>4, ExchangeIsAtomic DEF Ledger!Next
<1>5. ASSUME NEW c \in Clients,
             \/ Receive(c) \/ Lookup(c) \/ Busy(c) \/ ReadKey(c) \/ InsertSession(c)
             \/ DecideExchange(c) \/ DecideRotate(c) \/ RollBack(c)
      PROVE  UNCHANGED <<activeKey, rotations, opened, standing>>
  <2>1. ASSUME NEW status, Refuse(c, status)
        PROVE  UNCHANGED <<activeKey, rotations, opened, standing>>
    BY <2>1 DEF Refuse, tables, history
  <2>2. ASSUME AnswerReplay(c)
        PROVE  UNCHANGED <<activeKey, rotations, opened, standing>>
    BY <2>2 DEF AnswerReplay, tables, history
  <2>3. CASE Receive(c) \/ InsertSession(c)
    BY <2>3 DEF Receive, InsertSession, tables, history
  <2>4. CASE Lookup(c) \/ Busy(c) \/ ReadKey(c) \/ RollBack(c)
    BY <2>1, <2>2, <2>4 DEF Lookup, Busy, ReadKey, RollBack, tables, history
  <2>5. CASE DecideExchange(c)
    BY <2>1, <2>2, <2>5 DEF DecideExchange, tables, history
  <2>6. CASE DecideRotate(c)
    BY <2>1, <2>2, <2>6 DEF DecideRotate, tables, history
  <2> QED BY <1>5, <2>3, <2>4, <2>5, <2>6
<1>6. CASE \/ (\E l \in Links : MailLink(l)) \/ CleanupRecords \/ CleanupTokens \/ Tick
           \/ UNCHANGED vars
  <2>1. UNCHANGED <<activeKey, rotations, opened, standing>>
    BY <1>6 DEF MailLink, CleanupRecords, CleanupTokens, Tick, tables, history, vars
  <2> QED BY <1>1, <2>1
<1> QED BY <1>1, <1>2, <1>3, <1>4, <1>5, <1>6 DEF Next

\* Requests with their locks, lookups and stored answers behave as if a key were
\* changed, or a link redeemed, in one atomic step (ImplementsLedger).
THEOREM LedgerImplemented == Spec => ImplementsLedger
<1>1. Spec => [][Ledger!Next]_(Ledger!accessVars)
  BY InvHolds, LedgerStep, PTL DEF Spec
<1> QED BY <1>1, LedgerInit, PTL DEF Spec, ImplementsLedger, Ledger!Spec
=============================================================================
