-------------------------- MODULE AdmissionProofs --------------------------
(***************************************************************************)
(* What holds of admission for any number of requests, addresses, emails   *)
(* and keys and for any limits and durations: the types, that an           *)
(* idempotency key leads to one job at a time, and that nobody is admitted *)
(* more often than the limit allows.                                       *)
(***************************************************************************)
EXTENDS Admission, FiniteSetTheorems, SequenceTheorems, TLAPS

Counting == {"address counted", "subject counted"}

\* A request began in the past, and a recovery request has an idempotency key.
Asked ==
  \A r \in Requests : ~At(r, {"idle"}) =>
    /\ request[r].at <= now
    /\ request[r].key = None <=> request[r].subject \in LicenseKeys

\* Whoever is under way will be counted once at most.
InFlight == {r \in Requests : ~At(r, {"idle"})}
CallsCover ==
  /\ IsFiniteSet(InFlight)
  /\ \A c \in Counters : /\ attempts[c] + Cardinality(InFlight) <= calls
                         /\ admissions[c] + Cardinality(InFlight) <= calls

\* A counter, and the credential of an email, is held by one request.
LocksExclude ==
  /\ \A q, r \in Requests : q # r => Held(q) \cap Held(r) = {}
  /\ \A q, r \in Requests :
       (HoldsCredential(q) /\ HoldsCredential(r)
        /\ request[q].subject = request[r].subject) => q = r

\* What a request found under a lock is still so.
StillSo ==
  \A r \in Requests :
    /\ HoldsCredential(r) => ~Replayed(Answer(r), request[r].at)
    /\ At(r, {"subject counted"}) => AddressWithin(r)

\* The last job of a key has an answer stored with it or after it, until that can
\* no longer be replayed.
Last(a) == jobs[a][Len(jobs[a])]
JobsAreRecorded ==
  \A a \in Answers : jobs[a] # <<>> =>
    \/ records[a] # None /\ records[a] >= Last(a)
    \/ now >= Last(a) + ReplayLifetime

\* Admissions are counted for as long as their window lasts.
Limit(c) == IF c[2] \in Addresses THEN AddressLimit ELSE SubjectLimit
AdmissionsAreCounted ==
  \A c \in Counters :
    /\ admissions[c] <= Limit(c)
    /\ c[3] = WindowStart(now) => admissions[c] <= attempts[c]
    /\ c[3] > WindowStart(now) => admissions[c] = 0

Inv ==
  /\ TypeOK
  /\ Asked
  /\ CallsCover
  /\ LocksExclude
  /\ StillSo
  /\ JobsAreRecorded
  /\ AdmissionsAreCounted

-----------------------------------------------------------------------------
(* Numbers and windows *)

LEMMA Numbers ==
  /\ AddressLimit \in Nat /\ SubjectLimit \in Nat
  /\ MaxTime \in Nat /\ MaxCalls \in Nat
  /\ RateLimitWindow \in Nat /\ RateLimitWindow > 0
  /\ ReplayLifetime \in Nat /\ ReplayLifetime > 0
  /\ None \notin Nat /\ None \notin IdempotencyKeys
  /\ LicenseKeys \cap Emails = {} /\ Addresses \cap Subjects = {}
BY LimitsAssumption, DurationsAssumption, NamesAssumption

LEMMA Windows ==
  ASSUME NEW t \in Times
  PROVE  /\ t \in Nat /\ WindowStart(t) \in WindowStarts
         /\ WindowStart(t) \in Nat /\ WindowStart(t) <= t
<1> DEFINE W == RateLimitWindow
<1> DEFINE q == t \div W
<1>1. t \in Nat /\ W \in Nat /\ W > 0 /\ t <= MaxTime /\ MaxTime \in Nat
  BY Numbers DEF Times
<1>2. q \in Int /\ t % W \in 0..(W - 1) /\ t = W * q + (t % W)
  BY <1>1
<1> HIDE DEF W, q
<1>3. WindowStart(t) = W * q
  BY <1>1, <1>2 DEF WindowStart, W
<1>4. W * q \in Int /\ W * q <= t
  BY <1>1, <1>2
<1>5. W * q >= 0
  BY <1>1, <1>2
<1>6. (W * q) % W = 0
  BY <1>1, <1>2
<1> QED BY <1>1, <1>3, <1>4, <1>5, <1>6 DEF WindowStarts, Times, W

LEMMA WindowsFollow ==
  ASSUME NEW t \in Times, t + 1 \in Times
  PROVE  WindowStart(t) <= WindowStart(t + 1)
<1> DEFINE W == RateLimitWindow
<1> DEFINE p == t \div W
<1> DEFINE q == (t + 1) \div W
<1>1. t \in Nat /\ W \in Nat /\ W > 0
  BY Numbers DEF Times
<1>2. p \in Int /\ t % W \in 0..(W - 1) /\ t = W * p + (t % W)
  BY <1>1
<1>3. q \in Int /\ (t + 1) % W \in 0..(W - 1) /\ t + 1 = W * q + ((t + 1) % W)
  BY <1>1
<1> HIDE DEF W, p, q
<1>4. WindowStart(t) = W * p /\ WindowStart(t + 1) = W * q
  BY <1>1, <1>2, <1>3 DEF WindowStart, W
<1>5. ASSUME q < p PROVE FALSE
  <2>1. q + 1 <= p
    BY <1>2, <1>3, <1>5
  <2>2. W * (q + 1) <= W * p
    BY <1>1, <1>2, <1>3, <2>1
  <2>3. W * (q + 1) = W * q + W
    BY <1>1, <1>3
  <2> QED BY <1>1, <1>2, <1>3, <2>2, <2>3
<1>6. p <= q
  BY <1>2, <1>3, <1>5
<1>7. W * p <= W * q
  BY <1>1, <1>2, <1>3, <1>6
<1> QED BY <1>4, <1>7

-----------------------------------------------------------------------------
(* One request *)

LEMMA RequestFields ==
  ASSUME TypeOK, NEW r \in Requests, ~At(r, {"idle"})
  PROVE  /\ request[r] \in Request
         /\ request[r].stage \in {"called", "locked", "address counted", "subject counted"}
         /\ request[r].at \in Times /\ request[r].at \in Nat
         /\ request[r].window \in WindowStarts
         /\ request[r].address \in Addresses /\ request[r].subject \in Subjects
         /\ request[r].key \in IdempotencyKeys \cup {None}
<1>1. request[r] \in Request \cup {Idle} /\ request[r].stage # "idle"
  BY DEF TypeOK, At
<1>2. Idle.stage = "idle"
  BY DEF Idle
<1>3. request[r] \in Request
  BY <1>1, <1>2
<1>4. Times \subseteq Nat
  BY Numbers DEF Times
<1>5. /\ request[r].stage \in {"called", "locked", "address counted", "subject counted"}
      /\ request[r].at \in Times /\ request[r].window \in WindowStarts
      /\ request[r].address \in Addresses /\ request[r].subject \in Subjects
      /\ request[r].key \in IdempotencyKeys \cup {None}
  BY <1>3 DEF Request
<1> QED BY <1>3, <1>4, <1>5

LEMMA CountersTyped ==
  ASSUME TypeOK, NEW r \in Requests, ~At(r, {"idle"})
  PROVE  /\ AddressCounter(r) \in Counters /\ SubjectCounter(r) \in Counters
         /\ AddressCounter(r) # SubjectCounter(r)
         /\ AddressCounter(r)[2] \in Addresses /\ AddressCounter(r)[3] = request[r].window
         /\ SubjectCounter(r)[2] \notin Addresses /\ SubjectCounter(r)[3] = request[r].window
<1>1. Path(request[r].subject) \in Paths
  BY DEF Path, Paths
<1> QED BY <1>1, RequestFields, Numbers DEF Counters, AddressCounter, SubjectCounter

LEMMA AnswerTyped ==
  ASSUME TypeOK, Asked, NEW r \in Requests, ~At(r, {"idle"}), request[r].subject \in Emails
  PROVE  Answer(r) \in Answers
<1>1. request[r].subject \notin LicenseKeys
  BY Numbers
<1>2. request[r].key \in IdempotencyKeys
  BY <1>1, RequestFields DEF Asked
<1> QED BY <1>2 DEF Answer, Answers

\* A request that stays as it is holds what it held.
LEMMA Unmoved ==
  ASSUME NEW r, request'[r] = request[r]
  PROVE  /\ Held(r)' = Held(r) /\ (HoldsCredential(r)' <=> HoldsCredential(r))
         /\ Answer(r)' = Answer(r)
         /\ AddressCounter(r)' = AddressCounter(r) /\ SubjectCounter(r)' = SubjectCounter(r)
         /\ \A S : At(r, S)' <=> At(r, S)
BY DEF Held, HoldsCredential, Answer, AddressCounter, SubjectCounter, At

\* One that goes on keeps all but its stage.
LEMMA Moved ==
  ASSUME TypeOK, NEW r \in Requests, ~At(r, {"idle"}), NEW stage, Move(r, stage)
  PROVE  /\ request' = [request EXCEPT ![r] = request'[r]]
         /\ request'[r].stage = stage
         /\ request'[r].at = request[r].at /\ request'[r].window = request[r].window
         /\ request'[r].address = request[r].address
         /\ request'[r].subject = request[r].subject /\ request'[r].key = request[r].key
         /\ Answer(r)' = Answer(r)
         /\ AddressCounter(r)' = AddressCounter(r) /\ SubjectCounter(r)' = SubjectCounter(r)
         /\ \A q \in Requests \ {r} : request'[q] = request[q]
         /\ stage \in {"called", "locked", "address counted", "subject counted"} =>
              request' \in [Requests -> Request \cup {Idle}]
<1>1. request[r] \in Request
  BY RequestFields
<1>2. request'[r] = [request[r] EXCEPT !.stage = stage]
  BY DEF Move, TypeOK
<1>3. /\ request'[r].stage = stage
      /\ request'[r].at = request[r].at /\ request'[r].window = request[r].window
      /\ request'[r].address = request[r].address
      /\ request'[r].subject = request[r].subject /\ request'[r].key = request[r].key
  BY <1>1, <1>2 DEF Request
<1>4. request' = [request EXCEPT ![r] = request'[r]]
  BY <1>2 DEF Move, TypeOK
<1>5. \A q \in Requests \ {r} : request'[q] = request[q]
  BY DEF Move, TypeOK
<1>6. ASSUME stage \in {"called", "locked", "address counted", "subject counted"}
      PROVE  request' \in [Requests -> Request \cup {Idle}]
  <2>1. request'[r] \in Request
    BY <1>1, <1>2, <1>6 DEF Request
  <2> QED BY <1>4, <2>1 DEF TypeOK
<1> QED BY <1>3, <1>4, <1>5, <1>6 DEF Answer, AddressCounter, SubjectCounter

\* One that leaves holds nothing.
LEMMA Left ==
  ASSUME TypeOK, NEW r \in Requests, Leave(r)
  PROVE  /\ At(r, {"idle"})' /\ Held(r)' = {} /\ ~HoldsCredential(r)'
         /\ ~At(r, {"subject counted"})'
         /\ \A q \in Requests \ {r} : request'[q] = request[q]
         /\ request' \in [Requests -> Request \cup {Idle}]
<1>1. request'[r] = Idle /\ Idle.stage = "idle"
  BY DEF Leave, TypeOK, Idle
<1>2. \A q \in Requests \ {r} : request'[q] = request[q]
  BY DEF Leave, TypeOK
<1>3. request' \in [Requests -> Request \cup {Idle}]
  BY DEF Leave, TypeOK
<1> QED BY <1>1, <1>2, <1>3 DEF At, Held, HoldsCredential

\* How many are under way, before and after a step of one of them.
LEMMA FlightContinues ==
  ASSUME NEW r \in Requests, \A q \in Requests \ {r} : request'[q] = request[q],
         At(r, {"idle"})' <=> At(r, {"idle"})
  PROVE  InFlight' = InFlight
BY DEF InFlight, At

LEMMA FlightEnds ==
  ASSUME TypeOK, NEW r \in Requests, ~At(r, {"idle"}), Leave(r), IsFiniteSet(InFlight)
  PROVE  /\ IsFiniteSet(InFlight') /\ Cardinality(InFlight') = Cardinality(InFlight) - 1
         /\ Cardinality(InFlight) \in Nat /\ Cardinality(InFlight') \in Nat
<1>1. InFlight' = InFlight \ {r} /\ r \in InFlight
  BY Left DEF InFlight, At
<1> QED BY <1>1, FS_RemoveElement, FS_CardinalityType

LEMMA FlightBegins ==
  ASSUME NEW r \in Requests, \A q \in Requests \ {r} : request'[q] = request[q],
         At(r, {"idle"}), ~At(r, {"idle"})', IsFiniteSet(InFlight)
  PROVE  /\ IsFiniteSet(InFlight') /\ Cardinality(InFlight') = Cardinality(InFlight) + 1
         /\ Cardinality(InFlight) \in Nat
<1>1. InFlight' = InFlight \cup {r} /\ r \notin InFlight
  BY DEF InFlight, At
<1> QED BY <1>1, FS_AddElement, FS_CardinalityType

-----------------------------------------------------------------------------
(* Steps that write no row *)

LEMMA InitInv == Init => Inv
<1> SUFFICES ASSUME Init PROVE Inv
  OBVIOUS
<1>1. now \in Times /\ 0 \in 0..MaxCalls
  BY Numbers DEF Init, Times
<1>2. \A r \in Requests : At(r, {"idle"}) /\ Held(r) = {} /\ ~HoldsCredential(r)
                          /\ ~At(r, {"subject counted"})
  BY DEF Init, At, Held, HoldsCredential, Idle
<1>3. \A a \in Answers : jobs[a] = <<>> /\ <<>> \in Seq(Times)
  BY DEF Init
<1>4. TypeOK
  BY <1>1, <1>3 DEF Init, TypeOK
<1>5. InFlight = {}
  BY <1>2 DEF InFlight
<1>6. CallsCover
  BY <1>5, FS_EmptySet DEF Init, CallsCover
<1>7. Asked /\ LocksExclude /\ StillSo /\ JobsAreRecorded
  BY <1>2, <1>3 DEF Asked, LocksExclude, StillSo, JobsAreRecorded
<1>8. AdmissionsAreCounted
  BY Numbers DEF Init, AdmissionsAreCounted, Limit
<1> QED BY <1>4, <1>6, <1>7, <1>8 DEF Inv

rows == <<now, attempts, records, jobs, calls, admissions>>

LEMMA RowsKept ==
  ASSUME UNCHANGED rows, Inv
  PROVE  /\ JobsAreRecorded' /\ AdmissionsAreCounted'
         /\ \A a, t : Replayed(a, t)' = Replayed(a, t)
         /\ request' \in [Requests -> Request \cup {Idle}] => TypeOK'
<1>1. UNCHANGED <<now, attempts, records, jobs, calls, admissions>>
  BY DEF rows
<1>2. JobsAreRecorded'
  BY <1>1 DEF Inv, JobsAreRecorded, Last
<1>3. AdmissionsAreCounted'
  BY <1>1 DEF Inv, AdmissionsAreCounted, WindowStart
<1>4. \A a, t : Replayed(a, t)' = Replayed(a, t)
  BY <1>1 DEF Replayed
<1>5. request' \in [Requests -> Request \cup {Idle}] => TypeOK'
  BY <1>1 DEF Inv, TypeOK
<1> QED BY <1>2, <1>3, <1>4, <1>5

LEMMA ProgressKeepsInv ==
  ASSUME Inv, UNCHANGED rows,
         NEW r \in Requests, NEW stage \in {"locked", "address counted", "subject counted"},
         ~At(r, {"idle"}), Move(r, stage),
         \A q \in Requests \ {r} : Held(r)' \cap Held(q) = {},
         HoldsCredential(r)' =>
           /\ ~Replayed(Answer(r), request[r].at)
           /\ \A q \in Requests \ {r} :
                HoldsCredential(q) => request[q].subject # request[r].subject,
         stage = "subject counted" => AddressWithin(r)
  PROVE  Inv'
<1>1. TypeOK /\ UNCHANGED <<now, attempts, records, jobs, calls, admissions>>
  BY DEF Inv, rows
<1>2. TypeOK'
  BY <1>1, RowsKept, Moved
<1>3. \A q \in Requests \ {r} : request'[q] = request[q]
  BY <1>1, Moved
<1>4. ~At(r, {"idle"})' /\ (At(r, {"subject counted"})' => stage = "subject counted")
  BY <1>1, Moved DEF At
<1>5. Asked'
  <2>1. request'[r].at = request[r].at /\ request'[r].key = request[r].key
        /\ request'[r].subject = request[r].subject
    BY <1>1, Moved
  <2>2. \A q \in Requests \ {r} : At(q, {"idle"})' <=> At(q, {"idle"})
    BY <1>3 DEF At
  <2> QED BY <1>1, <1>3, <2>1, <2>2 DEF Inv, Asked
<1>6. CallsCover'
  BY <1>1, <1>3, <1>4, FlightContinues DEF Inv, CallsCover
<1>7. LocksExclude'
  <2>1. \A q, p \in Requests : q # p => (Held(q) \cap Held(p) = {})'
    <3>1. \A q \in Requests \ {r} : Held(q)' = Held(q)
      BY <1>3 DEF Held, AddressCounter, SubjectCounter
    <3>2. \A q \in Requests \ {r} : Held(r)' \cap Held(q) = {} /\ Held(q) \cap Held(r)' = {}
      OBVIOUS
    <3>3. \A q, p \in Requests : q # p => Held(q) \cap Held(p) = {}
      BY DEF Inv, LocksExclude
    <3> QED BY <3>1, <3>2, <3>3
  <2>2. ASSUME NEW q \in Requests, NEW p \in Requests, HoldsCredential(q)', HoldsCredential(p)',
               request'[q].subject = request'[p].subject
        PROVE  q = p
    <3>1. request'[r].subject = request[r].subject
      BY <1>1, Moved
    <3> QED BY <1>3, <2>2, <3>1, Unmoved DEF Inv, LocksExclude
  <2> QED BY <2>1, <2>2 DEF LocksExclude
<1>8. StillSo'
  <2>1. \A q : AddressCounter(q)' = AddressCounter(q) => AddressWithin(q)' = AddressWithin(q)
    BY <1>1 DEF AddressWithin
  <2>2. ASSUME NEW q \in Requests, HoldsCredential(q)'
        PROVE  ~Replayed(Answer(q)', request'[q].at)
    <3>1. CASE q = r
      BY <1>1, <2>2, <3>1, Moved
    <3>2. CASE q # r
      <4>1. request'[q] = request[q]
        BY <1>3, <3>2
      <4>2. HoldsCredential(q) /\ Answer(q)' = Answer(q)
        BY <2>2, <4>1, Unmoved
      <4> QED BY <4>1, <4>2 DEF Inv, StillSo
    <3> QED BY <3>1, <3>2
  <2>3. ASSUME NEW q \in Requests, At(q, {"subject counted"})' PROVE AddressWithin(q)'
    BY <1>1, <1>3, <1>4, <2>1, <2>3, Moved, Unmoved DEF Inv, StillSo
  <2>4. \A q \in Requests : Replayed(Answer(q), request[q].at)'
                              = Replayed(Answer(q)', request'[q].at)
    BY <1>1 DEF Replayed
  <2> QED BY <2>2, <2>3, <2>4 DEF StillSo
<1> QED BY <1>2, <1>5, <1>6, <1>7, <1>8, RowsKept DEF Inv

\* What is left when a request is gone; it may have written rows.
LEMMA LeaveKeepsRequests ==
  ASSUME Inv, NEW r \in Requests, Leave(r), UNCHANGED now
  PROVE  Asked' /\ LocksExclude'
<1>1. TypeOK
  BY DEF Inv
<1>2. Asked'
  BY <1>1, Left, Unmoved DEF Inv, Asked
<1>3. LocksExclude'
  <2>1. \A q, p \in Requests : q # p => (Held(q) \cap Held(p) = {})'
    BY <1>1, Left, Unmoved DEF Inv, LocksExclude
  <2>2. \A q, p \in Requests : (HoldsCredential(q)' /\ HoldsCredential(p)'
          /\ request'[q].subject = request'[p].subject) => q = p
    BY <1>1, Left, Unmoved DEF Inv, LocksExclude
  <2> QED BY <2>1, <2>2 DEF LocksExclude
<1> QED BY <1>2, <1>3

LEMMA LeaveKeepsInv ==
  ASSUME Inv, UNCHANGED rows, NEW r \in Requests, ~At(r, {"idle"}), Leave(r)
  PROVE  Inv'
<1>1. TypeOK /\ UNCHANGED <<now, attempts, records, jobs, calls, admissions>>
  BY DEF Inv, rows
<1>2. TypeOK'
  BY <1>1, RowsKept, Left
<1>3. Asked' /\ LocksExclude'
  BY <1>1, LeaveKeepsRequests
<1>4. CallsCover'
  <2>1. \A c \in Counters : attempts[c] \in Nat /\ admissions[c] \in Nat /\ calls \in Nat
    BY <1>1, Numbers DEF TypeOK
  <2> QED BY <1>1, <2>1, FlightEnds DEF Inv, CallsCover
<1>5. StillSo'
  <2>1. ASSUME NEW q \in Requests, HoldsCredential(q)'
        PROVE  ~Replayed(Answer(q), request[q].at)'
    <3>1. q # r /\ request'[q] = request[q]
      BY <1>1, <2>1, Left
    <3>2. ~Replayed(Answer(q), request[q].at)
      BY <2>1, <3>1, Unmoved DEF Inv, StillSo
    <3> QED BY <1>1, <3>1, <3>2, Unmoved DEF Replayed
  <2>2. ASSUME NEW q \in Requests, At(q, {"subject counted"})' PROVE AddressWithin(q)'
    <3>1. q # r /\ request'[q] = request[q]
      BY <1>1, <2>2, Left
    <3>2. AddressWithin(q)
      BY <2>2, <3>1, Unmoved DEF Inv, StillSo
    <3> QED BY <1>1, <3>1, <3>2, Unmoved DEF AddressWithin
  <2> QED BY <2>1, <2>2 DEF StillSo
<1> QED BY <1>2, <1>3, <1>4, <1>5, RowsKept DEF Inv

LEMMA CallKeepsInv ==
  ASSUME Inv, NEW r \in Requests, Call(r)
  PROVE  Inv'
<1>1. TypeOK /\ now \in Times /\ now \in Nat /\ calls \in Nat
  BY Numbers DEF Inv, TypeOK, Times
<1>2. PICK a \in Addresses, s \in Subjects, k \in IdempotencyKeys \cup {None} :
        /\ k = None <=> s \in LicenseKeys
        /\ request' = [request EXCEPT ![r] =
             [stage |-> "called", at |-> now, window |-> WindowStart(now),
              address |-> a, subject |-> s, key |-> k]]
  BY DEF Call
<1> DEFINE new == [stage |-> "called", at |-> now, window |-> WindowStart(now),
                   address |-> a, subject |-> s, key |-> k]
<1>3. new \in Request
  BY <1>1, Windows DEF Request
<1>4. new.stage = "called" /\ new.at = now /\ new.key = k /\ new.subject = s
  OBVIOUS
<1>5. request' = [request EXCEPT ![r] = new]
  BY <1>2
<1> HIDE DEF new
<1>6. request'[r] = new /\ \A q \in Requests \ {r} : request'[q] = request[q]
  BY <1>1, <1>5 DEF TypeOK
<1>7. request' \in [Requests -> Request \cup {Idle}]
  BY <1>1, <1>3, <1>5 DEF TypeOK
<1>8. calls < MaxCalls /\ calls' = calls + 1 /\ UNCHANGED <<now, attempts, records, jobs, admissions>>
      /\ At(r, {"idle"})
  BY DEF Call
<1>9. ~At(r, {"idle"})' /\ Held(r)' = {} /\ ~HoldsCredential(r)' /\ ~At(r, {"subject counted"})'
  BY <1>4, <1>6 DEF At, Held, HoldsCredential
<1>10. TypeOK'
  <2>1. calls' \in 0..MaxCalls
    BY <1>1, <1>8, Numbers
  <2> QED BY <1>1, <1>7, <1>8, <2>1 DEF TypeOK
<1>11. Asked'
  <2>1. \A q \in Requests \ {r} : At(q, {"idle"})' <=> At(q, {"idle"})
    BY <1>6 DEF At
  <2>2. now <= now
    BY <1>1
  <2> QED BY <1>2, <1>4, <1>6, <1>8, <2>1, <2>2 DEF Inv, Asked
<1>12. CallsCover'
  <2>1. \A c \in Counters : attempts[c] \in Nat /\ admissions[c] \in Nat
    BY <1>1, Numbers DEF TypeOK
  <2>2. /\ IsFiniteSet(InFlight') /\ Cardinality(InFlight') = Cardinality(InFlight) + 1
        /\ Cardinality(InFlight) \in Nat
    BY <1>6, <1>8, <1>9, FlightBegins DEF Inv, CallsCover
  <2>3. \A c \in Counters : /\ attempts[c] + Cardinality(InFlight) <= calls
                            /\ admissions[c] + Cardinality(InFlight) <= calls
    BY DEF Inv, CallsCover
  <2> QED BY <1>1, <1>8, <2>1, <2>2, <2>3 DEF CallsCover
<1>13. LocksExclude'
  BY <1>6, <1>9, Unmoved DEF Inv, LocksExclude
<1>14. StillSo'
  <2>1. ASSUME NEW q \in Requests, HoldsCredential(q)'
        PROVE  ~Replayed(Answer(q), request[q].at)'
    <3>1. q # r /\ request'[q] = request[q]
      BY <1>6, <1>9, <2>1
    <3>2. ~Replayed(Answer(q), request[q].at)
      BY <2>1, <3>1, Unmoved DEF Inv, StillSo
    <3> QED BY <1>8, <3>1, <3>2, Unmoved DEF Replayed
  <2>2. ASSUME NEW q \in Requests, At(q, {"subject counted"})' PROVE AddressWithin(q)'
    <3>1. q # r /\ request'[q] = request[q]
      BY <1>6, <1>9, <2>2
    <3>2. AddressWithin(q)
      BY <2>2, <3>1, Unmoved DEF Inv, StillSo
    <3> QED BY <1>8, <3>1, <3>2, Unmoved DEF AddressWithin
  <2> QED BY <2>1, <2>2 DEF StillSo
<1>15. JobsAreRecorded' /\ AdmissionsAreCounted'
  BY <1>8 DEF Inv, JobsAreRecorded, Last, AdmissionsAreCounted, WindowStart
<1> QED BY <1>10, <1>11, <1>12, <1>13, <1>14, <1>15 DEF Inv

LEMMA LockKeepsInv ==
  ASSUME Inv, NEW r \in Requests, LockCredential(r)
  PROVE  Inv'
<1>1. TypeOK /\ At(r, {"called"}) /\ ~At(r, {"idle"}) /\ UNCHANGED rows
  BY DEF Inv, LockCredential, rows, At
<1>2. CASE Replayed(Answer(r), request[r].at)
  BY <1>1, <1>2, LeaveKeepsInv DEF LockCredential
<1>3. CASE ~Replayed(Answer(r), request[r].at)
  <2>1. Move(r, "locked")
    BY <1>3 DEF LockCredential
  <2>2. Held(r)' = {}
    <3>1. request'[r].stage = "locked"
      BY <1>1, <2>1, Moved
    <3> QED BY <3>1 DEF Held
  <2>3. \A q \in Requests : HoldsCredential(q) => request[q].subject # request[r].subject
    BY DEF LockCredential
  <2>4. \A q \in Requests \ {r} : Held(r)' \cap Held(q) = {}
    BY <2>2
  <2> QED BY <1>1, <1>3, <2>1, <2>3, <2>4, ProgressKeepsInv
<1> QED BY <1>2, <1>3

\* A recovery request that counts has locked its credential before.
LEMMA CountingKeepsCredential ==
  ASSUME Inv, NEW r \in Requests, NEW stage, HoldsCredential(r) \/ request[r].subject \notin Emails,
         ~At(r, {"idle"}), Move(r, stage), HoldsCredential(r)'
  PROVE  /\ ~Replayed(Answer(r), request[r].at)
         /\ \A q \in Requests \ {r} :
              HoldsCredential(q) => request[q].subject # request[r].subject
<1>1. request'[r].subject = request[r].subject
  BY Moved DEF Inv
<1>2. HoldsCredential(r)
  BY <1>1 DEF HoldsCredential
<1> QED BY <1>2 DEF Inv, StillSo, LocksExclude

LEMMA CountAddressKeepsInv ==
  ASSUME Inv, NEW r \in Requests, CountAddress(r)
  PROVE  Inv'
<1>1. TypeOK /\ ~At(r, {"idle"}) /\ UNCHANGED rows /\ Move(r, "address counted")
  BY DEF Inv, CountAddress, rows, At
<1>2. HoldsCredential(r) \/ request[r].subject \notin Emails
  <2>1. At(r, {"locked"}) => At(r, {"locked", "address counted", "subject counted"})
    BY DEF At
  <2> QED BY <2>1, Numbers DEF CountAddress, HoldsCredential
<1>3. Held(r)' = {AddressCounter(r)}
  <2>1. request'[r].stage = "address counted" /\ AddressCounter(r)' = AddressCounter(r)
    BY <1>1, Moved
  <2> QED BY <2>1 DEF Held
<1>4. \A q \in Requests \ {r} : Held(r)' \cap Held(q) = {}
  BY <1>3 DEF CountAddress, Free
<1>5. HoldsCredential(r)' =>
        /\ ~Replayed(Answer(r), request[r].at)
        /\ \A q \in Requests \ {r} :
             HoldsCredential(q) => request[q].subject # request[r].subject
  BY <1>1, <1>2, CountingKeepsCredential
<1> QED BY <1>1, <1>4, <1>5, ProgressKeepsInv

LEMMA CountSubjectKeepsInv ==
  ASSUME Inv, NEW r \in Requests, CountSubject(r)
  PROVE  Inv'
<1>1. TypeOK /\ ~At(r, {"idle"}) /\ UNCHANGED rows /\ Move(r, "subject counted") /\ AddressWithin(r)
  BY DEF Inv, CountSubject, rows, At
<1>2. HoldsCredential(r) \/ request[r].subject \notin Emails
  BY DEF CountSubject, HoldsCredential, At
<1>3. Held(r) = {AddressCounter(r)} /\ Held(r)' = {AddressCounter(r), SubjectCounter(r)}
  <2>1. request[r].stage = "address counted"
    BY DEF CountSubject, At
  <2>2. request'[r].stage = "subject counted"
        /\ AddressCounter(r)' = AddressCounter(r) /\ SubjectCounter(r)' = SubjectCounter(r)
    BY <1>1, Moved
  <2> QED BY <2>1, <2>2 DEF Held
<1>4. \A q \in Requests \ {r} : Held(r)' \cap Held(q) = {}
  <2>1. \A q \in Requests \ {r} : SubjectCounter(r) \notin Held(q)
    BY DEF CountSubject, Free
  <2>2. \A q \in Requests \ {r} : AddressCounter(r) \notin Held(q)
    BY <1>3 DEF Inv, LocksExclude
  <2> QED BY <1>3, <2>1, <2>2
<1>5. HoldsCredential(r)' =>
        /\ ~Replayed(Answer(r), request[r].at)
        /\ \A q \in Requests \ {r} :
             HoldsCredential(q) => request[q].subject # request[r].subject
  BY <1>1, <1>2, CountingKeepsCredential
<1> QED BY <1>1, <1>4, <1>5, ProgressKeepsInv

LEMMA RollBackKeepsInv ==
  ASSUME Inv, NEW r \in Requests, RollBack(r)
  PROVE  Inv'
BY LeaveKeepsInv DEF RollBack, rows

-----------------------------------------------------------------------------
(* The commit *)

LEMMA LastIsTime ==
  ASSUME TypeOK, NEW a \in Answers, jobs[a] # <<>>
  PROVE  Last(a) \in Nat
<1>1. jobs[a] \in Seq(Times)
  BY DEF TypeOK
<1>2. Len(jobs[a]) \in 1..Len(jobs[a])
  BY <1>1, EmptySeq, LenProperties
<1>3. jobs[a][Len(jobs[a])] \in Times
  BY <1>1, <1>2, ElementOfSeq
<1> QED BY <1>3, Windows DEF Last

\* Whoever has looked in vain under the lock, and finds a job, finds an old one.
LEMMA JobIsOld ==
  ASSUME Inv, NEW r \in Requests, HoldsCredential(r), jobs[Answer(r)] # <<>>
  PROVE  now >= Last(Answer(r)) + ReplayLifetime
<1> DEFINE a == Answer(r)
<1>1. TypeOK /\ Asked /\ ~At(r, {"idle"}) /\ request[r].subject \in Emails
  BY DEF Inv, HoldsCredential, At
<1>2. a \in Answers
  BY <1>1, AnswerTyped
<1>3. request[r].at \in Nat /\ request[r].at <= now /\ now \in Nat
  BY <1>1, RequestFields, Windows DEF Asked, TypeOK
<1>4. records[a] # None => records[a] \in Nat
  BY <1>1, <1>2, Windows DEF TypeOK
<1>5. Last(a) \in Nat
  BY <1>1, <1>2, LastIsTime
<1>6. records[a] # None => records[a] + ReplayLifetime <= request[r].at
  <2>1. ~Replayed(a, request[r].at)
    BY DEF Inv, StillSo
  <2> QED BY <1>3, <1>4, <2>1, Numbers DEF Replayed
<1>7. \/ records[a] # None /\ records[a] >= Last(a)
      \/ now >= Last(a) + ReplayLifetime
  BY <1>2 DEF Inv, JobsAreRecorded
<1> HIDE DEF a
<1>8. now >= Last(a) + ReplayLifetime
  BY <1>3, <1>4, <1>5, <1>6, <1>7, Numbers
<1> QED BY <1>8 DEF a

LEMMA CommitCounts ==
  ASSUME Inv, NEW r \in Requests, Commit(r)
  PROVE  /\ TypeOK /\ ~At(r, {"idle"}) /\ Leave(r) /\ UNCHANGED <<now, calls>>
         /\ Held(r) \subseteq Counters /\ AddressCounter(r) \in Held(r)
         /\ request[r].subject \in Emails => HoldsCredential(r)
         /\ \A c \in Held(r) : c[3] = request[r].window
         /\ \A c \in Counters :
              attempts'[c] = IF c \in Held(r) THEN attempts[c] + 1 ELSE attempts[c]
         /\ \A c \in Counters : admissions'[c] = admissions[c] \/
              /\ admissions'[c] = admissions[c] + 1 /\ c \in Held(r)
              /\ Admitted(r) /\ c[3] = WindowStart(now)
         /\ \A c \in Counters : attempts[c] \in Nat /\ admissions[c] \in Nat
<1>1. TypeOK /\ ~At(r, {"idle"}) /\ Leave(r) /\ UNCHANGED <<now, calls>>
  BY DEF Inv, Commit, Limited, Admitted, At
<1>2. request[r].stage \in {"address counted", "subject counted"}
  BY DEF Commit, Limited, Admitted, At
<1>3. Held(r) \subseteq {AddressCounter(r), SubjectCounter(r)} /\ AddressCounter(r) \in Held(r)
  BY <1>2 DEF Held
<1>4. Held(r) \subseteq Counters /\ \A c \in Held(r) : c[3] = request[r].window
  BY <1>1, <1>3, CountersTyped
<1>5. request[r].subject \in Emails => HoldsCredential(r)
  BY <1>2 DEF HoldsCredential, At
<1>6. \A c \in Counters : attempts[c] \in Nat /\ admissions[c] \in Nat
  BY <1>1, Numbers DEF TypeOK
<1>7. \A c \in Counters :
        attempts'[c] = IF c \in Held(r) THEN attempts[c] + 1 ELSE attempts[c]
  <2>1. attempts' = Increment(attempts, Held(r))
    BY DEF Commit
  <2>2. \A c \in Counters : attempts'[c] = attempts[c] + (IF c \in Held(r) THEN 1 ELSE 0)
    BY <2>1 DEF Increment
  <2> QED BY <1>6, <2>2
<1>8. ASSUME NEW c \in Counters
      PROVE  admissions'[c] = admissions[c] \/
              /\ admissions'[c] = admissions[c] + 1 /\ c \in Held(r)
              /\ Admitted(r) /\ c[3] = WindowStart(now)
  <2>1. CASE Admitted(r) /\ request[r].window = WindowStart(now)
    <3>1. admissions' = Increment(admissions, Held(r))
      BY <2>1 DEF Commit
    <3>2. admissions'[c] = admissions[c] + (IF c \in Held(r) THEN 1 ELSE 0)
      BY <3>1 DEF Increment
    <3> QED BY <1>4, <1>6, <2>1, <3>2
  <2>2. CASE ~(Admitted(r) /\ request[r].window = WindowStart(now))
    BY <2>2 DEF Commit
  <2> QED BY <2>1, <2>2
<1> QED BY <1>1, <1>3, <1>4, <1>5, <1>6, <1>7, <1>8

LEMMA CommitKeepsCounts ==
  ASSUME Inv, NEW r \in Requests, Commit(r)
  PROVE  CallsCover' /\ AdmissionsAreCounted'
<1>1. CallsCover'
  <2>1. /\ IsFiniteSet(InFlight') /\ Cardinality(InFlight') = Cardinality(InFlight) - 1
        /\ Cardinality(InFlight) \in Nat
    BY CommitCounts, FlightEnds DEF Inv, CallsCover
  <2>2. calls' = calls /\ calls \in Nat
    BY CommitCounts, Numbers DEF Inv, TypeOK
  <2>3. ASSUME NEW c \in Counters
        PROVE  /\ attempts'[c] + Cardinality(InFlight') <= calls'
               /\ admissions'[c] + Cardinality(InFlight') <= calls'
    <3>1. attempts[c] + Cardinality(InFlight) <= calls
          /\ admissions[c] + Cardinality(InFlight) <= calls
      BY DEF Inv, CallsCover
    <3>2. attempts[c] \in Nat /\ admissions[c] \in Nat
          /\ attempts'[c] \in {attempts[c], attempts[c] + 1}
          /\ admissions'[c] \in {admissions[c], admissions[c] + 1}
      BY CommitCounts
    <3> QED BY <2>1, <2>2, <3>1, <3>2
  <2> QED BY <2>1, <2>3 DEF CallsCover
<1>2. ASSUME NEW c \in Counters
      PROVE  /\ admissions'[c] <= Limit(c)
             /\ c[3] = WindowStart(now') => admissions'[c] <= attempts'[c]
             /\ c[3] > WindowStart(now') => admissions'[c] = 0
  <2>1. /\ admissions[c] <= Limit(c)
        /\ c[3] = WindowStart(now) => admissions[c] <= attempts[c]
        /\ c[3] > WindowStart(now) => admissions[c] = 0
    BY DEF Inv, AdmissionsAreCounted
  <2>2. now' = now /\ attempts[c] \in Nat /\ admissions[c] \in Nat
        /\ attempts'[c] = IF c \in Held(r) THEN attempts[c] + 1 ELSE attempts[c]
    BY CommitCounts
  <2>3. CASE admissions'[c] = admissions[c]
    BY <2>1, <2>2, <2>3
  <2>4. CASE /\ admissions'[c] = admissions[c] + 1 /\ c \in Held(r)
             /\ Admitted(r) /\ c[3] = WindowStart(now)
    <3>1. attempts[c] + 1 <= Limit(c)
      <4>1. c = AddressCounter(r) \/ c = SubjectCounter(r)
        BY <2>4 DEF Held
      <4>2. AddressCounter(r)[2] \in Addresses /\ SubjectCounter(r)[2] \notin Addresses
        BY CommitCounts, CountersTyped
      <4>3. attempts[AddressCounter(r)] + 1 <= AddressLimit
            /\ attempts[SubjectCounter(r)] + 1 <= SubjectLimit
        BY <2>4 DEF Inv, StillSo, Admitted, AddressWithin, SubjectWithin
      <4> QED BY <4>1, <4>2, <4>3 DEF Limit
    <3>2. c[3] \in Nat /\ WindowStart(now) \in Nat
      BY <2>4, Windows DEF Inv, TypeOK
    <3>3. Limit(c) \in Nat
      BY Numbers DEF Limit
    <3> QED BY <2>1, <2>2, <2>4, <3>1, <3>2, <3>3
  <2> QED BY <2>3, <2>4, CommitCounts
<1> QED BY <1>1, <1>2 DEF AdmissionsAreCounted, Limit, WindowStart

\* What is stored: an answer, and a job if the request is admitted.
LEMMA CommitStores ==
  ASSUME Inv, NEW r \in Requests, Commit(r), NEW a \in Answers
  PROVE  \/ records'[a] = records[a] /\ jobs'[a] = jobs[a]
         \/ /\ a = Answer(r) /\ HoldsCredential(r) /\ records'[a] = request[r].at
            /\ jobs'[a] \in {jobs[a], Append(jobs[a], request[r].at)}
<1>1. CASE request[r].subject \notin Emails
  BY <1>1 DEF Commit
<1>2. CASE request[r].subject \in Emails
  <2>1. TypeOK /\ HoldsCredential(r)
    BY <1>2, CommitCounts
  <2>2. records' = [records EXCEPT ![Answer(r)] = request[r].at]
        /\ jobs' \in {jobs, [jobs EXCEPT ![Answer(r)] = Append(@, request[r].at)]}
    BY <1>2 DEF Commit
  <2> QED BY <2>1, <2>2 DEF TypeOK
<1> QED BY <1>1, <1>2

LEMMA CommitKeepsInv ==
  ASSUME Inv, NEW r \in Requests, Commit(r)
  PROVE  Inv'
<1>1. TypeOK /\ ~At(r, {"idle"}) /\ Leave(r) /\ UNCHANGED <<now, calls>>
  BY CommitCounts
<1>2. Asked' /\ LocksExclude' /\ CallsCover' /\ AdmissionsAreCounted'
  BY <1>1, LeaveKeepsRequests, CommitKeepsCounts
<1>3. request[r].at \in Times /\ request[r].at \in Nat /\ now \in Nat /\ request[r].at # None
  BY <1>1, RequestFields, Windows, Numbers DEF TypeOK
<1>4. TypeOK'
  <2>1. request' \in [Requests -> Request \cup {Idle}]
    BY <1>1, Left
  <2>2. \A a \in Answers : records'[a] \in Times \cup {None} /\ jobs'[a] \in Seq(Times)
    <3>1. ASSUME NEW a \in Answers
          PROVE  records'[a] \in Times \cup {None} /\ jobs'[a] \in Seq(Times)
      <4>1. jobs[a] \in Seq(Times) /\ records[a] \in Times \cup {None}
        BY <1>1 DEF TypeOK
      <4>2. Append(jobs[a], request[r].at) \in Seq(Times)
        BY <1>3, <4>1, AppendProperties
      <4> QED BY <1>3, <4>1, <4>2, CommitStores
    <3> QED BY <3>1
  <2>3. records' \in [Answers -> Times \cup {None}] /\ jobs' \in [Answers -> Seq(Times)]
    <3>1. DOMAIN records' = Answers /\ DOMAIN jobs' = Answers
          /\ records' = [a \in Answers |-> records'[a]] /\ jobs' = [a \in Answers |-> jobs'[a]]
      BY <1>1 DEF Commit, TypeOK
    <3> QED BY <2>2, <3>1
  <2>4. attempts' \in [Counters -> 0..MaxCalls] /\ admissions' \in [Counters -> 0..MaxCalls]
    <3>1. ASSUME NEW c \in Counters
          PROVE  attempts'[c] \in 0..MaxCalls /\ admissions'[c] \in 0..MaxCalls
      <4>1. attempts'[c] \in Nat /\ admissions'[c] \in Nat
        BY CommitCounts
      <4>2. attempts'[c] + Cardinality(InFlight') <= calls'
            /\ admissions'[c] + Cardinality(InFlight') <= calls'
        BY <1>2 DEF CallsCover
      <4>3. Cardinality(InFlight') \in Nat
        BY <1>2, FS_CardinalityType DEF CallsCover
      <4>4. calls' \in Nat /\ calls' <= MaxCalls
        BY <1>1, Numbers DEF TypeOK
      <4> QED BY <4>1, <4>2, <4>3, <4>4, Numbers
    <3>2. attempts' = [c \in Counters |-> attempts'[c]]
          /\ admissions' = [c \in Counters |-> admissions'[c]]
      BY <1>1 DEF Commit, Increment, TypeOK
    <3> QED BY <3>1, <3>2
  <2> QED BY <1>1, <2>1, <2>3, <2>4 DEF TypeOK
<1>5. StillSo'
  <2>1. ASSUME NEW q \in Requests, HoldsCredential(q)'
        PROVE  ~Replayed(Answer(q), request[q].at)'
    <3>1. q # r /\ request'[q] = request[q]
      BY <1>1, <2>1, Left
    <3>2. HoldsCredential(q) /\ ~Replayed(Answer(q), request[q].at) /\ Answer(q)' = Answer(q)
      BY <2>1, <3>1, Unmoved DEF Inv, StillSo
    <3>3. Answer(q) \in Answers
      BY <3>2, AnswerTyped DEF Inv, HoldsCredential, At
    <3>4. HoldsCredential(r) => Answer(q) # Answer(r)
      <4>1. HoldsCredential(r) => request[q].subject # request[r].subject
        BY <3>1, <3>2 DEF Inv, LocksExclude
      <4> QED BY <4>1 DEF Answer
    <3>5. records'[Answer(q)] = records[Answer(q)]
      BY <3>3, <3>4, CommitStores
    <3> QED BY <3>1, <3>2, <3>5 DEF Replayed
  <2>2. ASSUME NEW q \in Requests, At(q, {"subject counted"})' PROVE AddressWithin(q)'
    <3>1. q # r /\ request'[q] = request[q]
      BY <1>1, <2>2, Left
    <3>2. At(q, {"subject counted"}) /\ AddressWithin(q) /\ AddressCounter(q)' = AddressCounter(q)
      BY <2>2, <3>1, Unmoved DEF Inv, StillSo
    <3>3. AddressCounter(q) \in Held(q) /\ AddressCounter(q) \in Counters
      BY <3>2, <1>1, CountersTyped DEF Held, At
    <3>4. AddressCounter(q) \notin Held(r)
      BY <3>1, <3>3 DEF Inv, LocksExclude
    <3>5. attempts'[AddressCounter(q)] = attempts[AddressCounter(q)]
      BY <3>3, <3>4, CommitCounts
    <3> QED BY <3>2, <3>5 DEF AddressWithin
  <2> QED BY <2>1, <2>2 DEF StillSo
<1>6. JobsAreRecorded'
  <2>1. ASSUME NEW a \in Answers, jobs'[a] # <<>>
        PROVE  \/ records'[a] # None /\ records'[a] >= Last(a)'
               \/ now' >= Last(a)' + ReplayLifetime
    <3>1. CASE records'[a] = records[a] /\ jobs'[a] = jobs[a]
      BY <1>1, <2>1, <3>1 DEF Inv, JobsAreRecorded, Last
    <3>2. CASE a = Answer(r) /\ HoldsCredential(r) /\ jobs'[a] = jobs[a]
      BY <1>1, <2>1, <3>2, JobIsOld DEF Last
    <3>3. CASE records'[a] = request[r].at /\ jobs'[a] = Append(jobs[a], request[r].at)
      <4>1. jobs[a] \in Seq(Times)
        BY <1>1 DEF TypeOK
      <4>2. Last(a)' = request[r].at
        BY <1>3, <3>3, <4>1, AppendProperties DEF Last
      <4> QED BY <1>3, <3>3, <4>2
    <3> QED BY <3>1, <3>2, <3>3, CommitStores
  <2> QED BY <2>1 DEF JobsAreRecorded
<1> QED BY <1>2, <1>4, <1>5, <1>6 DEF Inv

-----------------------------------------------------------------------------
(* Cleanup and time *)

LEMMA CounterCleanupKeepsInv ==
  ASSUME Inv, NEW c \in Counters, CleanupCounter(c)
  PROVE  Inv'
<1>1. TypeOK /\ UNCHANGED <<now, records, jobs, request, calls, admissions>>
      /\ attempts' = [attempts EXCEPT ![c] = 0]
  BY DEF Inv, CleanupCounter
<1>2. \A d \in Counters : attempts'[d] = IF d = c THEN 0 ELSE attempts[d]
  BY <1>1 DEF TypeOK
<1>3. TypeOK'
  BY <1>1, Numbers DEF TypeOK
<1>4. \A r \in Requests : /\ Held(r)' = Held(r) /\ (HoldsCredential(r)' <=> HoldsCredential(r))
                          /\ Answer(r)' = Answer(r) /\ AddressCounter(r)' = AddressCounter(r)
                          /\ \A S : At(r, S)' <=> At(r, S)
  BY <1>1, Unmoved
<1>5. Asked'
  BY <1>1, <1>4 DEF Inv, Asked
<1>6. CallsCover'
  <2>1. InFlight' = InFlight
    BY <1>4 DEF InFlight
  <2>2. IsFiniteSet(InFlight) /\ Cardinality(InFlight) \in Nat
    BY FS_CardinalityType DEF Inv, CallsCover
  <2>3. \A d \in Counters : attempts[d] \in Nat /\ calls \in Nat
    BY <1>1, Numbers DEF TypeOK
  <2>4. \A d \in Counters : /\ attempts[d] + Cardinality(InFlight) <= calls
                            /\ admissions[d] + Cardinality(InFlight) <= calls
    BY DEF Inv, CallsCover
  <2>5. \A d \in Counters : attempts'[d] + Cardinality(InFlight) <= calls
    BY <1>2, <2>2, <2>3, <2>4
  <2> QED BY <1>1, <2>1, <2>2, <2>4, <2>5 DEF CallsCover
<1>7. LocksExclude'
  BY <1>1, <1>4 DEF Inv, LocksExclude
<1>8. StillSo'
  <2>1. ASSUME NEW r \in Requests, HoldsCredential(r)'
        PROVE  ~Replayed(Answer(r), request[r].at)'
    BY <1>1, <1>4, <2>1 DEF Inv, StillSo, Replayed
  <2>2. ASSUME NEW r \in Requests, At(r, {"subject counted"})' PROVE AddressWithin(r)'
    <3>1. AddressWithin(r) /\ AddressCounter(r) \in Held(r) /\ AddressCounter(r) \in Counters
      <4>1. At(r, {"subject counted"})
        BY <1>4, <2>2
      <4> QED BY <1>1, <4>1, CountersTyped DEF Inv, StillSo, Held, At
    <3>2. attempts'[AddressCounter(r)] = attempts[AddressCounter(r)]
      BY <1>2, <3>1 DEF CleanupCounter
    <3> QED BY <1>4, <3>1, <3>2 DEF AddressWithin
  <2> QED BY <2>1, <2>2 DEF StillSo
<1>9. JobsAreRecorded'
  BY <1>1 DEF Inv, JobsAreRecorded, Last
<1>10. AdmissionsAreCounted'
  <2>1. c[3] < WindowStart(now) /\ WindowStart(now) \in Nat /\ c[3] \in Nat
    BY <1>1, Windows DEF CleanupCounter, TypeOK, Counters, WindowStarts
  <2> QED BY <1>1, <1>2, <2>1 DEF Inv, AdmissionsAreCounted, WindowStart
<1> QED BY <1>3, <1>5, <1>6, <1>7, <1>8, <1>9, <1>10 DEF Inv

LEMMA RecordCleanupKeepsInv ==
  ASSUME Inv, NEW a \in Answers, CleanupRecord(a)
  PROVE  Inv'
<1>1. TypeOK /\ UNCHANGED <<now, attempts, jobs, request, calls, admissions>>
      /\ records[a] # None /\ records[a] + ReplayLifetime <= now
      /\ records' = [records EXCEPT ![a] = None]
  BY DEF Inv, CleanupRecord
<1>2. \A b : records'[b] = records[b] \/ records'[b] = None
  BY <1>1 DEF TypeOK
<1>3. TypeOK'
  BY <1>1 DEF TypeOK
<1>4. \A r \in Requests : /\ Held(r)' = Held(r) /\ (HoldsCredential(r)' <=> HoldsCredential(r))
                          /\ Answer(r)' = Answer(r) /\ AddressCounter(r)' = AddressCounter(r)
                          /\ \A S : At(r, S)' <=> At(r, S)
  BY <1>1, Unmoved
<1>5. Asked'
  BY <1>1, <1>4 DEF Inv, Asked
<1>6. CallsCover'
  <2>1. InFlight' = InFlight
    BY <1>4 DEF InFlight
  <2> QED BY <1>1, <2>1 DEF Inv, CallsCover
<1>7. LocksExclude'
  BY <1>1, <1>4 DEF Inv, LocksExclude
<1>8. StillSo'
  BY <1>1, <1>2, <1>4 DEF Inv, StillSo, Replayed, AddressWithin
<1>9. JobsAreRecorded'
  <2>1. ASSUME NEW b \in Answers, jobs[b] # <<>>
        PROVE  \/ records'[b] # None /\ records'[b] >= Last(b)
               \/ now >= Last(b) + ReplayLifetime
    <3>1. \/ records[b] # None /\ records[b] >= Last(b)
          \/ now >= Last(b) + ReplayLifetime
      BY <2>1 DEF Inv, JobsAreRecorded
    <3>2. CASE b # a
      BY <1>1, <3>1, <3>2 DEF TypeOK
    <3>3. CASE b = a
      <4>1. records[a] \in Nat /\ now \in Nat
        BY <1>1, Windows DEF TypeOK
      <4>2. Last(a) \in Nat
        BY <1>1, <2>1, <3>3, LastIsTime
      <4> QED BY <1>1, <3>1, <3>3, <4>1, <4>2, Numbers
    <3> QED BY <3>2, <3>3
  <2> QED BY <1>1, <2>1 DEF JobsAreRecorded, Last
<1>10. AdmissionsAreCounted'
  BY <1>1 DEF Inv, AdmissionsAreCounted, WindowStart
<1> QED BY <1>3, <1>5, <1>6, <1>7, <1>8, <1>9, <1>10 DEF Inv

LEMMA TickKeepsInv ==
  ASSUME Inv, Tick
  PROVE  Inv'
<1>1. TypeOK /\ UNCHANGED <<attempts, records, jobs, request, calls, admissions>>
      /\ now' = now + 1 /\ now < MaxTime /\ now \in Times /\ now \in Nat
  BY Windows DEF Inv, Tick, TypeOK
<1>2. now + 1 \in Times
  BY <1>1, Numbers DEF Times
<1>3. TypeOK'
  BY <1>1, <1>2 DEF TypeOK
<1>4. \A r \in Requests : /\ Held(r)' = Held(r) /\ (HoldsCredential(r)' <=> HoldsCredential(r))
                          /\ Answer(r)' = Answer(r) /\ AddressCounter(r)' = AddressCounter(r)
                          /\ \A S : At(r, S)' <=> At(r, S)
  BY <1>1, Unmoved
<1>5. Asked'
  <2>1. \A r \in Requests : ~At(r, {"idle"}) => request[r].at \in Nat
    BY <1>1, RequestFields
  <2> QED BY <1>1, <1>4, <2>1 DEF Inv, Asked
<1>6. CallsCover'
  <2>1. InFlight' = InFlight
    BY <1>4 DEF InFlight
  <2> QED BY <1>1, <2>1 DEF Inv, CallsCover
<1>7. LocksExclude'
  BY <1>1, <1>4 DEF Inv, LocksExclude
<1>8. StillSo'
  BY <1>1, <1>4 DEF Inv, StillSo, Replayed, AddressWithin
<1>9. JobsAreRecorded'
  <2>1. \A a \in Answers : jobs[a] # <<>> => Last(a) \in Nat
    BY <1>1, LastIsTime
  <2>2. \A a : Last(a)' = Last(a)
    BY <1>1 DEF Last
  <2> QED BY <1>1, <2>1, <2>2, Numbers DEF Inv, JobsAreRecorded
<1>10. AdmissionsAreCounted'
  <2>1. WindowStart(now) <= WindowStart(now + 1) /\ WindowStart(now) \in Nat
        /\ WindowStart(now + 1) \in Nat
    BY <1>1, <1>2, Windows, WindowsFollow
  <2>2. ASSUME NEW c \in Counters
        PROVE  /\ c[3] = WindowStart(now + 1) => admissions[c] <= attempts[c]
               /\ c[3] > WindowStart(now + 1) => admissions[c] = 0
    <3>1. c[3] \in Nat /\ attempts[c] \in Nat
      <4>1. c[3] \in Times
        BY DEF Counters, WindowStarts
      <4>2. attempts[c] \in 0..MaxCalls
        BY <1>1 DEF TypeOK
      <4> QED BY <4>1, <4>2, Windows, Numbers
    <3>2. /\ c[3] = WindowStart(now) => admissions[c] <= attempts[c]
          /\ c[3] > WindowStart(now) => admissions[c] = 0
      BY DEF Inv, AdmissionsAreCounted
    <3> QED BY <2>1, <3>1, <3>2
  <2>3. WindowStart(now)' = WindowStart(now + 1)
    BY <1>1 DEF WindowStart
  <2> QED BY <1>1, <2>2, <2>3 DEF Inv, AdmissionsAreCounted, Limit
<1> QED BY <1>3, <1>5, <1>6, <1>7, <1>8, <1>9, <1>10 DEF Inv

-----------------------------------------------------------------------------
LEMMA StepKeepsInv == Inv /\ [Next]_vars => Inv'
<1> SUFFICES ASSUME Inv, [Next]_vars PROVE Inv'
  OBVIOUS
<1>1. ASSUME NEW r \in Requests, Call(r) PROVE Inv'
  BY <1>1, CallKeepsInv
<1>2. ASSUME NEW r \in Requests, LockCredential(r) PROVE Inv'
  BY <1>2, LockKeepsInv
<1>3. ASSUME NEW r \in Requests, CountAddress(r) PROVE Inv'
  BY <1>3, CountAddressKeepsInv
<1>4. ASSUME NEW r \in Requests, CountSubject(r) PROVE Inv'
  BY <1>4, CountSubjectKeepsInv
<1>5. ASSUME NEW r \in Requests, Commit(r) PROVE Inv'
  BY <1>5, CommitKeepsInv
<1>6. ASSUME NEW r \in Requests, RollBack(r) PROVE Inv'
  BY <1>6, RollBackKeepsInv
<1>7. ASSUME NEW c \in Counters, CleanupCounter(c) PROVE Inv'
  BY <1>7, CounterCleanupKeepsInv
<1>8. ASSUME NEW a \in Answers, CleanupRecord(a) PROVE Inv'
  BY <1>8, RecordCleanupKeepsInv
<1>9. CASE Tick
  BY <1>9, TickKeepsInv
<1>10. CASE UNCHANGED vars
  <2>1. UNCHANGED <<now, attempts, records, jobs, request, calls, admissions>>
    BY <1>10 DEF vars
  <2>2. \A r \in Requests : /\ Held(r)' = Held(r) /\ (HoldsCredential(r)' <=> HoldsCredential(r))
                            /\ Answer(r)' = Answer(r) /\ AddressCounter(r)' = AddressCounter(r)
                            /\ \A S : At(r, S)' <=> At(r, S)
    BY <2>1, Unmoved
  <2>3. TypeOK'
    BY <2>1 DEF Inv, TypeOK
  <2>4. InFlight' = InFlight
    BY <2>2 DEF InFlight
  <2>5. Asked' /\ CallsCover' /\ LocksExclude'
    BY <2>1, <2>2, <2>4 DEF Inv, Asked, CallsCover, LocksExclude
  <2>6. StillSo'
    BY <2>1, <2>2 DEF Inv, StillSo, Replayed, AddressWithin
  <2>7. JobsAreRecorded' /\ AdmissionsAreCounted'
    BY <2>1 DEF Inv, JobsAreRecorded, Last, AdmissionsAreCounted, WindowStart
  <2> QED BY <2>3, <2>5, <2>6, <2>7 DEF Inv
<1> QED BY <1>1, <1>2, <1>3, <1>4, <1>5, <1>6, <1>7, <1>8, <1>9, <1>10 DEF Next

\* The invariant holds of every behavior of the specification.
THEOREM InvHolds == Spec => []Inv
BY InitInv, StepKeepsInv, PTL DEF Spec

\* Type correctness of the counters, the stored answers and the requests under way
\* (TypeOK).
THEOREM AdmissionTypesHold == Spec => []TypeOK
<1>1. Inv => TypeOK
  BY DEF Inv
<1> QED BY <1>1, InvHolds, PTL

\* No address and no subject is admitted more often than its limit allows in a
\* window while it lasts, however consumeRateLimits overlaps with itself, rollbacks
\* and the cleanup worker (AdmittedWithinLimits).
THEOREM AdmittedWithinLimitsHolds == Spec => []AdmittedWithinLimits
<1>1. Inv => AdmittedWithinLimits
  BY DEF Inv, AdmissionsAreCounted, AdmittedWithinLimits, Limit
<1> QED BY <1>1, InvHolds, PTL

\* A recovery request and its retries become one job while the first answer can be
\* replayed (OneJobPerKey): whoever adds a job has looked for the answer under the
\* lock of the email, with the time at which it began.
THEOREM OneJobPerKeyAlways == Spec => OneJobPerKey
<1> DEFINE OneJob == \A a \in Answers :
      (jobs'[a] # jobs[a] /\ jobs[a] # <<>>)
        => now >= jobs[a][Len(jobs[a])] + ReplayLifetime
<1>1. ASSUME Inv, Next, NEW a \in Answers, jobs'[a] # jobs[a], jobs[a] # <<>>
      PROVE  now >= jobs[a][Len(jobs[a])] + ReplayLifetime
  <2>1. PICK r \in Requests : Commit(r)
    BY <1>1 DEF Next, Call, LockCredential, CountAddress, CountSubject, RollBack,
       CleanupCounter, CleanupRecord, Tick
  <2>2. a = Answer(r) /\ HoldsCredential(r)
    BY <1>1, <2>1, CommitStores
  <2> QED BY <1>1, <2>2, JobIsOld DEF Last
<1>2. Inv /\ [Next]_vars => [OneJob]_vars
  BY <1>1
<1> QED BY <1>2, InvHolds, PTL DEF Spec, OneJobPerKey
-----------------------------------------------------------------------------
(* What is counted on both sides: a second invariant, on top of Inv.  When a *)
(* window begins nothing has been counted in it.                             *)

NothingAhead ==
  /\ \A r \in Requests : ~At(r, {"idle"}) => request[r].window <= WindowStart(now)
  /\ \A c \in Counters : c[3] > WindowStart(now) => attempts[c] = 0
SidesAgree ==
  \A p \in Paths :
    LET subjects == AttemptsOf(Subjects, p, MaxCalls)
        addresses == AttemptsOf(Addresses, p, AddressLimit)
    IN  /\ IsFiniteSet(subjects) /\ IsFiniteSet(addresses)
        /\ Cardinality(subjects) = Cardinality(addresses)

\* The counter of x in the current window.
Current(p, x) == <<p, x, WindowStart(now)>>

LEMMA CurrentTyped ==
  ASSUME TypeOK, NEW p \in Paths, NEW x \in Addresses \cup Subjects
  PROVE  Current(p, x) \in Counters /\ attempts[Current(p, x)] \in 0..MaxCalls
<1>1. Current(p, x) \in Counters
  BY Windows DEF TypeOK, Current, Counters
<1> QED BY <1>1 DEF TypeOK

LEMMA AttemptsStay ==
  ASSUME NEW S, NEW p, NEW limit, UNCHANGED now,
         \A x \in S : attempts'[Current(p, x)] = attempts[Current(p, x)]
  PROVE  AttemptsOf(S, p, limit)' = AttemptsOf(S, p, limit)
<1>1. WindowStart(now)' = WindowStart(now)
  BY DEF WindowStart
<1>2. \A t \in S \X (1..limit) :
        attempts'[<<p, t[1], WindowStart(now)>>] = attempts[<<p, t[1], WindowStart(now)>>]
  BY DEF Current
<1> QED BY <1>1, <1>2 DEF AttemptsOf

\* An attempt of x counts if it is within the limit.
LEMMA AttemptIsCounted ==
  ASSUME NEW S, NEW p, NEW limit \in Nat, NEW x \in S, UNCHANGED now,
         \A y \in S : attempts[Current(p, y)] \in Nat,
         \A y \in S \ {x} : attempts'[Current(p, y)] = attempts[Current(p, y)],
         attempts'[Current(p, x)] = attempts[Current(p, x)] + 1
  PROVE  LET new == <<x, attempts[Current(p, x)] + 1>> IN
         /\ new \notin AttemptsOf(S, p, limit)
         /\ AttemptsOf(S, p, limit)' =
              IF attempts[Current(p, x)] + 1 <= limit
              THEN AttemptsOf(S, p, limit) \cup {new} ELSE AttemptsOf(S, p, limit)
<1> DEFINE count == attempts[Current(p, x)]
           new == <<x, count + 1>>
           before == AttemptsOf(S, p, limit)
           after == AttemptsOf(S, p, limit)'
<1>1. /\ before = {t \in S \X (1..limit) : t[2] <= attempts[Current(p, t[1])]}
      /\ after = {t \in S \X (1..limit) : t[2] <= attempts'[Current(p, t[1])]}
  <2>1. WindowStart(now)' = WindowStart(now)
    BY DEF WindowStart
  <2> QED BY <2>1 DEF AttemptsOf, Current
<1>2. count \in Nat
  OBVIOUS
<1>3. new \notin before
  <2>1. new[1] = x /\ new[2] = count + 1 /\ ~(count + 1 <= count)
    BY <1>2
  <2> HIDE DEF new
  <2> QED BY <1>1, <2>1
<1>4. ASSUME NEW t \in S \X (1..limit)
      PROVE  t \in after <=> t \in before \/ t = new
  <2>1. t[1] \in S /\ t[2] \in 1..limit /\ t = <<t[1], t[2]>>
    OBVIOUS
  <2>2. t[2] \in Nat
    BY <2>1
  <2>3. t \in before <=> t[2] <= attempts[Current(p, t[1])]
    BY <1>1, <1>4
  <2>4. t \in after <=> t[2] <= attempts'[Current(p, t[1])]
    BY <1>1, <1>4
  <2>5. CASE t[1] # x
    BY <2>1, <2>3, <2>4, <2>5
  <2>6. CASE t[1] = x
    <3>1. t \in before <=> t[2] <= count
      BY <2>3, <2>6
    <3>2. t \in after <=> t[2] <= count + 1
      BY <2>4, <2>6
    <3>3. t = new <=> t[2] = count + 1
      BY <2>1, <2>6
    <3>4. t[2] <= count + 1 <=> t[2] <= count \/ t[2] = count + 1
      BY <1>2, <2>2
    <3> QED BY <3>1, <3>2, <3>3, <3>4
  <2> QED BY <2>5, <2>6
<1>5. before \subseteq S \X (1..limit) /\ after \subseteq S \X (1..limit)
  BY <1>1
<1>6. new \in S \X (1..limit) <=> count + 1 <= limit
  BY <1>2
<1>7. after = IF count + 1 <= limit THEN before \cup {new} ELSE before
  <2> HIDE DEF before, after, new
  <2>1. CASE count + 1 <= limit
    BY <1>4, <1>5, <1>6, <2>1
  <2>2. CASE ~(count + 1 <= limit)
    BY <1>4, <1>5, <1>6, <2>2
  <2> QED BY <2>1, <2>2
<1> QED BY <1>3, <1>7

\* Steps that leave the counters of the current window as they are.
LEMMA SidesStay ==
  ASSUME SidesAgree, UNCHANGED now,
         \A p \in Paths : \A x \in Addresses \cup Subjects :
           attempts'[Current(p, x)] = attempts[Current(p, x)]
  PROVE  SidesAgree'
<1>1. ASSUME NEW p \in Paths
      PROVE  /\ AttemptsOf(Subjects, p, MaxCalls)' = AttemptsOf(Subjects, p, MaxCalls)
             /\ AttemptsOf(Addresses, p, AddressLimit)' = AttemptsOf(Addresses, p, AddressLimit)
  BY AttemptsStay
<1> QED BY <1>1 DEF SidesAgree

\* A commit counts against the subject exactly if the address is within its limit.
LEMMA CommitKeepsSides ==
  ASSUME Inv, SidesAgree, NEW r \in Requests, Commit(r)
  PROVE  SidesAgree'
<1>1. /\ TypeOK /\ TypeOK' /\ ~At(r, {"idle"}) /\ now' = now
      /\ \A c \in Held(r) : c[3] = request[r].window
      /\ \A c \in Counters :
           attempts'[c] = IF c \in Held(r) THEN attempts[c] + 1 ELSE attempts[c]
  BY CommitCounts, CommitKeepsInv DEF Inv
<1>2. CASE request[r].window # WindowStart(now)
  <2>1. ASSUME NEW p \in Paths, NEW x \in Addresses \cup Subjects
        PROVE  attempts'[Current(p, x)] = attempts[Current(p, x)]
    BY <1>1, <1>2, CurrentTyped DEF Current
  <2> QED BY <1>1, <2>1, SidesStay
<1>3. CASE request[r].window = WindowStart(now)
  <2>1. PICK path, a, s :
          /\ path = Path(request[r].subject)
          /\ a = request[r].address /\ s = request[r].subject
    OBVIOUS
  <2>2. /\ AddressCounter(r) = Current(path, a) /\ SubjectCounter(r) = Current(path, s)
        /\ a \in Addresses /\ s \in Subjects /\ path \in Paths
    BY <1>1, <1>3, <2>1, RequestFields DEF AddressCounter, SubjectCounter, Current, Path, Paths
  <2>3. \A p, q, x, y : Current(p, x) = Current(q, y) => p = q /\ x = y
    BY DEF Current
  <2>4. \A p \in Paths : \A x \in Addresses \cup Subjects :
          attempts'[Current(p, x)] = IF Current(p, x) \in Held(r)
                                     THEN attempts[Current(p, x)] + 1
                                     ELSE attempts[Current(p, x)]
    BY <1>1, CurrentTyped
  <2>5. \A p \in Paths : \A x \in Addresses \cup Subjects :
          attempts[Current(p, x)] \in Nat /\ attempts'[Current(p, x)] <= MaxCalls
    <3>1. ASSUME NEW p \in Paths, NEW x \in Addresses \cup Subjects
          PROVE  attempts[Current(p, x)] \in Nat /\ attempts'[Current(p, x)] <= MaxCalls
      <4>1. /\ Current(p, x) \in Counters /\ attempts[Current(p, x)] \in 0..MaxCalls
            /\ attempts' \in [Counters -> 0..MaxCalls]
        BY <1>1, CurrentTyped DEF TypeOK
      <4>2. attempts'[Current(p, x)] \in 0..MaxCalls
        BY <4>1
      <4> QED BY <4>1, <4>2, Numbers
    <3> QED BY <3>1
  <2>6. Addresses \cap Subjects = {} /\ AddressLimit \in Nat /\ MaxCalls \in Nat
    BY Numbers
  <2>7. Held(r) \subseteq {Current(path, a), Current(path, s)}
    BY <2>2 DEF Held
  <2>8. ASSUME NEW p \in Paths, p # path
        PROVE  /\ AttemptsOf(Subjects, p, MaxCalls)' = AttemptsOf(Subjects, p, MaxCalls)
               /\ AttemptsOf(Addresses, p, AddressLimit)'
                    = AttemptsOf(Addresses, p, AddressLimit)
    <3>1. \A x \in Addresses \cup Subjects :
            attempts'[Current(p, x)] = attempts[Current(p, x)]
      BY <2>3, <2>4, <2>7, <2>8
    <3> QED BY <1>1, <3>1, AttemptsStay
  <2>9. CASE At(r, {"address counted"})
    <3>1. Held(r) = {Current(path, a)} /\ ~(attempts[Current(path, a)] + 1 <= AddressLimit)
      <4>1. Held(r) = {AddressCounter(r)} /\ ~AddressWithin(r)
        BY <2>9 DEF Held, Commit, Limited, Admitted, At
      <4> QED BY <2>2, <4>1 DEF AddressWithin
    <3>2. AttemptsOf(Subjects, path, MaxCalls)' = AttemptsOf(Subjects, path, MaxCalls)
      <4>1. \A x \in Subjects : attempts'[Current(path, x)] = attempts[Current(path, x)]
        BY <2>2, <2>3, <2>4, <2>6, <3>1
      <4> QED BY <1>1, <4>1, AttemptsStay
    <3>3. AttemptsOf(Addresses, path, AddressLimit)' = AttemptsOf(Addresses, path, AddressLimit)
      <4>1. /\ \A y \in Addresses \ {a} :
                 attempts'[Current(path, y)] = attempts[Current(path, y)]
            /\ attempts'[Current(path, a)] = attempts[Current(path, a)] + 1
            /\ \A y \in Addresses : attempts[Current(path, y)] \in Nat
        BY <2>2, <2>3, <2>4, <2>5, <3>1
      <4> QED BY <1>1, <2>2, <2>6, <3>1, <4>1, AttemptIsCounted
    <3> QED BY <2>8, <3>2, <3>3 DEF SidesAgree
  <2>10. CASE At(r, {"subject counted"})
    <3>1. /\ Held(r) = {Current(path, a), Current(path, s)}
          /\ attempts[Current(path, a)] + 1 <= AddressLimit
      <4>1. Held(r) = {AddressCounter(r), SubjectCounter(r)} /\ AddressWithin(r)
        BY <2>10 DEF Held, At, Inv, StillSo
      <4> QED BY <2>2, <4>1 DEF AddressWithin
    <3>2. PICK t : /\ t \notin AttemptsOf(Subjects, path, MaxCalls)
                   /\ AttemptsOf(Subjects, path, MaxCalls)'
                        = AttemptsOf(Subjects, path, MaxCalls) \cup {t}
      <4>1. /\ \A y \in Subjects \ {s} :
                 attempts'[Current(path, y)] = attempts[Current(path, y)]
            /\ attempts'[Current(path, s)] = attempts[Current(path, s)] + 1
            /\ \A y \in Subjects : attempts[Current(path, y)] \in Nat
        BY <2>2, <2>3, <2>4, <2>5, <2>6, <3>1
      <4>2. attempts[Current(path, s)] + 1 <= MaxCalls
        BY <2>2, <2>5, <4>1
      <4> QED BY <1>1, <2>2, <2>6, <4>1, <4>2, AttemptIsCounted
    <3>3. PICK u : /\ u \notin AttemptsOf(Addresses, path, AddressLimit)
                   /\ AttemptsOf(Addresses, path, AddressLimit)'
                        = AttemptsOf(Addresses, path, AddressLimit) \cup {u}
      <4>1. /\ \A y \in Addresses \ {a} :
                 attempts'[Current(path, y)] = attempts[Current(path, y)]
            /\ attempts'[Current(path, a)] = attempts[Current(path, a)] + 1
            /\ \A y \in Addresses : attempts[Current(path, y)] \in Nat
        BY <2>2, <2>3, <2>4, <2>5, <2>6, <3>1
      <4> QED BY <1>1, <2>2, <2>6, <3>1, <4>1, AttemptIsCounted
    <3>4. /\ IsFiniteSet(AttemptsOf(Subjects, path, MaxCalls))
          /\ IsFiniteSet(AttemptsOf(Addresses, path, AddressLimit))
          /\ Cardinality(AttemptsOf(Subjects, path, MaxCalls))
               = Cardinality(AttemptsOf(Addresses, path, AddressLimit))
      BY <2>2 DEF SidesAgree
    <3>5. /\ IsFiniteSet(AttemptsOf(Subjects, path, MaxCalls)')
          /\ IsFiniteSet(AttemptsOf(Addresses, path, AddressLimit)')
          /\ Cardinality(AttemptsOf(Subjects, path, MaxCalls)')
               = Cardinality(AttemptsOf(Addresses, path, AddressLimit)')
      <4>1. PICK S, A : /\ S = AttemptsOf(Subjects, path, MaxCalls)
                        /\ A = AttemptsOf(Addresses, path, AddressLimit)
        OBVIOUS
      <4>2. /\ IsFiniteSet(S \cup {t}) /\ IsFiniteSet(A \cup {u})
            /\ Cardinality(S \cup {t}) = Cardinality(S) + 1
            /\ Cardinality(A \cup {u}) = Cardinality(A) + 1
        BY <3>2, <3>3, <3>4, <4>1, FS_AddElement
      <4> QED BY <3>2, <3>3, <3>4, <4>1, <4>2
    <3> QED BY <2>8, <3>5 DEF SidesAgree
  <2> QED BY <2>9, <2>10 DEF Commit, Limited, Admitted, At
<1> QED BY <1>2, <1>3

\* A request's window is that of the time it began at; nobody counts ahead of it.
LEMMA StepKeepsAhead ==
  ASSUME Inv, NothingAhead, NEW r \in Requests,
         Call(r) \/ LockCredential(r) \/ CountAddress(r) \/ CountSubject(r)
           \/ Commit(r) \/ RollBack(r)
  PROVE  NothingAhead'
<1>1. TypeOK /\ now' = now /\ WindowStart(now)' = WindowStart(now)
  BY DEF Inv, Call, LockCredential, CountAddress, CountSubject, Commit, RollBack, WindowStart
<1>2. WindowStart(now) \in Nat
  BY <1>1, Windows DEF TypeOK
<1>3. ASSUME NEW q \in Requests, ~At(q, {"idle"})'
      PROVE  request'[q].window <= WindowStart(now)
  <2>1. CASE request'[q] = request[q]
    BY <1>3, <2>1 DEF NothingAhead, At
  <2>2. CASE q = r /\ Call(r)
    <3>1. request'[r].window = WindowStart(now)
      BY <1>1, <2>2 DEF Call, TypeOK
    <3> QED BY <1>2, <2>2, <3>1
  <2>3. CASE q = r /\ ~Call(r)
    <3>1. ~Leave(r)
      BY <1>1, <1>3, <2>3, Left
    <3>2. ~At(r, {"idle"}) /\ \E stage : Move(r, stage)
      BY <2>3, <3>1 DEF LockCredential, CountAddress, CountSubject, Commit, RollBack, At
    <3>3. request'[r].window = request[r].window
      BY <1>1, <3>2, Moved
    <3> QED BY <2>3, <3>2, <3>3 DEF NothingAhead
  <2>4. CASE q # r
    <3>1. request'[q] = request[q]
      BY <1>1, <2>4 DEF Call, LockCredential, CountAddress, CountSubject, Commit, RollBack,
         Move, Leave, TypeOK
    <3> QED BY <2>1, <3>1
  <2> QED BY <2>2, <2>3, <2>4
<1>4. ASSUME NEW c \in Counters, c[3] > WindowStart(now)
      PROVE  attempts'[c] = 0
  <2>1. attempts[c] = 0
    BY <1>4 DEF NothingAhead
  <2>2. CASE Commit(r)
    <3>1. c \notin Held(r)
      <4>1. request[r].window <= WindowStart(now) /\ request[r].window \in Nat
        <5>1. ~At(r, {"idle"})
          BY <2>2, CommitCounts
        <5>2. request[r].window \in Times
          BY <1>1, <5>1, RequestFields DEF WindowStarts
        <5> QED BY <5>1, <5>2, Windows DEF NothingAhead
      <4>2. c[3] # request[r].window
        BY <1>2, <1>4, <4>1
      <4> QED BY <2>2, <4>2, CommitCounts
    <3> QED BY <2>1, <2>2, <3>1, CommitCounts
  <2>3. CASE ~Commit(r)
    BY <2>1, <2>3 DEF Call, LockCredential, CountAddress, CountSubject, RollBack
  <2> QED BY <2>2, <2>3
<1> QED BY <1>1, <1>3, <1>4 DEF NothingAhead

LEMMA CleanupKeepsSides ==
  ASSUME Inv, NothingAhead, SidesAgree, NEW c \in Counters, CleanupCounter(c)
  PROVE  NothingAhead' /\ SidesAgree'
<1>1. /\ TypeOK /\ now' = now /\ request' = request /\ WindowStart(now)' = WindowStart(now)
      /\ attempts' = [attempts EXCEPT ![c] = 0]
      /\ c[3] < WindowStart(now) /\ WindowStart(now) \in Nat
  BY Windows DEF Inv, CleanupCounter, TypeOK, WindowStart
<1>2. NothingAhead'
  BY <1>1 DEF NothingAhead, At, TypeOK
<1>3. ASSUME NEW p \in Paths, NEW x \in Addresses \cup Subjects
      PROVE  attempts'[Current(p, x)] = attempts[Current(p, x)]
  <2>1. Current(p, x) # c
    <3>1. Current(p, x)[3] = WindowStart(now) /\ ~(WindowStart(now) < WindowStart(now))
      BY <1>1 DEF Current
    <3> QED BY <1>1, <3>1
  <2> QED BY <1>1, <2>1, CurrentTyped DEF TypeOK
<1> QED BY <1>1, <1>2, <1>3, SidesStay

\* A new window begins with nothing counted on either side.
LEMMA TickKeepsSides ==
  ASSUME Inv, NothingAhead, SidesAgree, Tick
  PROVE  NothingAhead' /\ SidesAgree'
<1>1. /\ TypeOK /\ now' = now + 1 /\ now \in Times /\ now + 1 \in Times
      /\ attempts' = attempts /\ request' = request
  BY Numbers DEF Inv, Tick, TypeOK, Times
<1>2. /\ WindowStart(now) \in Nat /\ WindowStart(now)' \in Nat
      /\ WindowStart(now) <= WindowStart(now)' /\ WindowStart(now)' \in WindowStarts
  <2>1. WindowStart(now)' = WindowStart(now + 1)
    BY <1>1 DEF WindowStart
  <2> QED BY <1>1, <2>1, Windows, WindowsFollow
<1>3. NothingAhead'
  <2>1. ASSUME NEW q \in Requests, ~At(q, {"idle"})
        PROVE  request[q].window <= WindowStart(now)'
    <3>1. request[q].window \in Times
      BY <1>1, <2>1, RequestFields DEF WindowStarts
    <3>2. request[q].window <= WindowStart(now) /\ request[q].window \in Nat
      BY <2>1, <3>1, Windows DEF NothingAhead
    <3> QED BY <1>2, <3>2
  <2>2. ASSUME NEW c \in Counters, c[3] > WindowStart(now)'
        PROVE  attempts[c] = 0
    <3>1. c[3] \in Times
      BY DEF Counters, WindowStarts
    <3>2. c[3] \in Nat
      BY <3>1, Windows
    <3> QED BY <1>2, <2>2, <3>2 DEF NothingAhead
  <2> QED BY <1>1, <2>1, <2>2 DEF NothingAhead, At
<1>4. CASE WindowStart(now)' = WindowStart(now)
  <2>1. ASSUME NEW S, NEW p, NEW limit
        PROVE  AttemptsOf(S, p, limit)' = AttemptsOf(S, p, limit)
    BY <1>1, <1>4 DEF AttemptsOf
  <2>2. ASSUME NEW p \in Paths
        PROVE  /\ AttemptsOf(Subjects, p, MaxCalls)' = AttemptsOf(Subjects, p, MaxCalls)
               /\ AttemptsOf(Addresses, p, AddressLimit)' = AttemptsOf(Addresses, p, AddressLimit)
    BY <2>1
  <2> QED BY <1>3, <2>2 DEF SidesAgree
<1>5. CASE WindowStart(now)' # WindowStart(now)
  <2>1. ASSUME NEW S \in SUBSET (Addresses \cup Subjects), NEW p \in Paths, NEW limit
        PROVE  AttemptsOf(S, p, limit)' = {}
    <3> SUFFICES ASSUME NEW t \in S \X (1..limit)
                 PROVE  ~(t[2] <= attempts[<<p, t[1], WindowStart(now)'>>])
      BY <1>1 DEF AttemptsOf
    <3> DEFINE c == <<p, t[1], WindowStart(now)'>>
    <3>1. c \in Counters /\ c[3] = WindowStart(now)'
      BY <1>2 DEF Counters
    <3> HIDE DEF c
    <3>2. attempts[c] = 0
      BY <1>2, <1>5, <3>1 DEF NothingAhead
    <3>3. ~(t[2] <= 0)
      OBVIOUS
    <3> QED BY <3>2, <3>3 DEF c
  <2>2. ASSUME NEW p \in Paths
        PROVE  /\ AttemptsOf(Subjects, p, MaxCalls)' = {}
               /\ AttemptsOf(Addresses, p, AddressLimit)' = {}
    BY <2>1
  <2> QED BY <1>3, <2>2, FS_EmptySet DEF SidesAgree
<1> QED BY <1>3, <1>4, <1>5

LEMMA AgreementIsInductive ==
  Inv /\ NothingAhead /\ SidesAgree /\ [Next]_vars => NothingAhead' /\ SidesAgree'
<1> SUFFICES ASSUME Inv, NothingAhead, SidesAgree, [Next]_vars
             PROVE  NothingAhead' /\ SidesAgree'
  OBVIOUS
<1>1. ASSUME UNCHANGED <<now, attempts>> PROVE SidesAgree'
  BY <1>1, SidesStay
<1>2. ASSUME NEW r \in Requests,
             Call(r) \/ LockCredential(r) \/ CountAddress(r) \/ CountSubject(r)
               \/ Commit(r) \/ RollBack(r)
      PROVE  NothingAhead' /\ SidesAgree'
  <2>1. NothingAhead'
    BY <1>2, StepKeepsAhead
  <2>2. CASE Commit(r)
    BY <2>1, <2>2, CommitKeepsSides
  <2>3. CASE ~Commit(r)
    <3>1. UNCHANGED <<now, attempts>>
      BY <1>2, <2>3 DEF Call, LockCredential, CountAddress, CountSubject, RollBack
    <3> QED BY <1>1, <2>1, <3>1
  <2> QED BY <2>2, <2>3
<1>3. ASSUME NEW c \in Counters, CleanupCounter(c) PROVE NothingAhead' /\ SidesAgree'
  BY <1>3, CleanupKeepsSides
<1>4. ASSUME UNCHANGED <<now, attempts, request>> PROVE NothingAhead' /\ SidesAgree'
  <2>1. NothingAhead'
    BY <1>4 DEF NothingAhead, At, WindowStart
  <2> QED BY <1>1, <1>4, <2>1
<1>5. ASSUME NEW a \in Answers, CleanupRecord(a) PROVE NothingAhead' /\ SidesAgree'
  BY <1>4, <1>5 DEF CleanupRecord
<1>6. CASE Tick
  BY <1>6, TickKeepsSides
<1>7. CASE UNCHANGED vars
  BY <1>4, <1>7 DEF vars
<1> QED BY <1>2, <1>3, <1>5, <1>6, <1>7 DEF Next

LEMMA InitAgrees == Init => NothingAhead /\ SidesAgree
<1> SUFFICES ASSUME Init PROVE NothingAhead /\ SidesAgree
  OBVIOUS
<1>1. TypeOK /\ attempts = [c \in Counters |-> 0]
  BY InitInv DEF Init, Inv
<1>2. NothingAhead
  <2>1. \A r \in Requests : At(r, {"idle"})
    BY DEF Init, At, Idle
  <2> QED BY <1>1, <2>1 DEF NothingAhead
<1>3. ASSUME NEW S \in SUBSET (Addresses \cup Subjects), NEW p \in Paths, NEW limit
      PROVE  AttemptsOf(S, p, limit) = {}
  <2> SUFFICES ASSUME NEW t \in S \X (1..limit)
               PROVE  ~(t[2] <= attempts[<<p, t[1], WindowStart(now)>>])
    BY DEF AttemptsOf
  <2>1. Current(p, t[1]) \in Counters
    BY <1>1, CurrentTyped
  <2>2. attempts[<<p, t[1], WindowStart(now)>>] = 0
    BY <1>1, <2>1 DEF Current
  <2>3. ~(t[2] <= 0)
    OBVIOUS
  <2> QED BY <2>2, <2>3
<1>4. ASSUME NEW p \in Paths
      PROVE  AttemptsOf(Subjects, p, MaxCalls) = {} /\ AttemptsOf(Addresses, p, AddressLimit) = {}
  BY <1>3
<1> QED BY <1>2, <1>4, FS_EmptySet DEF SidesAgree

\* Nobody gets in too often, and an address over its limit uses up no attempts of a
\* subject (AttemptsAreLimited): consumeRateLimits counts an attempt against a
\* subject exactly if it counts within the limit of the address, in one
\* transaction, and no window is cleaned up or filled before its time.
THEOREM AttemptsAreLimitedHolds == Spec => []AttemptsAreLimited
<1>1. Spec => [](NothingAhead /\ SidesAgree)
  BY InitAgrees, InvHolds, AgreementIsInductive, PTL DEF Spec
<1>2. SidesAgree => CountsAgree
  BY DEF SidesAgree, CountsAgree
<1> QED BY <1>1, <1>2, AdmittedWithinLimitsHolds, PTL DEF AttemptsAreLimited
=============================================================================
