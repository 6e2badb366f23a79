----------------------------- MODULE Admission -----------------------------
(***************************************************************************)
(* Who is let in, and how often (internal/activation/service.go,           *)
(* recovery_request.go, retention.go).  A request is counted against its   *)
(* address and, if that is within its limit, against its subject: the      *)
(* license key of an activation or a management session, the email of a    *)
(* recovery request.  Counters are rows of fixed windows, which the clock, *)
(* the cleanup worker and rolled back transactions do not wait for.        *)
(*                                                                         *)
(* An activation or management session commits its counts before it goes   *)
(* on (modules Activations and LicenseAccess).  A recovery request does    *)
(* everything in one transaction: under an advisory lock on the email it   *)
(* looks for a stored answer again, counts, adds a job for the worker      *)
(* (module EmailDelivery) unless it is over a limit, and stores its answer. *)
(*                                                                         *)
(* An increment locks its row until the transaction ends, and nobody else  *)
(* reads the counters: what a transaction has counted is added to them     *)
(* when it commits.                                                        *)
(***************************************************************************)
EXTENDS Integers, FiniteSets, Sequences

CONSTANTS
  Requests,
  Addresses,       \* client IPs
  LicenseKeys,     \* what an activation or a management session is about
  Emails,          \* what a recovery request is about
  IdempotencyKeys, \* of recovery requests
  AddressLimit,    \* ipAttemptLimit, recoveryIPAttemptLimit
  SubjectLimit,    \* licenseKeyAttemptLimit, recoveryEmailAttemptLimit
  RateLimitWindow,
  ReplayLifetime,  \* idempotencyLifetime
  MaxTime,         \* bound on the clock
  MaxCalls,        \* bound on the requests
  None             \* no stored answer, no idempotency key

Subjects == LicenseKeys \cup Emails

ASSUME LimitsAssumption == {AddressLimit, SubjectLimit, MaxTime, MaxCalls} \subseteq Nat
ASSUME DurationsAssumption == {RateLimitWindow, ReplayLifetime} \subseteq Nat \ {0}
ASSUME NamesAssumption ==
  /\ LicenseKeys \cap Emails = {}
  /\ Addresses \cap Subjects = {}
  /\ None \notin Nat \cup IdempotencyKeys

VARIABLES
  now,         \* the clock
  attempts,    \* activation_rate_limits, 0 if there is no row
  records,     \* idempotency_records: when each answer was stored
  jobs,        \* history: the recovery requests given to the worker
  request,     \* what each request has asked for and how far it is
  calls,       \* how many there have been
  admissions   \* history: how many got in while their window was the current one

vars == <<now, attempts, records, jobs, request, calls, admissions>>

-----------------------------------------------------------------------------
Times == 0..MaxTime
Paths == {"credential", "recovery"}
Path(s) == IF s \in Emails THEN "recovery" ELSE "credential"
WindowStarts == {t \in Times : t % RateLimitWindow = 0}

\* The kinds of the code: each path counts the addresses for itself.
Counters == Paths \X (Addresses \cup Subjects) \X WindowStarts
Answers == Emails \X IdempotencyKeys

\* The stages a request goes through, up to its commit.
Idle == [stage |-> "idle"]
Request ==
  [stage : {"called", "locked", "address counted", "subject counted"},
   at : Times, window : WindowStarts, address : Addresses, subject : Subjects,
   key : IdempotencyKeys \cup {None}]

TypeOK ==
  /\ now \in Times
  /\ attempts \in [Counters -> 0..MaxCalls]
  /\ records \in [Answers -> Times \cup {None}]
  /\ jobs \in [Answers -> Seq(Times)]
  /\ request \in [Requests -> Request \cup {Idle}]
  /\ calls \in 0..MaxCalls
  /\ admissions \in [Counters -> 0..MaxCalls]

Init ==
  /\ now = 0
  /\ attempts = [c \in Counters |-> 0]
  /\ records = [a \in Answers |-> None]
  /\ jobs = [a \in Answers |-> <<>>]
  /\ request = [r \in Requests |-> Idle]
  /\ calls = 0
  /\ admissions = [c \in Counters |-> 0]

-----------------------------------------------------------------------------
\* Variant: to the nearest window, as time.Round would.
WindowRounded(t) ==
  LET near == t + (RateLimitWindow \div 2) IN near - (near % RateLimitWindow)
\* now.Truncate(rateLimitWindow)
WindowStart(t) == t - (t % RateLimitWindow)

AddressCounter(r) ==
  <<Path(request[r].subject), request[r].address, request[r].window>>
SubjectCounter(r) ==
  <<Path(request[r].subject), request[r].subject, request[r].window>>
Answer(r) == <<request[r].subject, request[r].key>>

\* The counters a transaction has incremented, and holds the locks of.
Held(r) ==
  (IF request[r].stage \in {"address counted", "subject counted"}
   THEN {AddressCounter(r)} ELSE {})
  \cup (IF request[r].stage = "subject counted" THEN {SubjectCounter(r)} ELSE {})

\* Variant: the counter is read before it is written.
ReadFirst(c, r) == TRUE
\* The upsert waits for the transactions that have written the row.
Free(c, r) == \A q \in Requests \ {r} : c \notin Held(q)

\* loadIdempotency at time t
Replayed(a, t) == records[a] # None /\ records[a] + ReplayLifetime > t

At(r, stages) == request[r].stage \in stages
Move(r, stage) == request' = [request EXCEPT ![r].stage = stage]
Leave(r) == request' = [request EXCEPT ![r] = Idle]

-----------------------------------------------------------------------------
(* Requests *)

\* A recovery request that finds its answer stored ends here.  An activation looks
\* for one too, but never gets here with it (module Activations).
Call(r) ==
  /\ At(r, {"idle"})
  /\ calls < MaxCalls
  /\ \E a \in Addresses, s \in Subjects, k \in IdempotencyKeys \cup {None} :
       /\ k = None <=> s \in LicenseKeys
       /\ s \in Emails => ~Replayed(<<s, k>>, now)
       /\ request' = [request EXCEPT ![r] =
            [stage |-> "called", at |-> now, window |-> WindowStart(now),
             address |-> a, subject |-> s, key |-> k]]
  /\ calls' = calls + 1
  /\ UNCHANGED <<now, attempts, records, jobs, admissions>>

HoldsCredential(r) ==
  At(r, {"locked", "address counted", "subject counted"}) /\ request[r].subject \in Emails

\* Variant: the answer is not looked for again.
LockUnchecked(r) ==
  /\ At(r, {"called"})
  /\ request[r].subject \in Emails
  /\ \A q \in Requests : HoldsCredential(q) => request[q].subject # request[r].subject
  /\ Move(r, "locked")
  /\ UNCHANGED <<now, attempts, records, jobs, calls, admissions>>
\* lockRecoveryCredential waits; then the answer is looked for a second time.
LockCredential(r) ==
  /\ At(r, {"called"})
  /\ request[r].subject \in Emails
  /\ \A q \in Requests : HoldsCredential(q) => request[q].subject # request[r].subject
  /\ IF Replayed(Answer(r), request[r].at) THEN Leave(r) ELSE Move(r, "locked")
  /\ UNCHANGED <<now, attempts, records, jobs, calls, admissions>>

CountAddress(r) ==
  /\ \/ At(r, {"called"}) /\ request[r].subject \in LicenseKeys
     \/ At(r, {"locked"})
  /\ Free(AddressCounter(r), r)
  /\ Move(r, "address counted")
  /\ UNCHANGED <<now, attempts, records, jobs, calls, admissions>>

\* Variant: an address over its limit uses up the subject's attempts.
AlwaysWithin(r) == TRUE
\* RETURNING attempts: what is committed, and this one.
AddressWithin(r) == attempts[AddressCounter(r)] + 1 <= AddressLimit
SubjectWithin(r) == attempts[SubjectCounter(r)] + 1 <= SubjectLimit

CountSubject(r) ==
  /\ At(r, {"address counted"})
  /\ AddressWithin(r)
  /\ Free(SubjectCounter(r), r)
  /\ Move(r, "subject counted")
  /\ UNCHANGED <<now, attempts, records, jobs, calls, admissions>>

Limited(r) ==
  \/ At(r, {"address counted"}) /\ ~AddressWithin(r)
  \/ At(r, {"subject counted"}) /\ ~SubjectWithin(r)
Admitted(r) == At(r, {"subject counted"}) /\ SubjectWithin(r)

Increment(counts, S) == [c \in Counters |-> counts[c] + IF c \in S THEN 1 ELSE 0]

\* A recovery request is answered, and its answer stored, in the same way whether
\* it gets a job or not; the others go on or are told to come back.
Commit(r) ==
  /\ Limited(r) \/ Admitted(r)
  /\ attempts' = Increment(attempts, Held(r))
  /\ admissions' = IF Admitted(r) /\ request[r].window = WindowStart(now)
                   THEN Increment(admissions, Held(r)) ELSE admissions
  /\ IF request[r].subject \in Emails
     THEN /\ records' = [records EXCEPT ![Answer(r)] = request[r].at]
          /\ jobs' = IF Admitted(r)
                     THEN [jobs EXCEPT ![Answer(r)] = Append(@, request[r].at)]
                     ELSE jobs
     ELSE UNCHANGED <<records, jobs>>
  /\ Leave(r)
  /\ UNCHANGED <<now, calls>>

\* A statement fails or times out, or the process stops; nothing was counted.
RollBack(r) ==
  /\ ~At(r, {"idle"})
  /\ Leave(r)
  /\ UNCHANGED <<now, attempts, records, jobs, calls, admissions>>

-----------------------------------------------------------------------------
(* cleanupExpired *)

\* Any batch of the rows of past windows; locked rows are skipped.
CleanupCounter(c) ==
  /\ attempts[c] > 0
  /\ c[3] < WindowStart(now)
  /\ \A r \in Requests : c \notin Held(r)
  /\ attempts' = [attempts EXCEPT ![c] = 0]
  /\ UNCHANGED <<now, records, jobs, request, calls, admissions>>

CleanupRecord(a) ==
  /\ records[a] # None
  /\ records[a] + ReplayLifetime <= now
  /\ records' = [records EXCEPT ![a] = None]
  /\ UNCHANGED <<now, attempts, jobs, request, calls, admissions>>

\* A request is over within the unit of time after the one it began in.
Tick ==
  /\ now < MaxTime
  /\ \A r \in Requests : ~At(r, {"idle"}) => request[r].at = now
  /\ now' = now + 1
  /\ UNCHANGED <<attempts, records, jobs, request, calls, admissions>>

-----------------------------------------------------------------------------
Next ==
  \/ \E r \in Requests :
       Call(r) \/ LockCredential(r) \/ CountAddress(r) \/ CountSubject(r)
       \/ Commit(r) \/ RollBack(r)
  \/ \E c \in Counters : CleanupCounter(c)
  \/ \E a \in Answers : CleanupRecord(a)
  \/ Tick

Spec == Init /\ [][Next]_vars

-----------------------------------------------------------------------------
(* Properties *)

\* The attempts of the members of S in the current window, no more than `limit` of
\* each: the n-th of x is <<x, n>>.
AttemptsOf(S, p, limit) ==
  {t \in S \X (1..limit) : t[2] <= attempts[<<p, t[1], WindowStart(now)>>]}

\* However requests overlap, fail or straddle the end of a window, no address and
\* no subject gets in more often than its limit allows while a window lasts; and an
\* address over its limit cannot use up the attempts of a subject: the attempts
\* counted against subjects are those counted against addresses within the limit,
\* with none lost and none counted on one side only (MaxCalls bounds them all).
AdmittedWithinLimits ==
  \A c \in Counters :
    admissions[c] <= IF c[2] \in Addresses THEN AddressLimit ELSE SubjectLimit
CountsAgree ==
  \A p \in Paths :
    Cardinality(AttemptsOf(Subjects, p, MaxCalls))
      = Cardinality(AttemptsOf(Addresses, p, AddressLimit))
AttemptsAreLimited == AdmittedWithinLimits /\ CountsAgree

\* A recovery request and its retries lead to one job for as long as the answer of
\* the first can be replayed, in whatever order they arrive and wait for each other.
OneJobPerKey ==
  [][\A a \in Answers :
       (jobs'[a] # jobs[a] /\ jobs[a] # <<>>)
         => now >= jobs[a][Len(jobs[a])] + ReplayLifetime]_vars
=============================================================================
