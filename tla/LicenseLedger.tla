--------------------------- MODULE LicenseLedger ---------------------------
(***************************************************************************)
(* What refunds and disputes may do to the license of one purchase, with   *)
(* no events, handlers, revisions or dates: a claim is recorded, and later *)
(* settled together with what it means for the license, in one step; while *)
(* one is settled that blocks, the license is not active; and no claim     *)
(* restricts a license that the customer goes on paying for.  OrderBilling *)
(* and SubscriptionTerms implement it, each for its own part of the code.  *)
(***************************************************************************)
CONSTANTS
  Refunds,   \* claims that block for good
  Disputes   \* claims that may be resolved

VARIABLES
  license,    \* the state of the license, "none" before it is issued
  blocking,   \* the claims recorded as blocking
  settled,    \* those of them the license has been judged by
  collecting  \* whether Stripe bills the customer

licenseVars == <<license, blocking, settled, collecting>>

Init ==
  /\ license = "none"
  /\ blocking = {} /\ settled = {}
  /\ collecting \in BOOLEAN

\* Nobody gets a license while a claim blocks, nor a second one.
Issue ==
  /\ license = "none" /\ blocking = {}
  /\ license' = "active"
  /\ UNCHANGED <<blocking, settled, collecting>>

\* Claim c blocks, or is resolved.
Weigh(c) ==
  \/ c \in Refunds \cup Disputes /\ blocking' = blocking \cup {c}
  \/ c \in Disputes /\ blocking' = blocking \ {c}

\* It is recorded, and has yet to be settled.
Record(c) ==
  /\ Weigh(c)
  /\ settled' = settled \ {c}
  /\ UNCHANGED <<license, collecting>>

Settle(c) ==
  /\ Weigh(c)
  /\ settled' = IF c \in blocking' THEN settled \cup {c} ELSE settled \ {c}
  /\ UNCHANGED collecting

\* It is settled while some claim blocks, once nobody bills for the license any more.
Restrict(c) ==
  /\ Settle(c)
  /\ blocking' # {} /\ ~collecting
  /\ \/ license \in {"none", "revoked"} /\ UNCHANGED license
     \/ /\ license \notin {"none", "revoked"}
        /\ license' = IF blocking' \cap Refunds # {} THEN "refunded" ELSE "charged_back"

\* The last dispute is resolved.  What it took away may be given back.
Lift(c) ==
  /\ Settle(c)
  /\ blocking' = {}
  /\ \/ UNCHANGED license
     \/ license \in {"none", "charged_back"} /\ license' = "active"

\* Stripe bills no more, for whatever reason, and never again.
Stop ==
  /\ collecting' = FALSE
  /\ UNCHANGED <<license, blocking, settled>>

\* An operator takes the license away, and nothing gives it back.
Revoke ==
  /\ license # "none"
  /\ license' = "revoked"
  /\ UNCHANGED <<blocking, settled, collecting>>

Next ==
  \/ Issue \/ Stop \/ Revoke
  \/ \E c \in Refunds \cup Disputes : Record(c) \/ Restrict(c) \/ Lift(c)

Spec == Init /\ [][Next]_licenseVars
=============================================================================
