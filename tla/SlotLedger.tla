----------------------------- MODULE SlotLedger -----------------------------
(***************************************************************************)
(* What one license promises its owner about activation slots, with no     *)
(* transactions, locks, retries or tokens: at most MaximumActivations Macs *)
(* hold a slot, a slot is taken or given back in one step, and every       *)
(* entitlement signed for a Mac carries the next number of that Mac, while *)
(* the license may be signed for at all: a perpetual one while it is       *)
(* active, a monthly one until it is revoked.  Activations implements it.  *)
(***************************************************************************)
EXTENDS Integers, FiniteSets

CONSTANTS Installations, MaximumActivations

VARIABLES
  holders,   \* the installations that hold a slot
  signed,    \* per installation, the number of its newest entitlement
  standing   \* whether the license may be signed for at all

ledgerVars == <<holders, signed, standing>>

Init ==
  /\ holders = {}
  /\ signed = [i \in Installations |-> 0]
  /\ standing = TRUE

\* Activate or re-activate installation i, and sign its next entitlement.
Grant(i) ==
  /\ standing
  /\ Cardinality(holders \cup {i}) <= MaximumActivations
  /\ holders' = holders \cup {i}
  /\ signed' = [signed EXCEPT ![i] = @ + 1]
  /\ UNCHANGED standing

\* Sign the next entitlement of an installation that holds a slot.
Renew(i) ==
  /\ standing
  /\ i \in holders
  /\ signed' = [signed EXCEPT ![i] = @ + 1]
  /\ UNCHANGED <<holders, standing>>

\* Give the slot of installation i back; its numbering is kept.
Release(i) ==
  /\ holders' = holders \ {i}
  /\ UNCHANGED <<signed, standing>>

\* A revocation; of a perpetual license also a refund, a dispute or its reversal.
Judge ==
  /\ standing' = ~standing
  /\ UNCHANGED <<holders, signed>>

Next ==
  \/ \E i \in Installations : Grant(i) \/ Renew(i) \/ Release(i)
  \/ Judge

Spec == Init /\ [][Next]_ledgerVars
=============================================================================
