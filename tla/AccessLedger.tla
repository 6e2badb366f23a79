---------------------------- MODULE AccessLedger ----------------------------
(***************************************************************************)
(* What the owner of a license may rely on when a key is lost or leaked,   *)
(* with no transactions, locks or retries: the key changes in one step and *)
(* not again before Cooldown has passed, and a recovery link opens one     *)
(* management session, while the license stands.  LicenseAccess            *)
(* implements it.                                                          *)
(***************************************************************************)
EXTENDS Integers

CONSTANTS Links, Cooldown

VARIABLES
  key,        \* the number of the key in force
  rotatedAt,  \* when it came into force by a rotation
  opened,     \* the sessions opened so far, each with its link
  standing    \* whether the license may be recovered

accessVars == <<key, rotatedAt, opened, standing>>

Init ==
  /\ key = 1
  /\ rotatedAt = -Cooldown
  /\ opened = {}
  /\ standing = TRUE

Rotate ==
  /\ key' = key + 1
  /\ rotatedAt' >= rotatedAt + Cooldown
  /\ UNCHANGED <<opened, standing>>

Redeem(l) ==
  /\ standing
  /\ \A p \in opened : p[1] # l
  /\ \E s \in {p[2] : p \in opened'} : opened' = opened \cup {<<l, s>>}
  /\ UNCHANGED <<key, rotatedAt, standing>>

Judge ==
  /\ standing' = ~standing
  /\ UNCHANGED <<key, rotatedAt, opened>>

Next ==
  \/ Rotate
  \/ \E l \in Links : Redeem(l)
  \/ Judge

Spec == Init /\ [][Next]_accessVars
=============================================================================
