---------------------------- MODULE MCAdmission ----------------------------
(***************************************************************************)
(* Symmetry for TLC: no property tells these apart.                        *)
(***************************************************************************)
EXTENDS Admission, TLC

Interchangeable ==
  Permutations(Requests) \cup Permutations(Addresses)
    \cup Permutations(IdempotencyKeys)
=============================================================================
