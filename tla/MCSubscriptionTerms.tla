------------------------ MODULE MCSubscriptionTerms ------------------------
(***************************************************************************)
(* Symmetry for TLC: no operator tells the workers apart.                   *)
(***************************************************************************)
EXTENDS SubscriptionTerms, TLC

Interchangeable == Permutations(Workers)
=============================================================================
