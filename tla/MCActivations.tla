--------------------------- MODULE MCActivations ---------------------------
(***************************************************************************)
(* Small instances of Activations for TLC.                                 *)
(***************************************************************************)
EXTENDS Activations, TLC

\* Requests, installations and idempotency keys are interchangeable: nothing
\* in the specification orders them or names one.
SafetySymmetry ==
  Permutations(Requests) \cup Permutations(Installations)
    \cup Permutations(Keys) \cup Permutations(IdempotencyKeys)
=============================================================================
