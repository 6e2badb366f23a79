--------------------------- MODULE MCLicenseAccess ---------------------------
(***************************************************************************)
(* Symmetry for TLC.  Clients and idempotency keys are interchangeable:     *)
(* no operator tells them apart and the properties quantify over all of    *)
(* them.                                                                    *)
(***************************************************************************)
EXTENDS LicenseAccess, TLC

Interchangeable == Permutations(Clients) \cup Permutations(IdempotencyKeys)
=============================================================================
