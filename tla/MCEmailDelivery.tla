--------------------------- MODULE MCEmailDelivery ---------------------------
(***************************************************************************)
(* A small instance of EmailDelivery for TLC.  To keep it small the two    *)
(* outboxes are not both used: either two licenses are sold during the     *)
(* behavior and no recovery is requested, or all three were sold before    *)
(* it.  Only goodLicense is restricted, restored or rotated.               *)
(***************************************************************************)
EXTENDS EmailDelivery

CONSTANTS goodLicense, badLicense1, badLicense2, onlyJob

SmallLicenses == {goodLicense, badLicense1, badLicense2}
SmallJobs == {onlyJob}
\* The emails of two licenses can never be sent.  A retry comes RetryDelay - PassLimit
\* = PassLimit after the pass that failed: two such rows can keep one dispatcher busy
\* for as long as they live, as the recovery emails here do.
SmallBad == {badLicense1, badLicense2}
SmallUndeliverable == SmallBad \cup (SmallJobs \X SmallBad)

Sale == /\ \A l \in Licenses : keyState[l] = IF l = badLicense2 THEN "current" ELSE "unsold"
        /\ \A j \in Jobs : jobs[j].state = "gone"
Recovery == /\ \A l \in Licenses : keyState[l] = "current"
            /\ \A j \in Jobs : jobs[j].state = "none"
SmallInit == Init /\ (Sale \/ Recovery)

\* Whether the behavior began with Recovery.
SoldBefore == badLicense1 \in received
OnlyGoodChanges ==
  /\ \A l \in SmallBad : keyState[l] # "unsold" =>
                           keyState'[l] = keyState[l] /\ standing'[l] = standing[l]
  /\ SoldBefore => keyState' = keyState
SmallNext == Next /\ OnlyGoodChanges
SmallSpec == SmallInit /\ [][SmallNext]_vars /\ Fairness
=============================================================================
