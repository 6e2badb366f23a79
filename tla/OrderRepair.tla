----------------------------- MODULE OrderRepair -----------------------------
(***************************************************************************)
(* What the background workers promise (main.go): when webhooks are no     *)
(* longer redelivered and calls no longer fail, the repair worker finishes *)
(* every pending adjustment, and the daily scan of paid Sessions finds the *)
(* purchases that were never fulfilled.  `calm` marks the end of           *)
(* deliveries and failures; it is a hypothesis about the world, not state  *)
(* of the program.                                                         *)
(***************************************************************************)
EXTENDS OrderBilling

VARIABLE calm

repairVars == <<vars, calm>>

RepairInit == Init /\ calm = FALSE

BecomeCalm == ~calm /\ calm' = TRUE /\ UNCHANGED vars

Disturbance ==
  /\ ~calm
  /\ \/ \E w \in Workers : Fail(w)
     \/ \E w \in Handlers, e \in Events : Deliver(w, e)
     \/ \E w \in Reconcilers : Reconcile(w)
     \/ NextDay

RepairNext ==
  \/ BecomeCalm
  \/ UNCHANGED calm /\ (Disturbance \/ Environment \/ Repair \/ \E w \in Workers : Work(w))

\* The worker's timer fires again and again, and a handler that began takes
\* its next step: statements and Stripe calls return.
RepairSpec ==
  /\ RepairInit /\ [][RepairNext]_repairVars
  /\ WF_repairVars(Repair /\ UNCHANGED calm)
  /\ \A w \in Workers : WF_repairVars(Work(w) /\ UNCHANGED calm)

\* The scan starts over every day, and may be interrupted only before the calm.
ScanNext ==
  \/ RepairNext
  \/ UNCHANGED calm /\ (NextDay \/ \E w \in Reconcilers : Reconcile(w))

ScanSpec ==
  /\ RepairInit /\ [][ScanNext]_repairVars
  /\ WF_repairVars(Repair /\ UNCHANGED calm)
  /\ WF_repairVars(NextDay /\ UNCHANGED calm)
  /\ \A w \in Reconcilers : WF_repairVars(Reconcile(w) /\ UNCHANGED calm)
  /\ \A w \in Workers : WF_repairVars(Work(w) /\ UNCHANGED calm)

-----------------------------------------------------------------------------
\* Once deliveries and failures end, pending adjustments end too and stay
\* ended: no pair of adjustments, intents or lost cancellation responses keeps
\* the worker busy for ever, or stuck on the oldest one.
AdjustmentsFinish ==
  calm ~> [](\A o \in Objects : ~adjustment[o].pending /\ ~adjustment[o].cancelRequired)

\* A paid perpetual purchase whose webhooks were all lost, or failed half-way,
\* still gets its license from the daily scan, unless it was refunded or
\* disputed (Reconciler.Run; Docs/Billing.md on missed webhooks).
PaidIsServed ==
  calm /\ checkout = "paid" ~> license # "none" \/ Blocked \/ Refunded
=============================================================================
