--------------------------- MODULE VerificationGate ---------------------------
(***************************************************************************)
(* What a run of the repository graph promises, without checkpoints, data, *)
(* budgets or crashes: work is delivered only after its application, its   *)
(* tests and its review have passed in that order, a rejection costs one   *)
(* of at most RepairLimit repairs, and a rejected run delivers nothing.    *)
(***************************************************************************)
EXTENDS Naturals

CONSTANT RepairLimit

VARIABLES stage,     \* where the candidate stands
          repairs    \* repairs spent

vars == <<stage, repairs>>

\* The stages whose verdict can be "fail" in front of the repair loop.
Gates == {"applying", "testing", "reviewing"}

Stages == Gates \cup {"proposing", "repairing", "approved", "delivered", "rejected"}

TypeOK == stage \in Stages /\ repairs \in 0..RepairLimit

Init == stage = "proposing" /\ repairs = 0

Propose == stage = "proposing" /\ stage' = "applying" /\ UNCHANGED repairs

\* A gate passes; approval needs all three in this order.
Accept ==
  /\ \/ stage = "applying" /\ stage' = "testing"
     \/ stage = "testing" /\ stage' = "reviewing"
     \/ stage = "reviewing" /\ stage' = "approved"
  /\ UNCHANGED repairs

\* A gate fails while a repair is left.
Reject ==
  /\ stage \in Gates /\ repairs < RepairLimit
  /\ stage' = "repairing" /\ UNCHANGED repairs

\* A repair is a new candidate, so every gate is passed again.
Repair ==
  /\ stage = "repairing"
  /\ stage' = "applying" /\ repairs' = repairs + 1

Deliver == stage = "approved" /\ stage' = "delivered" /\ UNCHANGED repairs

\* Repairs or a budget are exhausted, or no plan was accepted.
GiveUp ==
  /\ stage \in Stages \ {"delivered", "rejected"}
  /\ stage' = "rejected" /\ UNCHANGED repairs

Next == Propose \/ Accept \/ Reject \/ Repair \/ Deliver \/ GiveUp

Spec == Init /\ [][Next]_vars
=============================================================================
