------------------------------- MODULE ApplyOnce -------------------------------
(***************************************************************************)
(* What RepositoryWorkspace.apply_patch promises its callers: operations   *)
(* take effect in order, each at most once, and a refused operation leaves *)
(* no trace.  An operation may find its patch already there and keep it.   *)
(* The one admitted failure is reported: a rollback that did not restore   *)
(* the worktree.                                                           *)
(***************************************************************************)
EXTENDS Naturals

CONSTANTS Contents,    \* worktree contents
          Patches,
          Rejected,    \* what git answers for a patch that does not apply
          Forward,     \* Forward[p][c]: git apply of p on c, or Rejected
          NumOps       \* operations of the run

Ops == 1..NumOps

VARIABLES content, outcome, patchOf

vars == <<content, outcome, patchOf>>

Outcomes == {"pending", "applied", "refused", "broken"}

TypeOK ==
  /\ content \in Contents
  /\ outcome \in [Ops -> Outcomes]
  /\ patchOf \in [Ops -> Patches]

Init ==
  /\ content \in Contents
  /\ outcome = [op \in Ops |-> "pending"]
  /\ patchOf \in [Ops -> Patches]

\* Operations are taken up in order.
Due(op) == outcome[op] = "pending" /\ \A earlier \in 1..(op - 1) : outcome[earlier] # "pending"

Present(p) == \E c \in Contents : Forward[p][c] = content

\* The effect of the patch and the end of the operation are one step.
Take(op) ==
  /\ Due(op)
  /\ content' \in Contents
  /\ \/ Forward[patchOf[op]][content] = content'
     \/ Present(patchOf[op]) /\ content' = content
  /\ outcome' = [outcome EXCEPT ![op] = "applied"]
  /\ UNCHANGED patchOf

Refuse(op) ==
  /\ Due(op)
  /\ outcome' = [outcome EXCEPT ![op] = "refused"]
  /\ UNCHANGED <<content, patchOf>>

Break(op) ==
  /\ Due(op)
  /\ content' \in Contents
  /\ outcome' = [outcome EXCEPT ![op] = "broken"]
  /\ UNCHANGED patchOf

Next == \E op \in Ops : Take(op) \/ Refuse(op) \/ Break(op)

Spec == Init /\ [][Next]_vars
=============================================================================
