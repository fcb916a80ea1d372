---------------------------- MODULE MCPatchLedger ----------------------------
(* A worktree with four contents and patches with and without repeated context. *)
EXTENDS PatchLedger

MCContents == 0..3
MCRejected == -1

\* "add" and "fix" replace a line; "log" inserts one beside context that stays, so that
\* it applies again to its own result; "bad" is refused before git sees it.
PatchesOnce == {"empty", "add", "fix", "bad"}
PatchesAgain == {"empty", "log"}

ForwardOf(p, c) ==
  CASE p = "empty" -> c
    [] p = "add" /\ c \in {0, 2} -> c + 1
    [] p = "fix" /\ c \in {0, 1} -> c + 2
    [] p = "log" /\ c < 3 -> c + 1
    [] OTHER -> MCRejected

ForwardOnce == [p \in PatchesOnce |-> [c \in MCContents |-> ForwardOf(p, c)]]
ForwardAgain == [p \in PatchesAgain |-> [c \in MCContents |-> ForwardOf(p, c)]]

ASSUME NoRematchHere ==
  \A p \in PatchesOnce \ {"empty"}, c \in MCContents :
    ForwardOnce[p][c] # MCRejected =>
      ForwardOnce[p][ForwardOnce[p][c]] = MCRejected
=============================================================================
