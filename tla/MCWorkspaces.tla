---------------------------- MODULE MCWorkspaces ----------------------------
(* Three proposals over two paths, and the pure parts on bounded inputs. *)
EXTENDS Workspaces, ContextSelection

Section(path, old, new) ==
  <<[kind |-> "git", old |-> path, new |-> path], [kind |-> "from", path |-> old],
    [kind |-> "to", path |-> new], [kind |-> "hunk"], [kind |-> "text"]>>

Edit(path) == Section(path, path, path)

\* Headers in front of the first section are not read: git changes "b", the patch declares "a".
Hidden == SubSeq(Edit("b"), 2, 5) \o Edit("a")

\* The headers name another path than the section.
Crossed == Section("a", "b", "b")

MCProposals == {Edit("a"), Edit("b"), Hidden, Crossed}

MCTouches == [p \in MCProposals |-> CASE p = Edit("a") -> {"a"} [] p = Edit("b") -> {"b"}
                                      [] p = Hidden -> {"a", "b"} [] p = Crossed -> {"b"}]

Sequences(S, n) == UNION {[1..k -> S] : k \in 0..n}

\* validate_patch accepts exactly the sound patches.
ASSUME ScanIsExact ==
  \A patch \in Sequences(Lines, 4) : ValidatePatch(patch).ok <=> PatchSound(patch)

\* The same where one path is of a control or sensitive name.
Guarded == INSTANCE PatchPolicy WITH Refused <- {"a"}

ASSUME GuardedScanIsExact ==
  \A patch \in Sequences(Guarded!Lines, 4) :
    Guarded!ValidatePatch(patch).ok <=> Guarded!PatchSound(patch)

\* The context of a run keeps its limits and its order.
ASSUME SelectionHolds ==
  \A files \in Sequences(FileRecords({0, 1, 2, 5, 7}, {0, 2}), 2) :
    ContextFits(files) /\ BestFilesChosen(files)

\* A Python repository: the diff check and pytest.
MCNumCommands == Len(VerificationCommands(<<>>, {"pyproject", "tests"}))

ASSUME CommandsHold ==
  \A configured \in Sequences({DiffCheck, "make test"}, 2),
     present \in SUBSET {"uv.lock", "pyproject", "tests", "tox.ini", "Cargo.toml", "CMake", "build"} :
    CommandsInOrder(configured, present)
=============================================================================
