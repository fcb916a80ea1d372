--------------------------- MODULE WorkspacesProofs ---------------------------
(***************************************************************************)
(* What Workspaces proves for any number of promoters, patches, commands,  *)
(* repairs, outside changes and kills.                                     *)
(*                                                                         *)
(* The argument has three parts.  Holders: a process holds the lease and   *)
(* workspace.lock exactly in the steps the code holds them in, so cleanup  *)
(* and the run exclude each other.  Retention: only an ended run has a     *)
(* manifest, and its worktree is not written again.  Boundary: while a     *)
(* promotion that was not disturbed is on its way, the run has ended, HEAD *)
(* is the base commit and the source is clean.                             *)
(***************************************************************************)
EXTENDS Workspaces, TLAPS

\* The types, and what they rest on: commits are counted by their makers, and the
\* worktree of a run that has just added it, or tests it, is there.
Typed ==
  /\ TypeOK /\ head <= outside
  /\ runner \in {"added", "starting", "testing", "terminating"} => tree \in Trees

Holders ==
  /\ lease = "runner" <=> runner # "idle"
  /\ lease = "cleaner" <=> cleaner # "idle"
  /\ lock = "runner" <=> runner \in {"starting", "testing", "terminating"}
  /\ lock = "cleaner" <=> cleaner = "locked"

Retention ==
  /\ runner # "idle" => row.status = "running"
  /\ row.manifest # "none" =>
       /\ row.status \in {"completed", "failed"}
       /\ tree # NoTree => tree.tracked \subseteq retained
  /\ runner = "exported" /\ tree # NoTree => tree.tracked \subseteq retained

Boundary ==
  /\ onto # "other"
  /\ \A p \in Promoters :
       promoter[p] # "idle" =>
         /\ row.status = "completed"
         /\ ~disturbed[p] => head = row.base
         /\ promoter[p] \in {"cleared", "locked"} /\ ~disturbed[p] =>
              edits = {} \/ ledger = "committed"

Induction == Typed /\ Holders /\ Retention /\ Boundary

\* A missing worktree is told from every worktree.
LEMMA NoTreeIsNoTree ==
  NoTree \notin Trees
BY WorkspaceAssumption DEF Trees, Commits

\* A verdict is a row again: repairs never exceed their bound.
LEMMA FailedIsRow ==
  ASSUME TypeOK
  PROVE  Failed \in Rows
<1>1. CASE row.repairs < MaxRepairs
  <2>1. row.repairs + 1 \in 0..MaxRepairs
    BY <1>1, WorkspaceAssumption DEF TypeOK, Rows
  <2> QED BY <1>1, <2>1 DEF TypeOK, Rows, Failed
<1>2. CASE ~(row.repairs < MaxRepairs)
  BY <1>2 DEF TypeOK, Rows, Failed
<1> QED BY <1>1, <1>2

\* A verdict moves the run on and leaves the rest of its row alone.
LEMMA FailedMovesOn ==
  ASSUME TypeOK
  PROVE  Failed.status = row.status /\ Failed.manifest = row.manifest
BY DEF TypeOK, Rows, Failed

\* A new worktree is a worktree.
LEMMA AddedIsTree ==
  ASSUME TypeOK
  PROVE  [at |-> head, tracked |-> {}, stray |-> FALSE] \in Trees
BY DEF TypeOK, Trees

\* A worktree in which something is written is a worktree.
LEMMA WrittenIsTree ==
  ASSUME tree \in Trees, NEW written \in SUBSET Paths, NEW stray \in BOOLEAN
  PROVE  [tree EXCEPT !.tracked = @ \cup written, !.stray = @ \/ stray] \in Trees
BY DEF Trees

\* So is one to which a patch was applied.
LEMMA AppliedIsTree ==
  ASSUME tree \in Trees, NEW paths \in SUBSET Paths
  PROVE  [tree EXCEPT !.tracked = @ \cup paths] \in Trees
BY DEF Trees

\* Every step keeps the types.
LEMMA TypedStep ==
  ASSUME Typed, Holders, [Next]_vars
  PROVE  Typed'
<1> USE WorkspaceAssumption DEF Typed, TypeOK, source, cleaning, promoting, bounds
<1>1. CASE Start
  <2>1. row' \in Rows
    BY <1>1 DEF Rows, Start, Enter
  <2> QED BY <1>1, <2>1 DEF Start, Enter
<1>2. CASE Resume
  <2>1. row' \in Rows
    BY <1>2 DEF Rows, Resume, Enter
  <2> QED BY <1>2, <2>1 DEF Resume, Enter
<1>3. CASE CheckSource
  BY <1>3 DEF CheckSource, At, Leave
<1>4. CASE AddWorktree
  <2>1. CASE tree # NoTree /\ tree.at # head
    BY <1>4, <2>1 DEF AddWorktree, Leave
  <2>2. CASE ~(tree # NoTree /\ tree.at # head)
    <3>1. tree' \in Trees
      BY <1>4, <2>2, AddedIsTree DEF AddWorktree
    <3> QED BY <1>4, <2>2, <3>1 DEF AddWorktree
  <2> QED BY <2>1, <2>2
<1>5. CASE CommitContext
  <2>1. row' \in Rows
    BY <1>5 DEF CommitContext, Rows, Trees
  <2> QED BY <1>5, <2>1 DEF CommitContext
<1>6. ASSUME NEW patch \in Proposals, ApplyPatch(patch) PROVE Typed'
  <2>1. tree' \in Trees
    <3>1. tree \in Trees /\ Touches[patch] \in SUBSET Paths
      BY <1>6 DEF ApplyPatch
    <3>2. tree' \in {tree, [tree EXCEPT !.tracked = @ \cup Touches[patch]]}
      BY <1>6 DEF ApplyPatch
    <3> QED BY <3>1, <3>2, AppliedIsTree, Zenon
  <2>2. row' \in Rows
    BY <1>6, FailedIsRow DEF ApplyPatch, Rows
  <2> QED BY <1>6, <2>1, <2>2 DEF ApplyPatch, At
<1>7. CASE StartTests
  BY <1>7 DEF StartTests, At
<1>8. CASE CommandRefused
  BY <1>8 DEF CommandRefused, Leave
<1>9. CASE CommandPasses
  <2>1. row' \in Rows
    BY <1>9 DEF Rows, CommandPasses, EndTests
  <2> QED BY <1>9, <2>1 DEF CommandPasses, EndTests
<1>10. CASE CommandFails
  <2>1. PICK written \in {{}} \cup {{path} : path \in Paths}, stray \in BOOLEAN :
          tree' = [tree EXCEPT !.tracked = @ \cup written, !.stray = @ \/ stray]
    BY <1>10, Zenon DEF CommandFails, CommandStops
  <2>2. tree' \in Trees
    <3>1. tree \in Trees /\ written \in SUBSET Paths
      BY <1>10 DEF CommandFails
    <3> QED BY <2>1, <3>1, WrittenIsTree, Zenon
  <2>3. row' \in Rows
    BY <1>10, FailedIsRow DEF CommandFails, CommandStops, EndTests
  <2> QED BY <1>10, <2>2, <2>3 DEF CommandFails, CommandStops, EndTests
<1>11. CASE TimesOut
  BY <1>11 DEF TimesOut
<1>12. CASE Terminated
  <2>1. PICK written \in {{}} \cup {{path} : path \in Paths}, stray \in BOOLEAN :
          tree' = [tree EXCEPT !.tracked = @ \cup written, !.stray = @ \/ stray]
    BY <1>12, Zenon DEF Terminated, CommandStops
  <2>2. tree' \in Trees
    <3>1. tree \in Trees /\ written \in SUBSET Paths
      BY <1>12 DEF Terminated
    <3> QED BY <2>1, <3>1, WrittenIsTree, Zenon
  <2>3. row' \in Rows
    BY <1>12, FailedIsRow DEF Terminated, CommandStops, EndTests
  <2> QED BY <1>12, <2>2, <2>3 DEF Terminated, CommandStops, EndTests
<1>13. CASE Killed
  <2>1. PICK written \in {{}} \cup {{path} : path \in Paths}, stray \in BOOLEAN :
          tree' = [tree EXCEPT !.tracked = @ \cup written, !.stray = @ \/ stray]
    BY <1>13, Zenon DEF Killed, CommandStops
  <2>2. tree' \in Trees
    <3>1. tree \in Trees /\ written \in SUBSET Paths
      BY <1>13 DEF Killed
    <3> QED BY <2>1, <3>1, WrittenIsTree, Zenon
  <2>3. row' \in Rows
    BY <1>13, FailedIsRow DEF Killed, CommandStops, EndTests
  <2> QED BY <1>13, <2>2, <2>3 DEF Killed, CommandStops, EndTests
<1>14. CASE ExportPatch
  <2>1. tree.tracked \subseteq Paths
    BY <1>14 DEF ExportPatch, Trees
  <2> QED BY <1>14, <2>1 DEF ExportPatch, At
<1>15. CASE ExportFails
  <2>1. row' \in Rows
    BY <1>15 DEF Rows, ExportFails, At, Leave
  <2> QED BY <1>15, <2>1 DEF ExportFails, At, Leave
<1>16. CASE CommitEnd
  <2>1. row' \in Rows
    BY <1>16 DEF Rows, CommitEnd, Leave
  <2> QED BY <1>16, <2>1 DEF CommitEnd, Leave
<1>17. CASE BudgetStop
  <2>1. row' \in Rows
    BY <1>17 DEF Rows, BudgetStop, Leave
  <2> QED BY <1>17, <2>1 DEF BudgetStop, Leave
<1>18. CASE WorktreeMissing
  BY <1>18 DEF WorktreeMissing, Leave
<1>19. ASSUME NEW f \in BOOLEAN, Cleanup(f) PROVE Typed'
  BY <1>19 DEF Cleanup
<1>20. CASE NotPrepared
  <2>1. lease' \in {Nobody, "runner", "cleaner"}
    BY <1>20 DEF NotPrepared, EndCleanup
  <2>2. lock' \in Promoters \cup {Nobody, "runner", "cleaner"}
    BY <1>20 DEF NotPrepared, EndCleanup
  <2> QED BY <1>20, <2>1, <2>2 DEF NotPrepared, EndCleanup
<1>21. CASE LockCleanup
  BY <1>21 DEF LockCleanup
<1>22. CASE RemoveWorktree
  <2>1. lease' \in {Nobody, "runner", "cleaner"}
    BY <1>22 DEF RemoveWorktree, EndCleanup
  <2>2. lock' \in Promoters \cup {Nobody, "runner", "cleaner"}
    BY <1>22 DEF RemoveWorktree, EndCleanup
  <2>3. tree' \in Trees \cup {NoTree}
    BY <1>22 DEF RemoveWorktree
  <2>4. runner \notin {"added", "starting", "testing", "terminating"}
    BY <1>22 DEF RemoveWorktree, Holders
  <2> QED BY <1>22, <2>1, <2>2, <2>3, <2>4 DEF RemoveWorktree, EndCleanup
<1>23. ASSUME NEW p \in Promoters, Promote(p) PROVE Typed'
  BY <1>23 DEF Promote
<1>24. ASSUME NEW p \in Promoters, CheckClean(p) PROVE Typed'
  BY <1>24 DEF CheckClean, SourceClean
<1>25. ASSUME NEW p \in Promoters, LockPromotion(p) PROVE Typed'
  BY <1>25 DEF LockPromotion
<1>26. ASSUME NEW p \in Promoters, ReplayPromotion(p) PROVE Typed'
  <2>1. lock' \in Promoters \cup {Nobody, "runner", "cleaner"}
    BY <1>26 DEF ReplayPromotion, Answered
  <2> QED BY <1>26, <2>1 DEF ReplayPromotion, Answered
<1>27. ASSUME NEW p \in Promoters, ApplyToSource(p) PROVE Typed'
  BY <1>27 DEF ApplyToSource, Disturb
<1>28. ASSUME NEW p \in Promoters, RecoverPromotion(p) PROVE Typed'
  BY <1>28 DEF RecoverPromotion
<1>29. ASSUME NEW p \in Promoters, PatchRefused(p) PROVE Typed'
  <2>1. lock' \in Promoters \cup {Nobody, "runner", "cleaner"}
    BY <1>29 DEF PatchRefused, Answered
  <2> QED BY <1>29, <2>1 DEF PatchRefused, Answered
<1>30. ASSUME NEW p \in Promoters, EndPromotion(p) PROVE Typed'
  <2>1. lock' \in Promoters \cup {Nobody, "runner", "cleaner"}
    BY <1>30 DEF EndPromotion, Answered, Disturb
  <2>2. edits' \subseteq {"run", "other"}
    BY <1>30 DEF EndPromotion, Answered, Disturb
  <2>3. disturbed' \in [Promoters -> BOOLEAN]
    BY <1>30 DEF EndPromotion, Answered, Disturb
  <2>4. ledger' \in {"none", "intent", "committed"}
    BY <1>30 DEF EndPromotion, Answered, Disturb
  <2> QED BY <1>30, <2>1, <2>2, <2>3, <2>4 DEF EndPromotion, Answered
<1>31. CASE Outside
  <2>1. outside' \in 0..MaxOutside
    BY <1>31 DEF Outside
  <2>2. head' \in Commits /\ head' <= outside'
    BY <1>31, <2>1 DEF Outside, Commits
  <2>3. edits' \subseteq {"run", "other"}
    BY <1>31 DEF Outside
  <2>4. disturbed' \in [Promoters -> BOOLEAN]
    BY <1>31 DEF Outside, Disturb
  <2> QED BY <1>31, <2>1, <2>2, <2>3, <2>4 DEF Outside
<1>32. CASE Crash
  <2>1. crashes' \in 0..MaxCrashes
    BY <1>32 DEF Crash
  <2>2. lease' \in {Nobody, "runner", "cleaner"}
    BY <1>32 DEF Crash, Freed
  <2>3. lock' \in Promoters \cup {Nobody, "runner", "cleaner"}
    BY <1>32 DEF Crash, Freed
  <2>4. promoter' \in [Promoters -> {"idle", "based", "cleared", "locked", "applied"}]
    BY <1>32 DEF Crash
  <2>5. runner' \in {runner, "idle"} /\ cleaner' \in {cleaner, "idle"} /\ force' \in {force, FALSE}
    BY <1>32 DEF Crash
  <2>6. command' \in 0..NumCommands
    BY <1>32 DEF Crash
  <2>7. prior' \in BOOLEAN
    BY <1>32 DEF Crash
  <2>8. UNCHANGED <<source, row, tree, retained, ledger, before, outside>>
    BY <1>32 DEF Crash
  <2> QED BY <2>1, <2>2, <2>3, <2>4, <2>5, <2>6, <2>7, <2>8
<1>33. CASE CommandStarts
  BY <1>33 DEF CommandStarts
<1>34. CASE UNCHANGED vars
  BY <1>34 DEF vars
<1> QED BY <1>1, <1>2, <1>3, <1>4, <1>5, <1>6, <1>7, <1>8, <1>9, <1>10, <1>11, <1>12, <1>13, <1>14,
          <1>15, <1>16, <1>17, <1>18, <1>19, <1>20, <1>21, <1>22, <1>23, <1>24, <1>25, <1>26, <1>27, <1>28,
          <1>29, <1>30, <1>31, <1>32, <1>33, <1>34
     DEF Next, RunnerStep, CommandStep, CleanerStep, PromoterStep

\* The locks are held in exactly the steps the code holds them in.
LEMMA HoldersStep ==
  ASSUME Holders, [Next]_vars
  PROVE  Holders'
<1> USE WorkspaceAssumption DEF Holders, source, cleaning, promoting, bounds
<1>1. CASE Start
  BY <1>1 DEF Start, Enter
<1>2. CASE Resume
  BY <1>2 DEF Resume, Enter
<1>3. CASE CheckSource
  BY <1>3 DEF CheckSource, At, Leave
<1>4. CASE AddWorktree
  BY <1>4 DEF AddWorktree, Leave
<1>5. CASE CommitContext
  BY <1>5 DEF CommitContext
<1>6. ASSUME NEW patch \in Proposals, ApplyPatch(patch) PROVE Holders'
  BY <1>6 DEF ApplyPatch, At
<1>7. CASE StartTests
  BY <1>7 DEF StartTests, At
<1>8. CASE CommandRefused
  BY <1>8 DEF CommandRefused, Leave
<1>9. CASE CommandPasses
  BY <1>9 DEF CommandPasses, EndTests
<1>10. CASE CommandFails
  BY <1>10 DEF CommandFails, CommandStops, EndTests, Failed
<1>11. CASE TimesOut
  BY <1>11 DEF TimesOut
<1>12. CASE Terminated
  BY <1>12 DEF Terminated, CommandStops, EndTests, Failed
<1>13. CASE Killed
  BY <1>13 DEF Killed, CommandStops, EndTests, Failed
<1>14. CASE ExportPatch
  BY <1>14 DEF ExportPatch, At
<1>15. CASE ExportFails
  BY <1>15 DEF ExportFails, At, Leave
<1>16. CASE CommitEnd
  BY <1>16 DEF CommitEnd, Leave
<1>17. CASE BudgetStop
  BY <1>17 DEF BudgetStop, Leave
<1>18. CASE WorktreeMissing
  BY <1>18 DEF WorktreeMissing, Leave
<1>19. ASSUME NEW f \in BOOLEAN, Cleanup(f) PROVE Holders'
  BY <1>19 DEF Cleanup
<1>20. CASE NotPrepared
  BY <1>20 DEF NotPrepared, EndCleanup
<1>21. CASE LockCleanup
  BY <1>21 DEF LockCleanup
<1>22. CASE RemoveWorktree
  BY <1>22 DEF RemoveWorktree, EndCleanup
<1>23. ASSUME NEW p \in Promoters, Promote(p) PROVE Holders'
  BY <1>23 DEF Promote
<1>24. ASSUME NEW p \in Promoters, CheckClean(p) PROVE Holders'
  BY <1>24 DEF CheckClean, SourceClean
<1>25. ASSUME NEW p \in Promoters, LockPromotion(p) PROVE Holders'
  BY <1>25 DEF LockPromotion
<1>26. ASSUME NEW p \in Promoters, ReplayPromotion(p) PROVE Holders'
  BY <1>26 DEF ReplayPromotion, Answered
<1>27. ASSUME NEW p \in Promoters, ApplyToSource(p) PROVE Holders'
  BY <1>27 DEF ApplyToSource, Disturb
<1>28. ASSUME NEW p \in Promoters, RecoverPromotion(p) PROVE Holders'
  BY <1>28 DEF RecoverPromotion
<1>29. ASSUME NEW p \in Promoters, PatchRefused(p) PROVE Holders'
  BY <1>29 DEF PatchRefused, Answered
<1>30. ASSUME NEW p \in Promoters, EndPromotion(p) PROVE Holders'
  BY <1>30 DEF EndPromotion, Answered, Disturb
<1>31. CASE Outside
  BY <1>31 DEF Outside, Disturb
<1>32. CASE Crash
  BY <1>32 DEF Crash, Freed
<1>33. CASE CommandStarts
  BY <1>33 DEF CommandStarts
<1>34. CASE UNCHANGED vars
  BY <1>34 DEF vars
<1> QED BY <1>1, <1>2, <1>3, <1>4, <1>5, <1>6, <1>7, <1>8, <1>9, <1>10, <1>11, <1>12, <1>13, <1>14,
          <1>15, <1>16, <1>17, <1>18, <1>19, <1>20, <1>21, <1>22, <1>23, <1>24, <1>25, <1>26, <1>27, <1>28,
          <1>29, <1>30, <1>31, <1>32, <1>33, <1>34
     DEF Next, RunnerStep, CommandStep, CleanerStep, PromoterStep

\* What an ended run retained stays what its worktree holds.
LEMMA RetentionStep ==
  ASSUME Typed, Holders, Retention, [Next]_vars
  PROVE  Retention'
<1> USE WorkspaceAssumption DEF Typed, TypeOK, Holders, Retention, Rows, Trees, Commits, source, cleaning, promoting, bounds
<1>1. CASE Start
  BY <1>1 DEF Start, Enter
<1>2. CASE Resume
  BY <1>2 DEF Resume, Enter
<1>3. CASE CheckSource
  BY <1>3 DEF CheckSource, At, Leave
<1>4. CASE AddWorktree
  BY <1>4 DEF AddWorktree, Leave
<1>5. CASE CommitContext
  BY <1>5 DEF CommitContext
<1>6. ASSUME NEW patch \in Proposals, ApplyPatch(patch) PROVE Retention'
  <2>1. row.status = "running" /\ row.manifest = "none" /\ runner' = "run"
    BY <1>6 DEF ApplyPatch, At
  <2>2. row'.manifest = "none" /\ row'.status = "running"
    BY <1>6, <2>1, FailedMovesOn DEF ApplyPatch, Rows
  <2> QED BY <2>1, <2>2
<1>7. CASE StartTests
  BY <1>7 DEF StartTests, At
<1>8. CASE CommandRefused
  BY <1>8 DEF CommandRefused, Leave
<1>9. CASE CommandPasses
  BY <1>9 DEF CommandPasses, EndTests
<1>10. CASE CommandFails
  BY <1>10 DEF CommandFails, CommandStops, EndTests, Failed
<1>11. CASE TimesOut
  BY <1>11 DEF TimesOut
<1>12. CASE Terminated
  BY <1>12 DEF Terminated, CommandStops, EndTests, Failed
<1>13. CASE Killed
  BY <1>13 DEF Killed, CommandStops, EndTests, Failed
<1>14. CASE ExportPatch
  BY <1>14 DEF ExportPatch, At
<1>15. CASE ExportFails
  BY <1>15 DEF ExportFails, At, Leave
<1>16. CASE CommitEnd
  BY <1>16 DEF CommitEnd, Leave
<1>17. CASE BudgetStop
  BY <1>17 DEF BudgetStop, Leave
<1>18. CASE WorktreeMissing
  BY <1>18 DEF WorktreeMissing, Leave
<1>19. ASSUME NEW f \in BOOLEAN, Cleanup(f) PROVE Retention'
  BY <1>19 DEF Cleanup
<1>20. CASE NotPrepared
  BY <1>20 DEF NotPrepared, EndCleanup
<1>21. CASE LockCleanup
  BY <1>21 DEF LockCleanup
<1>22. CASE RemoveWorktree
  BY <1>22 DEF RemoveWorktree, EndCleanup
<1>23. ASSUME NEW p \in Promoters, Promote(p) PROVE Retention'
  BY <1>23 DEF Promote
<1>24. ASSUME NEW p \in Promoters, CheckClean(p) PROVE Retention'
  BY <1>24 DEF CheckClean, SourceClean
<1>25. ASSUME NEW p \in Promoters, LockPromotion(p) PROVE Retention'
  BY <1>25 DEF LockPromotion
<1>26. ASSUME NEW p \in Promoters, ReplayPromotion(p) PROVE Retention'
  BY <1>26 DEF ReplayPromotion, Answered
<1>27. ASSUME NEW p \in Promoters, ApplyToSource(p) PROVE Retention'
  BY <1>27 DEF ApplyToSource, Disturb
<1>28. ASSUME NEW p \in Promoters, RecoverPromotion(p) PROVE Retention'
  BY <1>28 DEF RecoverPromotion
<1>29. ASSUME NEW p \in Promoters, PatchRefused(p) PROVE Retention'
  BY <1>29 DEF PatchRefused, Answered
<1>30. ASSUME NEW p \in Promoters, EndPromotion(p) PROVE Retention'
  BY <1>30 DEF EndPromotion, Answered, Disturb
<1>31. CASE Outside
  BY <1>31 DEF Outside, Disturb
<1>32. CASE Crash
  BY <1>32 DEF Crash, Freed
<1>33. CASE CommandStarts
  BY <1>33 DEF CommandStarts
<1>34. CASE UNCHANGED vars
  BY <1>34 DEF vars
<1> QED BY <1>1, <1>2, <1>3, <1>4, <1>5, <1>6, <1>7, <1>8, <1>9, <1>10, <1>11, <1>12, <1>13, <1>14,
          <1>15, <1>16, <1>17, <1>18, <1>19, <1>20, <1>21, <1>22, <1>23, <1>24, <1>25, <1>26, <1>27, <1>28,
          <1>29, <1>30, <1>31, <1>32, <1>33, <1>34
     DEF Next, RunnerStep, CommandStep, CleanerStep, PromoterStep

\* Nothing comes between a promotion's checks and its patch unseen.
LEMMA BoundaryStep ==
  ASSUME Typed, Holders, Retention, Boundary, [Next]_vars
  PROVE  Boundary'
<1> USE WorkspaceAssumption DEF Typed, TypeOK, Holders, Retention, Boundary, Rows, source, cleaning, promoting, bounds
<1>1. CASE Start
  BY <1>1 DEF Start, Enter
<1>2. CASE Resume
  BY <1>2 DEF Resume, Enter
<1>3. CASE CheckSource
  BY <1>3 DEF CheckSource, At, Leave
<1>4. CASE AddWorktree
  BY <1>4 DEF AddWorktree, Leave
<1>5. CASE CommitContext
  BY <1>5 DEF CommitContext
<1>6. ASSUME NEW patch \in Proposals, ApplyPatch(patch) PROVE Boundary'
  BY <1>6 DEF ApplyPatch, At
<1>7. CASE StartTests
  BY <1>7 DEF StartTests, At
<1>8. CASE CommandRefused
  BY <1>8 DEF CommandRefused, Leave
<1>9. CASE CommandPasses
  BY <1>9 DEF CommandPasses, EndTests
<1>10. CASE CommandFails
  BY <1>10 DEF CommandFails, CommandStops, EndTests, Failed
<1>11. CASE TimesOut
  BY <1>11 DEF TimesOut
<1>12. CASE Terminated
  BY <1>12 DEF Terminated, CommandStops, EndTests, Failed
<1>13. CASE Killed
  BY <1>13 DEF Killed, CommandStops, EndTests, Failed
<1>14. CASE ExportPatch
  BY <1>14 DEF ExportPatch, At
<1>15. CASE ExportFails
  BY <1>15 DEF ExportFails, At, Leave
<1>16. CASE CommitEnd
  BY <1>16 DEF CommitEnd, Leave
<1>17. CASE BudgetStop
  BY <1>17 DEF BudgetStop, Leave
<1>18. CASE WorktreeMissing
  BY <1>18 DEF WorktreeMissing, Leave
<1>19. ASSUME NEW f \in BOOLEAN, Cleanup(f) PROVE Boundary'
  BY <1>19 DEF Cleanup
<1>20. CASE NotPrepared
  BY <1>20 DEF NotPrepared, EndCleanup
<1>21. CASE LockCleanup
  BY <1>21 DEF LockCleanup
<1>22. CASE RemoveWorktree
  BY <1>22 DEF RemoveWorktree, EndCleanup
<1>23. ASSUME NEW p \in Promoters, Promote(p) PROVE Boundary'
  BY <1>23 DEF Promote
<1>24. ASSUME NEW p \in Promoters, CheckClean(p) PROVE Boundary'
  BY <1>24 DEF CheckClean, SourceClean
<1>25. ASSUME NEW p \in Promoters, LockPromotion(p) PROVE Boundary'
  BY <1>25 DEF LockPromotion
<1>26. ASSUME NEW p \in Promoters, ReplayPromotion(p) PROVE Boundary'
  BY <1>26 DEF ReplayPromotion, Answered
<1>27. ASSUME NEW p \in Promoters, ApplyToSource(p) PROVE Boundary'
  BY <1>27 DEF ApplyToSource, Disturb
<1>28. ASSUME NEW p \in Promoters, RecoverPromotion(p) PROVE Boundary'
  BY <1>28 DEF RecoverPromotion
<1>29. ASSUME NEW p \in Promoters, PatchRefused(p) PROVE Boundary'
  BY <1>29 DEF PatchRefused, Answered
<1>30. ASSUME NEW p \in Promoters, EndPromotion(p) PROVE Boundary'
  <2>1. row' = row /\ head' = head /\ onto' = onto /\ promoter' = [promoter EXCEPT ![p] = "idle"]
    BY <1>30 DEF EndPromotion, Answered
  <2>2. ASSUME NEW q \in Promoters, promoter'[q] # "idle"
        PROVE  /\ q # p /\ promoter'[q] = promoter[q]
               /\ ~disturbed'[q] => ~disturbed[q]
    BY <1>30, <2>1, <2>2 DEF EndPromotion, Disturb
  <2>3. ASSUME NEW q \in Promoters, promoter[q] # "idle", q # p, ~disturbed'[q]
        PROVE  ledger' = "committed"
    BY <1>30, <2>3 DEF EndPromotion, Disturb
  <2> QED BY <2>1, <2>2, <2>3
<1>31. CASE Outside
  BY <1>31 DEF Outside, Disturb
<1>32. CASE Crash
  BY <1>32 DEF Crash, Freed
<1>33. CASE CommandStarts
  BY <1>33 DEF CommandStarts
<1>34. CASE UNCHANGED vars
  BY <1>34 DEF vars
<1> QED BY <1>1, <1>2, <1>3, <1>4, <1>5, <1>6, <1>7, <1>8, <1>9, <1>10, <1>11, <1>12, <1>13, <1>14,
          <1>15, <1>16, <1>17, <1>18, <1>19, <1>20, <1>21, <1>22, <1>23, <1>24, <1>25, <1>26, <1>27, <1>28,
          <1>29, <1>30, <1>31, <1>32, <1>33, <1>34
     DEF Next, RunnerStep, CommandStep, CleanerStep, PromoterStep

\* No step but cleanup's removal makes a worktree go.
LEMMA OnlyCleanupRemoves ==
  ASSUME Typed, Holders, [Next]_vars, Removed
  PROVE  RemoveWorktree
<1> USE DEF Removed
<1>1. tree' \notin Trees
  BY NoTreeIsNoTree
<1>2. (Typed /\ Holders)'
  BY TypedStep, HoldersStep
<1>3. ~AddWorktree
  BY <1>2, <1>1 DEF AddWorktree, Typed, Leave
<1>4. ASSUME NEW patch \in Proposals PROVE ~ApplyPatch(patch)
  <2> SUFFICES ASSUME ApplyPatch(patch) PROVE FALSE
    OBVIOUS
  <2>1. tree \in Trees
    BY DEF ApplyPatch, Typed, TypeOK
  <2>2. [tree EXCEPT !.tracked = @ \cup Touches[patch]] \in Trees
    BY <2>1, AppliedIsTree, WorkspaceAssumption
  <2>3. tree' \in {tree, [tree EXCEPT !.tracked = @ \cup Touches[patch]]}
    BY DEF ApplyPatch
  <2> QED BY <1>1, <2>1, <2>2, <2>3
<1>5. ~(CommandFails \/ Terminated \/ Killed)
  <2>1. ~CommandStops \/ runner \notin {"starting", "testing", "terminating"}
    <3> SUFFICES ASSUME CommandStops, tree \in Trees PROVE FALSE
      BY DEF Typed
    <3>1. PICK written \in {{}} \cup {{path} : path \in Paths}, stray \in BOOLEAN :
            tree' = [tree EXCEPT !.tracked = @ \cup written, !.stray = @ \/ stray]
      BY Zenon DEF CommandStops
    <3>2. written \in SUBSET Paths
      OBVIOUS
    <3> QED BY <1>1, <3>1, <3>2, WrittenIsTree, Zenon
  <2> QED BY <2>1 DEF CommandFails, Terminated, Killed
<1>6. tree' # tree
  OBVIOUS
<1> QED BY <1>3, <1>4, <1>5, <1>6
     DEF Next, RunnerStep, CommandStep, CleanerStep, PromoterStep, vars, source, cleaning, promoting,
         bounds, Start, Resume, Enter, CheckSource, CommitContext, StartTests, CommandRefused,
         CommandStarts,
         CommandPasses, EndTests, TimesOut, ExportPatch, ExportFails, CommitEnd, BudgetStop,
         WorktreeMissing, Cleanup, NotPrepared, LockCleanup, Promote, CheckClean, LockPromotion,
         ReplayPromotion, ApplyToSource, RecoverPromotion, PatchRefused, EndPromotion, Outside,
         Crash

\* The initial state satisfies the induction hypothesis.
LEMMA InductionInit ==
  ASSUME Init
  PROVE  Induction
<1> USE WorkspaceAssumption DEF Init
<1>1. row \in Rows
  BY DEF Rows, Commits
<1>2. head \in Commits /\ command \in 0..NumCommands /\ outside \in 0..MaxOutside
      /\ crashes \in 0..MaxCrashes /\ head <= outside
  BY DEF Commits
<1>3. /\ promoter \in [Promoters -> {"idle", "based", "cleared", "locked", "applied"}]
      /\ disturbed \in [Promoters -> BOOLEAN]
  OBVIOUS
<1>4. Typed
  BY <1>1, <1>2, <1>3 DEF Typed, TypeOK
<1> QED BY <1>4 DEF Induction, Holders, Retention, Boundary

\* The induction hypothesis holds in every reachable state.
THEOREM InductionHolds ==
  Spec => []Induction
<1>1. Init => Induction
  BY InductionInit
<1>2. Induction /\ [Next]_vars => Induction'
  BY TypedStep, HoldersStep, RetentionStep, BoundaryStep DEF Induction
<1> QED BY <1>1, <1>2, PTL DEF Spec

\* Type correctness: the row, the worktree, both locks and the promotion's ledger hold what the
\* code can store in them, repairs and commands within their bounds.
THEOREM TypeCorrect ==
  Spec => []TypeOK
<1>1. Induction => TypeOK
  BY DEF Induction, Typed
<1> QED BY <1>1, InductionHolds, PTL

\* ARCHITECTURE.md's promotion boundary, for any number of apply-result commands, changes of the
\* source and kills.
THEOREM PromotionsSeeBase ==
  Spec => []PromotionSeesBase
<1>1. Induction => PromotionSeesBase
  BY DEF Induction, Boundary, PromotionSeesBase
<1> QED BY <1>1, InductionHolds, PTL

\* cleanup without --force loses no tracked change that is not in the exported patch.
THEOREM WorkIsRetained ==
  Spec => WorkRetained
<1>1. ASSUME Induction, [Next]_vars, Removed, ~force PROVE tree.tracked \subseteq retained
  <2>1. RemoveWorktree
    BY <1>1, OnlyCleanupRemoves DEF Induction
  <2>2. tree.tracked = {} \/ row.manifest # "none"
    BY <1>1, <2>1 DEF RemoveWorktree, Removable, Dirty, Removed
  <2> QED BY <1>1, <2>2 DEF Induction, Retention, Removed
<1>2. Induction /\ [Next]_vars => [Removed /\ ~force => tree.tracked \subseteq retained]_vars
  BY <1>1
<1> QED BY <1>2, InductionHolds, PTL DEF Spec, WorkRetained

\* A worktree goes only by cleanup, under both locks, when no process executes its run.
THEOREM NotUnderfoot ==
  Spec => NoRemovalUnderfoot
<1>1. ASSUME Induction, [Next]_vars, Removed PROVE runner = "idle" /\ lock = "cleaner"
  <2>1. cleaner = "locked"
    BY <1>1, OnlyCleanupRemoves DEF Induction, RemoveWorktree
  <2> QED BY <1>1, <2>1 DEF Induction, Holders
<1>2. Induction /\ [Next]_vars => [Removed => runner = "idle" /\ lock = "cleaner"]_vars
  BY <1>1
<1> QED BY <1>2, InductionHolds, PTL DEF Spec, NoRemovalUnderfoot
=============================================================================
