----------------------------- MODULE Workspaces -----------------------------
(***************************************************************************)
(* The life of one run's worktree and of its patch in the source           *)
(* repository: prepare, apply, verify, export, promote, clean up.          *)
(*                                                                         *)
(* Three commands meet here.  `run` holds the run's lease from its first   *)
(* node to its last; `cleanup` holds the same lease; `apply-result` holds  *)
(* none.  Patches, tests, promotion and removal also take workspace.lock,  *)
(* of which every run has its own: another run's promotion is, for this    *)
(* one, a change of the source like a person's.  PatchLedger has the       *)
(* ledgers of apply_patch in full; here an application in the worktree is  *)
(* one step, and the content of a worktree is the set of its changed       *)
(* tracked paths.  LLM nodes are left out.                                 *)
(***************************************************************************)
EXTENDS PatchPolicy

CONSTANTS Promoters,
          Proposals,        \* the patches a model may propose, sequences of Lines
          Touches,          \* Touches[patch]: the paths git changes when it applies patch
          NumCommands,      \* verification commands, `git diff --check` first
          MaxRepairs,       \* repairs of a run
          NoTree, Nobody,
          MaxOutside,       \* bound on what other people do to the source
          MaxCrashes        \* bound on killed commands

ASSUME WorkspaceAssumption ==
  /\ Proposals \subseteq Seq(Lines) /\ Touches \in [Proposals -> SUBSET Paths]
  /\ NumCommands \in Nat \ {0} /\ MaxRepairs \in Nat
  /\ MaxOutside \in Nat /\ MaxCrashes \in Nat
  /\ Nobody \notin Promoters \cup {"runner", "cleaner"}
  /\ "runner" \notin Promoters /\ "cleaner" \notin Promoters
  /\ NoTree \notin [at : 0..MaxOutside, tracked : SUBSET Paths, stray : BOOLEAN]

VARIABLES
  head,        \* the commit checked out in the source
  edits,       \* what is uncommitted there: the run's patch, other people's changes
  row,         \* the stored run
  tree,        \* its worktree, or NoTree
  retained,    \* what the exported patch file holds
  lease, lock, \* holders of the run lease and of workspace.lock
  runner, command,
  cleaner, force,
  promoter, prior,
  ledger, before,   \* the promotion's operation and what its intent found changed
  disturbed,   \* history: the source changed under this promotion
  onto,        \* history: what the latest promotion was applied onto
  outside, crashes

vars == <<head, edits, row, tree, retained, lease, lock, runner, command, cleaner, force, promoter,
          prior, ledger, before, disturbed, onto, outside, crashes>>

source == <<head, edits, disturbed, onto>>
cleaning == <<cleaner, force>>
promoting == <<promoter, prior, ledger, before>>
bounds == <<outside, crashes>>

Commits == 0..MaxOutside
Trees == [at : Commits, tracked : SUBSET Paths, stray : BOOLEAN]
Rows == [status : {"absent", "running", "completed", "failed"},
         at : {"context", "apply", "tests", "finish", "abort"},
         repairs : 0..MaxRepairs, base : Commits, manifest : {"none", "verified", "failed"}]

Init ==
  /\ head = 0 /\ edits = {}
  /\ row = [status |-> "absent", at |-> "context", repairs |-> 0, base |-> 0,
            manifest |-> "none"]
  /\ tree = NoTree /\ retained = {}
  /\ lease = Nobody /\ lock = Nobody
  /\ runner = "idle" /\ command = 0
  /\ cleaner = "idle" /\ force = FALSE
  /\ promoter = [p \in Promoters |-> "idle"] /\ prior = FALSE
  /\ ledger = "none" /\ before = {}
  /\ disturbed = [p \in Promoters |-> FALSE]
  /\ onto = "base"
  /\ outside = 0 /\ crashes = 0

\* The run command returns or raises; the lease goes either way.
Leave == runner' = "idle" /\ lease' = Nobody

-----------------------------------------------------------------------------
(* graph-model run and resume.                                             *)

Enter ==
  /\ runner = "idle" /\ lease = Nobody
  /\ lease' = "runner" /\ runner' = "run"
  /\ row' = [row EXCEPT !.status = "running"]
  /\ UNCHANGED <<source, tree, retained, lock, command, cleaning, promoting, bounds>>

Start == row.status = "absent" /\ Enter

Resume == row.status = "running" /\ Enter

At(node) == runner = "run" /\ row.at = node

\* ensure_prepared wants a clean source, and git worktree add comes a command later.
CheckSource ==
  /\ At("context")
  /\ IF edits # {} THEN Leave ELSE runner' = "clean" /\ UNCHANGED lease
  /\ UNCHANGED <<source, row, tree, retained, lock, command, cleaning, promoting, bounds>>

\* A worktree left by a killed attempt is taken over if it is pinned to the same commit.
AddWorktree ==
  /\ runner = "clean"
  /\ IF tree # NoTree /\ tree.at # head
     THEN Leave /\ UNCHANGED tree
     ELSE /\ tree' = IF tree = NoTree THEN [at |-> head, tracked |-> {}, stray |-> FALSE] ELSE tree
          /\ runner' = "added" /\ UNCHANGED lease
  /\ UNCHANGED <<source, row, retained, lock, command, cleaning, promoting, bounds>>

\* The checkpoint of the context node records active_root and base_commit.
CommitContext ==
  /\ runner = "added"
  /\ row' = [row EXCEPT !.at = "apply", !.base = tree.at]
  /\ runner' = "run"
  /\ UNCHANGED <<source, tree, retained, lease, lock, command, cleaning, promoting, bounds>>

\* A mutant: repairs without end.
FailedAgain == [row EXCEPT !.at = "apply", !.repairs = @ + 1]

\* A failed round is repaired while repairs are left.
Failed == IF row.repairs < MaxRepairs
          THEN [row EXCEPT !.at = "apply", !.repairs = @ + 1]
          ELSE [row EXCEPT !.at = "abort"]

Verdict == [patch \in Proposals |-> ValidatePatch(patch)]

\* validate_patch, git apply, and the rollback of a patch that changed undeclared paths.
ApplyPatch(patch) ==
  /\ At("apply") /\ tree # NoTree /\ lock = Nobody
  /\ LET undeclared == Touches[patch] \ (tree.tracked \cup Verdict[patch].paths)
     IN  IF Verdict[patch].ok /\ undeclared = {}
         THEN /\ tree' = [tree EXCEPT !.tracked = @ \cup Touches[patch]]
              /\ row' = [row EXCEPT !.at = "tests"]
         ELSE row' = Failed /\ UNCHANGED tree
  /\ UNCHANGED <<source, retained, lease, lock, runner, command, cleaning, promoting, bounds>>

\* run_tests takes workspace.lock and turns to its first command.
StartTests ==
  /\ At("tests") /\ tree # NoTree /\ lock = Nobody
  /\ lock' = "runner" /\ runner' = "starting" /\ command' = 1
  /\ UNCHANGED <<source, row, tree, retained, lease, cleaning, promoting, bounds>>

\* parse_bounded_command refuses a command before it is started: the run call raises.
CommandRefused ==
  /\ runner = "starting"
  /\ lock' = Nobody /\ command' = 0 /\ Leave
  /\ UNCHANGED <<source, row, tree, retained, cleaning, promoting, bounds>>

\* run_bounded_command starts the command in a process group of its own.
CommandStarts ==
  /\ runner = "starting"
  /\ runner' = "testing"
  /\ UNCHANGED <<source, row, tree, retained, lease, lock, command, cleaning, promoting, bounds>>

\* The verdict is checkpointed and workspace.lock given back.
EndTests(next) ==
  /\ row' = next /\ lock' = Nobody /\ runner' = "run" /\ command' = 0
  /\ UNCHANGED <<source, retained, lease, cleaning, promoting, bounds>>

\* A command exits with zero; what it wrote to the worktree shows when the last one has.
CommandPasses ==
  /\ runner = "testing" /\ UNCHANGED tree
  /\ \/ /\ command < NumCommands
        /\ command' = command + 1 /\ runner' = "starting"
        /\ UNCHANGED <<source, row, retained, lease, lock, cleaning, promoting, bounds>>
     \/ command = NumCommands /\ EndTests([row EXCEPT !.at = "finish"])

\* A command that did not succeed may leave tracked changes and files of its own behind.
CommandStops ==
  /\ \E written \in {{}} \cup {{path} : path \in Paths}, stray \in BOOLEAN :
       tree' = [tree EXCEPT !.tracked = @ \cup written, !.stray = @ \/ stray]
  /\ EndTests(Failed)

CommandFails == runner = "testing" /\ CommandStops

\* A mutant: the command is waited for without a time limit.
TimesOutNever == FALSE

\* The time limit has passed: SIGTERM to the command's process group.
TimesOut ==
  /\ runner = "testing"
  /\ runner' = "terminating"
  /\ UNCHANGED <<source, row, tree, retained, lease, lock, command, cleaning, promoting, bounds>>

\* The command obeys.
Terminated == runner = "terminating" /\ CommandStops

\* Three seconds later it has not: SIGKILL.
Killed == runner = "terminating" /\ CommandStops

\* finish and abort write the diff against HEAD into the artifacts; untracked files are not
\* in it.
ExportPatch ==
  /\ row.at \in {"finish", "abort"} /\ At(row.at) /\ tree # NoTree
  /\ retained' = tree.tracked
  /\ runner' = "exported"
  /\ UNCHANGED <<source, row, tree, lease, lock, command, cleaning, promoting, bounds>>

\* abort survives an export that git refuses.
ExportFails ==
  /\ At("abort") /\ tree # NoTree
  /\ row' = [row EXCEPT !.status = "failed"] /\ Leave
  /\ UNCHANGED <<source, tree, retained, lock, command, cleaning, promoting, bounds>>

\* The last checkpoint: status, and the manifest of the exported patch.
CommitEnd ==
  /\ runner = "exported"
  /\ row' = IF row.at = "finish"
            THEN [row EXCEPT !.status = "completed", !.manifest = "verified"]
            ELSE [row EXCEPT !.status = "failed", !.manifest = "failed"]
  /\ Leave
  /\ UNCHANGED <<source, tree, retained, lock, command, cleaning, promoting, bounds>>

\* A budget found spent before a step ends the run without an export.
BudgetStop ==
  /\ runner = "run"
  /\ row' = [row EXCEPT !.status = "failed"] /\ Leave
  /\ UNCHANGED <<source, tree, retained, lock, command, cleaning, promoting, bounds>>

\* Every node that needs the worktree raises when it is gone, abort's export too.
WorktreeMissing ==
  /\ runner = "run" /\ row.at # "context" /\ tree = NoTree
  /\ Leave
  /\ UNCHANGED <<source, row, tree, retained, lock, command, cleaning, promoting, bounds>>

\* What the verifier's own process does.
CommandStep == CommandPasses \/ CommandFails \/ Terminated

RunnerStep == \/ CheckSource \/ AddWorktree \/ CommitContext
              \/ \E patch \in Proposals : ApplyPatch(patch)
              \/ CommandRefused \/ CommandStarts \/ TimesOut \/ Killed
              \/ ExportPatch \/ ExportFails \/ CommitEnd \/ WorktreeMissing

-----------------------------------------------------------------------------
(* graph-model cleanup.                                                    *)

\* A mutant: cleanup does not ask for the run lease.
CleanupUnleased(f) ==
  /\ cleaner = "idle"
  /\ row.status # "absent" /\ (row.status = "running" => f)
  /\ cleaner' = "entered" /\ force' = f
  /\ UNCHANGED <<source, row, tree, retained, lease, lock, runner, command, promoting, bounds>>

\* cleanup under the run lease; a run that may be resumed only with --force.
Cleanup(f) ==
  /\ cleaner = "idle" /\ lease = Nobody
  /\ row.status # "absent" /\ (row.status = "running" => f)
  /\ lease' = "cleaner" /\ cleaner' = "entered" /\ force' = f
  /\ UNCHANGED <<source, row, tree, retained, lock, runner, command, promoting, bounds>>

EndCleanup ==
  /\ cleaner' = "idle" /\ force' = FALSE
  /\ lease' = IF lease = "cleaner" THEN Nobody ELSE lease
  /\ lock' = IF lock = "cleaner" THEN Nobody ELSE lock
  /\ UNCHANGED <<source, row, retained, runner, command, promoting, bounds>>

\* No active_root in the row: nothing is looked for on disk.
NotPrepared == cleaner = "entered" /\ row.at = "context" /\ UNCHANGED tree /\ EndCleanup

LockCleanup ==
  /\ cleaner = "entered" /\ row.at # "context" /\ lock = Nobody
  /\ lock' = "cleaner" /\ cleaner' = "locked"
  /\ UNCHANGED <<source, row, tree, retained, lease, runner, command, force, promoting, bounds>>

Dirty == tree # NoTree /\ (tree.tracked # {} \/ tree.stray)

\* A mutant: any changes may go.
RemovableAlways == TRUE

\* A retained patch counts as --force.
Removable == ~Dirty \/ force \/ row.manifest # "none"

RemoveWorktree ==
  /\ cleaner = "locked"
  /\ tree' = IF Removable THEN NoTree ELSE tree
  /\ EndCleanup

CleanerStep == NotPrepared \/ RemoveWorktree

-----------------------------------------------------------------------------
(* graph-model apply-result.                                               *)

\* The row is read without a lease; HEAD must still be the base commit.
Promote(p) ==
  /\ promoter[p] = "idle"
  /\ row.status = "completed" /\ row.manifest = "verified" /\ head = row.base
  /\ promoter' = [promoter EXCEPT ![p] = "based"]
  /\ disturbed' = [disturbed EXCEPT ![p] = FALSE]
  /\ UNCHANGED <<head, edits, onto, row, tree, retained, lease, lock, runner, command, cleaning, prior,
                 ledger, before, bounds>>

\* A mutant: any source will do.
SourceAccepted == TRUE

\* Clean, or changed by this promotion when it was committed.
SourceClean == edits = {} \/ ledger = "committed"

CheckClean(p) ==
  /\ promoter[p] = "based"
  /\ promoter' = [promoter EXCEPT ![p] = IF SourceClean THEN "cleared" ELSE "idle"]
  /\ UNCHANGED <<source, row, tree, retained, lease, lock, runner, command, cleaning, prior,
                 ledger, before, bounds>>

\* A mutant: an answer that keeps workspace.lock.
AnsweredHolding(p) ==
  /\ promoter' = [promoter EXCEPT ![p] = "idle"] /\ prior' = FALSE /\ UNCHANGED lock

Answered(p) ==
  /\ promoter' = [promoter EXCEPT ![p] = "idle"] /\ prior' = FALSE
  /\ lock' = IF lock = p THEN Nobody ELSE lock

\* apply_patch on the source: a committed promotion is answered, any other gets an intent.
LockPromotion(p) ==
  /\ promoter[p] = "cleared" /\ lock = Nobody
  /\ lock' = p /\ promoter' = [promoter EXCEPT ![p] = "locked"]
  /\ prior' = (ledger = "intent")
  /\ ledger' = IF ledger = "none" THEN "intent" ELSE ledger
  /\ before' = IF ledger = "none" THEN edits ELSE before
  /\ UNCHANGED <<source, row, tree, retained, lease, runner, command, cleaning, bounds>>

ReplayPromotion(p) ==
  /\ promoter[p] = "locked" /\ ledger = "committed"
  /\ Answered(p)
  /\ UNCHANGED <<source, row, tree, retained, lease, runner, command, cleaning, ledger,
                 before, bounds>>

Disturb(p) == disturbed' = [q \in Promoters |-> disturbed[q] \/ (q # p /\ promoter[q] # "idle")]

\* The patch is not in the source and git takes it; other changes may stand in its way.
ApplyToSource(p) ==
  /\ promoter[p] = "locked" /\ ledger = "intent" /\ "run" \notin edits
  /\ edits' = edits \cup {"run"}
  /\ onto' = IF edits = {} /\ head = row.base THEN "base"
             ELSE IF disturbed[p] THEN "disturbed" ELSE "other"
  /\ Disturb(p)
  /\ promoter' = [promoter EXCEPT ![p] = "applied"]
  /\ UNCHANGED <<head, row, tree, retained, lease, lock, runner, command, cleaning, prior, ledger,
                 before, bounds>>

\* The patch is there already and this operation was interrupted: take it as applied.
RecoverPromotion(p) ==
  /\ promoter[p] = "locked" /\ ledger = "intent" /\ "run" \in edits /\ prior
  /\ promoter' = [promoter EXCEPT ![p] = "applied"]
  /\ UNCHANGED <<source, row, tree, retained, lease, lock, runner, command, cleaning, prior,
                 ledger, before, bounds>>

PatchRefused(p) ==
  /\ promoter[p] = "locked" /\ ledger = "intent"
  /\ "other" \in edits \/ ("run" \in edits /\ ~prior)
  /\ Answered(p)
  /\ UNCHANGED <<source, row, tree, retained, lease, runner, command, cleaning, ledger,
                 before, bounds>>

\* Undeclared changes roll the patch back; otherwise the ledger is committed.
EndPromotion(p) ==
  /\ promoter[p] = "applied"
  /\ IF edits \ (before \cup {"run"}) # {}
     THEN edits' = edits \ {"run"} /\ Disturb(p) /\ UNCHANGED ledger
     ELSE ledger' = "committed" /\ UNCHANGED <<edits, disturbed>>
  /\ Answered(p)
  /\ UNCHANGED <<head, onto, row, tree, retained, lease, runner, command, cleaning, before,
                 bounds>>

PromoterStep(p) == \/ CheckClean(p) \/ ReplayPromotion(p) \/ ApplyToSource(p)
                   \/ RecoverPromotion(p) \/ PatchRefused(p) \/ EndPromotion(p)

-----------------------------------------------------------------------------

\* Someone edits, commits or discards what is in the source; another run is promoted.
Outside ==
  /\ outside < MaxOutside
  /\ outside' = outside + 1
  /\ \/ edits' = edits \cup {"other"} /\ UNCHANGED head
     \/ edits' = {} /\ head' = head + 1
     \/ edits # {} /\ edits' = {} /\ UNCHANGED head
  /\ Disturb(Nobody)
  /\ UNCHANGED <<onto, row, tree, retained, lease, lock, runner, command, cleaning, promoting,
                 crashes>>

Freed(who) == /\ lease' = IF lease = who THEN Nobody ELSE lease
              /\ lock' = IF lock = who THEN Nobody ELSE lock

\* A command is killed: its locks go with it, the disk stays.
Crash ==
  /\ crashes < MaxCrashes
  /\ crashes' = crashes + 1
  /\ \/ /\ runner # "idle" /\ runner' = "idle" /\ command' = 0 /\ Freed("runner")
        /\ UNCHANGED <<cleaning, promoter, prior>>
     \/ /\ cleaner # "idle" /\ cleaner' = "idle" /\ force' = FALSE /\ Freed("cleaner")
        /\ UNCHANGED <<runner, command, promoter, prior>>
     \/ \E p \in Promoters :
          /\ promoter[p] # "idle" /\ promoter' = [promoter EXCEPT ![p] = "idle"] /\ Freed(p)
          /\ prior' = (prior /\ lock # p)
          /\ UNCHANGED <<runner, command, cleaning>>
  /\ UNCHANGED <<source, row, tree, retained, ledger, before, outside>>

Next == \/ Start \/ Resume \/ RunnerStep \/ StartTests \/ CommandStep \/ BudgetStop
        \/ \E f \in BOOLEAN : Cleanup(f)
        \/ LockCleanup \/ CleanerStep
        \/ \E p \in Promoters : Promote(p) \/ LockPromotion(p) \/ PromoterStep(p)
        \/ Outside \/ Crash

Spec == Init /\ [][Next]_vars

\* A process that is not killed runs on, and flock serves its waiters: a lock that keeps coming
\* free is not kept from one of them for ever.  Nothing is asked of a verification command,
\* which may hang, and no budget need be spent.
FairSpec ==
  /\ Spec
  /\ WF_vars(RunnerStep) /\ SF_vars(StartTests)
  /\ WF_vars(CleanerStep) /\ SF_vars(LockCleanup)
  /\ \A p \in Promoters : WF_vars(PromoterStep(p)) /\ SF_vars(LockPromotion(p))

-----------------------------------------------------------------------------
(* Properties.                                                             *)

TypeOK ==
  /\ head \in Commits /\ edits \subseteq {"run", "other"}
  /\ row \in Rows /\ tree \in Trees \cup {NoTree} /\ retained \subseteq Paths
  /\ lease \in {Nobody, "runner", "cleaner"}
  /\ lock \in Promoters \cup {Nobody, "runner", "cleaner"}
  /\ runner \in {"idle", "run", "clean", "added", "starting", "testing", "terminating",
                "exported"}
  /\ command \in 0..NumCommands
  /\ cleaner \in {"idle", "entered", "locked"} /\ force \in BOOLEAN
  /\ promoter \in [Promoters -> {"idle", "based", "cleared", "locked", "applied"}]
  /\ prior \in BOOLEAN /\ ledger \in {"none", "intent", "committed"}
  /\ before \subseteq {"run", "other"}
  /\ disturbed \in [Promoters -> BOOLEAN]
  /\ onto \in {"base", "disturbed", "other"}
  /\ outside \in 0..MaxOutside /\ crashes \in 0..MaxCrashes

Removed == tree # NoTree /\ tree' = NoTree

\* Without --force a worktree goes only when every tracked change in it is in the exported
\* patch file: cleanup's retained_patch speaks of the same content as its status check.
WorkRetained == [][Removed /\ ~force => tree.tracked \subseteq retained]_vars

\* A worktree is never removed under a process that executes its run, and no path but cleanup
\* removes one.
NoRemovalUnderfoot == [][Removed => runner = "idle" /\ lock = "cleaner"]_vars

\* ARCHITECTURE.md's promotion boundary: unless somebody changes the source between
\* apply-result's checks and git apply, the patch goes onto the base commit with nothing else
\* uncommitted, killed and repeated promotions included.
PromotionSeesBase == onto # "other"

\* Every command ends: the lease and workspace.lock are given back on every path, whoever is
\* killed, and a verifier that hangs is killed in the end.
CallsReturn ==
  /\ runner # "idle" ~> runner = "idle"
  /\ cleaner # "idle" ~> cleaner = "idle"
  /\ \A p \in Promoters : promoter[p] # "idle" ~> promoter[p] = "idle"
=============================================================================
