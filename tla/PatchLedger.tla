----------------------------- MODULE PatchLedger -----------------------------
(***************************************************************************)
(* RepositoryWorkspace.apply_patch: intent and commit ledger files, git's  *)
(* forward and reverse checks, validation after the mutation, rollback,    *)
(* and the workspace lock that is released when its holder dies.           *)
(*                                                                         *)
(* An operation is one idempotency key with its patch.  Its callers are    *)
(* the apply node, whose calls the run lease keeps apart and repeats until *)
(* a checkpoint records an answer, or apply-result, any number of which    *)
(* may promote one finished run to the source repository at the same time; *)
(* promote_verified_patch wants a clean source before it gets that far.    *)
(* git apply is external: Forward gives its effect, and it is atomic.      *)
(***************************************************************************)
EXTENDS Integers

CONSTANTS Contents, Patches, Rejected, Forward, NumOps,
          Empty,         \* the empty diff with no_changes_needed
          Malformed,     \* patches that normalize_patch or validate_patch refuses
          Procs, Nobody,
          MaxCrashes     \* bound on killed calls

Ops == 1..NumOps

ASSUME LedgerAssumption ==
  /\ Rejected \notin Contents /\ Empty \in Patches \ Malformed
  /\ Forward \in [Patches -> [Contents -> Contents \cup {Rejected}]]
  /\ \A c \in Contents : Forward[Empty][c] = c
  /\ \A p \in Patches, c, d \in Contents :    \* what a patch wrote can be reversed
       Forward[p][c] = Forward[p][d] /\ Forward[p][c] # Rejected => c = d
  /\ NumOps \in Nat /\ MaxCrashes \in Nat /\ Nobody \notin Procs

\* A patch never applies to its own result.
NoRematch ==
  \A p \in Patches \ {Empty}, c \in Contents :
    Forward[p][c] # Rejected => Forward[p][Forward[p][c]] = Rejected

VARIABLES
  leased,     \* the caller is a run holding its lease; otherwise apply-result
  content,    \* the worktree, or the source repository of a promotion
  head,       \* its content when clean
  patchOf,    \* patchOf[op]: the patch whose hash every call of op presents
  current,    \* the operation being called; NumOps + 1 when all are done
  intents,    \* operations with an .intent.json
  before,     \* before_fingerprint in the intent
  commits,    \* operations with a .committed.json
  after,      \* after_fingerprint in the commit
  lock,       \* holder of workspace.lock
  pc,         \* per process: idle, waiting, locked, intended, apply, check, rollback, done
  prior,      \* per process: the intent was there already (prior_intent)
  answer,     \* per process: what the call returned or raised
  effects,    \* history: forward minus reverse applications of each operation
  outcome,    \* history: how each operation ended for its caller
  crashes

vars == <<leased, content, head, patchOf, current, intents, before, commits, after, lock, pc, prior,
          answer, effects, outcome, crashes>>

ledger == <<intents, before, commits, after>>
caller == <<leased, head, patchOf, current, outcome, crashes>>

Applies(p) == Forward[p][content] # Rejected

\* git apply --reverse --check
Reverses(p) == \E c \in Contents : Forward[p][c] = content
ReverseOf(p) == CHOOSE c \in Contents : Forward[p][c] = content

Init ==
  /\ leased \in BOOLEAN
  /\ content \in Contents /\ head = content
  /\ patchOf \in [Ops -> Patches]
  /\ current = 1
  /\ intents = {} /\ before = [op \in Ops |-> content]
  /\ commits = {} /\ after = [op \in Ops |-> content]
  /\ lock = Nobody
  /\ pc = [p \in Procs |-> "idle"]
  /\ prior = [p \in Procs |-> FALSE]
  /\ answer = [p \in Procs |-> "none"]
  /\ effects = [op \in Ops |-> 0]
  /\ outcome = [op \in Ops |-> "pending"]
  /\ crashes = 0

Goto(p, l) == pc' = [pc EXCEPT ![p] = l]

\* A mutant: the lock is not released.
AnswerHoldingLock(p, a) ==
  /\ answer' = [answer EXCEPT ![p] = a]
  /\ Goto(p, "done") /\ UNCHANGED lock

\* Leave both with-blocks, if inside, and hand the caller a value or an exception.
Answer(p, a) ==
  /\ answer' = [answer EXCEPT ![p] = a]
  /\ lock' = IF lock = p THEN Nobody ELSE lock
  /\ Goto(p, "done")

-----------------------------------------------------------------------------

\* promote_verified_patch stops at a source that is not clean unless the promotion is
\* committed, and never passes no_changes_needed.
PromotionStops ==
  ~leased /\ (patchOf[current] = Empty \/ (content # head /\ current \notin commits))

\* A caller starts apply_patch: size and path validation come before any lock.
Call(p) ==
  /\ pc[p] = "idle" /\ current \in Ops
  /\ leased => \A q \in Procs : pc[q] = "idle"
  /\ IF patchOf[current] \in Malformed \/ PromotionStops THEN Answer(p, "refused")
     ELSE Goto(p, "waiting") /\ UNCHANGED <<answer, lock>>
  /\ UNCHANGED <<content, ledger, prior, effects, caller>>

\* A mutant: the workspace lock is only shared.
LockShared(p) ==
  /\ pc[p] = "waiting"
  /\ lock' = p /\ Goto(p, "locked")
  /\ UNCHANGED <<content, ledger, prior, answer, effects, caller>>

\* _exclusive_file_lock on workspace.lock, then on the operation's own lock.
Lock(p) ==
  /\ pc[p] = "waiting" /\ lock = Nobody
  /\ lock' = p /\ Goto(p, "locked")
  /\ UNCHANGED <<content, ledger, prior, answer, effects, caller>>

\* The operation is committed: answer from its ledger.
Replay(p) ==
  /\ pc[p] = "locked" /\ current \in commits
  /\ Answer(p, "applied")
  /\ UNCHANGED <<content, ledger, prior, effects, caller>>

\* A mutant: a repeated call writes its intent over the first one.
IntendAgain(p) ==
  /\ pc[p] = "locked" /\ current \notin commits
  /\ prior' = [prior EXCEPT ![p] = current \in intents]
  /\ intents' = intents \cup {current}
  /\ before' = [before EXCEPT ![current] = content]
  /\ Goto(p, "intended")
  /\ UNCHANGED <<content, commits, after, lock, answer, effects, caller>>

\* Read an earlier intent, or write a new one with the fingerprint of now.
Intend(p) ==
  /\ pc[p] = "locked" /\ current \notin commits
  /\ prior' = [prior EXCEPT ![p] = current \in intents]
  /\ intents' = intents \cup {current}
  /\ before' = IF current \in intents THEN before
               ELSE [before EXCEPT ![current] = content]
  /\ Goto(p, "intended")
  /\ UNCHANGED <<content, commits, after, lock, answer, effects, caller>>

\* A mutant: the commit repeats the fingerprint of the intent.
CommitBefore ==
  /\ commits' = commits \cup {current}
  /\ after' = [after EXCEPT ![current] = before[current]]
  /\ UNCHANGED <<intents, before>>

\* Write .committed.json.
Commit ==
  /\ commits' = commits \cup {current}
  /\ after' = [after EXCEPT ![current] = content]
  /\ UNCHANGED <<intents, before>>

\* The empty patch is committed without calling git, unless the worktree moved.
NoChange(p) ==
  /\ pc[p] = "intended" /\ patchOf[current] = Empty
  /\ IF prior[p] /\ content # before[current]
     THEN Answer(p, "refused") /\ UNCHANGED ledger
     ELSE Answer(p, "applied") /\ Commit
  /\ UNCHANGED <<content, prior, effects, caller>>

\* A mutant: no reverse check, so an interrupted application is never recognised.
CheckedForward(p) == IF Applies(patchOf[current]) THEN "apply" ELSE "refused"

\* What git apply --check and --reverse --check decide.
Checked(p) ==
  IF Applies(patchOf[current]) THEN "apply"
  ELSE IF Reverses(patchOf[current]) /\ prior[p] THEN "check" ELSE "refused"

\* The forward check, and when it fails the reverse check.
CheckPatch(p) ==
  /\ pc[p] = "intended" /\ patchOf[current] # Empty
  /\ IF Checked(p) = "refused" THEN Answer(p, "refused")
     ELSE Goto(p, Checked(p)) /\ UNCHANGED <<answer, lock>>
  /\ UNCHANGED <<content, ledger, prior, effects, caller>>

GitApply(p) ==
  /\ pc[p] = "apply"
  /\ content' = Forward[patchOf[current]][content]
  /\ effects' = [effects EXCEPT ![current] = @ + 1]
  /\ Goto(p, "check")
  /\ UNCHANGED <<ledger, lock, prior, answer, caller>>

\* The changed paths are the declared ones: commit the operation.
Validate(p) ==
  /\ pc[p] = "check"
  /\ Answer(p, "applied") /\ Commit
  /\ UNCHANGED <<content, prior, effects, caller>>

\* An undeclared path changed, or git or the ledger write failed.
Invalid(p) ==
  /\ pc[p] = "check"
  /\ Goto(p, "rollback")
  /\ UNCHANGED <<content, ledger, lock, prior, answer, effects, caller>>

\* A mutant: git apply is called without --reverse.
AppliedByRollback(p) == Forward[patchOf[current]][content]

\* The worktree after _rollback_patch.
AfterRollback(p) ==
  IF Reverses(patchOf[current]) THEN ReverseOf(patchOf[current]) ELSE content

\* _rollback_patch: reverse, then compare with the fingerprint of the intent.
Rollback(p) ==
  /\ pc[p] = "rollback"
  /\ content' = AfterRollback(p)
  /\ effects' = [effects EXCEPT ![current] = @ - 1]
  /\ Answer(p, IF content' = before[current] THEN "refused" ELSE "broken")
  /\ UNCHANGED <<ledger, prior, caller>>

\* The run checkpoints the answer; its next apply is another operation.
Record(p) ==
  /\ pc[p] = "done" /\ leased
  /\ outcome' = [outcome EXCEPT ![current] = answer[p]]
  /\ current' = current + 1
  /\ answer' = [answer EXCEPT ![p] = "none"]
  /\ Goto(p, "idle")
  /\ UNCHANGED <<content, ledger, lock, prior, effects, leased, head, patchOf, crashes>>

\* The process dies: the operating system drops its lock, its answer is lost.
Crash(p) ==
  /\ pc[p] # "idle" /\ crashes < MaxCrashes
  /\ crashes' = crashes + 1
  /\ lock' = IF lock = p THEN Nobody ELSE lock
  /\ answer' = [answer EXCEPT ![p] = "none"]
  /\ Goto(p, "idle")
  /\ UNCHANGED <<content, ledger, prior, effects, leased, head, patchOf, current,
                 outcome>>

Step(p) == \/ Lock(p) \/ Replay(p) \/ Intend(p) \/ NoChange(p) \/ CheckPatch(p)
           \/ GitApply(p) \/ Validate(p) \/ Invalid(p) \/ Rollback(p)

Next == \E p \in Procs : Call(p) \/ Step(p) \/ Record(p) \/ Crash(p)

Spec == Init /\ [][Next]_vars

\* A call that is not killed runs on; flock wakes a waiter once the lock is free.
FairSpec == Spec /\ \A p \in Procs : WF_vars(Step(p))

-----------------------------------------------------------------------------
(* Properties.                                                             *)

TypeOK ==
  /\ leased \in BOOLEAN /\ content \in Contents /\ head \in Contents
  /\ patchOf \in [Ops -> Patches]
  /\ current \in 1..(NumOps + 1)
  /\ intents \subseteq Ops /\ before \in [Ops -> Contents]
  /\ commits \subseteq intents /\ after \in [Ops -> Contents]
  /\ lock \in Procs \cup {Nobody}
  /\ pc \in [Procs -> {"idle", "waiting", "locked", "intended", "apply", "check",
                       "rollback", "done"}]
  /\ prior \in [Procs -> BOOLEAN]
  /\ answer \in [Procs -> {"none", "applied", "refused", "broken"}]
  /\ effects \in [Ops -> Int]
  /\ outcome \in [Ops -> {"pending", "applied", "refused", "broken"}]
  /\ crashes \in 0..MaxCrashes

\* Between locking and answering; only the holder of workspace.lock is there.
Inside(p) == pc[p] \in {"locked", "intended", "apply", "check", "rollback"}

\* Two calls never run git or write the ledger of one workspace at once, deaths included.
MutualExclusion == \A p \in Procs : Inside(p) => lock = p

\* ARCHITECTURE.md on interrupted application: however calls are killed and repeated, an
\* operation's patch is in the worktree at most once (intent, reverse check, commit ledger).
AtMostOnce == \A op \in Ops : effects[op] <= 1

\* While an operation is the latest, its commit ledger describes the worktree: a replayed
\* answer reports a fingerprint that is still true.
LedgerIsCurrent ==
  \A op \in commits :
    op = current \/ (op + 1 = current /\ current \notin intents) => content = after[op]

\* A run's call that is refused leaves the worktree as the operation found it, even when an
\* earlier call of the operation died after git apply (reverse check, rollback).
RefusalRestores ==
  \A p \in Procs : leased /\ answer[p] = "refused" /\ current \in intents =>
                   content = before[current]

\* What ARCHITECTURE.md says of a process that stops between git apply and the commit: the
\* next call recognizes the operation, so none is refused with the patch left in place.
InterruptionIsRecovered ==
  \A p \in Procs : answer[p] = "refused" /\ current \in intents \ commits => effects[current] # 1

Abstract ==
  INSTANCE ApplyOnce WITH
    content <- IF current \in intents \ commits THEN before[current] ELSE content,
    outcome <- [op \in Ops |-> IF op \in commits THEN "applied" ELSE outcome[op]]

\* The ledger protocol makes every operation atomic for its callers: the worktree seen through
\* an operation in doubt is the one it started from, and the commit file is the moment it
\* takes effect.
ImplementsApplyOnce == Abstract!Spec

\* A call that is not killed gives an answer: no path leaves workspace.lock behind.
CallsAnswered == \A p \in Procs : pc[p] = "waiting" ~> pc[p] \in {"done", "idle"}
=============================================================================
