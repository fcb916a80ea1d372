--------------------------- MODULE PatchLedgerProofs ---------------------------
(***************************************************************************)
(* What PatchLedger proves for any contents, patches, callers, operations  *)
(* and kills.                                                              *)
(*                                                                         *)
(* Whoever is inside holds workspace.lock (Locks), so what a call read of  *)
(* the worktree stays true until it acts on it (Ledger, Position) and what *)
(* it answers is true of the worktree it leaves (Answers).  All of that    *)
(* holds whatever the patches are.  That an operation takes effect at most *)
(* once, and the refinement of ApplyOnce, need NoRematch: without it the   *)
(* forward check passes on a patch's own result.  Place says where the     *)
(* worktree can be while an operation is in doubt: at the content of the   *)
(* intent, one patch ahead of it, or, after a rollback of a patch somebody *)
(* else brought, one behind.                                               *)
(***************************************************************************)
EXTENDS PatchLedger, TLAPS

\* The patch of the operation that is called.
P == patchOf[current]
\* Its intent is written and its commit is not.
InDoubt == current \in intents \ commits

\* Who is inside holds the lock, and the calls of a lease do not overlap.
Locks ==
  /\ \A p \in Procs : Inside(p) <=> lock = p
  /\ leased => \A p, q \in Procs : pc[p] # "idle" /\ pc[q] # "idle" => p = q

\* A call is of an operation that is due, and was validated before any lock.
Called ==
  \A p \in Procs :
    /\ pc[p] # "idle" => current \in Ops
    /\ Inside(p) \/ pc[p] = "waiting" => P \notin Malformed

\* What a call has found in ledger and worktree, and acts on.
Ledger ==
  /\ \A op \in Ops : op > current => op \notin intents
  /\ current \in intents => P \notin Malformed
  /\ \A p \in Procs :
       /\ pc[p] \in {"intended", "apply", "check", "rollback"} => InDoubt
       /\ pc[p] = "intended" /\ ~prior[p] => content = before[current]
       /\ pc[p] = "apply" => Applies(P) /\ P # Empty
       /\ pc[p] \in {"check", "rollback"} => Reverses(P) /\ P # Empty

\* Where a worktree in doubt is, whatever the patches are.
Position ==
  InDoubt => /\ P = Empty => content = before[current]
             /\ content = before[current] \/ Applies(P) \/ Reverses(P)

\* An answer is true of the worktree and the ledger its caller finds.
Answers ==
  \A p \in Procs :
    /\ answer[p] # "none" <=> pc[p] = "done"
    /\ answer[p] = "applied" => current \in commits
    /\ leased /\ answer[p] = "refused" /\ current \in intents => content = before[current]

\* LedgerIsCurrent, spelled out for the induction.
Replayed ==
  \A op \in commits :
    op = current \/ (op + 1 = current /\ current \notin intents) => content = after[op]

Induction == TypeOK /\ Locks /\ Called /\ Ledger /\ Position /\ Answers /\ Replayed

\* Where a worktree in doubt is when no patch applies to its own result.
Place ==
  InDoubt =>
    /\ \/ content = before[current]
       \/ Forward[P][before[current]] = content
       \/ Forward[P][content] = before[current]
    /\ \A p \in Procs : pc[p] \in {"check", "rollback"} =>
         content = before[current] \/ Forward[P][before[current]] = content

\* An operation has taken effect at most once, and then its patch does not apply.
Counted ==
  /\ \A op \in Ops : effects[op] <= 1 /\ (op > current => effects[op] = 0)
  /\ current \in Ops \ intents => effects[current] = 0
  /\ InDoubt /\ effects[current] = 1 => ~Applies(P)

\* Operations get their outcome in order.
Decided ==
  \A op \in Ops : outcome[op] = "pending" <=> op >= current

Once == Place /\ Counted /\ Decided

\* The forward check decides first; the reverse check counts with an earlier intent only.
LEMMA CheckedMeans ==
  ASSUME NEW p \in Procs
  PROVE  /\ Checked(p) \in {"apply", "check", "refused"}
         /\ Checked(p) = "apply" <=> Applies(P)
         /\ Checked(p) = "check" <=> ~Applies(P) /\ Reverses(P) /\ prior[p]
BY DEF Checked, P

\* git reverses only what some content was patched into.
LEMMA ReverseIsBefore ==
  ASSUME NEW patch \in Patches, Reverses(patch)
  PROVE  ReverseOf(patch) \in Contents /\ Forward[patch][ReverseOf(patch)] = content
BY DEF Reverses, ReverseOf

\* What git applies is a content again, and can be reversed.
LEMMA ForwardIsContent ==
  ASSUME TypeOK, NEW patch \in Patches, Applies(patch)
  PROVE  Forward[patch][content] \in Contents
<1>1. Forward[patch] \in [Contents -> Contents \cup {Rejected}]
  BY LedgerAssumption
<1> QED BY <1>1 DEF TypeOK, Applies

\* The empty patch is refused in a worktree that has moved, or committed as it is.
LEMMA NoChangeEnds ==
  ASSUME NEW p \in Procs, NoChange(p)
  PROVE  /\ pc[p] = "intended" /\ patchOf[current] = Empty
         /\ \/ Answer(p, "refused") /\ UNCHANGED ledger
            \/ Answer(p, "applied") /\ Commit
         /\ ~(Answer(p, "applied") /\ Commit) => content # before[current]
         /\ UNCHANGED <<content, prior, effects, caller>>
<1>1. CASE prior[p] /\ content # before[current]
  BY <1>1, Zenon DEF NoChange
<1>2. CASE ~(prior[p] /\ content # before[current])
  BY <1>2, Zenon DEF NoChange
<1> QED BY <1>1, <1>2

\* The checks refuse the call or send it on.
LEMMA CheckPatchGoes ==
  ASSUME NEW p \in Procs, CheckPatch(p)
  PROVE  /\ pc[p] = "intended" /\ patchOf[current] # Empty
         /\ \/ Checked(p) = "refused" /\ Answer(p, "refused")
            \/ /\ Checked(p) \in {"apply", "check"} /\ Goto(p, Checked(p))
               /\ UNCHANGED <<answer, lock>>
         /\ UNCHANGED <<content, ledger, prior, effects, caller>>
<1>1. CASE Checked(p) = "refused"
  BY <1>1, Zenon DEF CheckPatch
<1>2. CASE Checked(p) # "refused"
  <2>1. Goto(p, Checked(p)) /\ UNCHANGED <<answer, lock>>
    BY <1>2, Zenon DEF CheckPatch
  <2> QED BY <1>2, <2>1, CheckedMeans DEF CheckPatch
<1> QED BY <1>1, <1>2

\* Every step keeps the types.
LEMMA TypeStep ==
  ASSUME TypeOK, Locks, Called, Ledger, Answers, [Next]_vars
  PROVE  TypeOK'
<1> USE LedgerAssumption DEF TypeOK, Ops, ledger, caller
<1>1. ASSUME NEW p \in Procs, Call(p) PROVE TypeOK'
  <2>1. CASE Answer(p, "refused")
    BY <1>1, <2>1 DEF Call, Answer, Goto
  <2>2. CASE ~Answer(p, "refused")
    BY <1>1, <2>2 DEF Call, Goto
  <2> QED BY <2>1, <2>2
<1>2. ASSUME NEW p \in Procs, Lock(p) PROVE TypeOK'
  BY <1>2 DEF Lock, Goto
<1>3. ASSUME NEW p \in Procs, Replay(p) PROVE TypeOK'
  BY <1>3 DEF Replay, Answer, Goto
<1>4. ASSUME NEW p \in Procs, Intend(p) PROVE TypeOK'
  <2>1. current \in Ops
    BY <1>4 DEF Called, Intend
  <2>2. before' \in [Ops -> Contents] /\ intents' \subseteq Ops /\ prior' \in [Procs -> BOOLEAN]
    BY <1>4, <2>1 DEF Intend
  <2>3. commits' \subseteq intents' /\ pc' \in [Procs -> {"idle", "waiting", "locked", "intended",
                                                         "apply", "check", "rollback", "done"}]
    BY <1>4 DEF Intend, Goto
  <2> QED BY <1>4, <2>2, <2>3 DEF Intend
<1>5. ASSUME NEW p \in Procs, NoChange(p) PROVE TypeOK'
  <2>1. current \in Ops /\ current \in intents
    BY <1>5, NoChangeEnds DEF Called, Ledger, InDoubt
  <2>2. CASE Answer(p, "refused") /\ UNCHANGED ledger
    BY <1>5, <2>2, NoChangeEnds DEF Answer, Goto
  <2>3. CASE Answer(p, "applied") /\ Commit
    BY <1>5, <2>1, <2>3, NoChangeEnds DEF Answer, Goto, Commit
  <2> QED BY <1>5, <2>2, <2>3, NoChangeEnds
<1>6. ASSUME NEW p \in Procs, CheckPatch(p) PROVE TypeOK'
  <2>1. pc[p] = "intended" /\ P # Empty /\ UNCHANGED <<content, ledger, prior, effects, caller>>
    BY <1>6, CheckPatchGoes DEF P
  <2>2. CASE Checked(p) = "refused" /\ Answer(p, "refused")
    BY <2>1, <2>2 DEF Answer, Goto
  <2>3. CASE /\ Checked(p) \in {"apply", "check"} /\ Goto(p, Checked(p))
             /\ UNCHANGED <<answer, lock>>
    BY <2>1, <2>3 DEF Goto
  <2> QED BY <1>6, <2>2, <2>3, CheckPatchGoes
<1>7. ASSUME NEW p \in Procs, GitApply(p) PROVE TypeOK'
  <2>1. current \in Ops /\ P \in Patches /\ Applies(P)
    BY <1>7 DEF Called, Ledger, GitApply, P
  <2>2. content' \in Contents
    BY <1>7, <2>1, ForwardIsContent DEF GitApply, P
  <2>3. effects' \in [Ops -> Int]
    BY <1>7, <2>1 DEF GitApply
  <2> QED BY <1>7, <2>2, <2>3 DEF GitApply, Goto
<1>8. ASSUME NEW p \in Procs, Validate(p) PROVE TypeOK'
  <2>1. current \in Ops /\ current \in intents
    BY <1>8 DEF Called, Ledger, InDoubt, Validate
  <2> QED BY <1>8, <2>1 DEF Validate, Answer, Commit, Goto
<1>9. ASSUME NEW p \in Procs, Invalid(p) PROVE TypeOK'
  BY <1>9 DEF Invalid, Goto
<1>10. ASSUME NEW p \in Procs, Rollback(p) PROVE TypeOK'
  <2>1. current \in Ops /\ P \in Patches /\ Reverses(P)
    BY <1>10 DEF Called, Ledger, Rollback, P
  <2>2. content' \in Contents
    BY <1>10, <2>1, ReverseIsBefore DEF Rollback, AfterRollback, P
  <2>3. effects' \in [Ops -> Int]
    BY <1>10, <2>1 DEF Rollback
  <2> QED BY <1>10, <2>2, <2>3 DEF Rollback, Answer, Goto
<1>11. ASSUME NEW p \in Procs, Record(p) PROVE TypeOK'
  <2>1. current \in Ops
    BY <1>11 DEF Called, Record
  <2>2. current' \in 1..(NumOps + 1)
    BY <1>11, <2>1 DEF Record
  <2>3. outcome' \in [Ops -> {"pending", "applied", "refused", "broken"}]
    BY <1>11, <2>1 DEF Record, Answers
  <2> QED BY <1>11, <2>2, <2>3 DEF Record, Goto
<1>12. ASSUME NEW p \in Procs, Crash(p) PROVE TypeOK'
  BY <1>12 DEF Crash, Goto
<1>13. CASE UNCHANGED vars
  BY <1>13 DEF vars
<1> QED BY <1>1, <1>2, <1>3, <1>4, <1>5, <1>6, <1>7, <1>8, <1>9, <1>10, <1>11, <1>12, <1>13 DEF Next, Step

\* workspace.lock is held from the lock to the answer, and a lease's calls do not overlap.
LEMMA LocksStep ==
  ASSUME TypeOK, Locks, Called, Ledger, [Next]_vars
  PROVE  Locks'
<1> USE LedgerAssumption DEF TypeOK, Ops, Inside, Locks, ledger, caller
<1>1. ASSUME NEW p \in Procs, Call(p) PROVE Locks'
  BY <1>1 DEF Call, PromotionStops, Answer, Goto
<1>2. ASSUME NEW p \in Procs, Lock(p) PROVE Locks'
  BY <1>2 DEF Lock, Goto
<1>3. ASSUME NEW p \in Procs, Replay(p) PROVE Locks'
  BY <1>3 DEF Replay, Answer, Goto
<1>4. ASSUME NEW p \in Procs, Intend(p) PROVE Locks'
  BY <1>4 DEF Intend, Goto
<1>5. ASSUME NEW p \in Procs, NoChange(p) PROVE Locks'
  <2>1. pc[p] = "intended" /\ P = Empty /\ UNCHANGED <<content, prior, effects, caller>>
    BY <1>5, NoChangeEnds DEF P
  <2>2. CASE Answer(p, "refused") /\ UNCHANGED ledger
    BY <2>1, <2>2 DEF Answer, Goto
  <2>3. CASE Answer(p, "applied") /\ Commit
    BY <2>1, <2>3 DEF Answer, Goto, Commit
  <2> QED BY <1>5, <2>2, <2>3, NoChangeEnds
<1>6. ASSUME NEW p \in Procs, CheckPatch(p) PROVE Locks'
  <2>1. pc[p] = "intended" /\ P # Empty /\ UNCHANGED <<content, ledger, prior, effects, caller>>
    BY <1>6, CheckPatchGoes DEF P
  <2>2. CASE Checked(p) = "refused" /\ Answer(p, "refused")
    BY <2>1, <2>2 DEF Answer, Goto
  <2>3. CASE /\ Checked(p) \in {"apply", "check"} /\ Goto(p, Checked(p))
             /\ UNCHANGED <<answer, lock>>
    BY <2>1, <2>3 DEF Goto
  <2> QED BY <1>6, <2>2, <2>3, CheckPatchGoes
<1>7. ASSUME NEW p \in Procs, GitApply(p) PROVE Locks'
  BY <1>7 DEF GitApply, Goto
<1>8. ASSUME NEW p \in Procs, Validate(p) PROVE Locks'
  BY <1>8 DEF Validate, Answer, Commit, Goto
<1>9. ASSUME NEW p \in Procs, Invalid(p) PROVE Locks'
  BY <1>9 DEF Invalid, Goto
<1>10. ASSUME NEW p \in Procs, Rollback(p) PROVE Locks'
  BY <1>10 DEF Rollback, Answer, Goto
<1>11. ASSUME NEW p \in Procs, Record(p) PROVE Locks'
  BY <1>11 DEF Record, Goto
<1>12. ASSUME NEW p \in Procs, Crash(p) PROVE Locks'
  BY <1>12 DEF Crash, Goto
<1>13. CASE UNCHANGED vars
  BY <1>13 DEF vars
<1> QED BY <1>1, <1>2, <1>3, <1>4, <1>5, <1>6, <1>7, <1>8, <1>9, <1>10, <1>11, <1>12, <1>13 DEF Next, Step

\* Only an operation that is due and validated is called.
LEMMA CalledStep ==
  ASSUME TypeOK, Locks, Called, Ledger, [Next]_vars
  PROVE  Called'
<1> USE LedgerAssumption DEF TypeOK, Ops, Inside, Locks, Called, P, ledger, caller
<1>1. ASSUME NEW p \in Procs, Call(p) PROVE Called'
  BY <1>1 DEF Call, PromotionStops, Answer, Goto
<1>2. ASSUME NEW p \in Procs, Lock(p) PROVE Called'
  BY <1>2 DEF Lock, Goto
<1>3. ASSUME NEW p \in Procs, Replay(p) PROVE Called'
  BY <1>3 DEF Replay, Answer, Goto
<1>4. ASSUME NEW p \in Procs, Intend(p) PROVE Called'
  BY <1>4 DEF Intend, Goto
<1>5. ASSUME NEW p \in Procs, NoChange(p) PROVE Called'
  BY <1>5 DEF NoChange, Answer, Commit, Goto
<1>6. ASSUME NEW p \in Procs, CheckPatch(p) PROVE Called'
  BY <1>6 DEF CheckPatch, Answer, Goto, Checked
<1>7. ASSUME NEW p \in Procs, GitApply(p) PROVE Called'
  BY <1>7 DEF GitApply, Goto
<1>8. ASSUME NEW p \in Procs, Validate(p) PROVE Called'
  BY <1>8 DEF Validate, Answer, Commit, Goto
<1>9. ASSUME NEW p \in Procs, Invalid(p) PROVE Called'
  BY <1>9 DEF Invalid, Goto
<1>10. ASSUME NEW p \in Procs, Rollback(p) PROVE Called'
  BY <1>10 DEF Rollback, Answer, Goto
<1>11. ASSUME NEW p \in Procs, Record(p) PROVE Called'
  BY <1>11 DEF Record, Goto
<1>12. ASSUME NEW p \in Procs, Crash(p) PROVE Called'
  BY <1>12 DEF Crash, Goto
<1>13. CASE UNCHANGED vars
  BY <1>13 DEF vars
<1> QED BY <1>1, <1>2, <1>3, <1>4, <1>5, <1>6, <1>7, <1>8, <1>9, <1>10, <1>11, <1>12, <1>13 DEF Next, Step

\* What a call has read of ledger and worktree stays true while it is inside.
LEMMA LedgerStep ==
  ASSUME TypeOK, Locks, Called, Ledger, Position, [Next]_vars
  PROVE  Ledger'
<1> USE LedgerAssumption DEF TypeOK, Ops, Inside, Locks, Called, Ledger, P, InDoubt, Applies, Reverses, ledger, caller
<1>1. ASSUME NEW p \in Procs, Call(p) PROVE Ledger'
  BY <1>1 DEF Call, PromotionStops, Answer, Goto
<1>2. ASSUME NEW p \in Procs, Lock(p) PROVE Ledger'
  BY <1>2 DEF Lock, Goto
<1>3. ASSUME NEW p \in Procs, Replay(p) PROVE Ledger'
  BY <1>3 DEF Replay, Answer, Goto
<1>4. ASSUME NEW p \in Procs, Intend(p) PROVE Ledger'
  <2>1. CASE current \in intents
    <3>1. prior'[p] /\ intents' = intents /\ before' = before
      <4>1. prior' = [prior EXCEPT ![p] = (current \in intents)]
        BY <1>4, Zenon DEF Intend
      <4>2. p \in DOMAIN prior
        OBVIOUS
      <4>3. prior'[p] = (current \in intents)
        BY <4>1, <4>2, Zenon
      <4>4. prior'[p]
        BY <2>1, <4>3, Zenon
      <4> QED BY <1>4, <2>1, <4>4 DEF Intend
    <3> QED BY <1>4, <2>1, <3>1 DEF Intend, Goto
  <2>2. CASE current \notin intents
    BY <1>4, <2>2 DEF Intend, Goto
  <2> QED BY <2>1, <2>2
<1>5. ASSUME NEW p \in Procs, NoChange(p) PROVE Ledger'
  BY <1>5 DEF NoChange, Answer, Commit, Goto
<1>6. ASSUME NEW p \in Procs, CheckPatch(p) PROVE Ledger'
  <2>1. pc[p] = "intended" /\ P # Empty /\ UNCHANGED <<content, ledger, prior, effects, caller>>
    BY <1>6, CheckPatchGoes DEF P
  <2>2. CASE Checked(p) = "refused" /\ Answer(p, "refused")
    BY <2>1, <2>2 DEF Answer, Goto
  <2>3. CASE /\ Checked(p) \in {"apply", "check"} /\ Goto(p, Checked(p))
             /\ UNCHANGED <<answer, lock>>
    BY <2>1, <2>3, CheckedMeans DEF Goto
  <2> QED BY <1>6, <2>2, <2>3, CheckPatchGoes
<1>7. ASSUME NEW p \in Procs, GitApply(p) PROVE Ledger'
  <2>1. current \in Ops /\ P \in Patches /\ content \in Contents /\ P # Empty
    BY <1>7 DEF GitApply
  <2>2. Reverses(P)'
    BY <1>7, <2>1 DEF GitApply
  <2> QED BY <1>7, <2>1, <2>2 DEF GitApply, Goto
<1>8. ASSUME NEW p \in Procs, Validate(p) PROVE Ledger'
  BY <1>8 DEF Validate, Answer, Commit, Goto
<1>9. ASSUME NEW p \in Procs, Invalid(p) PROVE Ledger'
  BY <1>9 DEF Invalid, Goto
<1>10. ASSUME NEW p \in Procs, Rollback(p) PROVE Ledger'
  BY <1>10 DEF Rollback, Answer, Goto
<1>11. ASSUME NEW p \in Procs, Record(p) PROVE Ledger'
  BY <1>11 DEF Record, Goto
<1>12. ASSUME NEW p \in Procs, Crash(p) PROVE Ledger'
  BY <1>12 DEF Crash, Goto
<1>13. CASE UNCHANGED vars
  BY <1>13 DEF vars
<1> QED BY <1>1, <1>2, <1>3, <1>4, <1>5, <1>6, <1>7, <1>8, <1>9, <1>10, <1>11, <1>12, <1>13 DEF Next, Step

\* A worktree in doubt is at its intent, or the patch goes on, or comes off.
LEMMA PositionStep ==
  ASSUME TypeOK, Locks, Called, Ledger, Position, [Next]_vars
  PROVE  Position'
<1> USE LedgerAssumption DEF TypeOK, Ops, Inside, Locks, Called, Ledger, Position, P, InDoubt, Applies, Reverses, ledger, caller
<1>1. ASSUME NEW p \in Procs, Call(p) PROVE Position'
  BY <1>1 DEF Call, PromotionStops, Answer, Goto
<1>2. ASSUME NEW p \in Procs, Lock(p) PROVE Position'
  BY <1>2 DEF Lock, Goto
<1>3. ASSUME NEW p \in Procs, Replay(p) PROVE Position'
  BY <1>3 DEF Replay, Answer, Goto
<1>4. ASSUME NEW p \in Procs, Intend(p) PROVE Position'
  BY <1>4 DEF Intend, Goto
<1>5. ASSUME NEW p \in Procs, NoChange(p) PROVE Position'
  BY <1>5 DEF NoChange, Answer, Commit, Goto
<1>6. ASSUME NEW p \in Procs, CheckPatch(p) PROVE Position'
  BY <1>6 DEF CheckPatch, Answer, Goto, Checked
<1>7. ASSUME NEW p \in Procs, GitApply(p) PROVE Position'
  <2>1. current \in Ops /\ P \in Patches /\ content \in Contents /\ P # Empty
    BY <1>7 DEF GitApply
  <2>2. Reverses(P)'
    BY <1>7, <2>1 DEF GitApply
  <2> QED BY <1>7, <2>1, <2>2 DEF GitApply
<1>8. ASSUME NEW p \in Procs, Validate(p) PROVE Position'
  BY <1>8 DEF Validate, Answer, Commit, Goto
<1>9. ASSUME NEW p \in Procs, Invalid(p) PROVE Position'
  BY <1>9 DEF Invalid, Goto
<1>10. ASSUME NEW p \in Procs, Rollback(p) PROVE Position'
  <2>1. current \in Ops /\ P \in Patches /\ content \in Contents /\ P # Empty /\ Reverses(P)
    BY <1>10 DEF Rollback
  <2>2. content' \in Contents /\ Forward[P][content'] = content
    BY <1>10, <2>1, ReverseIsBefore DEF Rollback, AfterRollback
  <2>3. Applies(P)'
    BY <1>10, <2>1, <2>2 DEF Rollback
  <2> QED BY <1>10, <2>1, <2>3 DEF Rollback
<1>11. ASSUME NEW p \in Procs, Record(p) PROVE Position'
  BY <1>11 DEF Record, Goto
<1>12. ASSUME NEW p \in Procs, Crash(p) PROVE Position'
  BY <1>12 DEF Crash, Goto
<1>13. CASE UNCHANGED vars
  BY <1>13 DEF vars
<1> QED BY <1>1, <1>2, <1>3, <1>4, <1>5, <1>6, <1>7, <1>8, <1>9, <1>10, <1>11, <1>12, <1>13 DEF Next, Step

\* An answer is true of the worktree it leaves.
LEMMA AnswersStep ==
  ASSUME TypeOK, Locks, Called, Ledger, Position, Answers, [Next]_vars
  PROVE  Answers'
<1> USE LedgerAssumption DEF TypeOK, Ops, Inside, Locks, Called, Ledger, Answers, P, InDoubt, ledger, caller
<1>1. ASSUME NEW p \in Procs, Call(p) PROVE Answers'
  BY <1>1 DEF Call, PromotionStops, Answer, Goto
<1>2. ASSUME NEW p \in Procs, Lock(p) PROVE Answers'
  BY <1>2 DEF Lock, Goto
<1>3. ASSUME NEW p \in Procs, Replay(p) PROVE Answers'
  BY <1>3 DEF Replay, Answer, Goto
<1>4. ASSUME NEW p \in Procs, Intend(p) PROVE Answers'
  BY <1>4 DEF Intend, Goto
<1>5. ASSUME NEW p \in Procs, NoChange(p) PROVE Answers'
  <2>1. pc[p] = "intended" /\ P = Empty /\ UNCHANGED <<content, prior, effects, caller>>
    BY <1>5, NoChangeEnds DEF P
  <2>2. CASE Answer(p, "refused") /\ UNCHANGED ledger
    <3>1. content = before[current]
      BY <2>1 DEF Position
    <3> QED BY <2>1, <2>2, <3>1 DEF Answer, Goto
  <2>3. CASE Answer(p, "applied") /\ Commit
    BY <2>1, <2>3 DEF Answer, Goto, Commit
  <2> QED BY <1>5, <2>2, <2>3, NoChangeEnds
<1>6. ASSUME NEW p \in Procs, CheckPatch(p) PROVE Answers'
  <2>1. pc[p] = "intended" /\ P # Empty /\ UNCHANGED <<content, ledger, prior, effects, caller>>
    BY <1>6, CheckPatchGoes DEF P
  <2>2. CASE Checked(p) = "refused" /\ Answer(p, "refused")
    <3>1. content = before[current]
      BY <2>1, <2>2, CheckedMeans DEF Position
    <3> QED BY <2>1, <2>2, <3>1 DEF Answer, Goto
  <2>3. CASE /\ Checked(p) \in {"apply", "check"} /\ Goto(p, Checked(p))
             /\ UNCHANGED <<answer, lock>>
    BY <2>1, <2>3 DEF Goto
  <2> QED BY <1>6, <2>2, <2>3, CheckPatchGoes
<1>7. ASSUME NEW p \in Procs, GitApply(p) PROVE Answers'
  BY <1>7 DEF GitApply, Goto
<1>8. ASSUME NEW p \in Procs, Validate(p) PROVE Answers'
  BY <1>8 DEF Validate, Answer, Commit, Goto
<1>9. ASSUME NEW p \in Procs, Invalid(p) PROVE Answers'
  BY <1>9 DEF Invalid, Goto
<1>10. ASSUME NEW p \in Procs, Rollback(p) PROVE Answers'
  BY <1>10 DEF Rollback, Answer, Goto
<1>11. ASSUME NEW p \in Procs, Record(p) PROVE Answers'
  BY <1>11 DEF Record, Goto
<1>12. ASSUME NEW p \in Procs, Crash(p) PROVE Answers'
  BY <1>12 DEF Crash, Goto
<1>13. CASE UNCHANGED vars
  BY <1>13 DEF vars
<1> QED BY <1>1, <1>2, <1>3, <1>4, <1>5, <1>6, <1>7, <1>8, <1>9, <1>10, <1>11, <1>12, <1>13 DEF Next, Step

\* Nothing writes the worktree between a commit and the next intent.
LEMMA ReplayedStep ==
  ASSUME TypeOK, Locks, Called, Ledger, Replayed, [Next]_vars
  PROVE  Replayed'
<1> USE LedgerAssumption DEF TypeOK, Ops, Inside, Locks, Called, Ledger, Replayed, InDoubt, ledger, caller
<1>1. ASSUME NEW p \in Procs, Call(p) PROVE Replayed'
  BY <1>1 DEF Call, PromotionStops, Answer, Goto
<1>2. ASSUME NEW p \in Procs, Lock(p) PROVE Replayed'
  BY <1>2 DEF Lock, Goto
<1>3. ASSUME NEW p \in Procs, Replay(p) PROVE Replayed'
  BY <1>3 DEF Replay, Answer, Goto
<1>4. ASSUME NEW p \in Procs, Intend(p) PROVE Replayed'
  BY <1>4 DEF Intend, Goto
<1>5. ASSUME NEW p \in Procs, NoChange(p) PROVE Replayed'
  BY <1>5 DEF NoChange, Answer, Commit, Goto
<1>6. ASSUME NEW p \in Procs, CheckPatch(p) PROVE Replayed'
  BY <1>6 DEF CheckPatch, Answer, Goto, Checked
<1>7. ASSUME NEW p \in Procs, GitApply(p) PROVE Replayed'
  BY <1>7 DEF GitApply, Goto
<1>8. ASSUME NEW p \in Procs, Validate(p) PROVE Replayed'
  BY <1>8 DEF Validate, Answer, Commit, Goto
<1>9. ASSUME NEW p \in Procs, Invalid(p) PROVE Replayed'
  BY <1>9 DEF Invalid, Goto
<1>10. ASSUME NEW p \in Procs, Rollback(p) PROVE Replayed'
  BY <1>10 DEF Rollback, Answer, Goto
<1>11. ASSUME NEW p \in Procs, Record(p) PROVE Replayed'
  BY <1>11 DEF Record, Goto
<1>12. ASSUME NEW p \in Procs, Crash(p) PROVE Replayed'
  BY <1>12 DEF Crash, Goto
<1>13. CASE UNCHANGED vars
  BY <1>13 DEF vars
<1> QED BY <1>1, <1>2, <1>3, <1>4, <1>5, <1>6, <1>7, <1>8, <1>9, <1>10, <1>11, <1>12, <1>13 DEF Next, Step

\* Where a worktree in doubt can be.
LEMMA PlaceStep ==
  ASSUME NoRematch, Induction, Place, [Next]_vars
  PROVE  Place'
<1> USE LedgerAssumption DEF TypeOK, Ops, Inside, Induction, Locks, Called, Ledger, Place, P, InDoubt, ledger, caller
<1>1. ASSUME NEW p \in Procs, Call(p) PROVE Place'
  BY <1>1 DEF Call, PromotionStops, Answer, Goto
<1>2. ASSUME NEW p \in Procs, Lock(p) PROVE Place'
  BY <1>2 DEF Lock, Goto
<1>3. ASSUME NEW p \in Procs, Replay(p) PROVE Place'
  BY <1>3 DEF Replay, Answer, Goto
<1>4. ASSUME NEW p \in Procs, Intend(p) PROVE Place'
  BY <1>4 DEF Intend, Goto
<1>5. ASSUME NEW p \in Procs, NoChange(p) PROVE Place'
  BY <1>5 DEF NoChange, Answer, Commit, Goto
<1>6. ASSUME NEW p \in Procs, CheckPatch(p) PROVE Place'
  <2>1. pc[p] = "intended" /\ P # Empty /\ UNCHANGED <<content, ledger, prior, effects, caller>>
    BY <1>6, CheckPatchGoes DEF P
  <2>2. CASE Checked(p) = "refused" /\ Answer(p, "refused")
    BY <2>1, <2>2 DEF Answer, Goto
  <2>3. CASE /\ Checked(p) \in {"apply", "check"} /\ Goto(p, Checked(p))
             /\ UNCHANGED <<answer, lock>>
    <3>1. InDoubt /\ before[current] \in Contents
      BY <2>1
    <3>2. Checked(p) = "check" => content = before[current] \/ Forward[P][before[current]] = content
      BY <3>1, CheckedMeans DEF Applies
    <3> QED BY <2>1, <2>3, <3>2 DEF Goto
  <2> QED BY <1>6, <2>2, <2>3, CheckPatchGoes
<1>7. ASSUME NEW p \in Procs, GitApply(p) PROVE Place'
  <2>1. current \in Ops /\ P \in Patches \ {Empty} /\ content \in Contents
        /\ before[current] \in Contents /\ Applies(P) /\ InDoubt
    BY <1>7 DEF GitApply
  <2>2. Forward[P][before[current]] # content
    BY <2>1 DEF NoRematch, Applies
  <2>3. content' = Forward[P][content]
    BY <1>7 DEF GitApply
  <2>4. content' = before[current] \/ Forward[P][before[current]] = content'
    BY <2>1, <2>2, <2>3
  <2> QED BY <1>7, <2>1, <2>4 DEF GitApply, Goto
<1>8. ASSUME NEW p \in Procs, Validate(p) PROVE Place'
  BY <1>8 DEF Validate, Answer, Commit, Goto
<1>9. ASSUME NEW p \in Procs, Invalid(p) PROVE Place'
  BY <1>9 DEF Invalid, Goto
<1>10. ASSUME NEW p \in Procs, Rollback(p) PROVE Place'
  <2>1. current \in Ops /\ P \in Patches /\ content \in Contents /\ Reverses(P) /\ InDoubt
        /\ before[current] \in Contents
    BY <1>10 DEF Rollback
  <2>2. content' \in Contents /\ Forward[P][content'] = content
    BY <1>10, <2>1, ReverseIsBefore DEF Rollback, AfterRollback
  <2>3. content = before[current] \/ Forward[P][before[current]] = content
    BY <1>10, <2>1 DEF Rollback
  <2>4. content' = before[current] \/ Forward[P][content'] = before[current]
    <3>1. CASE content = before[current]
      BY <2>2, <3>1
    <3>2. CASE Forward[P][before[current]] = content
      <4>1. Forward[P][before[current]] = Forward[P][content'] /\ content # Rejected
        BY <2>1, <2>2, <3>2
      <4> QED BY <2>1, <2>2, <3>2, <4>1
    <3> QED BY <2>3, <3>1, <3>2
  <2> QED BY <1>10, <2>1, <2>4 DEF Rollback, Answer, Goto
<1>11. ASSUME NEW p \in Procs, Record(p) PROVE Place'
  BY <1>11 DEF Record, Goto
<1>12. ASSUME NEW p \in Procs, Crash(p) PROVE Place'
  BY <1>12 DEF Crash, Goto
<1>13. CASE UNCHANGED vars
  BY <1>13 DEF vars
<1> QED BY <1>1, <1>2, <1>3, <1>4, <1>5, <1>6, <1>7, <1>8, <1>9, <1>10, <1>11, <1>12, <1>13 DEF Next, Step

\* An operation that has taken effect does not pass the forward check.
LEMMA CountedStep ==
  ASSUME NoRematch, Induction, Counted, [Next]_vars
  PROVE  Counted'
<1> USE LedgerAssumption DEF TypeOK, Ops, Inside, Induction, Locks, Called, Ledger, Counted, P, InDoubt, Applies, ledger, caller
<1>1. ASSUME NEW p \in Procs, Call(p) PROVE Counted'
  BY <1>1 DEF Call, PromotionStops, Answer, Goto
<1>2. ASSUME NEW p \in Procs, Lock(p) PROVE Counted'
  BY <1>2 DEF Lock, Goto
<1>3. ASSUME NEW p \in Procs, Replay(p) PROVE Counted'
  BY <1>3 DEF Replay, Answer, Goto
<1>4. ASSUME NEW p \in Procs, Intend(p) PROVE Counted'
  BY <1>4 DEF Intend, Goto
<1>5. ASSUME NEW p \in Procs, NoChange(p) PROVE Counted'
  <2>1. pc[p] = "intended" /\ P = Empty /\ UNCHANGED <<content, prior, effects, caller>>
    BY <1>5, NoChangeEnds DEF P
  <2>2. CASE Answer(p, "refused") /\ UNCHANGED ledger
    BY <2>1, <2>2 DEF Answer, Goto
  <2>3. CASE Answer(p, "applied") /\ Commit
    BY <2>1, <2>3 DEF Answer, Goto, Commit
  <2> QED BY <1>5, <2>2, <2>3, NoChangeEnds
<1>6. ASSUME NEW p \in Procs, CheckPatch(p) PROVE Counted'
  BY <1>6 DEF CheckPatch, Answer, Goto, Checked
<1>7. ASSUME NEW p \in Procs, GitApply(p) PROVE Counted'
  <2>1. current \in Ops /\ P \in Patches \ {Empty} /\ content \in Contents
        /\ Forward[P][content] # Rejected /\ InDoubt /\ effects[current] \in Int
    BY <1>7 DEF GitApply
  <2>2. effects[current] <= 0
    BY <2>1
  <2>3. effects' = [effects EXCEPT ![current] = @ + 1]
    BY <1>7 DEF GitApply
  <2>4. \A op \in Ops : effects'[op] <= 1 /\ (op > current => effects'[op] = 0)
    BY <2>1, <2>2, <2>3
  <2>5. Forward[P][content'] = Rejected
    BY <1>7, <2>1 DEF GitApply, NoRematch
  <2> QED BY <1>7, <2>1, <2>4, <2>5 DEF GitApply
<1>8. ASSUME NEW p \in Procs, Validate(p) PROVE Counted'
  BY <1>8 DEF Validate, Answer, Commit, Goto
<1>9. ASSUME NEW p \in Procs, Invalid(p) PROVE Counted'
  BY <1>9 DEF Invalid, Goto
<1>10. ASSUME NEW p \in Procs, Rollback(p) PROVE Counted'
  BY <1>10 DEF Rollback, Answer, Goto
<1>11. ASSUME NEW p \in Procs, Record(p) PROVE Counted'
  BY <1>11 DEF Record, Goto
<1>12. ASSUME NEW p \in Procs, Crash(p) PROVE Counted'
  BY <1>12 DEF Crash, Goto
<1>13. CASE UNCHANGED vars
  BY <1>13 DEF vars
<1> QED BY <1>1, <1>2, <1>3, <1>4, <1>5, <1>6, <1>7, <1>8, <1>9, <1>10, <1>11, <1>12, <1>13 DEF Next, Step

\* Operations are decided in their order.
LEMMA DecidedStep ==
  ASSUME Induction, Decided, [Next]_vars
  PROVE  Decided'
<1> USE LedgerAssumption DEF TypeOK, Ops, Inside, Induction, Locks, Called, Answers, Decided, ledger, caller
<1>1. ASSUME NEW p \in Procs, Call(p) PROVE Decided'
  BY <1>1 DEF Call, PromotionStops, Answer, Goto
<1>2. ASSUME NEW p \in Procs, Lock(p) PROVE Decided'
  BY <1>2 DEF Lock, Goto
<1>3. ASSUME NEW p \in Procs, Replay(p) PROVE Decided'
  BY <1>3 DEF Replay, Answer, Goto
<1>4. ASSUME NEW p \in Procs, Intend(p) PROVE Decided'
  BY <1>4 DEF Intend, Goto
<1>5. ASSUME NEW p \in Procs, NoChange(p) PROVE Decided'
  BY <1>5 DEF NoChange, Answer, Commit, Goto
<1>6. ASSUME NEW p \in Procs, CheckPatch(p) PROVE Decided'
  BY <1>6 DEF CheckPatch, Answer, Goto, Checked
<1>7. ASSUME NEW p \in Procs, GitApply(p) PROVE Decided'
  BY <1>7 DEF GitApply, Goto
<1>8. ASSUME NEW p \in Procs, Validate(p) PROVE Decided'
  BY <1>8 DEF Validate, Answer, Commit, Goto
<1>9. ASSUME NEW p \in Procs, Invalid(p) PROVE Decided'
  BY <1>9 DEF Invalid, Goto
<1>10. ASSUME NEW p \in Procs, Rollback(p) PROVE Decided'
  BY <1>10 DEF Rollback, Answer, Goto
<1>11. ASSUME NEW p \in Procs, Record(p) PROVE Decided'
  <2>1. current \in Ops /\ answer[p] # "none"
    BY <1>11 DEF Record
  <2>2. answer[p] # "pending"
    OBVIOUS
  <2> QED BY <1>11, <2>1, <2>2 DEF Record
<1>12. ASSUME NEW p \in Procs, Crash(p) PROVE Decided'
  BY <1>12 DEF Crash, Goto
<1>13. CASE UNCHANGED vars
  BY <1>13 DEF vars
<1> QED BY <1>1, <1>2, <1>3, <1>4, <1>5, <1>6, <1>7, <1>8, <1>9, <1>10, <1>11, <1>12, <1>13 DEF Next, Step

\* The initial worktree is clean and nothing was called.
LEMMA InductionInit ==
  ASSUME Init
  PROVE  Induction
<1> USE LedgerAssumption DEF Init, Ops
<1>1. TypeOK
  BY DEF TypeOK
<1>2. Locks /\ Called /\ Answers
  BY DEF Locks, Inside, Called, Answers
<1>3. Ledger /\ Position /\ Replayed
  BY DEF Ledger, Position, Replayed, InDoubt
<1> QED BY <1>1, <1>2, <1>3 DEF Induction

\* The induction hypothesis holds in every reachable state, whatever the patches are.
THEOREM InductionHolds ==
  Spec => []Induction
<1>1. Induction /\ [Next]_vars => Induction'
  BY TypeStep, LocksStep, CalledStep, LedgerStep, PositionStep, AnswersStep, ReplayedStep
     DEF Induction
<1> QED BY <1>1, InductionInit, PTL DEF Spec

\* Type correctness: the worktree is always a content git can produce, and only operations with
\* an intent are committed.
THEOREM TypeCorrect ==
  Spec => []TypeOK
<1>1. Induction => TypeOK
  BY DEF Induction
<1> QED BY <1>1, InductionHolds, PTL

\* Two calls never run git or write the ledger of one workspace at once, for any number of
\* callers and kills.
THEOREM CallsExclude ==
  Spec => []MutualExclusion
<1>1. Induction => MutualExclusion
  BY DEF Induction, Locks, MutualExclusion
<1> QED BY <1>1, InductionHolds, PTL

\* A run's refused call leaves the worktree as its operation found it, whatever the patches are.
THEOREM RefusedIsRestored ==
  Spec => []RefusalRestores
<1>1. Induction => RefusalRestores
  BY DEF Induction, Answers, RefusalRestores
<1> QED BY <1>1, InductionHolds, PTL

\* A replayed answer reports a fingerprint that is still true.
THEOREM LedgerCurrent ==
  Spec => []LedgerIsCurrent
<1>1. Induction => LedgerIsCurrent
  BY DEF Induction, Replayed, LedgerIsCurrent
<1> QED BY <1>1, InductionHolds, PTL

\* When no patch applies to its own result, an operation in doubt is where Place says, has taken
\* effect at most once, and operations are decided in order.
THEOREM OnceHolds ==
  NoRematch => (Spec => []Once)
<1>1. Init => Once
  BY LedgerAssumption DEF Init, Ops, Once, Place, Counted, Decided, InDoubt
<1>2. NoRematch /\ Induction /\ Once /\ [Next]_vars => Once'
  BY PlaceStep, CountedStep, DecidedStep DEF Once
<1>3. ASSUME NoRematch PROVE Spec => []Once
  <2>1. Induction /\ Once /\ [Next]_vars => Once'
    BY <1>2, <1>3
  <2> QED BY <1>1, <2>1, InductionHolds, PTL DEF Spec
<1> QED BY <1>3

\* ARCHITECTURE.md on interrupted application: however calls are killed and repeated, an
\* operation's patch is in the worktree at most once, provided no patch applies to its own result.
THEOREM AppliedOnce ==
  NoRematch => (Spec => []AtMostOnce)
<1>1. Once => AtMostOnce
  BY DEF Once, Counted, AtMostOnce
<1>2. ASSUME NoRematch PROVE Spec => []AtMostOnce
  <2>1. Spec => []Once
    BY <1>2, OnceHolds
  <2> QED BY <1>1, <2>1, PTL
<1> QED BY <1>2

-----------------------------------------------------------------------------
(* ApplyOnce.                                                              *)

\* What a caller can rely on: the worktree of an operation in doubt is the one it started from.
SeenContent == IF InDoubt THEN before[current] ELSE content
SeenOutcome == [op \in Ops |-> IF op \in commits THEN "applied" ELSE outcome[op]]

\* The operation that is called is the one that is due.
LEMMA CalledIsDue ==
  ASSUME Induction, Once, current \in Ops \ commits
  PROVE  /\ SeenOutcome[current] = "pending"
         /\ \A op \in 1..(current - 1) : SeenOutcome[op] # "pending"
<1> USE LedgerAssumption DEF Once, Decided, Ops
<1>1. SeenOutcome[current] = "pending"
  BY DEF SeenOutcome
<1>2. ASSUME NEW op \in 1..(current - 1) PROVE SeenOutcome[op] # "pending"
  <2>1. op \in Ops /\ ~(op >= current)
    OBVIOUS
  <2> QED BY <2>1 DEF SeenOutcome
<1> QED BY <1>1, <1>2

\* The commit ledger is the moment an operation takes effect.
LEMMA CommitTakes ==
  ASSUME Induction, Once, NEW i \in Ops, i = current, InDoubt, Commit, UNCHANGED <<content, outcome, patchOf, current>>,
         \/ Forward[P][before[current]] = content
         \/ before[current] = content /\ Reverses(P)
  PROVE  Abstract!Take(i)
<1> USE DEF Induction
<1>1. current \in Ops /\ SeenContent = before[current] /\ SeenContent' = content
  BY DEF TypeOK, InDoubt, SeenContent, Commit
<1>2. content \in Contents
  BY DEF TypeOK
<1>3. SeenOutcome[i] = "pending" /\ \A op \in 1..(i - 1) : SeenOutcome[op] # "pending"
  BY <1>1, CalledIsDue DEF InDoubt
<1>4. SeenOutcome' = [SeenOutcome EXCEPT ![i] = "applied"]
  BY <1>1 DEF SeenOutcome, Commit
<1>5. Forward[P][SeenContent] = SeenContent'
        \/ (SeenContent' = SeenContent /\ \E c \in Contents : Forward[P][c] = SeenContent)
  BY <1>1 DEF Reverses
<1> QED BY <1>1, <1>2, <1>3, <1>4, <1>5
     DEF Abstract!Take, Abstract!Due, Abstract!Present, SeenContent, SeenOutcome, InDoubt, P

\* Recording a refusal or a broken rollback ends an operation that was not committed.
LEMMA RecordEnds ==
  ASSUME Induction, Once, NEW p \in Procs, Record(p), NEW i \in Ops, i = current
  PROVE  \/ UNCHANGED <<SeenContent, SeenOutcome, patchOf>>
         \/ Abstract!Refuse(i) \/ Abstract!Break(i)
<1> USE DEF Induction
<1>1. leased /\ content \in Contents /\ ~InDoubt'
  <2>1. current' = current + 1 /\ UNCHANGED <<intents, commits>>
    BY DEF Record, ledger
  <2>2. current + 1 \notin intents
    BY LedgerAssumption DEF TypeOK, Ledger, Ops
  <2> QED BY <2>1, <2>2 DEF Record, InDoubt, TypeOK
<1>2. SeenContent' = content /\ UNCHANGED <<content, commits, patchOf>>
  BY <1>1 DEF SeenContent, Record, ledger
<1>3. outcome' = [outcome EXCEPT ![current] = answer[p]]
  BY DEF Record
<1>4. CASE current \in commits
  BY <1>1, <1>2, <1>3, <1>4 DEF SeenContent, SeenOutcome, InDoubt, TypeOK
<1>5. CASE current \notin commits
  <2>1. answer[p] \in {"refused", "broken"}
    BY <1>5 DEF TypeOK, Answers, Record
  <2>2. SeenOutcome[i] = "pending" /\ \A op \in 1..(i - 1) : SeenOutcome[op] # "pending"
    BY <1>5, CalledIsDue
  <2>3. SeenOutcome' = [SeenOutcome EXCEPT ![i] = answer[p]]
    BY <1>1, <1>2, <1>3, <1>5 DEF SeenOutcome, TypeOK
  <2>4. answer[p] = "refused" => SeenContent' = SeenContent
    BY <1>1, <1>2 DEF SeenContent, InDoubt, Answers
  <2> QED BY <1>1, <1>2, <2>1, <2>2, <2>3, <2>4
       DEF Abstract!Refuse, Abstract!Break, Abstract!Due, SeenContent, SeenOutcome, InDoubt
<1> QED BY <1>4, <1>5

\* No other step is seen.
LEMMA RestUnseen ==
  ASSUME Induction, NEW p \in Procs,
         Call(p) \/ Lock(p) \/ Replay(p) \/ Intend(p) \/ CheckPatch(p) \/ GitApply(p)
           \/ Invalid(p) \/ Rollback(p) \/ Crash(p)
  PROVE  UNCHANGED <<SeenContent, SeenOutcome, patchOf>>
<1> USE DEF Induction, SeenContent, SeenOutcome, InDoubt, ledger, caller
<1>1. CASE Call(p) \/ Lock(p) \/ Replay(p) \/ Invalid(p) \/ Crash(p)
  BY <1>1 DEF Call, Lock, Replay, Invalid, Crash
<1>2. CASE Intend(p)
  <2>1. current \in Ops
    BY <1>2 DEF Intend, Called
  <2> QED BY <1>2, <2>1 DEF Intend, TypeOK
<1>3. CASE CheckPatch(p)
  BY <1>3, CheckPatchGoes
<1>4. CASE GitApply(p)
  BY <1>4 DEF GitApply, Ledger
<1>5. CASE Rollback(p)
  BY <1>5 DEF Rollback, Ledger
<1> QED BY <1>1, <1>2, <1>3, <1>4, <1>5

\* The ledger protocol makes every operation atomic for its callers.
LEMMA RefinesStep ==
  ASSUME Induction, Once, [Next]_vars
  PROVE  [Abstract!Next]_<<SeenContent, SeenOutcome, patchOf>>
<1>1. ASSUME NEW p \in Procs, NoChange(p) PROVE [Abstract!Next]_<<SeenContent, SeenOutcome, patchOf>>
  <2>1. InDoubt /\ P = Empty /\ content = before[current] /\ content \in Contents
        /\ Forward[P][content] = content /\ current \in Ops
    BY <1>1, NoChangeEnds, LedgerAssumption DEF Induction, TypeOK, Ledger, Position, Called, P
  <2>2. UNCHANGED <<content, outcome, patchOf, current>>
    BY <1>1, NoChangeEnds DEF caller
  <2>3. CASE Answer(p, "refused") /\ UNCHANGED ledger
    BY <2>2, <2>3 DEF ledger, SeenContent, SeenOutcome, InDoubt
  <2>4. CASE Commit
    <3>1. PICK i \in Ops : i = current
      BY <2>1
    <3>2. Abstract!Take(i)
      BY <2>1, <2>2, <2>4, <3>1, CommitTakes
    <3> QED BY <3>2 DEF Abstract!Next, Abstract!Ops, Ops
  <2> QED BY <1>1, <2>3, <2>4, NoChangeEnds
<1>2. ASSUME NEW p \in Procs, Validate(p) PROVE [Abstract!Next]_<<SeenContent, SeenOutcome, patchOf>>
  <2>1. /\ InDoubt /\ current \in Ops /\ Reverses(P)
        /\ content = before[current] \/ Forward[P][before[current]] = content
    BY <1>2 DEF Validate, Induction, Called, Ledger, Once, Place
  <2>2. Commit /\ UNCHANGED <<content, outcome, patchOf, current>>
    BY <1>2 DEF Validate, caller
  <2>3. PICK i \in Ops : i = current
    BY <2>1
  <2>4. Abstract!Take(i)
    BY <2>1, <2>2, <2>3, CommitTakes
  <2> QED BY <2>4 DEF Abstract!Next, Abstract!Ops, Ops
<1>3. ASSUME NEW p \in Procs, Record(p) PROVE [Abstract!Next]_<<SeenContent, SeenOutcome, patchOf>>
  <2>1. PICK i \in Ops : i = current
    BY <1>3 DEF Induction, Called, Record
  <2> QED BY <1>3, <2>1, RecordEnds DEF Abstract!Next, Abstract!Ops, Ops
<1>4. CASE UNCHANGED vars
  BY <1>4 DEF vars, ledger, SeenContent, SeenOutcome, InDoubt
<1> QED BY <1>1, <1>2, <1>3, <1>4, RestUnseen DEF Next, Step

\* The refinement, for any contents, patches, callers and kills: apply_patch is ApplyOnce,
\* provided no patch applies to its own result.
THEOREM OnceImplemented ==
  NoRematch => (Spec => ImplementsApplyOnce)
<1>1. Init => Abstract!Init
  BY LedgerAssumption DEF Init, Abstract!Init, Ops, Abstract!Ops
<1>2. Induction /\ Once /\ [Next]_vars => [Abstract!Next]_(Abstract!vars)
  BY RefinesStep DEF Abstract!vars, SeenContent, SeenOutcome, InDoubt
<1>3. ASSUME NoRematch PROVE Spec => ImplementsApplyOnce
  <2>1. Spec => []Once
    BY <1>3, OnceHolds
  <2> QED BY <1>1, <1>2, <2>1, InductionHolds, PTL DEF Spec, ImplementsApplyOnce, Abstract!Spec
<1> QED BY <1>3
=============================================================================
