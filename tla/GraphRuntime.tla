----------------------------- MODULE GraphRuntime -----------------------------
(***************************************************************************)
(* One run of GraphRuntime.run over the default repository graph, in       *)
(* workspace mode: the loop of _run_locked, the twelve operators, the      *)
(* checkpoint commit, pauses, crashes between an operator's effect and its *)
(* checkpoint, and a person editing the worktree.                          *)
(*                                                                         *)
(* run is the durable row, mem the in-memory copy of its data after the    *)
(* current operator's delta.  Worktree content is a pair of version        *)
(* numbers: what `git diff HEAD` shows and what only untracked files hold. *)
(***************************************************************************)
EXTENDS CodingGraph

CONSTANTS Budgets,       \* the budgets a run may be created with
          MaxCrashes,    \* bound on failures between two checkpoints
          MaxEdits       \* bound on outside edits of the worktree

ASSUME BudgetAssumption ==
  /\ Budgets \subseteq [steps : Nat \ {0}, llm : Nat, tools : Nat]
  /\ MaxCrashes \in Nat /\ MaxEdits \in Nat

VARIABLES
  run,        \* the runs row: status, checkpoint, counters and data
  mem,        \* state.data in the process, ahead of run.data after an operator
  pc,         \* "down": no run() call; "ready": top of the loop; "ran": operator returned
  worktree,   \* fingerprint of the worktree
  ledger,     \* checkpoints (step counts) whose apply has a committed operation
  exported,   \* the tracked content in verified.patch, -1 while there is none
  crashes, edits

vars == <<run, mem, pc, worktree, ledger, exported, crashes, edits>>

Verdicts == {"none", "pass", "fail"}
Fingerprints == [tracked : Nat, untracked : Nat]
Reports == [verdict : Verdicts, at : Fingerprints]
NoReport == [verdict |-> "none", at |-> [tracked |-> 0, untracked |-> 0]]

\* The keys of state.data that operators or conditions read.
Data == [route : {"none", "fast", "planned"},       \* planned: deep or repair
         verdict : {"none", "pending", "pass", "fail"},
         plan : BOOLEAN, planRev : Nat, repairs : Nat,
         pending : BOOLEAN,                         \* pending_patch is set
         apply : Verdicts,                          \* apply_report.verdict
         candidate : Reports, test : Reports, review : Reports,
         stage : {"none", "apply", "tests", "review"}]   \* diagnosis.failed_stage

Runs == [status : {"absent", "running", "completed", "failed"},
         node : Nodes, last : Nodes \cup {"none"},  \* completed_nodes[-1]
         counts : [Edges -> Nat], steps : Nat, llm : Nat, tools : Nat,
         budget : Budgets,
         over : SUBSET {"tokens", "seconds"},       \* budgets already reached
         data : Data, error : {"none", "abort", "budget"},
         badPlan : BOOLEAN]                         \* "[bad-plan]" is in the task

NewData == [route |-> "none", verdict |-> "none", plan |-> FALSE, planRev |-> 0,
            repairs |-> 0, pending |-> FALSE, apply |-> "none",
            candidate |-> NoReport, test |-> NoReport, review |-> NoReport,
            stage |-> "none"]

Init ==
  /\ \E budget \in Budgets, bad \in BOOLEAN :
       run = [status |-> "absent", node |-> Start, last |-> "none",
              counts |-> [e \in Edges |-> 0], steps |-> 0, llm |-> 0, tools |-> 0,
              budget |-> budget, over |-> {}, data |-> NewData,
              error |-> "none", badPlan |-> bad]
  /\ mem = NewData
  /\ pc = "down"
  /\ worktree = [tracked |-> 0, untracked |-> 0]
  /\ ledger = {}
  /\ exported = -1
  /\ crashes = 0
  /\ edits = 0

outside == <<crashes, edits>>
effects == <<worktree, ledger, exported>>

-----------------------------------------------------------------------------
(* Starting, resuming, pausing and losing the process.                     *)

\* run() with a task: no row exists, so create_run inserts the first checkpoint.
CreateRun ==
  /\ pc = "down" /\ run.status = "absent"
  /\ run' = [run EXCEPT !.status = "running"]
  /\ pc' = "ready"
  /\ UNCHANGED <<mem, effects, outside>>

\* run() on an existing row; a completed or failed one is returned as it is.
Resume ==
  /\ pc = "down" /\ run.status = "running"
  /\ pc' = "ready" /\ mem' = run.data
  /\ UNCHANGED <<run, effects, outside>>

\* stop_after_steps: the call returns the checkpoint it has reached.
Pause ==
  /\ pc = "ready"
  /\ pc' = "down"
  /\ UNCHANGED <<run, mem, effects, outside>>

\* The process dies, or an operator raises: whatever it did stays, the delta is lost.
Crash ==
  /\ pc \in {"ready", "ran"} /\ crashes < MaxCrashes
  /\ crashes' = crashes + 1
  /\ pc' = "down" /\ mem' = run.data
  /\ UNCHANGED <<run, effects, edits>>

\* Somebody edits or adds a file in the worktree.
EditWorktree ==
  /\ run.status = "running" /\ edits < MaxEdits
  /\ edits' = edits + 1
  /\ \E part \in {"tracked", "untracked"} :
       worktree' = [worktree EXCEPT ![part] = @ + 1]
  /\ UNCHANGED <<run, mem, pc, ledger, exported, crashes>>

\* A mutant: the comparisons admit one more call than the budget.
BudgetViolatedLate(r) ==
  \/ r.steps > r.budget.steps
  \/ r.node \in LlmNodes /\ (r.llm > r.budget.llm \/ "tokens" \in r.over)
  \/ r.node \in ToolNodes /\ r.tools > r.budget.tools
  \/ "seconds" \in r.over

\* budget_violations before the next step.  The no-progress budget is left out: every
\* progress key starts with its node's name and no edge is a self-loop.
BudgetViolated(r) ==
  \/ r.steps >= r.budget.steps
  \/ r.node \in LlmNodes /\ (r.llm >= r.budget.llm \/ "tokens" \in r.over)
  \/ r.node \in ToolNodes /\ r.tools >= r.budget.tools
  \/ "seconds" \in r.over

\* _check_budget: save the failure, write budget_exceeded, raise.
BudgetStop ==
  /\ pc = "ready" /\ BudgetViolated(run)
  /\ run' = [run EXCEPT !.status = "failed", !.error = "budget"]
  /\ pc' = "down"
  /\ UNCHANGED <<mem, effects, outside>>

-----------------------------------------------------------------------------
(* The operators.  Each runs on the checkpoint's data and leaves its delta *)
(* merged in mem; side effects on the worktree happen here.                *)

Running(n) == pc = "ready" /\ run.node = n /\ ~BudgetViolated(run)

\* The operator of n returned, with data d to be checkpointed.
Returns(d) == mem' = d /\ pc' = "ran" /\ UNCHANGED <<run, outside>>

RouteTask ==
  /\ Running("intake")
  /\ \E route \in {"fast", "planned"} :
       Returns([mem EXCEPT !.route = route, !.verdict = "pending"])
  /\ UNCHANGED effects

CollectContext ==
  /\ Running("context")
  /\ Returns(mem)
  /\ UNCHANGED effects

\* make_plan substitutes default steps for an empty plan, so a plan always has some.
MakePlan ==
  /\ Running("plan")
  /\ Returns([mem EXCEPT !.plan = TRUE, !.verdict = "pending"])
  /\ UNCHANGED effects

CheckPlan ==
  /\ Running("plan_check")
  /\ LET passed == mem.plan /\ ~(run.badPlan /\ mem.planRev = 0)
     IN  Returns([mem EXCEPT !.verdict = IF passed THEN "pass" ELSE "fail",
                             !.planRev = IF passed THEN @ ELSE @ + 1])
  /\ UNCHANGED effects

Implement ==
  /\ Running("implement")
  /\ Returns([mem EXCEPT !.pending = TRUE, !.verdict = "pending"])
  /\ UNCHANGED effects

\* The delta of a failed apply_candidate: evidence of earlier rounds is dropped.
ApplyFailed(d) ==
  [d EXCEPT !.verdict = "fail", !.apply = "fail", !.pending = FALSE,
            !.test = NoReport, !.review = NoReport]

\* A mutant: the report and the review of the previous round survive a new application.
ApplyPassedKeepsEvidence(d, at) ==
  [d EXCEPT !.verdict = "pass", !.apply = "pass", !.pending = FALSE,
            !.candidate = [verdict |-> "pass", at |-> at], !.stage = "none"]

\* The delta of a successful apply_candidate, with the fingerprint it saw.
ApplyPassed(d, at) ==
  [d EXCEPT !.verdict = "pass", !.apply = "pass", !.pending = FALSE,
            !.candidate = [verdict |-> "pass", at |-> at],
            !.test = NoReport, !.review = NoReport, !.stage = "none"]

\* apply_candidate.  landed: apply_patch returned; seen: current_evidence did too; empty:
\* the proposal is an empty diff with no_changes_needed.  A committed operation is replayed
\* without touching the worktree; its key hashes the checkpoint, which the step count names.
ApplyCandidate ==
  /\ Running("apply")
  /\ \E landed, seen, empty \in BOOLEAN :
       LET after == IF landed /\ ~empty /\ run.steps \notin ledger
                    THEN [worktree EXCEPT !.tracked = @ + 1] ELSE worktree
       IN  IF mem.pending
           THEN /\ Returns(IF landed /\ seen THEN ApplyPassed(mem, after)
                                             ELSE ApplyFailed(mem))
                /\ worktree' = after
                /\ ledger' = IF landed THEN ledger \cup {run.steps} ELSE ledger
           ELSE Returns(ApplyFailed(mem)) /\ UNCHANGED <<worktree, ledger>>
  /\ UNCHANGED exported

\* A mutant: passing commands decide alone, whatever they did to the worktree.
TestVerdictIgnoringChanges(ok, touched) == IF ok THEN "pass" ELSE "fail"

\* The verdict of run_tests: commands passed and the fingerprint did not move.
TestVerdict(ok, touched) == IF ok /\ touched = "nothing" THEN "pass" ELSE "fail"

\* run_tests: the commands pass or not, and may rewrite tracked or add untracked files.
RunTests ==
  /\ Running("tests")
  /\ IF mem.verdict = "pass" /\ mem.candidate.verdict = "pass"
     THEN \E ok \in BOOLEAN, touched \in {"nothing", "tracked", "untracked"} :
            /\ worktree' = IF touched = "nothing" THEN worktree
                           ELSE [worktree EXCEPT ![touched] = @ + 1]
            /\ LET verdict == TestVerdict(ok, touched)
               IN  Returns([mem EXCEPT !.verdict = verdict,
                              !.test = [verdict |-> verdict, at |-> worktree']])
     ELSE /\ Returns([mem EXCEPT !.verdict = "fail",
                        !.test = [NoReport EXCEPT !.verdict = "fail"]])
          /\ UNCHANGED worktree
  /\ UNCHANGED <<ledger, exported>>

\* A mutant: the reviewer does not compare the test fingerprint with the worktree.
NeverStale(d) == FALSE

\* review's check that the worktree is still the one the tests ran on.
Stale(d) == d.test.at # worktree

\* review: blocked or stale evidence fails without a model call and leaves data.review.
Review ==
  /\ Running("review")
  /\ IF mem.verdict # "pass" \/ Stale(mem)
     THEN Returns([mem EXCEPT !.verdict = "fail"])
     ELSE \E verdict \in {"pass", "fail"} :
            Returns([mem EXCEPT !.verdict = verdict,
                       !.review = [verdict |-> verdict, at |-> worktree]])
  /\ UNCHANGED effects

\* diagnose's choice of failed_stage.
FailedStage(d) ==
  IF d.review.verdict = "fail" THEN "review"
  ELSE IF d.apply = "fail" THEN "apply" ELSE "tests"

Diagnose ==
  /\ Running("diagnose")
  /\ Returns([mem EXCEPT !.stage = FailedStage(mem)])
  /\ UNCHANGED effects

\* A mutant: the repair counter is not advanced.
RepairUncounted(d) == [d EXCEPT !.pending = TRUE, !.verdict = "pending"]

\* The delta of repair.
Repaired(d) ==
  [d EXCEPT !.repairs = @ + 1, !.pending = TRUE, !.verdict = "pending"]

Repair ==
  /\ Running("repair")
  /\ Returns(Repaired(mem))
  /\ UNCHANGED effects

\* finalize: export_patch writes `git diff HEAD` to verified.patch.
Finalize ==
  /\ Running("finish")
  /\ exported' = worktree.tracked
  /\ Returns(mem)
  /\ UNCHANGED <<worktree, ledger>>

\* abort: failed.patch is a best-effort diagnostic that nothing reads back.
Abort ==
  /\ Running("abort")
  /\ Returns(mem)
  /\ UNCHANGED effects

-----------------------------------------------------------------------------
(* The checkpoint.                                                         *)

\* A mutant: the operator's delta is left out of the checkpoint.
CountedWithoutData(r, over) ==
  [r EXCEPT !.last = r.node, !.steps = @ + 1, !.over = @ \cup over,
            !.llm = IF r.node \in LlmNodes THEN @ + 1 ELSE @,
            !.tools = IF r.node \in ToolNodes THEN @ + 1 ELSE @]

\* A mutant: a model step is counted as a tool step too (if for elif).
CountedTwice(r, over) ==
  [r EXCEPT !.data = mem, !.last = r.node, !.steps = @ + 1, !.over = @ \cup over,
            !.llm = IF r.node \in LlmNodes THEN @ + 1 ELSE @,
            !.tools = IF r.node \in LlmNodes \cup ToolNodes THEN @ + 1 ELSE @]

\* apply_node_result's bookkeeping for a step whose operator just returned.
Counted(r, over) ==
  [r EXCEPT !.data = mem, !.last = r.node, !.steps = @ + 1, !.over = @ \cup over,
            !.llm = IF r.node \in LlmNodes THEN @ + 1 ELSE @,
            !.tools = IF r.node \in ToolNodes THEN @ + 1 ELSE @]

\* The final status of a terminal node.
Finished(r) ==
  IF r.node = "abort"
  THEN [r EXCEPT !.status = "failed", !.error = "abort"]
  ELSE [r EXCEPT !.status = "completed"]

\* A mutant: the checkpoint keeps the data and loses the counters and the next node.
FollowUnsaved(r, e) == [run EXCEPT !.data = mem]

\* Follow the controller's edge.
Follow(r, e) == [r EXCEPT !.counts[e] = @ + 1, !.node = e[2]]

\* apply_node_result and commit_step: the step's result, counters and next node are one
\* transaction.  Without a candidate edge the call raises and nothing is saved.
CommitStep ==
  /\ pc = "ran"
  /\ \E over \in {{}, {"tokens"}, {"seconds"}} :
       LET r == Counted(run, over)
           candidates == ValidOutgoing(run.counts, mem, run.node)
       IN  IF run.node \in Terminals
           THEN run' = Finished(r) /\ pc' = "down" /\ UNCHANGED mem
           ELSE IF candidates = {}
           THEN pc' = "down" /\ mem' = run.data /\ UNCHANGED run
           ELSE /\ \E e \in candidates : run' = Follow(r, e)
                /\ pc' = "ready" /\ UNCHANGED mem
  /\ UNCHANGED <<effects, outside>>

Operate == \/ RouteTask \/ CollectContext \/ MakePlan \/ CheckPlan \/ Implement
           \/ ApplyCandidate \/ RunTests \/ Review \/ Diagnose \/ Repair
           \/ Finalize \/ Abort

Loop == BudgetStop \/ Operate \/ CommitStep

Next == CreateRun \/ Resume \/ Pause \/ Crash \/ EditWorktree \/ Loop

Spec == Init /\ [][Next]_vars

\* A run() call that is not killed keeps executing its loop.
FairSpec == Spec /\ WF_vars(Loop)

-----------------------------------------------------------------------------
(* Properties.                                                             *)

\* Every variable keeps its type; outside a step the process holds the checkpointed data.
TypeOK ==
  /\ run \in Runs /\ mem \in Data
  /\ pc \in {"down", "ready", "ran"}
  /\ pc # "ran" => mem = run.data
  /\ worktree \in Fingerprints
  /\ ledger \subseteq Nat
  /\ exported \in Nat \cup {-1}
  /\ crashes \in 0..MaxCrashes /\ edits \in 0..MaxEdits

\* Data that lets a run be completed: the last application, test and review passed, and the
\* review looked at the very worktree the tests ran on.
Verified(d) ==
  /\ d.apply = "pass" /\ d.test.verdict = "pass" /\ d.review.verdict = "pass"
  /\ d.review.at = d.test.at

\* However the process is killed, resumed or the worktree edited, a completed run holds
\* passing evidence of all three gates, tests and review on one fingerprint
\* (apply_candidate's resets, run_tests, review's stale check, the edge conditions).
VerifiedCompletion == run.status = "completed" => Verified(run.data)

\* The evidence the run must hold to stand at node n.
Evidence(n, d) ==
  /\ n \in {"tests", "review", "finish"} => d.apply = "pass"
  /\ n \in {"review", "finish"} => d.test.verdict = "pass"
  /\ n = "finish" => Verified(d)

\* The induction behind VerifiedCompletion: a checkpoint in front of a gate holds the
\* evidence of the gates before it, and so does a result that opens the next one (each
\* operator may rely on what the conditions on the edges let through, at every resume).
EvidenceAtGates ==
  /\ run.status = "absent" => run.node = Start
  /\ run.status = "completed" => run.node = "finish"
  /\ pc # "down" => run.status = "running"
  /\ run.status \in {"running", "completed"} => Evidence(run.node, run.data)
  /\ pc = "ran" =>
       /\ \A e \in OnPass : e[1] = run.node /\ mem.verdict = "pass" => Evidence(e[2], mem)
       /\ run.node = "finish" => mem = run.data

\* Undisturbed, the exported patch is the content that was applied, tested and reviewed
\* (run_tests fails a verdict whose commands changed the worktree).
VerifiedContent ==
  run.status = "completed" /\ crashes = 0 /\ edits = 0 =>
    /\ exported = run.data.candidate.at.tracked
    /\ run.data.test.at = run.data.candidate.at

\* With the caps of the file a finished step has exactly one edge to follow: no run dies for
\* want of an edge, caps included, and no controller can change a run's path.
ExactlyOneSuccessor ==
  pc = "ran" /\ run.node \notin Terminals =>
    \E e \in Edges : ValidOutgoing(run.counts, mem, run.node) = {e}

\* The longest path, two plans and two repairs, fits in 21 steps, 10 model and 9 tool calls,
\* which Budget's defaults of 24, 12 and 24 exceed: such a run stops only on tokens or time.
BudgetsSuffice ==
  /\ run.error = "budget"
  /\ run.budget.steps >= 21 /\ run.budget.llm >= 10 /\ run.budget.tools >= 9
  => run.over # {}

\* No checkpoint has spent more steps, model calls or tool calls than its budget
\* (budget_violations is asked before every step).
BudgetRespected ==
  /\ run.steps <= run.budget.steps
  /\ run.llm <= run.budget.llm
  /\ run.tools <= run.budget.tools

\* Every edge has been followed at most as often as its cap allows, for any caps.
CapsRespected == \A e \in Edges : run.counts[e] <= Cap[e]

\* The induction behind BudgetRespected: an operator runs only when no counter it will
\* advance stands at its budget.
BudgetInduction ==
  /\ BudgetRespected /\ CapsRespected
  /\ pc = "ran" => ~BudgetViolated(run)

\* The induction behind ImplementsGate: only the repair node advances the repair counter.
RepairsCounted ==
  pc = "ran" => mem.repairs = run.data.repairs + (IF run.node = "repair" THEN 1 ELSE 0)

\* The inductive invariant of the run: every step of any process, crash or edit keeps the
\* evidence, the counters and the types together.
Induction == TypeOK /\ EvidenceAtGates /\ BudgetInduction /\ RepairsCounted

\* The diagnosis names the gate that has just failed, never one of an earlier round; only a
\* review that found the worktree changed sends the candidate back as a test failure.
DiagnosesLatestFailure ==
  pc = "ran" /\ run.node = "diagnose" =>
    \/ mem.stage = run.last
    \/ run.last = "review" /\ mem.review = NoReport /\ mem.stage = "tests"

\* What ARCHITECTURE.md says of the exported patch: it reaches the final worktree, so no
\* content is left in files that `git diff HEAD` does not show.
ExportIsFinalWorktree == run.status = "completed" => worktree.untracked = 0

\* What ARCHITECTURE.md says of verifiers that change tracked source: in a run nobody edited,
\* what is delivered is what the graph applied, even across crashes.
NoTestMutationDelivered ==
  run.status = "completed" /\ edits = 0 =>
    exported = run.data.candidate.at.tracked

\* The stage of a candidate whose run stands at node n.
StageAt(n) ==
  CASE n = "apply" -> "applying"
    [] n = "tests" -> "testing"
    [] n = "review" -> "reviewing"
    [] n \in {"diagnose", "repair"} -> "repairing"
    [] n = "finish" -> "approved"
    [] n = "abort" -> "rejected"
    [] OTHER -> "proposing"

\* The stage of the candidate at the checkpoint.
GateStage ==
  IF run.status = "completed" THEN "delivered"
  ELSE IF run.status = "failed" THEN "rejected"
  ELSE StageAt(run.node)

Gate == INSTANCE VerificationGate WITH stage <- GateStage, repairs <- run.data.repairs

\* Seen at its checkpoints, the loop implements the verification gate: no delivery without
\* the three verdicts in order, at most two repairs, nothing after a rejection.
ImplementsGate == Gate!Spec

\* A run() call that is not killed returns: the loop can neither spin nor wait for ever.
CallReturns == (pc = "ready") ~> (pc = "down")
=============================================================================
