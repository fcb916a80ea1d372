--------------------------- MODULE GraphRuntimePaths ---------------------------
(***************************************************************************)
(* Where a run can stand: what every operator makes of the checkpointed    *)
(* data, how often the two loops can have been entered at each node, what  *)
(* the steps to it can have cost and which content it can hold.  The       *)
(* first half holds for any caps; the second for the caps of the file or   *)
(* larger ones, which keep every step's one successor open.                *)
(***************************************************************************)
EXTENDS GraphRuntimeProofs

\* What node n makes of the data d it is given, m being what it returns.
Result(n, d, m) ==
  /\ IF n = "intake" THEN m.route \in {"fast", "planned"} ELSE m.route = d.route
  /\ n \in {"plan_check", "apply", "tests", "review"} => m.verdict \in {"pass", "fail"}
  /\ m.planRev = d.planRev + (IF n = "plan_check" /\ m.verdict = "fail" THEN 1 ELSE 0)
  /\ m.repairs = d.repairs + (IF n = "repair" THEN 1 ELSE 0)
  /\ IF n = "apply" THEN m.apply = m.verdict /\ m.review = NoReport ELSE m.apply = d.apply
  /\ n \notin {"apply", "review"} => m.review = d.review
  /\ n = "review" => m.review.verdict = m.verdict \/ (m.review = d.review /\ m.verdict = "fail")
  /\ n = "diagnose" => m.stage = FailedStage(d)

ResultInMemory == pc = "ran" => Result(run.node, run.data, mem)

BeforeRepairs == {"intake", "context", "plan", "plan_check", "implement"}

\* How often plan and repair loops have been entered when the run stands at n.
RoundsAt(n, d) ==
  /\ n # "intake" => d.route \in {"fast", "planned"}
  /\ n # "abort" => d.planRev <= 1
  /\ n \in BeforeRepairs => d.repairs = 0
  /\ d.repairs <= 2
  /\ n \in {"diagnose", "repair"} => d.repairs <= 1

\* The steps to n without a loop, those of them that call a model, and those that use a tool.
StepsTo(n) ==
  CASE n = "intake" -> 0 [] n = "context" -> 1 [] n = "plan" -> 2 [] n = "plan_check" -> 3
    [] n = "implement" -> 4 [] n = "apply" -> 5 [] n = "tests" -> 6 [] n = "review" -> 7
    [] n = "diagnose" -> 8 [] n = "repair" -> 9 [] OTHER -> 8
LlmTo(n) ==
  CASE n \in {"intake", "context", "plan"} -> 0 [] n \in {"plan_check", "implement"} -> 1
    [] n \in {"apply", "tests", "review"} -> 2 [] n = "repair" -> 4 [] OTHER -> 3
ToolsTo(n) ==
  CASE n \in {"intake", "context"} -> 0 [] n \in {"plan", "plan_check"} -> 1
    [] n \in {"implement", "apply"} -> 2 [] n = "tests" -> 3 [] OTHER -> 4

SpentAt(r) ==
  IF r.node = "abort" THEN r.steps <= 20
  ELSE /\ r.steps <= StepsTo(r.node) + 2 * r.data.planRev + 5 * r.data.repairs
       /\ r.llm <= LlmTo(r.node) + r.data.planRev + 3 * r.data.repairs
       /\ r.tools <= ToolsTo(r.node) + r.data.planRev + 2 * r.data.repairs

\* What the run knows of the failure that brought it to n.
FailureAt(n, last, d) ==
  /\ n \in {"tests", "review"} => d.review = NoReport /\ d.apply = "pass"
  /\ n = "diagnose" =>
       \/ last = "apply" /\ d.apply = "fail" /\ d.review = NoReport
       \/ last = "tests" /\ d.apply = "pass" /\ d.review = NoReport
       \/ last = "review" /\ d.apply = "pass" /\ (d.review.verdict = "fail" \/ d.review = NoReport)

\* Nodes in the order a run first meets them; the two loops go back.
Place(n) ==
  CASE n = "intake" -> 1 [] n = "context" -> 2 [] n = "plan" -> 3 [] n = "plan_check" -> 4
    [] n = "implement" -> 5 [] n = "apply" -> 6 [] n = "tests" -> 7 [] n = "review" -> 8
    [] n = "diagnose" -> 9 [] n = "repair" -> 10 [] OTHER -> 11

\* An edge that ends the run is never behind one that goes on.
PlaceOf(e) == IF e[2] \in Terminals THEN 10 ELSE Place(e[1])

PlanLoop == {<<"plan", "plan_check">>, <<"plan_check", "plan">>}
RepairLoop == {<<"apply", "tests">>, <<"tests", "review">>, <<"diagnose", "repair">>,
               <<"repair", "apply">>} \cup OnFailRetry

Rounds(e, d) ==
  IF e \in PlanLoop THEN d.planRev ELSE IF e \in RepairLoop THEN d.repairs ELSE 0

\* An edge has been followed once in each finished round of its loop, and once in this round if
\* the run stands behind it.
TraversalsAt(r) ==
  \A e \in Edges :
    r.counts[e] <= Rounds(e, r.data) + (IF Place(r.node) > PlaceOf(e) THEN 1 ELSE 0)

\* The inductive invariant of a run's path, for any caps.
Unfinished == run.status \in {"absent", "running"}

PathInduction ==
  /\ ResultInMemory
  /\ Unfinished => /\ RoundsAt(run.node, run.data)
                   /\ SpentAt(run)
                   /\ FailureAt(run.node, run.last, run.data)
                   /\ TraversalsAt(run)
  /\ run.error # "none" => run.status = "failed"
  /\ BudgetsSuffice /\ DiagnosesLatestFailure

\* The caps of the file, or larger ones.
FileCaps == \A e \in Edges : Cap[e] >= DefaultCap[e]

-----------------------------------------------------------------------------
(* The operators and the checkpoint, as what they do to these facts.       *)

\* What node n, starting from the checkpointed data, does to the content.
ContentResult ==
  /\ run.node # "apply" => mem'.candidate = mem.candidate
  /\ run.node = "apply" /\ mem'.verdict = "pass" => mem'.candidate.at = worktree'
  /\ run.node \notin {"apply", "tests"} => mem'.test = mem.test /\ worktree' = worktree
  /\ run.node = "tests" /\ mem'.verdict = "pass" =>
       worktree' = worktree /\ mem'.test.at = worktree
  /\ run.node = "finish" => exported' = worktree.tracked

LEMMA OperateResult ==
  ASSUME TypeOK, Operate
  PROVE  /\ pc = "ready" /\ pc' = "ran" /\ run' = run /\ UNCHANGED outside
         /\ mem = run.data /\ ~BudgetViolated(run)
         /\ Result(run.node, run.data, mem') /\ ContentResult
<1>1. /\ pc = "ready" /\ pc' = "ran" /\ run' = run /\ UNCHANGED outside
      /\ mem = run.data /\ ~BudgetViolated(run) /\ mem \in Data
  BY DEF TypeOK, Operate, RouteTask, CollectContext, MakePlan, CheckPlan, Implement,
     ApplyCandidate, RunTests, Review, Diagnose, Repair, Finalize, Abort, Running, Returns
<1>2. ASSUME Result(run.node, mem, mem') /\ ContentResult
      PROVE  Result(run.node, run.data, mem') /\ ContentResult
  BY <1>1, <1>2
<1>3. mem.planRev \in Nat /\ mem.repairs \in Nat
  BY <1>1 DEF Data
<1>4. CASE RouteTask
  <2>1. PICK route \in {"fast", "planned"} :
          mem' = [mem EXCEPT !.route = route, !.verdict = "pending"]
    BY <1>4 DEF RouteTask, Returns
  <2>2. run.node = "intake" /\ worktree' = worktree
    BY <1>4 DEF RouteTask, Running, effects
  <2> QED BY <1>1, <1>2, <1>3, <2>1, <2>2 DEF Result, ContentResult, Data
<1>5. CASE CollectContext
  <2>1. run.node = "context" /\ mem' = mem /\ worktree' = worktree
    BY <1>5 DEF CollectContext, Running, Returns, effects
  <2> QED BY <1>1, <1>2, <1>3, <2>1 DEF Result, ContentResult
<1>6. CASE MakePlan
  <2>1. /\ run.node = "plan" /\ worktree' = worktree
        /\ mem' = [mem EXCEPT !.plan = TRUE, !.verdict = "pending"]
    BY <1>6 DEF MakePlan, Running, Returns, effects
  <2> QED BY <1>1, <1>2, <1>3, <2>1 DEF Result, ContentResult, Data
<1>7. CASE CheckPlan
  <2> DEFINE passed == mem.plan /\ ~(run.badPlan /\ mem.planRev = 0)
  <2>1. /\ run.node = "plan_check" /\ worktree' = worktree
        /\ mem' = [mem EXCEPT !.verdict = IF passed THEN "pass" ELSE "fail",
                              !.planRev = IF passed THEN @ ELSE @ + 1]
    BY <1>7 DEF CheckPlan, Running, Returns, effects
  <2>2. CASE passed
    <3>1. mem' = [mem EXCEPT !.verdict = "pass", !.planRev = mem.planRev]
      BY <2>1, <2>2
    <3> QED BY <1>1, <1>2, <1>3, <2>1, <3>1 DEF Result, ContentResult, Data
  <2>3. CASE ~passed
    <3>1. mem' = [mem EXCEPT !.verdict = "fail", !.planRev = mem.planRev + 1]
      BY <2>1, <2>3
    <3> QED BY <1>1, <1>2, <1>3, <2>1, <3>1 DEF Result, ContentResult, Data
  <2> QED BY <2>2, <2>3
<1>8. CASE Implement
  <2>1. /\ run.node = "implement" /\ worktree' = worktree
        /\ mem' = [mem EXCEPT !.pending = TRUE, !.verdict = "pending"]
    BY <1>8 DEF Implement, Running, Returns, effects
  <2> QED BY <1>1, <1>2, <1>3, <2>1 DEF Result, ContentResult, Data
<1>9. CASE ApplyCandidate
  <2>1. run.node = "apply"
    BY <1>9 DEF ApplyCandidate, Running
  <2>2. \/ mem' = ApplyFailed(mem)
        \/ mem' = ApplyPassed(mem, worktree')
    <3>1. CASE mem.pending
      BY <1>9, <3>1 DEF ApplyCandidate, Returns
    <3>2. CASE ~mem.pending
      BY <1>9, <3>2 DEF ApplyCandidate, Returns
    <3> QED BY <3>1, <3>2
  <2>3. CASE mem' = ApplyFailed(mem)
    BY <1>1, <1>2, <1>3, <2>1, <2>3 DEF ApplyFailed, Result, ContentResult, Data
  <2>4. CASE mem' = ApplyPassed(mem, worktree')
    BY <1>1, <1>2, <1>3, <2>1, <2>4 DEF ApplyPassed, Result, ContentResult, Data
  <2> QED BY <2>2, <2>3, <2>4
<1>10. CASE RunTests
  <2>1. run.node = "tests"
    BY <1>10 DEF RunTests, Running
  <2>2. \E v \in {"pass", "fail"} : \E t :
          /\ mem' = [mem EXCEPT !.verdict = v, !.test = t]
          /\ v = "pass" => worktree' = worktree /\ t.at = worktree
    <3>1. CASE mem.verdict = "pass" /\ mem.candidate.verdict = "pass"
      <4>1. PICK ok \in BOOLEAN, touched \in {"nothing", "tracked", "untracked"} :
              /\ worktree' = IF touched = "nothing" THEN worktree
                             ELSE [worktree EXCEPT ![touched] = @ + 1]
              /\ mem' = [mem EXCEPT !.verdict = TestVerdict(ok, touched),
                           !.test = [verdict |-> TestVerdict(ok, touched), at |-> worktree']]
        BY <1>10, <3>1 DEF RunTests, Returns
      <4>2. /\ TestVerdict(ok, touched) \in {"pass", "fail"}
            /\ TestVerdict(ok, touched) = "pass" => touched = "nothing"
        BY DEF TestVerdict
      <4> DEFINE v == TestVerdict(ok, touched)
                 t == [verdict |-> v, at |-> worktree']
      <4>3. t.at = worktree'
        OBVIOUS
      <4>4. /\ mem' = [mem EXCEPT !.verdict = v, !.test = t]
            /\ v = "pass" => worktree' = worktree /\ t.at = worktree
        BY <4>1, <4>2, <4>3
      <4> QED BY <4>2, <4>4
    <3>2. CASE ~(mem.verdict = "pass" /\ mem.candidate.verdict = "pass")
      <4>1. mem' = [mem EXCEPT !.verdict = "fail", !.test = [NoReport EXCEPT !.verdict = "fail"]]
        BY <1>10, <3>2 DEF RunTests, Returns
      <4> QED BY <4>1
    <3> QED BY <3>1, <3>2
  <2> QED BY <1>1, <1>2, <1>3, <2>1, <2>2 DEF Result, ContentResult, Data
<1>11. CASE Review
  <2>1. run.node = "review" /\ worktree' = worktree
    BY <1>11 DEF Review, Running, effects
  <2>2. CASE mem.verdict # "pass" \/ Stale(mem)
    <3>1. mem' = [mem EXCEPT !.verdict = "fail"]
      BY <1>11, <2>2 DEF Review, Returns
    <3> QED BY <1>1, <1>2, <1>3, <2>1, <3>1 DEF Result, ContentResult, Data
  <2>3. CASE ~(mem.verdict # "pass" \/ Stale(mem))
    <3>1. PICK v \in {"pass", "fail"} :
            mem' = [mem EXCEPT !.verdict = v, !.review = [verdict |-> v, at |-> worktree]]
      BY <1>11, <2>3 DEF Review, Returns
    <3> QED BY <1>1, <1>2, <1>3, <2>1, <3>1 DEF Result, ContentResult, Data
  <2> QED BY <2>2, <2>3
<1>12. CASE Diagnose
  <2>1. /\ run.node = "diagnose" /\ worktree' = worktree
        /\ mem' = [mem EXCEPT !.stage = FailedStage(mem)]
    BY <1>12 DEF Diagnose, Running, Returns, effects
  <2> QED BY <1>1, <1>2, <1>3, <2>1 DEF Result, ContentResult, Data
<1>13. CASE Repair
  <2>1. run.node = "repair" /\ worktree' = worktree /\ mem' = Repaired(mem)
    BY <1>13 DEF Repair, Running, Returns, effects
  <2> QED BY <1>1, <1>2, <1>3, <2>1 DEF Repaired, Result, ContentResult, Data
<1>14. CASE Finalize
  <2>1. run.node = "finish" /\ mem' = mem /\ worktree' = worktree /\ exported' = worktree.tracked
    BY <1>14 DEF Finalize, Running, Returns
  <2> QED BY <1>1, <1>2, <1>3, <2>1 DEF Result, ContentResult
<1>15. CASE Abort
  <2>1. run.node = "abort" /\ mem' = mem /\ worktree' = worktree
    BY <1>15 DEF Abort, Running, Returns, effects
  <2> QED BY <1>1, <1>2, <1>3, <2>1 DEF Result, ContentResult
<1> QED
  BY <1>1, <1>4, <1>5, <1>6, <1>7, <1>8, <1>9, <1>10, <1>11, <1>12, <1>13, <1>14, <1>15
  DEF Operate

\* The edges by their condition.
Enabled(a, b, d) ==
  \/ a = "intake" /\ b = "context"
  \/ a = "context" /\ b = "implement" /\ d.route = "fast"
  \/ a = "context" /\ b = "plan" /\ d.route = "planned"
  \/ a = "plan" /\ b = "plan_check"
  \/ a = "plan_check" /\ b = "implement" /\ d.verdict = "pass"
  \/ a = "plan_check" /\ b = "plan" /\ d.verdict = "fail" /\ d.planRev < 2
  \/ a = "plan_check" /\ b = "abort" /\ d.verdict = "fail" /\ d.planRev >= 2
  \/ a = "implement" /\ b = "apply"
  \/ a = "apply" /\ b = "tests" /\ d.verdict = "pass"
  \/ a = "tests" /\ b = "review" /\ d.verdict = "pass"
  \/ a = "review" /\ b = "finish" /\ d.verdict = "pass"
  \/ a \in {"apply", "tests", "review"} /\ b = "diagnose" /\ d.verdict = "fail" /\ d.repairs < 2
  \/ a \in {"apply", "tests", "review"} /\ b = "abort" /\ d.verdict = "fail" /\ d.repairs >= 2
  \/ a = "diagnose" /\ b = "repair"
  \/ a = "repair" /\ b = "apply"

LEMMA EdgesByCondition ==
  ASSUME NEW e \in Edges, NEW d
  PROVE  When(e, d) <=> Enabled(e[1], e[2], d)
BY DEF When, Enabled, Edges, Unconditional, ByRoute, OnPass, OnFailRetry, OnFailStop, PlanRetry,
   RepairLimit, PlanLimit

\* The step's checkpoint, when the run follows e.
Moves(e) ==
  /\ pc' = "ready" /\ mem' = mem /\ run'.data = mem
  /\ run'.node = e[2] /\ run'.last = run.node /\ run'.status = run.status
  /\ run'.error = run.error /\ run'.budget = run.budget /\ run.over \subseteq run'.over
  /\ run'.counts = [run.counts EXCEPT ![e] = run.counts[e] + 1]
  /\ run'.steps = run.steps + 1
  /\ run'.llm = run.llm + (IF run.node \in LlmNodes THEN 1 ELSE 0)
  /\ run'.tools = run.tools + (IF run.node \in ToolNodes THEN 1 ELSE 0)

\* When the node is a final one.
Closes ==
  /\ run.node \in Terminals /\ pc' = "down" /\ run'.data = mem
  /\ run'.status = IF run.node = "abort" THEN "failed" ELSE "completed"
  /\ run'.error = IF run.node = "abort" THEN "abort" ELSE run.error

LEMMA CommitResult ==
  ASSUME TypeOK, CommitStep
  PROVE  /\ pc = "ran" /\ UNCHANGED <<worktree, exported, crashes, edits>>
         /\ \/ Closes
            \/ /\ run.node \notin Terminals /\ ValidOutgoing(run.counts, mem, run.node) = {}
               /\ pc' = "down" /\ run' = run /\ mem' = run.data
            \/ /\ run.node \notin Terminals
               /\ \E e \in ValidOutgoing(run.counts, mem, run.node) : Moves(e)
<1>1. PICK over \in {{}, {"tokens"}, {"seconds"}} :
        LET r == Counted(run, over)
            candidates == ValidOutgoing(run.counts, mem, run.node)
        IN  IF run.node \in Terminals
            THEN run' = Finished(r) /\ pc' = "down" /\ UNCHANGED mem
            ELSE IF candidates = {}
            THEN pc' = "down" /\ mem' = run.data /\ UNCHANGED run
            ELSE /\ \E e \in candidates : run' = Follow(r, e)
                 /\ pc' = "ready" /\ UNCHANGED mem
  BY DEF CommitStep
<1>2. pc = "ran" /\ UNCHANGED <<worktree, exported, crashes, edits>>
  BY DEF CommitStep, effects, outside
<1> DEFINE r == Counted(run, over)
<1>3. /\ r.data = mem /\ r.last = run.node /\ r.node = run.node /\ r.status = run.status
      /\ r.error = run.error /\ r.budget = run.budget /\ r.over = run.over \cup over
      /\ r.counts = run.counts /\ r.steps = run.steps + 1
      /\ r.llm = run.llm + (IF run.node \in LlmNodes THEN 1 ELSE 0)
      /\ r.tools = run.tools + (IF run.node \in ToolNodes THEN 1 ELSE 0)
  <2>1. run \in Runs /\ run.llm \in Nat /\ run.tools \in Nat
    BY DEF TypeOK, Runs
  <2> QED BY <2>1 DEF Counted, Runs
<1>4. r \in Runs
  BY CountedTyped
<1> HIDE DEF r
<1>5. CASE run.node \in Terminals
  <2>1. run' = Finished(r) /\ pc' = "down"
    BY <1>1, <1>5 DEF r
  <2> QED BY <1>2, <1>3, <1>4, <1>5, <2>1 DEF Finished, Closes, Runs
<1>6. CASE run.node \notin Terminals /\ ValidOutgoing(run.counts, mem, run.node) = {}
  BY <1>1, <1>2, <1>6
<1>7. CASE run.node \notin Terminals /\ ValidOutgoing(run.counts, mem, run.node) # {}
  <2>1. PICK e \in ValidOutgoing(run.counts, mem, run.node) :
          run' = Follow(r, e) /\ pc' = "ready" /\ mem' = mem
    BY <1>1, <1>7 DEF r
  <2>2. Moves(e)
    BY <1>3, <1>4, <2>1 DEF Follow, Moves, Runs
  <2> QED BY <1>2, <1>7, <2>2
<1> QED BY <1>5, <1>6, <1>7

-----------------------------------------------------------------------------
(* The path.                                                               *)

LEMMA PlaceType == \A n \in Nodes : Place(n) \in 1..11 /\ (n \notin Terminals => Place(n) <= 10)
BY DEF Place, Nodes, Terminals

\* The checkpoint that follows an edge.
LEMMA MovePath ==
  ASSUME TypeOK, TypeOK', EvidenceAtGates, PathInduction, pc = "ran",
         NEW e \in ValidOutgoing(run.counts, mem, run.node), Moves(e)
  PROVE  PathInduction'
<1> DEFINE n == run.node
           m == e[2]
           d == run.data
<1>1. /\ run.status = "running" /\ Unfinished /\ run'.status = "running"
      /\ Result(n, d, mem) /\ RoundsAt(n, d) /\ SpentAt(run) /\ FailureAt(n, run.last, d)
      /\ TraversalsAt(run) /\ run.error = "none"
  BY DEF EvidenceAtGates, PathInduction, ResultInMemory, Unfinished, Moves
<1>2. /\ e \in Edges /\ e[1] = n /\ Enabled(n, m, mem)
      /\ n \in Nodes /\ m \in Nodes
  BY EdgesByCondition DEF ValidOutgoing, TypeOK, Runs, Moves
<1>3. /\ d.planRev \in Nat /\ d.repairs \in Nat /\ mem.planRev \in Nat /\ mem.repairs \in Nat
      /\ run.steps \in Nat /\ run.llm \in Nat /\ run.tools \in Nat
      /\ run.counts \in [Edges -> Nat]
  BY DEF TypeOK, Runs, Data
<1>4. /\ run'.node = m /\ run'.data = mem /\ run'.last = n
  BY DEF Moves
<1>5. RoundsAt(m, mem)
  BY <1>1, <1>2, <1>3 DEF Result, RoundsAt, Enabled, BeforeRepairs
<1>6. SpentAt(run')
  <2>1. /\ run'.steps = run.steps + 1
        /\ run'.llm = run.llm + (IF n \in LlmNodes THEN 1 ELSE 0)
        /\ run'.tools = run.tools + (IF n \in ToolNodes THEN 1 ELSE 0)
    BY DEF Moves
  <2>2. CASE m = "abort"
    BY <1>1, <1>2, <1>3, <1>4, <2>1, <2>2 DEF Result, RoundsAt, Enabled, SpentAt, StepsTo
  <2>3. CASE m # "abort"
    <3>1. n # "abort"
      BY <1>2 DEF Enabled
    <3>2. run'.steps <= StepsTo(m) + 2 * mem.planRev + 5 * mem.repairs
      <4>1. run.steps <= StepsTo(n) + 2 * d.planRev + 5 * d.repairs
        BY <1>1, <3>1 DEF SpentAt
      <4>2. /\ \/ mem.planRev = d.planRev /\ mem.repairs = d.repairs
               \/ n = "plan_check" /\ m = "plan"
                    /\ mem.planRev = d.planRev + 1 /\ mem.repairs = d.repairs
               \/ n = "repair" /\ m = "apply"
                    /\ mem.planRev = d.planRev /\ mem.repairs = d.repairs + 1
            /\ \/ StepsTo(n) + 1 <= StepsTo(m)
               \/ n = "plan_check" /\ m = "plan" /\ mem.planRev = d.planRev + 1
               \/ n = "repair" /\ m = "apply"
        BY <1>1, <1>2, <1>3, <2>3 DEF Result, Enabled, StepsTo
      <4>3. StepsTo(n) \in 0..9 /\ StepsTo(m) \in 0..9
        BY DEF StepsTo
      <4>4. CASE StepsTo(n) + 1 <= StepsTo(m)
        BY <1>3, <2>1, <4>1, <4>2, <4>3, <4>4
      <4>5. CASE n = "plan_check" /\ m = "plan" /\ mem.planRev = d.planRev + 1
        BY <1>3, <2>1, <4>1, <4>2, <4>5 DEF StepsTo
      <4>6. CASE n = "repair" /\ m = "apply"
        BY <1>1, <1>3, <2>1, <4>1, <4>6 DEF Result, StepsTo
      <4> QED BY <4>2, <4>4, <4>5, <4>6
    <3>3. run'.llm <= LlmTo(m) + mem.planRev + 3 * mem.repairs
      BY <1>1, <1>2, <1>3, <2>1, <2>3, <3>1 DEF Result, Enabled, SpentAt, LlmTo, LlmNodes
    <3>4. run'.tools <= ToolsTo(m) + mem.planRev + 2 * mem.repairs
      BY <1>1, <1>2, <1>3, <2>1, <2>3, <3>1 DEF Result, Enabled, SpentAt, ToolsTo, ToolNodes
    <3> QED BY <1>4, <2>3, <3>2, <3>3, <3>4 DEF SpentAt
  <2> QED BY <2>2, <2>3
<1>7. FailureAt(m, n, mem)
  <2>1. NoReport.verdict # "fail"
    BY DEF NoReport
  <2>2. n \in {"tests", "review"} => d.apply = "pass"
    BY <1>1 DEF FailureAt
  <2> QED BY <1>1, <1>2, <2>1, <2>2 DEF Result, Enabled, FailureAt
<1>8. TraversalsAt(run')
  <2> SUFFICES ASSUME NEW f \in Edges
               PROVE  run'.counts[f] <= Rounds(f, mem) + (IF Place(m) > PlaceOf(f) THEN 1 ELSE 0)
    BY <1>4 DEF TraversalsAt
  <2>1. run.counts[f] <= Rounds(f, d) + (IF Place(n) > PlaceOf(f) THEN 1 ELSE 0)
    BY <1>1 DEF TraversalsAt
  <2>2. run'.counts[f] = run.counts[f] + (IF f = e THEN 1 ELSE 0)
    BY <1>2, <1>3 DEF Moves
  <2>3. /\ Rounds(f, d) \in Nat /\ Rounds(f, mem) \in Nat /\ Rounds(f, d) <= Rounds(f, mem)
        /\ PlaceOf(f) \in 1..10 /\ Place(n) \in 1..10 /\ Place(m) \in 1..11
        /\ run.counts[f] \in Nat
    <3>1. f[1] \in Nodes \ Terminals
      BY DEF Edges, Unconditional, ByRoute, OnPass, OnFailRetry, OnFailStop, PlanRetry, Nodes,
         Terminals
    <3>2. n \in Nodes \ Terminals
      BY <1>2 DEF Enabled, Terminals
    <3> QED BY <1>1, <1>2, <1>3, <3>1, <3>2, PlaceType DEF Rounds, Result, PlaceOf
  <2>4. f = e => Place(n) <= PlaceOf(f)
    BY <1>2, <2>3 DEF PlaceOf
  <2>5. CASE Place(m) > Place(n)
    <3>1. f = e => Place(m) > PlaceOf(f)
      BY <1>2, <2>3, <2>5 DEF PlaceOf, Place, Enabled, Terminals
    <3> QED BY <2>1, <2>2, <2>3, <2>4, <2>5, <3>1
  <2>6. CASE ~(Place(m) > Place(n))
    <3>1. \/ n = "plan_check" /\ m = "plan" /\ mem.planRev = d.planRev + 1
          \/ n = "repair" /\ m = "apply" /\ mem.repairs = d.repairs + 1
      BY <1>1, <1>2, <1>3, <2>6 DEF Place, Enabled, Result
    <3>2. (f = e \/ Place(n) > PlaceOf(f)) /\ ~(Place(m) > PlaceOf(f))
            => Rounds(f, mem) = Rounds(f, d) + 1
      BY <1>2, <1>3, <3>1 DEF Rounds, PlaceOf, Place, PlanLoop, RepairLoop, OnFailRetry, Edges,
         Unconditional, ByRoute, OnPass, OnFailStop, PlanRetry, Terminals
    <3>3. f = e => ~(Place(m) > PlaceOf(f))
      BY <1>2, <3>1 DEF PlaceOf, Place, Terminals
    <3> QED BY <2>1, <2>2, <2>3, <2>4, <2>6, <3>2, <3>3
  <2> QED BY <2>5, <2>6
<1>9. run'.error = "none" /\ pc' # "ran"
  BY <1>1 DEF Moves
<1> QED BY <1>1, <1>4, <1>5, <1>6, <1>7, <1>8, <1>9
        DEF PathInduction, ResultInMemory, BudgetsSuffice, DiagnosesLatestFailure

\* With the budgets of the longest path only tokens or time can stop a run.
LEMMA WithinLongestPath ==
  ASSUME TypeOK, run.status = "running", RoundsAt(run.node, run.data), SpentAt(run),
         BudgetViolated(run), run.budget.steps >= 21, run.budget.llm >= 10,
         run.budget.tools >= 9
  PROVE  run.over # {}
<1> DEFINE n == run.node
           d == run.data
<1>1. /\ d.planRev \in Nat /\ d.repairs \in Nat /\ n \in Nodes
      /\ run.steps \in Nat /\ run.llm \in Nat /\ run.tools \in Nat
      /\ run.budget.steps \in Nat /\ run.budget.llm \in Nat /\ run.budget.tools \in Nat
  BY BudgetAssumption DEF TypeOK, Runs, Data
<1>r. /\ n # "abort" => d.planRev <= 1
      /\ \/ n = "abort"
         \/ d.repairs = 0 /\ StepsTo(n) <= 4 /\ LlmTo(n) <= 1 /\ ToolsTo(n) <= 2
         \/ d.repairs <= 1 /\ StepsTo(n) <= 9 /\ LlmTo(n) <= 4 /\ ToolsTo(n) <= 4
         \/ d.repairs <= 2 /\ StepsTo(n) <= 8 /\ (n \in LlmNodes => LlmTo(n) <= 2)
              /\ (n \in ToolNodes => ToolsTo(n) <= 3)
      /\ StepsTo(n) \in Nat /\ LlmTo(n) \in Nat /\ ToolsTo(n) \in Nat
  BY <1>1 DEF RoundsAt, BeforeRepairs, StepsTo, LlmTo, ToolsTo, Nodes, LlmNodes, ToolNodes
<1>s. /\ n = "abort" => run.steps <= 20
      /\ n # "abort" => /\ run.steps <= StepsTo(n) + 2 * d.planRev + 5 * d.repairs
                        /\ run.llm <= LlmTo(n) + d.planRev + 3 * d.repairs
                        /\ run.tools <= ToolsTo(n) + d.planRev + 2 * d.repairs
  BY DEF SpentAt
<1>l. "abort" \notin LlmNodes \cup ToolNodes
  BY DEF LlmNodes, ToolNodes
<1>2. run.steps <= 20
  <2>1. ASSUME n # "abort", NEW a \in Nat,
               (d.repairs <= 1 /\ a <= 9) \/ (d.repairs <= 2 /\ a <= 8),
               run.steps <= a + 2 * d.planRev + 5 * d.repairs
        PROVE  run.steps <= 20
    BY <1>1, <1>r, <2>1
  <2> QED BY <1>1, <1>r, <1>s, <2>1
<1>3. n \in LlmNodes => run.llm <= 9
  <2>1. ASSUME n # "abort", NEW b \in Nat,
               (d.repairs <= 1 /\ b <= 4) \/ (d.repairs <= 2 /\ b <= 2),
               run.llm <= b + d.planRev + 3 * d.repairs
        PROVE  run.llm <= 9
    BY <1>1, <1>r, <2>1
  <2> QED BY <1>1, <1>r, <1>s, <1>l, <2>1
<1>4. n \in ToolNodes => run.tools <= 8
  <2>1. ASSUME n # "abort", NEW c \in Nat,
               (d.repairs <= 1 /\ c <= 4) \/ (d.repairs <= 2 /\ c <= 3),
               run.tools <= c + d.planRev + 2 * d.repairs
        PROVE  run.tools <= 8
    BY <1>1, <1>r, <2>1
  <2> QED BY <1>1, <1>r, <1>s, <1>l, <2>1
<1> QED BY <1>1, <1>2, <1>3, <1>4 DEF BudgetViolated

LEMMA InitPath == Init => PathInduction
<1> SUFFICES ASSUME Init PROVE PathInduction
  OBVIOUS
<1>1. PICK budget \in Budgets, bad \in BOOLEAN :
        run = [status |-> "absent", node |-> Start, last |-> "none",
               counts |-> [e \in Edges |-> 0], steps |-> 0, llm |-> 0, tools |-> 0,
               budget |-> budget, over |-> {}, data |-> NewData,
               error |-> "none", badPlan |-> bad]
  BY DEF Init
<1>2. /\ run.node = "intake" /\ run.data.planRev = 0 /\ run.data.repairs = 0
      /\ run.steps = 0 /\ run.llm = 0 /\ run.tools = 0 /\ run.error = "none" /\ pc = "down"
  BY <1>1 DEF Init, Start, NewData
<1>3. RoundsAt(run.node, run.data) /\ SpentAt(run) /\ FailureAt(run.node, run.last, run.data)
  BY <1>2 DEF RoundsAt, SpentAt, FailureAt, StepsTo, LlmTo, ToolsTo, BeforeRepairs
<1>4. TraversalsAt(run)
  <2> SUFFICES ASSUME NEW e \in Edges
               PROVE  run.counts[e] <= Rounds(e, run.data)
                                         + (IF Place(run.node) > PlaceOf(e) THEN 1 ELSE 0)
    BY DEF TraversalsAt
  <2>1. run.counts[e] = 0 /\ Rounds(e, run.data) = 0
    BY <1>1, <1>2 DEF Rounds
  <2> QED BY <2>1
<1> QED BY <1>2, <1>3, <1>4
        DEF PathInduction, ResultInMemory, BudgetsSuffice, DiagnosesLatestFailure

LEMMA NextPath ==
  ASSUME Induction, PathInduction, [Next]_vars
  PROVE  PathInduction'
<1>0. /\ TypeOK /\ EvidenceAtGates /\ TypeOK'
      /\ run \in Runs /\ (pc # "down" => run.status = "running")
  BY NextTyped DEF Induction, TypeOK, EvidenceAtGates
<1>1. CASE Operate
  <2>1. /\ run' = run /\ pc = "ready" /\ mem = run.data
        /\ Result(run.node, run.data, mem')
    BY <1>0, <1>1, OperateResult
  <2>2. Unfinished /\ FailureAt(run.node, run.last, run.data) /\ Unfinished' = Unfinished
    BY <1>0, <2>1 DEF Unfinished, PathInduction
  <2>3. ResultInMemory'
    BY <2>1 DEF ResultInMemory
  <2>4. DiagnosesLatestFailure'
    <3> SUFFICES ASSUME run.node = "diagnose"
                 PROVE  \/ mem'.stage = run.last
                        \/ run.last = "review" /\ mem'.review = NoReport /\ mem'.stage = "tests"
      BY <2>1 DEF DiagnosesLatestFailure
    <3>1. mem'.stage = FailedStage(run.data) /\ mem'.review = run.data.review
      BY <2>1 DEF Result
    <3> QED BY <2>2, <3>1 DEF FailureAt, FailedStage, NoReport
  <2> QED BY <2>1, <2>2, <2>3, <2>4 DEF PathInduction, BudgetsSuffice
<1>2. CASE CommitStep
  <2>1. pc = "ran" /\ run.status = "running" /\ run.error = "none"
    BY <1>0, <1>2, CommitResult DEF PathInduction
  <2>2. CASE Closes
    BY <1>0, <2>1, <2>2 DEF Closes, PathInduction, ResultInMemory, Unfinished, BudgetsSuffice,
       DiagnosesLatestFailure
  <2>3. CASE pc' = "down" /\ run' = run
    BY <2>1, <2>3 DEF PathInduction, ResultInMemory, Unfinished, BudgetsSuffice,
       DiagnosesLatestFailure
  <2>4. ASSUME NEW e \in ValidOutgoing(run.counts, mem, run.node), Moves(e)
        PROVE  PathInduction'
    BY <1>0, <2>1, <2>4, MovePath
  <2> QED BY <1>0, <1>2, <2>2, <2>3, <2>4, CommitResult
<1>3. CASE BudgetStop
  <2>1. /\ run.status = "running" /\ BudgetViolated(run) /\ pc' = "down"
        /\ run'.status = "failed" /\ run'.budget = run.budget /\ run'.over = run.over
    BY <1>0, <1>3 DEF BudgetStop, Runs
  <2>2. RoundsAt(run.node, run.data) /\ SpentAt(run)
    BY <2>1 DEF PathInduction, Unfinished
  <2>3. BudgetsSuffice'
    BY <1>0, <2>1, <2>2, WithinLongestPath DEF BudgetsSuffice
  <2> QED BY <2>1, <2>3 DEF PathInduction, ResultInMemory, Unfinished, DiagnosesLatestFailure
<1>4. CASE CreateRun
  <2>1. /\ run.status = "absent" /\ run'.status = "running" /\ pc' = "ready"
        /\ run'.error = run.error /\ run'.node = run.node /\ run'.last = run.last
        /\ run'.data = run.data /\ run'.counts = run.counts /\ run'.steps = run.steps
        /\ run'.llm = run.llm /\ run'.tools = run.tools
    BY <1>0, <1>4 DEF CreateRun, Runs
  <2>2. /\ Unfinished /\ run.error = "none"
        /\ RoundsAt(run.node, run.data) /\ SpentAt(run)
        /\ FailureAt(run.node, run.last, run.data) /\ TraversalsAt(run)
    BY <2>1 DEF PathInduction, Unfinished
  <2>3. SpentAt(run')
    BY <2>1, <2>2 DEF SpentAt
  <2>4. TraversalsAt(run')
    BY <2>1, <2>2 DEF TraversalsAt
  <2> QED BY <2>1, <2>2, <2>3, <2>4
          DEF PathInduction, ResultInMemory, BudgetsSuffice, DiagnosesLatestFailure
<1>5. CASE Resume \/ Pause \/ Crash \/ EditWorktree \/ UNCHANGED vars
  <2>1. run' = run /\ (pc' = "ran" => pc = "ran" /\ mem' = mem)
    BY <1>5 DEF Resume, Pause, Crash, EditWorktree, vars
  <2> QED BY <2>1 DEF PathInduction, ResultInMemory, Unfinished, BudgetsSuffice,
          DiagnosesLatestFailure
<1> QED BY <1>1, <1>2, <1>3, <1>4, <1>5 DEF Next, Loop

LEMMA PathInductionHolds == Spec => [](Induction /\ PathInduction)
<1>1. Init => Induction /\ PathInduction
  BY InitInduction, InitPath
<1>2. Induction /\ PathInduction /\ [Next]_vars => (Induction /\ PathInduction)'
  BY NextInduction, NextPath
<1> QED BY <1>1, <1>2, PTL DEF Spec

\* The diagnosis names the gate that has just failed, never one of an earlier round, for any
\* caps, budgets, kills and edits (diagnose, apply_candidate's resets).
THEOREM DiagnosisIsCurrent == Spec => []DiagnosesLatestFailure
<1>1. PathInduction => DiagnosesLatestFailure
  BY DEF PathInduction
<1> QED BY <1>1, PathInductionHolds, PTL

\* No path costs more than 21 steps, 10 model and 9 tool calls, for any caps: with Budget's
\* defaults a run stops only on tokens or time.
THEOREM LongestPathFits == Spec => []BudgetsSuffice
<1>1. PathInduction => BudgetsSuffice
  BY DEF PathInduction
<1> QED BY <1>1, PathInductionHolds, PTL

-----------------------------------------------------------------------------
(* The caps of the file.                                                   *)

\* The data in memory leaves one condition true, and its edge has traversals left.
LEMMA OneEdgeOpen ==
  ASSUME FileCaps, Induction, PathInduction, pc = "ran", run.node \notin Terminals
  PROVE  \E e \in Edges : ValidOutgoing(run.counts, mem, run.node) = {e}
<1> DEFINE n == run.node
           d == run.data
<1>1. /\ Result(n, d, mem) /\ RoundsAt(n, d) /\ TraversalsAt(run) /\ n \in Nodes \ Terminals
      /\ d.planRev \in Nat /\ d.repairs \in Nat /\ mem.planRev \in Nat /\ mem.repairs \in Nat
      /\ run.counts \in [Edges -> Nat]
  BY DEF Induction, TypeOK, EvidenceAtGates, PathInduction, ResultInMemory, Unfinished, Runs, Data
<1>2. PICK m \in Nodes : Enabled(n, m, mem) /\ <<n, m>> \in Edges
  BY <1>1 DEF Result, RoundsAt, Enabled, Nodes, Terminals, Edges, Unconditional, ByRoute, OnPass,
     OnFailRetry, OnFailStop, PlanRetry
<1>3. \A f \in Edges : f[1] = n /\ Enabled(n, f[2], mem) => f[2] = m
  BY <1>1, <1>2 DEF Enabled
<1>4. \A f \in Edges : f = <<f[1], f[2]>>
  BY DEF Edges, Unconditional, ByRoute, OnPass, OnFailRetry, OnFailStop, PlanRetry
<1> DEFINE e == <<n, m>>
<1>5. run.counts[e] < Cap[e]
  <2>1. run.counts[e] <= Rounds(e, d)
    <3>1. ~(Place(n) > PlaceOf(e))
      BY <1>1, PlaceType DEF PlaceOf, Place, Nodes, Terminals
    <3> QED BY <1>1, <1>2, <3>1 DEF TraversalsAt, Rounds
  <2>2. Rounds(e, d) < DefaultCap[e]
    BY <1>1, <1>2 DEF Rounds, DefaultCap, Result, RoundsAt, Enabled, PlanLoop, RepairLoop,
       OnFailRetry
  <2> QED BY <1>1, <1>2, <2>1, <2>2, CapAssumption DEF FileCaps, DefaultCap, Rounds
<1>6. ValidOutgoing(run.counts, mem, n) = {e}
  BY <1>2, <1>3, <1>4, <1>5, EdgesByCondition DEF ValidOutgoing
<1> QED BY <1>2, <1>6

\* With the caps of the file, or larger ones, every finished step has exactly one edge to
\* follow, for any budgets, kills and edits (valid_outgoing_edges).
THEOREM OneSuccessor == ASSUME FileCaps PROVE Spec => []ExactlyOneSuccessor
<1>1. Induction /\ PathInduction => ExactlyOneSuccessor
  BY OneEdgeOpen DEF ExactlyOneSuccessor
<1> QED BY <1>1, PathInductionHolds, PTL
\* Without a kill or an edit, the content that stands in front of the next gate.
ContentAt ==
  crashes = 0 /\ edits = 0 =>
    /\ run.status = "running" /\ pc # "ran" =>
         /\ run.node \in {"tests", "review", "finish"} => run.data.candidate.at = worktree
         /\ run.node \in {"review", "finish"} => run.data.test.at = worktree
    /\ run.status = "running" /\ pc = "ran" =>
         /\ run.node \in {"apply", "tests", "review"} /\ mem.verdict = "pass" =>
              mem.candidate.at = worktree
         /\ run.node \in {"tests", "review"} /\ mem.verdict = "pass" => mem.test.at = worktree
         /\ run.node = "finish" =>
              /\ mem.candidate.at = worktree /\ mem.test.at = worktree
              /\ exported = worktree.tracked
    /\ VerifiedContent

LEMMA InitContent == Init => ContentAt
BY DEF Init, ContentAt, VerifiedContent

LEMMA NextContent ==
  ASSUME FileCaps, Induction, PathInduction, ContentAt, [Next]_vars
  PROVE  ContentAt'
<1>0. /\ TypeOK /\ TypeOK' /\ (pc # "ran" => mem = run.data)
      /\ (pc # "down" => run.status = "running") /\ run \in Runs
      /\ crashes \in Nat /\ edits \in Nat
  BY NextTyped, BudgetAssumption DEF Induction, TypeOK, EvidenceAtGates
<1>1. CASE Operate
  <2>1. /\ run' = run /\ pc = "ready" /\ pc' = "ran" /\ mem = run.data /\ ContentResult
        /\ run.status = "running" /\ UNCHANGED <<crashes, edits>>
    BY <1>0, <1>1, OperateResult DEF outside
  <2> QED BY <2>1 DEF ContentAt, ContentResult, VerifiedContent
<1>2. CASE CommitStep
  <2>1. /\ pc = "ran" /\ run.status = "running"
        /\ UNCHANGED <<worktree, exported, crashes, edits>>
    BY <1>0, <1>2, CommitResult
  <2>2. CASE Closes
    <3>1. /\ run.node \in {"abort", "finish"} /\ run'.data = mem
          /\ run'.status = IF run.node = "abort" THEN "failed" ELSE "completed"
      BY <2>2 DEF Closes, Terminals
    <3> QED BY <2>1, <3>1 DEF ContentAt, VerifiedContent
  <2>3. ~(run.node \notin Terminals /\ ValidOutgoing(run.counts, mem, run.node) = {})
    BY <2>1, OneEdgeOpen
  <2>4. ASSUME NEW e \in ValidOutgoing(run.counts, mem, run.node), Moves(e)
        PROVE  ContentAt'
    <3>1. e[1] = run.node /\ Enabled(run.node, e[2], mem)
      BY EdgesByCondition DEF ValidOutgoing
    <3>2. /\ run'.status = "running" /\ pc' = "ready" /\ run'.node = e[2] /\ run'.data = mem
      BY <2>1, <2>4 DEF Moves
    <3> QED BY <2>1, <3>1, <3>2 DEF ContentAt, VerifiedContent, Enabled
  <2> QED BY <1>0, <1>2, <2>2, <2>3, <2>4, CommitResult
<1>3. CASE BudgetStop \/ CreateRun
  <2>1. CASE BudgetStop
    <3>1. run'.status = "failed"
      BY <1>0, <2>1 DEF BudgetStop, Runs
    <3> QED BY <3>1 DEF ContentAt, VerifiedContent
  <2>2. CASE CreateRun
    <3>1. run'.status = "running" /\ run'.node = "intake" /\ pc' = "ready"
      BY <1>0, <2>2 DEF CreateRun, Runs, Induction, EvidenceAtGates, Start
    <3> QED BY <3>1 DEF ContentAt, VerifiedContent
  <2> QED BY <1>3, <2>1, <2>2
<1>4. CASE Resume \/ Pause \/ UNCHANGED vars
  <2>1. /\ UNCHANGED <<run, worktree, exported, crashes, edits>>
        /\ \/ pc # "ran" /\ pc' # "ran"
           \/ pc' = pc /\ mem' = mem
    BY <1>4 DEF Resume, Pause, vars, effects, outside
  <2> QED BY <2>1 DEF ContentAt, VerifiedContent
<1>5. CASE Crash \/ EditWorktree
  <2>1. crashes' # 0 \/ edits' # 0
    BY <1>0, <1>5 DEF Crash, EditWorktree
  <2> QED BY <2>1 DEF ContentAt
<1> QED BY <1>1, <1>2, <1>3, <1>4, <1>5 DEF Next, Loop

\* Undisturbed, what is exported is what was applied, tested and reviewed.  It takes the caps:
\* a test that changed the worktree and then finds no edge to follow would be run again.
THEOREM ContentIsVerified == ASSUME FileCaps PROVE Spec => []VerifiedContent
<1>1. Init => ContentAt
  BY InitContent
<1>2. Induction /\ PathInduction /\ ContentAt /\ [Next]_vars => ContentAt'
  BY NextContent
<1>3. ContentAt => VerifiedContent
  <2>1. ContentAt /\ ~(crashes = 0 /\ edits = 0) => VerifiedContent
    BY DEF VerifiedContent
  <2>2. ContentAt /\ crashes = 0 /\ edits = 0 => VerifiedContent
    BY DEF ContentAt
  <2> QED BY <2>1, <2>2
<1> QED BY <1>1, <1>2, <1>3, PathInductionHolds, PTL DEF Spec
=============================================================================
