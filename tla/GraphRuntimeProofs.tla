-------------------------- MODULE GraphRuntimeProofs --------------------------
(***************************************************************************)
(* Induction is an inductive invariant of GraphRuntime; from it follow the *)
(* types, the evidence of every completed run and the bounds on its        *)
(* counters, for every cap function, every set of budgets and any number   *)
(* of crashes and edits.                                                   *)
(***************************************************************************)
EXTENDS GraphRuntime, TLAPS

-----------------------------------------------------------------------------
(* Types.                                                                  *)

\* An operator's step keeps the types if its data and its effects are typed.
LEMMA ReturnsTyped ==
  ASSUME TypeOK, NEW d \in Data, Returns(d),
         worktree' \in Fingerprints, ledger' \subseteq Nat, exported' \in Nat \cup {-1}
  PROVE  TypeOK'
BY DEF TypeOK, Returns, outside

\* The operators return data of the right type.
LEMMA OperateTyped == ASSUME TypeOK, Operate PROVE TypeOK'
<1>1. CASE RouteTask
  <2>1. PICK route \in {"fast", "planned"} :
          Returns([mem EXCEPT !.route = route, !.verdict = "pending"])
    BY <1>1 DEF RouteTask
  <2>2. [mem EXCEPT !.route = route, !.verdict = "pending"] \in Data
    BY DEF TypeOK, Data
  <2> QED BY <1>1, <2>1, <2>2, ReturnsTyped DEF RouteTask, effects, TypeOK
<1>2. CASE CollectContext
  BY <1>2, ReturnsTyped DEF CollectContext, effects, TypeOK
<1>3. CASE MakePlan
  <2>1. [mem EXCEPT !.plan = TRUE, !.verdict = "pending"] \in Data
    BY DEF TypeOK, Data
  <2> QED BY <1>3, <2>1, ReturnsTyped DEF MakePlan, effects, TypeOK
<1>4. CASE CheckPlan
  <2> DEFINE passed == mem.plan /\ ~(run.badPlan /\ mem.planRev = 0)
             d == [mem EXCEPT !.verdict = IF passed THEN "pass" ELSE "fail",
                              !.planRev = IF passed THEN @ ELSE @ + 1]
  <2>1. d \in Data
    <3>1. mem \in Data /\ mem.planRev \in Nat
      BY DEF TypeOK, Data
    <3>2. mem.planRev + 1 \in Nat
      BY <3>1
    <3>3. CASE passed
      BY <3>1, <3>3 DEF Data
    <3>4. CASE ~passed
      <4>1. d = [mem EXCEPT !.verdict = "fail", !.planRev = mem.planRev + 1]
        BY <3>1, <3>4 DEF Data
      <4> HIDE DEF d
      <4> QED BY <3>1, <3>2, <4>1 DEF Data
    <3> QED BY <3>3, <3>4
  <2>2. Returns(d) /\ UNCHANGED effects
    BY <1>4 DEF CheckPlan
  <2> QED BY <2>1, <2>2, ReturnsTyped DEF effects, TypeOK
<1>5. CASE Implement
  <2>1. [mem EXCEPT !.pending = TRUE, !.verdict = "pending"] \in Data
    BY DEF TypeOK, Data
  <2> QED BY <1>5, <2>1, ReturnsTyped DEF Implement, effects, TypeOK
<1>6. CASE ApplyCandidate
  <2>1. PICK landed \in BOOLEAN, seen \in BOOLEAN, empty \in BOOLEAN :
          LET after == IF landed /\ ~empty /\ run.steps \notin ledger
                       THEN [worktree EXCEPT !.tracked = @ + 1] ELSE worktree
          IN  IF mem.pending
              THEN /\ Returns(IF landed /\ seen THEN ApplyPassed(mem, after)
                                                ELSE ApplyFailed(mem))
                   /\ worktree' = after
                   /\ ledger' = IF landed THEN ledger \cup {run.steps} ELSE ledger
              ELSE Returns(ApplyFailed(mem)) /\ UNCHANGED <<worktree, ledger>>
    BY <1>6 DEF ApplyCandidate
  <2> DEFINE after == IF landed /\ ~empty /\ run.steps \notin ledger
                      THEN [worktree EXCEPT !.tracked = @ + 1] ELSE worktree
  <2>2. after \in Fingerprints /\ run.steps \in Nat
    BY DEF TypeOK, Fingerprints, Runs
  <2>3. NoReport \in Reports
    BY DEF NoReport, Reports, Fingerprints, Verdicts
  <2>4. [verdict |-> "pass", at |-> after] \in Reports
    BY <2>2 DEF Reports, Verdicts
  <2>5. ApplyPassed(mem, after) \in Data
    BY <2>3, <2>4 DEF TypeOK, ApplyPassed, Data, Verdicts
  <2>6. ApplyFailed(mem) \in Data
    BY <2>3 DEF TypeOK, ApplyFailed, Data, Verdicts
  <2>7. worktree' \in Fingerprints /\ ledger' \subseteq Nat /\ exported' \in Nat \cup {-1}
    BY <1>6, <2>1, <2>2 DEF ApplyCandidate, TypeOK
  <2> QED BY <2>1, <2>5, <2>6, <2>7, ReturnsTyped
<1>7. CASE RunTests
  <2>1. ledger' \subseteq Nat /\ exported' \in Nat \cup {-1}
    BY <1>7 DEF RunTests, TypeOK
  <2>2. CASE mem.verdict = "pass" /\ mem.candidate.verdict = "pass"
    <3>1. PICK ok \in BOOLEAN, touched \in {"nothing", "tracked", "untracked"} :
            /\ worktree' = IF touched = "nothing" THEN worktree
                           ELSE [worktree EXCEPT ![touched] = @ + 1]
            /\ Returns([mem EXCEPT !.verdict = TestVerdict(ok, touched),
                 !.test = [verdict |-> TestVerdict(ok, touched), at |-> worktree']])
      BY <1>7, <2>2 DEF RunTests
    <3>2. worktree' \in Fingerprints
      <4>1. CASE touched = "nothing"
        BY <3>1, <4>1 DEF TypeOK
      <4>2. CASE touched = "tracked"
        BY <3>1, <4>2 DEF TypeOK, Fingerprints
      <4>3. CASE touched = "untracked"
        BY <3>1, <4>3 DEF TypeOK, Fingerprints
      <4> QED BY <4>1, <4>2, <4>3
    <3>3. TestVerdict(ok, touched) \in {"pass", "fail"}
      BY DEF TestVerdict
    <3>4. [verdict |-> TestVerdict(ok, touched), at |-> worktree'] \in Reports
      BY <3>2, <3>3 DEF Reports, Verdicts
    <3>5. [mem EXCEPT !.verdict = TestVerdict(ok, touched),
             !.test = [verdict |-> TestVerdict(ok, touched), at |-> worktree']] \in Data
      BY <3>3, <3>4 DEF TypeOK, Data
    <3> QED BY <2>1, <3>1, <3>2, <3>5, ReturnsTyped
  <2>3. CASE ~(mem.verdict = "pass" /\ mem.candidate.verdict = "pass")
    <3>1. [NoReport EXCEPT !.verdict = "fail"] \in Reports
      BY DEF NoReport, Reports, Verdicts, Fingerprints
    <3>2. [mem EXCEPT !.verdict = "fail",
             !.test = [NoReport EXCEPT !.verdict = "fail"]] \in Data
      BY <3>1 DEF TypeOK, Data
    <3> QED BY <1>7, <2>1, <2>3, <3>2, ReturnsTyped DEF RunTests, TypeOK
  <2> QED BY <2>2, <2>3
<1>8. CASE Review
  <2>1. [mem EXCEPT !.verdict = "fail"] \in Data
    BY DEF TypeOK, Data
  <2>2. ASSUME NEW verdict \in {"pass", "fail"}
        PROVE  [mem EXCEPT !.verdict = verdict,
                  !.review = [verdict |-> verdict, at |-> worktree]] \in Data
    <3>1. [verdict |-> verdict, at |-> worktree] \in Reports
      BY DEF TypeOK, Reports, Verdicts
    <3> QED BY <3>1 DEF TypeOK, Data
  <2> QED BY <1>8, <2>1, <2>2, ReturnsTyped DEF Review, effects, TypeOK
<1>9. CASE Diagnose
  <2>1. [mem EXCEPT !.stage = FailedStage(mem)] \in Data
    BY DEF TypeOK, Data, FailedStage
  <2> QED BY <1>9, <2>1, ReturnsTyped DEF Diagnose, effects, TypeOK
<1>10. CASE Repair
  <2>1. Repaired(mem) \in Data
    <3>1. mem \in Data /\ mem.repairs \in Nat
      BY DEF TypeOK, Data
    <3>2. mem.repairs + 1 \in Nat
      BY <3>1
    <3> QED BY <3>1, <3>2 DEF Data, Repaired
  <2> QED BY <1>10, <2>1, ReturnsTyped DEF Repair, effects, TypeOK
<1>11. CASE Finalize
  <2>1. worktree.tracked \in Nat
    BY DEF TypeOK, Fingerprints
  <2> QED BY <1>11, <2>1, ReturnsTyped DEF Finalize, TypeOK
<1>12. CASE Abort
  BY <1>12, ReturnsTyped DEF Abort, effects, TypeOK
<1> QED
  BY <1>1, <1>2, <1>3, <1>4, <1>5, <1>6, <1>7, <1>8, <1>9, <1>10, <1>11, <1>12
  DEF Operate

\* What CommitStep does, its three cases as facts for the lemmas below.
LEMMA CommitCases ==
  ASSUME CommitStep
  PROVE  /\ pc = "ran" /\ UNCHANGED <<effects, outside>>
         /\ \E over \in {{}, {"tokens"}, {"seconds"}} :
              \/ /\ run.node \in Terminals /\ run' = Finished(Counted(run, over))
                 /\ pc' = "down" /\ mem' = mem
              \/ pc' = "down" /\ mem' = run.data /\ run' = run
              \/ /\ run.node \notin Terminals
                 /\ \E e \in ValidOutgoing(run.counts, mem, run.node) :
                      run' = Follow(Counted(run, over), e)
                 /\ pc' = "ready" /\ mem' = mem
BY DEF CommitStep

\* Counting a step keeps the row typed and stores the operator's data.
LEMMA CountedTyped ==
  ASSUME TypeOK, NEW over \in {{}, {"tokens"}, {"seconds"}}
  PROVE  /\ Counted(run, over) \in Runs
         /\ Counted(run, over).data = mem
<1>1. run \in Runs /\ mem \in Data
  BY DEF TypeOK
<1>2. run.steps \in Nat /\ run.llm \in Nat /\ run.tools \in Nat
  BY <1>1 DEF Runs
<1>3. run.steps + 1 \in Nat
  BY <1>2
<1>4. (IF run.node \in LlmNodes THEN run.llm + 1 ELSE run.llm) \in Nat
  BY <1>2
<1>5. (IF run.node \in ToolNodes THEN run.tools + 1 ELSE run.tools) \in Nat
  BY <1>2
<1>6. run.over \cup over \in SUBSET {"tokens", "seconds"}
  BY <1>1 DEF Runs
<1>7. run.node \in Nodes \cup {"none"}
  BY <1>1 DEF Runs
<1> QED BY <1>1, <1>3, <1>4, <1>5, <1>6, <1>7 DEF Counted, Runs

\* Following an edge keeps the row typed.
LEMMA FollowTyped ==
  ASSUME NEW r \in Runs, NEW e \in Edges
  PROVE  Follow(r, e) \in Runs /\ Follow(r, e).data = r.data
<1>1. r.counts \in [Edges -> Nat]
  BY DEF Runs
<1>2. r.counts[e] \in Nat
  BY <1>1
<1>3. r.counts[e] + 1 \in Nat
  BY <1>2
<1>4. [r.counts EXCEPT ![e] = r.counts[e] + 1] \in [Edges -> Nat]
  BY <1>1, <1>3
<1>5. e[2] \in Nodes
  BY DEF Edges, Unconditional, ByRoute, OnPass, OnFailRetry, OnFailStop, PlanRetry, Nodes
<1> QED BY <1>4, <1>5 DEF Follow, Runs

LEMMA CommitTyped == ASSUME TypeOK, CommitStep PROVE TypeOK'
<1>1. /\ worktree' \in Fingerprints /\ ledger' \subseteq Nat /\ exported' \in Nat \cup {-1}
      /\ crashes' \in 0..MaxCrashes /\ edits' \in 0..MaxEdits
  BY CommitCases DEF TypeOK, effects, outside
<1>2. PICK over \in {{}, {"tokens"}, {"seconds"}} :
        \/ /\ run.node \in Terminals /\ run' = Finished(Counted(run, over))
           /\ pc' = "down" /\ mem' = mem
        \/ pc' = "down" /\ mem' = run.data /\ run' = run
        \/ /\ run.node \notin Terminals
           /\ \E e \in ValidOutgoing(run.counts, mem, run.node) :
                run' = Follow(Counted(run, over), e)
           /\ pc' = "ready" /\ mem' = mem
  BY CommitCases
<1>3. Counted(run, over) \in Runs /\ Counted(run, over).data = mem
  BY CountedTyped
<1>4. run \in Runs /\ mem \in Data /\ run.data \in Data
  BY DEF TypeOK, Runs
<1>5. CASE run.node \in Terminals /\ run' = Finished(Counted(run, over))
             /\ pc' = "down" /\ mem' = mem
  <2>1. run' \in Runs /\ run'.data = mem
    BY <1>3, <1>5 DEF Finished, Runs
  <2> QED BY <1>1, <1>4, <1>5, <2>1 DEF TypeOK
<1>6. CASE pc' = "down" /\ mem' = run.data /\ run' = run
  BY <1>1, <1>4, <1>6 DEF TypeOK
<1>7. CASE /\ \E e \in ValidOutgoing(run.counts, mem, run.node) :
                  run' = Follow(Counted(run, over), e)
           /\ pc' = "ready" /\ mem' = mem
  <2>1. PICK e \in ValidOutgoing(run.counts, mem, run.node) :
          run' = Follow(Counted(run, over), e)
    BY <1>7
  <2>2. e \in Edges
    BY <2>1 DEF ValidOutgoing
  <2>3. run' \in Runs /\ run'.data = mem
    BY <1>3, <2>1, <2>2, FollowTyped
  <2> QED BY <1>1, <1>4, <1>7, <2>3 DEF TypeOK
<1> QED BY <1>2, <1>5, <1>6, <1>7

\* The steps outside the operators and the checkpoint keep the types.
LEMMA EnvironmentTyped ==
  ASSUME TypeOK, CreateRun \/ Resume \/ Pause \/ Crash \/ EditWorktree \/ BudgetStop
  PROVE  TypeOK'
<1> USE DEF TypeOK, effects, outside
<1>1. CASE CreateRun
  BY <1>1 DEF CreateRun, Runs
<1>2. CASE Resume
  BY <1>2 DEF Resume, Runs
<1>3. CASE Pause
  BY <1>3 DEF Pause
<1>4. CASE Crash
  BY <1>4, BudgetAssumption DEF Crash, Runs
<1>5. CASE EditWorktree
  <2>1. PICK part \in {"tracked", "untracked"} :
          worktree' = [worktree EXCEPT ![part] = @ + 1]
    BY <1>5 DEF EditWorktree
  <2>2. worktree' \in Fingerprints
    <3>1. CASE part = "tracked"
      BY <2>1, <3>1 DEF Fingerprints
    <3>2. CASE part = "untracked"
      BY <2>1, <3>2 DEF Fingerprints
    <3> QED BY <3>1, <3>2
  <2>3. edits' \in 0..MaxEdits
    BY <1>5, BudgetAssumption DEF EditWorktree
  <2> QED BY <1>5, <2>2, <2>3 DEF EditWorktree
<1>6. CASE BudgetStop
  BY <1>6 DEF BudgetStop, Runs
<1> QED BY <1>1, <1>2, <1>3, <1>4, <1>5, <1>6

LEMMA InitTyped == Init => TypeOK
<1> SUFFICES ASSUME Init PROVE TypeOK
  OBVIOUS
<1>1. NoReport \in Reports
  BY DEF NoReport, Reports, Verdicts, Fingerprints
<1>2. NewData \in Data
  BY <1>1 DEF NewData, Data, Verdicts
<1>3. PICK budget \in Budgets, bad \in BOOLEAN :
        run = [status |-> "absent", node |-> Start, last |-> "none",
               counts |-> [e \in Edges |-> 0], steps |-> 0, llm |-> 0, tools |-> 0,
               budget |-> budget, over |-> {}, data |-> NewData,
               error |-> "none", badPlan |-> bad]
  BY DEF Init
<1>4. run \in Runs
  BY <1>2, <1>3 DEF Runs, Nodes, Start
<1> QED BY <1>2, <1>3, <1>4, BudgetAssumption DEF Init, TypeOK, Fingerprints

LEMMA NextTyped == TypeOK /\ [Next]_vars => TypeOK'
<1> SUFFICES ASSUME TypeOK, [Next]_vars PROVE TypeOK'
  OBVIOUS
<1>1. CASE Operate
  BY <1>1, OperateTyped
<1>2. CASE CommitStep
  BY <1>2, CommitTyped
<1>3. CASE CreateRun \/ Resume \/ Pause \/ Crash \/ EditWorktree \/ BudgetStop
  BY <1>3, EnvironmentTyped
<1>4. CASE UNCHANGED vars
  BY <1>4 DEF vars, TypeOK
<1> QED BY <1>1, <1>2, <1>3, <1>4 DEF Next, Loop

\* Every reachable state is typed, and outside an operator's step the process holds exactly
\* the data of the durable row (CommitStep, Crash and Resume keep them together).
THEOREM TypeCorrect == Spec => []TypeOK
<1> QED BY InitTyped, NextTyped, PTL DEF Spec

-----------------------------------------------------------------------------
(* Evidence: what each operator leaves behind when it opens the next gate. *)

\* An operator that returns d keeps EvidenceAtGates if d opens no gate without evidence.
LEMMA ReturnKeepsEvidence ==
  ASSUME TypeOK, EvidenceAtGates, NEW d, Returns(d),
         pc = "ready",
         \A e \in OnPass : e[1] = run.node /\ d.verdict = "pass" => Evidence(e[2], d),
         run.node = "finish" => d = run.data
  PROVE  EvidenceAtGates'
BY DEF EvidenceAtGates, Returns, Evidence, Verified

\* At a node that is no gate a verdict opens nothing.
LEMMA NoGate ==
  ASSUME NEW n \in Nodes \ {"apply", "tests", "review"}, NEW d,
         NEW e \in OnPass, e[1] = n
  PROVE  Evidence(e[2], d)
BY DEF OnPass, Evidence, Nodes

LEMMA OperateEvidence ==
  ASSUME TypeOK, EvidenceAtGates, Operate
  PROVE  EvidenceAtGates'
<1> USE DEF Running
<1>0. pc = "ready" => run.status = "running" /\ Evidence(run.node, run.data) /\ mem = run.data
  BY DEF EvidenceAtGates, TypeOK
<1>1. CASE RouteTask
  <2>1. PICK route \in {"fast", "planned"} :
          Returns([mem EXCEPT !.route = route, !.verdict = "pending"])
    BY <1>1 DEF RouteTask
  <2> QED BY <1>1, <2>1, NoGate, ReturnKeepsEvidence DEF RouteTask, Nodes
<1>2. CASE CollectContext
  BY <1>2, NoGate, ReturnKeepsEvidence DEF CollectContext, Nodes
<1>3. CASE MakePlan
  BY <1>3, NoGate, ReturnKeepsEvidence DEF MakePlan, Nodes
<1>4. CASE CheckPlan
  BY <1>4, NoGate, ReturnKeepsEvidence DEF CheckPlan, Nodes
<1>5. CASE Implement
  BY <1>5, NoGate, ReturnKeepsEvidence DEF Implement, Nodes
<1>6. CASE ApplyCandidate
  <2>1. run.node = "apply" /\ pc = "ready"
    BY <1>6 DEF ApplyCandidate
  <2>2. PICK d : Returns(d) /\ (d.verdict = "pass" => d.apply = "pass")
    <3>1. ApplyFailed(mem).verdict = "fail"
      BY DEF ApplyFailed, TypeOK, Data
    <3>2. \A at : ApplyPassed(mem, at).apply = "pass"
      BY DEF ApplyPassed, TypeOK, Data
    <3> QED BY <1>6, <3>1, <3>2 DEF ApplyCandidate
  <2>3. \A e \in OnPass : e[1] = run.node /\ d.verdict = "pass" => Evidence(e[2], d)
    BY <2>1, <2>2 DEF OnPass, Evidence
  <2> QED BY <2>1, <2>2, <2>3, ReturnKeepsEvidence
<1>7. CASE RunTests
  <2>1. run.node = "tests" /\ pc = "ready" /\ mem.apply = "pass"
    BY <1>0, <1>7 DEF RunTests, Evidence
  <2>2. PICK d : Returns(d) /\ d.apply = mem.apply
                 /\ (d.verdict = "pass" => d.test.verdict = "pass")
    <3>1. CASE mem.verdict = "pass" /\ mem.candidate.verdict = "pass"
      <4>1. PICK ok \in BOOLEAN, touched \in {"nothing", "tracked", "untracked"} :
              Returns([mem EXCEPT !.verdict = TestVerdict(ok, touched),
                 !.test = [verdict |-> TestVerdict(ok, touched), at |-> worktree']])
        BY <1>7, <3>1 DEF RunTests
      <4> DEFINE r == [mem EXCEPT !.verdict = TestVerdict(ok, touched),
                 !.test = [verdict |-> TestVerdict(ok, touched), at |-> worktree']]
      <4>2. r.apply = mem.apply /\ (r.verdict = "pass" => r.test.verdict = "pass")
        BY DEF TypeOK, Data
      <4> QED BY <4>1, <4>2
    <3>2. CASE ~(mem.verdict = "pass" /\ mem.candidate.verdict = "pass")
      <4> DEFINE r == [mem EXCEPT !.verdict = "fail",
                         !.test = [NoReport EXCEPT !.verdict = "fail"]]
      <4>1. r.apply = mem.apply /\ r.verdict = "fail"
        BY DEF TypeOK, Data
      <4> QED BY <1>7, <3>2, <4>1 DEF RunTests
    <3> QED BY <3>1, <3>2
  <2>3. \A e \in OnPass : e[1] = run.node /\ d.verdict = "pass" => Evidence(e[2], d)
    BY <2>1, <2>2 DEF OnPass, Evidence
  <2> QED BY <2>1, <2>2, <2>3, ReturnKeepsEvidence
<1>8. CASE Review
  <2>1. run.node = "review" /\ pc = "ready" /\ mem.apply = "pass" /\ mem.test.verdict = "pass"
    BY <1>0, <1>8 DEF Review, Evidence
  <2>2. PICK d : Returns(d) /\ (d.verdict = "pass" => Verified(d))
    <3>1. CASE mem.verdict # "pass" \/ Stale(mem)
      <4> DEFINE r == [mem EXCEPT !.verdict = "fail"]
      <4>1. r.verdict = "fail"
        BY DEF TypeOK, Data
      <4> QED BY <1>8, <3>1, <4>1 DEF Review
    <3>2. CASE ~(mem.verdict # "pass" \/ Stale(mem))
      <4>1. PICK verdict \in {"pass", "fail"} :
              Returns([mem EXCEPT !.verdict = verdict,
                         !.review = [verdict |-> verdict, at |-> worktree]])
        BY <1>8, <3>2 DEF Review
      <4> DEFINE r == [mem EXCEPT !.verdict = verdict,
                         !.review = [verdict |-> verdict, at |-> worktree]]
      <4>2. /\ r.apply = mem.apply /\ r.test = mem.test /\ r.verdict = verdict
            /\ r.review.verdict = verdict /\ r.review.at = worktree
        BY DEF TypeOK, Data
      <4>3. mem.test.at = worktree
        BY <3>2 DEF Stale
      <4>4. r.verdict = "pass" => Verified(r)
        BY <2>1, <4>2, <4>3 DEF Verified
      <4> QED BY <4>1, <4>4
    <3> QED BY <3>1, <3>2
  <2>3. \A e \in OnPass : e[1] = run.node /\ d.verdict = "pass" => Evidence(e[2], d)
    BY <2>1, <2>2 DEF OnPass, Evidence, Verified
  <2> QED BY <2>1, <2>2, <2>3, ReturnKeepsEvidence
<1>9. CASE Diagnose
  BY <1>9, NoGate, ReturnKeepsEvidence DEF Diagnose, Nodes
<1>10. CASE Repair
  BY <1>10, NoGate, ReturnKeepsEvidence DEF Repair, Nodes
<1>11. CASE Finalize
  BY <1>0, <1>11, NoGate, ReturnKeepsEvidence DEF Finalize, Nodes
<1>12. CASE Abort
  BY <1>12, NoGate, ReturnKeepsEvidence DEF Abort, Nodes
<1> QED
  BY <1>1, <1>2, <1>3, <1>4, <1>5, <1>6, <1>7, <1>8, <1>9, <1>10, <1>11, <1>12
  DEF Operate

\* An edge into a node that demands evidence is followed on a passing verdict only.
LEMMA GuardedEdges ==
  ASSUME NEW d, NEW e \in Edges, When(e, d), e[2] \in {"tests", "review", "finish"}
  PROVE  e \in OnPass /\ d.verdict = "pass"
<1>1. e \in OnPass
  BY DEF Edges, Unconditional, ByRoute, OnPass, OnFailRetry, OnFailStop, PlanRetry
<1> QED BY <1>1 DEF When, Unconditional, ByRoute, OnPass, OnFailRetry, OnFailStop, PlanRetry

LEMMA CommitEvidence ==
  ASSUME TypeOK, EvidenceAtGates, CommitStep
  PROVE  EvidenceAtGates'
<1>1. PICK over \in {{}, {"tokens"}, {"seconds"}} :
        \/ /\ run.node \in Terminals /\ run' = Finished(Counted(run, over))
           /\ pc' = "down" /\ mem' = mem
        \/ pc' = "down" /\ mem' = run.data /\ run' = run
        \/ /\ run.node \notin Terminals
           /\ \E e \in ValidOutgoing(run.counts, mem, run.node) :
                run' = Follow(Counted(run, over), e)
           /\ pc' = "ready" /\ mem' = mem
  BY CommitCases
<1>2. pc = "ran" /\ run.status = "running"
  BY CommitCases DEF EvidenceAtGates
<1> DEFINE c == Counted(run, over)
<1>3. c \in Runs /\ c.data = mem /\ c.status = run.status /\ c.node = run.node
  <2>1. c \in Runs /\ c.data = mem
    BY CountedTyped
  <2>2. c.status = run.status /\ c.node = run.node
    BY DEF Counted, TypeOK, Runs
  <2> QED BY <2>1, <2>2
<1> HIDE DEF c
<1>4. CASE run.node \in Terminals /\ run' = Finished(c) /\ pc' = "down"
  <2>1. CASE run.node = "abort"
    <3>1. run'.status = "failed"
      BY <1>3, <1>4, <2>1 DEF Finished, Runs
    <3> QED BY <1>4, <3>1 DEF EvidenceAtGates
  <2>2. CASE run.node = "finish"
    <3>1. run'.status = "completed" /\ run'.node = "finish" /\ run'.data = mem
      BY <1>3, <1>4, <2>2 DEF Finished, Runs
    <3>2. mem = run.data /\ Evidence("finish", run.data)
      BY <1>2, <2>2 DEF EvidenceAtGates
    <3> QED BY <1>4, <3>1, <3>2 DEF EvidenceAtGates
  <2> QED BY <1>4, <2>1, <2>2 DEF Terminals
<1>5. CASE pc' = "down" /\ run' = run
  BY <1>5 DEF EvidenceAtGates
<1>6. CASE /\ \E e \in ValidOutgoing(run.counts, mem, run.node) : run' = Follow(c, e)
           /\ pc' = "ready"
  <2>1. PICK e \in ValidOutgoing(run.counts, mem, run.node) : run' = Follow(c, e)
    BY <1>6
  <2>2. e \in Edges /\ e[1] = run.node /\ When(e, mem)
    BY <2>1 DEF ValidOutgoing
  <2>3. run'.status = "running" /\ run'.node = e[2] /\ run'.data = mem
    BY <1>2, <1>3, <2>1 DEF Follow, Runs
  <2>4. Evidence(e[2], mem)
    <3>1. CASE e[2] \in {"tests", "review", "finish"}
      <4>1. e \in OnPass /\ mem.verdict = "pass"
        BY <2>2, <3>1, GuardedEdges
      <4> QED BY <1>2, <2>2, <4>1 DEF EvidenceAtGates
    <3>2. CASE e[2] \notin {"tests", "review", "finish"}
      BY <3>2 DEF Evidence
    <3> QED BY <3>1, <3>2
  <2> QED BY <1>6, <2>3, <2>4 DEF EvidenceAtGates
<1> QED BY <1>1, <1>4, <1>5, <1>6 DEF c

LEMMA EnvironmentEvidence ==
  ASSUME TypeOK, EvidenceAtGates,
         CreateRun \/ Resume \/ Pause \/ Crash \/ EditWorktree \/ BudgetStop
  PROVE  EvidenceAtGates'
<1>1. CASE CreateRun
  <2>1. run'.status = "running" /\ run'.node = Start /\ run'.data = run.data /\ pc' = "ready"
    BY <1>1 DEF CreateRun, EvidenceAtGates, TypeOK, Runs
  <2>2. Evidence(Start, run.data)
    BY DEF Start, Evidence
  <2> QED BY <2>1, <2>2 DEF EvidenceAtGates
<1>2. CASE Resume
  BY <1>2 DEF Resume, EvidenceAtGates
<1>3. CASE Pause
  BY <1>3 DEF Pause, EvidenceAtGates
<1>4. CASE Crash
  BY <1>4 DEF Crash, EvidenceAtGates
<1>5. CASE EditWorktree
  BY <1>5 DEF EditWorktree, EvidenceAtGates, Evidence, Verified
<1>6. CASE BudgetStop
  <2>1. run'.status = "failed" /\ pc' = "down"
    BY <1>6 DEF BudgetStop, TypeOK, Runs
  <2> QED BY <2>1 DEF EvidenceAtGates
<1> QED BY <1>1, <1>2, <1>3, <1>4, <1>5, <1>6

-----------------------------------------------------------------------------
(* Counters: caps, budgets and repairs.                                    *)

LEMMA OperateBudget == ASSUME BudgetInduction, Operate PROVE BudgetInduction'
<1>1. UNCHANGED run /\ ~BudgetViolated(run)
  BY DEF Operate, RouteTask, CollectContext, MakePlan, CheckPlan, Implement, ApplyCandidate,
         RunTests, Review, Diagnose, Repair, Finalize, Abort, Running, Returns
<1> QED BY <1>1 DEF BudgetInduction, BudgetRespected, CapsRespected, BudgetViolated

\* A step counted on a row whose budgets are not reached stays within them.
LEMMA CountedWithin ==
  ASSUME TypeOK, BudgetRespected, ~BudgetViolated(run), NEW over
  PROVE  LET c == Counted(run, over)
         IN  /\ c.steps <= c.budget.steps /\ c.llm <= c.budget.llm
             /\ c.tools <= c.budget.tools /\ c.counts = run.counts
<1>1. /\ run.steps \in Nat /\ run.llm \in Nat /\ run.tools \in Nat
      /\ run.budget.steps \in Nat /\ run.budget.llm \in Nat /\ run.budget.tools \in Nat
  BY BudgetAssumption DEF TypeOK, Runs
<1> DEFINE c == Counted(run, over)
<1>2. /\ c.budget = run.budget /\ c.counts = run.counts /\ c.steps = run.steps + 1
      /\ c.llm = IF run.node \in LlmNodes THEN run.llm + 1 ELSE run.llm
      /\ c.tools = IF run.node \in ToolNodes THEN run.tools + 1 ELSE run.tools
  BY DEF Counted, TypeOK, Runs
<1>3. /\ ~(run.steps >= run.budget.steps)
      /\ run.node \in LlmNodes => ~(run.llm >= run.budget.llm)
      /\ run.node \in ToolNodes => ~(run.tools >= run.budget.tools)
  BY DEF BudgetViolated
<1> HIDE DEF c
<1>4. c.steps <= c.budget.steps
  BY <1>1, <1>2, <1>3
<1>5. c.llm <= c.budget.llm
  BY <1>1, <1>2, <1>3 DEF BudgetRespected
<1>6. c.tools <= c.budget.tools
  BY <1>1, <1>2, <1>3 DEF BudgetRespected
<1> QED BY <1>2, <1>4, <1>5, <1>6 DEF c

LEMMA CommitBudget ==
  ASSUME TypeOK, BudgetInduction, CommitStep
  PROVE  BudgetInduction'
<1>1. PICK over \in {{}, {"tokens"}, {"seconds"}} :
        \/ /\ run.node \in Terminals /\ run' = Finished(Counted(run, over))
           /\ pc' = "down" /\ mem' = mem
        \/ pc' = "down" /\ mem' = run.data /\ run' = run
        \/ /\ run.node \notin Terminals
           /\ \E e \in ValidOutgoing(run.counts, mem, run.node) :
                run' = Follow(Counted(run, over), e)
           /\ pc' = "ready" /\ mem' = mem
  BY CommitCases
<1>2. BudgetRespected /\ CapsRespected /\ ~BudgetViolated(run)
  BY CommitCases DEF BudgetInduction
<1> DEFINE c == Counted(run, over)
<1>3. /\ c.steps <= c.budget.steps /\ c.llm <= c.budget.llm /\ c.tools <= c.budget.tools
      /\ c.counts = run.counts
  BY <1>2, CountedWithin
<1>4. c \in Runs
  BY CountedTyped
<1> HIDE DEF c
<1>5. CASE run' = Finished(c) /\ pc' = "down"
  <2>1. /\ run'.steps = c.steps /\ run'.llm = c.llm /\ run'.tools = c.tools
        /\ run'.budget = c.budget /\ run'.counts = c.counts
    BY <1>4, <1>5 DEF Finished, Runs
  <2> QED BY <1>2, <1>3, <1>5, <2>1 DEF BudgetInduction, BudgetRespected, CapsRespected
<1>6. CASE pc' = "down" /\ run' = run
  BY <1>2, <1>6 DEF BudgetInduction, BudgetRespected, CapsRespected
<1>7. CASE /\ \E e \in ValidOutgoing(run.counts, mem, run.node) : run' = Follow(c, e)
           /\ pc' = "ready"
  <2>1. PICK e \in ValidOutgoing(run.counts, mem, run.node) : run' = Follow(c, e)
    BY <1>7
  <2>2. e \in Edges /\ run.counts[e] < Cap[e]
    BY <2>1 DEF ValidOutgoing
  <2>3. /\ run'.steps = c.steps /\ run'.llm = c.llm /\ run'.tools = c.tools
        /\ run'.budget = c.budget
        /\ run'.counts = [run.counts EXCEPT ![e] = run.counts[e] + 1]
    BY <1>3, <1>4, <2>1 DEF Follow, Runs
  <2>4. run.counts \in [Edges -> Nat] /\ Cap[e] \in Nat
    BY <2>2, CapAssumption DEF TypeOK, Runs
  <2>5. ASSUME NEW f \in Edges PROVE run'.counts[f] <= Cap[f]
    <3>1. CASE f = e
      BY <2>2, <2>3, <2>4, <3>1
    <3>2. CASE f # e
      BY <1>2, <2>3, <2>4, <3>2 DEF CapsRespected
    <3> QED BY <3>1, <3>2
  <2>6. CapsRespected'
    BY <2>5 DEF CapsRespected
  <2> QED BY <1>3, <1>7, <2>3, <2>6 DEF BudgetInduction, BudgetRespected
<1> QED BY <1>1, <1>5, <1>6, <1>7 DEF c

LEMMA EnvironmentBudget ==
  ASSUME TypeOK, EvidenceAtGates, BudgetInduction,
         CreateRun \/ Resume \/ Pause \/ Crash \/ EditWorktree \/ BudgetStop
  PROVE  BudgetInduction'
<1>1. run \in Runs
  BY DEF TypeOK
<1>2. CASE CreateRun \/ BudgetStop
  <2>1. /\ run'.steps = run.steps /\ run'.llm = run.llm /\ run'.tools = run.tools
        /\ run'.budget = run.budget /\ run'.counts = run.counts /\ pc' # "ran"
    BY <1>1, <1>2 DEF CreateRun, BudgetStop, Runs
  <2> QED BY <2>1 DEF BudgetInduction, BudgetRespected, CapsRespected
<1>3. CASE Resume \/ Pause \/ Crash \/ EditWorktree
  <2>1. run' = run /\ (pc' = "ran" => pc = "ran")
    BY <1>3 DEF Resume, Pause, Crash, EditWorktree
  <2> QED BY <2>1 DEF BudgetInduction, BudgetRespected, CapsRespected, BudgetViolated
<1> QED BY <1>2, <1>3

LEMMA NextRepairs ==
  ASSUME TypeOK, RepairsCounted, [Next]_vars
  PROVE  RepairsCounted'
<1>1. CASE pc' # "ran"
  BY <1>1 DEF RepairsCounted
<1>2. CASE pc' = "ran" /\ UNCHANGED <<pc, mem, run>>
  BY <1>2 DEF RepairsCounted
<1>3. CASE Operate
  <2>1. run' = run /\ pc = "ready" /\ mem = run.data /\ mem \in Data
    BY <1>3 DEF Operate, RouteTask, CollectContext, MakePlan, CheckPlan, Implement,
         ApplyCandidate, RunTests, Review, Diagnose, Repair, Finalize, Abort, Running,
         Returns, TypeOK
  <2>2. mem.repairs \in Nat
    BY <2>1 DEF Data
  <2>3. CASE Repair
    <3>1. mem'.repairs = mem.repairs + 1 /\ run.node = "repair"
      BY <2>1, <2>3 DEF Repair, Repaired, Running, Returns, Data
    <3> QED BY <2>1, <3>1 DEF RepairsCounted
  <2>4. ASSUME ~Repair PROVE mem'.repairs = mem.repairs /\ run.node # "repair"
    <3>1. CASE ApplyCandidate
      <4>1. ApplyFailed(mem).repairs = mem.repairs
        BY <2>1 DEF ApplyFailed, Data
      <4>2. \A at : ApplyPassed(mem, at).repairs = mem.repairs
        BY <2>1 DEF ApplyPassed, Data
      <4> QED BY <3>1, <4>1, <4>2 DEF ApplyCandidate, Running, Returns
    <3>2. CASE RunTests
      <4>1. \A v, t : [mem EXCEPT !.verdict = v, !.test = t].repairs = mem.repairs
        BY <2>1 DEF Data
      <4>2. \E v, t : mem' = [mem EXCEPT !.verdict = v, !.test = t]
        BY <3>2 DEF RunTests, Returns
      <4>3. run.node = "tests"
        BY <3>2 DEF RunTests, Running
      <4> QED BY <4>1, <4>2, <4>3
    <3>3. CASE Review
      <4>1. \A v, t : [mem EXCEPT !.verdict = v, !.review = t].repairs = mem.repairs
        BY <2>1 DEF Data
      <4>2. \A v : [mem EXCEPT !.verdict = v].repairs = mem.repairs
        BY <2>1 DEF Data
      <4>3. \/ \E v, t : mem' = [mem EXCEPT !.verdict = v, !.review = t]
            \/ \E v : mem' = [mem EXCEPT !.verdict = v]
        <5>1. CASE mem.verdict # "pass" \/ Stale(mem)
          BY <3>3, <5>1 DEF Review, Returns
        <5>2. CASE ~(mem.verdict # "pass" \/ Stale(mem))
          BY <3>3, <5>2 DEF Review, Returns
        <5> QED BY <5>1, <5>2
      <4>4. run.node = "review"
        BY <3>3 DEF Review, Running
      <4>5. mem'.repairs = mem.repairs
        <5>1. CASE \E v, t : mem' = [mem EXCEPT !.verdict = v, !.review = t]
          BY <4>1, <5>1
        <5>2. CASE \E v : mem' = [mem EXCEPT !.verdict = v]
          <6>1. PICK v : mem' = [mem EXCEPT !.verdict = v]
            BY <5>2
          <6> QED BY <4>2, <6>1
        <5> QED BY <4>3, <5>1, <5>2
      <4> QED BY <4>4, <4>5
    <3>4. CASE RouteTask
      <4>1. \A v, t : [mem EXCEPT !.route = v, !.verdict = t].repairs = mem.repairs
        BY <2>1 DEF Data
      <4> QED BY <3>4, <4>1 DEF RouteTask, Running, Returns
    <3>5. CASE MakePlan \/ Implement \/ Diagnose
      BY <2>1, <3>5 DEF MakePlan, Implement, Diagnose, Running, Returns, Data
    <3>6. CASE CheckPlan
      <4>1. \A v, t : [mem EXCEPT !.verdict = v, !.planRev = t].repairs = mem.repairs
        BY <2>1 DEF Data
      <4> QED BY <3>6, <4>1 DEF CheckPlan, Running, Returns
    <3>7. CASE CollectContext \/ Finalize \/ Abort
      BY <3>7 DEF CollectContext, Finalize, Abort, Running, Returns
    <3> QED BY <1>3, <2>4, <3>1, <3>2, <3>3, <3>4, <3>5, <3>6, <3>7 DEF Operate
  <2> QED BY <2>1, <2>2, <2>3, <2>4 DEF RepairsCounted
<1>4. pc' # "ran" \/ UNCHANGED <<pc, mem, run>> \/ Operate
  <2>1. CASE CommitStep
    BY <2>1, CommitCases
  <2>2. CASE CreateRun \/ Resume \/ Pause \/ Crash \/ EditWorktree \/ BudgetStop
    BY <2>2 DEF CreateRun, Resume, Pause, Crash, EditWorktree, BudgetStop
  <2>3. CASE UNCHANGED vars
    BY <2>3 DEF vars
  <2> QED BY <2>1, <2>2, <2>3 DEF Next, Loop
<1> QED BY <1>1, <1>2, <1>3, <1>4

-----------------------------------------------------------------------------
(* The induction and what follows from it.                                 *)

LEMMA InitInduction == Init => Induction
<1> SUFFICES ASSUME Init PROVE Induction
  OBVIOUS
<1>1. TypeOK
  BY InitTyped
<1>2. PICK budget \in Budgets, bad \in BOOLEAN :
        run = [status |-> "absent", node |-> Start, last |-> "none",
               counts |-> [e \in Edges |-> 0], steps |-> 0, llm |-> 0, tools |-> 0,
               budget |-> budget, over |-> {}, data |-> NewData,
               error |-> "none", badPlan |-> bad]
  BY DEF Init
<1>3. EvidenceAtGates /\ RepairsCounted
  BY <1>2 DEF Init, EvidenceAtGates, RepairsCounted
<1>4. budget.steps \in Nat /\ budget.llm \in Nat /\ budget.tools \in Nat
  BY BudgetAssumption
<1>5. BudgetRespected
  BY <1>2, <1>4 DEF BudgetRespected
<1>6. ASSUME NEW e \in Edges PROVE run.counts[e] <= Cap[e]
  BY <1>2, CapAssumption
<1>7. BudgetInduction
  BY <1>5, <1>6 DEF Init, BudgetInduction, CapsRespected
<1> QED BY <1>1, <1>3, <1>7 DEF Induction

LEMMA NextInduction == Induction /\ [Next]_vars => Induction'
<1> SUFFICES ASSUME Induction, [Next]_vars PROVE Induction'
  OBVIOUS
<1>1. TypeOK /\ EvidenceAtGates /\ BudgetInduction /\ RepairsCounted
  BY DEF Induction
<1>2. TypeOK'
  BY <1>1, NextTyped
<1>3. RepairsCounted'
  BY <1>1, NextRepairs
<1>4. EvidenceAtGates' /\ BudgetInduction'
  <2>1. CASE Operate
    BY <1>1, <2>1, OperateEvidence, OperateBudget
  <2>2. CASE CommitStep
    BY <1>1, <2>2, CommitEvidence, CommitBudget
  <2>3. CASE CreateRun \/ Resume \/ Pause \/ Crash \/ EditWorktree \/ BudgetStop
    BY <1>1, <2>3, EnvironmentEvidence, EnvironmentBudget
  <2>4. CASE UNCHANGED vars
    <3>1. EvidenceAtGates'
      BY <1>1, <2>4 DEF vars, EvidenceAtGates, Evidence, Verified
    <3>2. BudgetInduction'
      BY <1>1, <2>4 DEF vars, BudgetInduction, BudgetRespected, CapsRespected, BudgetViolated
    <3> QED BY <3>1, <3>2
  <2> QED BY <2>1, <2>2, <2>3, <2>4 DEF Next, Loop
<1> QED BY <1>1, <1>2, <1>3, <1>4 DEF Induction

\* Every reachable state satisfies the inductive invariant: types, evidence in front of every
\* gate, counters within caps and budgets, repairs counted once.
THEOREM InductionHolds == Spec => []Induction
<1> QED BY InitInduction, NextInduction, PTL DEF Spec

\* A completed run holds passing evidence of application, tests and review, and the review
\* saw the worktree the tests ran on, whatever was killed, resumed or edited.
THEOREM CompletionIsVerified == Spec => []VerifiedCompletion
<1>1. Induction => VerifiedCompletion
  BY DEF Induction, EvidenceAtGates, Evidence, VerifiedCompletion
<1> QED BY <1>1, InductionHolds, PTL

\* No checkpoint has spent more steps, model calls or tool calls than its budget.
THEOREM BudgetsHold == Spec => []BudgetRespected
<1>1. Induction => BudgetRespected
  BY DEF Induction, BudgetInduction
<1> QED BY <1>1, InductionHolds, PTL

\* No edge is followed more often than max_traversals, for every cap function, so for every
\* graph the offline search may produce from this topology.
THEOREM CapsHold == Spec => []CapsRespected
<1>1. Induction => CapsRespected
  BY DEF Induction, BudgetInduction
<1> QED BY <1>1, InductionHolds, PTL
=============================================================================
