------------------------ MODULE GraphRuntimeRefinement ------------------------
(***************************************************************************)
(* GraphRuntime implements VerificationGate: seen at its checkpoints, each *)
(* step of the loop is a step of the gate or changes nothing the gate sees. *)
(***************************************************************************)
EXTENDS GraphRuntimeProofs

\* The gate sees the durable row only.
LEMMA SameRow == ASSUME UNCHANGED run PROVE UNCHANGED Gate!vars
BY DEF Gate!vars, GateStage, StageAt

LEMMA InitRefines == Init => Gate!Init
<1> SUFFICES ASSUME Init PROVE Gate!Init
  OBVIOUS
<1>1. PICK budget \in Budgets, bad \in BOOLEAN :
        run = [status |-> "absent", node |-> Start, last |-> "none",
               counts |-> [e \in Edges |-> 0], steps |-> 0, llm |-> 0, tools |-> 0,
               budget |-> budget, over |-> {}, data |-> NewData,
               error |-> "none", badPlan |-> bad]
  BY DEF Init
<1>2. run.status = "absent" /\ run.node = "intake" /\ run.data.repairs = 0
  BY <1>1 DEF Start, NewData
<1>3. GateStage = "proposing"
  BY <1>2 DEF GateStage, StageAt
<1> QED BY <1>2, <1>3 DEF Gate!Init

\* Starting the run is still a proposal; spending a budget is giving up.
LEMMA StopRefines ==
  ASSUME Induction, CreateRun \/ BudgetStop
  PROVE  [Gate!Next]_(Gate!vars)
<1>1. run \in Runs /\ run.node \in Nodes
  BY DEF Induction, TypeOK, Runs
<1>2. CASE CreateRun
  <2>1. run.status = "absent" /\ run.node = "intake"
    BY <1>2 DEF CreateRun, Induction, EvidenceAtGates, Start
  <2>2. run'.status = "running" /\ run'.node = run.node /\ run'.data = run.data
    BY <1>1, <1>2 DEF CreateRun, Runs
  <2> QED BY <2>1, <2>2 DEF Gate!vars, GateStage, StageAt
<1>3. CASE BudgetStop
  <2>1. run.status = "running"
    BY <1>3 DEF BudgetStop, Induction, EvidenceAtGates
  <2>2. run'.status = "failed" /\ run'.data = run.data
    BY <1>1, <1>3 DEF BudgetStop, Runs
  <2>3. GateStage = StageAt(run.node) /\ GateStage' = "rejected"
    BY <2>1, <2>2 DEF GateStage
  <2>4. CASE run.node = "abort"
    BY <2>2, <2>3, <2>4 DEF Gate!vars, StageAt
  <2>5. CASE run.node # "abort"
    <3>1. StageAt(run.node) \in Gate!Stages \ {"delivered", "rejected"}
      BY <1>1, <2>5 DEF StageAt, Gate!Stages, Gate!Gates
    <3>2. Gate!GiveUp
      BY <2>2, <2>3, <3>1 DEF Gate!GiveUp
    <3> QED BY <3>2 DEF Gate!Next
  <2> QED BY <2>4, <2>5
<1> QED BY <1>2, <1>3

\* A terminal node ends the candidate: finish delivers it, abort leaves it rejected.
LEMMA FinishRefines ==
  ASSUME Induction, pc = "ran", run.node \in Terminals,
         NEW over \in {{}, {"tokens"}, {"seconds"}}, run' = Finished(Counted(run, over))
  PROVE  [Gate!Next]_(Gate!vars)
<1> DEFINE c == Counted(run, over)
<1>1. run \in Runs /\ mem \in Data /\ TypeOK
  BY DEF Induction, TypeOK
<1>2. c \in Runs /\ c.data = mem
  BY <1>1, CountedTyped
<1>3. c.node = run.node
  BY <1>1 DEF Counted, Runs
<1> HIDE DEF c
<1>4. run' = Finished(c)
  BY DEF c
<1>5. run.status = "running" /\ mem.repairs = run.data.repairs
  <2>1. run.data.repairs \in Nat
    BY <1>1 DEF Runs, Data
  <2>2. run.node # "repair"
    BY DEF Terminals
  <2> QED BY <2>1, <2>2 DEF Induction, EvidenceAtGates, RepairsCounted
<1>6. CASE run.node = "abort"
  <2>1. run'.status = "failed" /\ run'.data = mem
    BY <1>2, <1>3, <1>4, <1>6 DEF Finished, Runs
  <2> QED BY <1>5, <1>6, <2>1 DEF Gate!vars, GateStage, StageAt
<1>7. CASE run.node = "finish"
  <2>1. run'.status = "completed" /\ run'.data = mem
    BY <1>2, <1>3, <1>4, <1>7 DEF Finished, Runs
  <2>2. GateStage = "approved" /\ GateStage' = "delivered"
    BY <1>5, <1>7, <2>1 DEF GateStage, StageAt
  <2>3. Gate!Deliver
    BY <1>5, <2>1, <2>2 DEF Gate!Deliver
  <2> QED BY <2>3 DEF Gate!Next
<1> QED BY <1>6, <1>7 DEF Terminals

\* An edge's condition decides what following it means for the candidate.
LEMMA FollowRefines ==
  ASSUME Induction, pc = "ran", NEW over \in {{}, {"tokens"}, {"seconds"}},
         NEW e \in ValidOutgoing(run.counts, mem, run.node),
         run' = Follow(Counted(run, over), e)
  PROVE  [Gate!Next]_(Gate!vars)
<1> DEFINE c == Counted(run, over)
<1>1. run \in Runs /\ mem \in Data /\ TypeOK
  BY DEF Induction, TypeOK
<1>2. c \in Runs /\ c.data = mem
  BY <1>1, CountedTyped
<1>3. c.status = run.status
  BY <1>1 DEF Counted, Runs
<1> HIDE DEF c
<1>4. e \in Edges /\ e[1] = run.node /\ When(e, mem)
  BY DEF ValidOutgoing
<1>5. run.status = "running"
  BY DEF Induction, EvidenceAtGates
<1>6. run'.status = "running" /\ run'.node = e[2] /\ run'.data = mem
  BY <1>2, <1>3, <1>5 DEF Follow, Runs, c
<1>7. GateStage = StageAt(e[1]) /\ GateStage' = StageAt(e[2])
  BY <1>4, <1>5, <1>6 DEF GateStage
<1>8. /\ run.data.repairs \in Nat /\ run'.data.repairs = mem.repairs
      /\ mem.repairs = run.data.repairs + (IF e[1] = "repair" THEN 1 ELSE 0)
  BY <1>1, <1>4, <1>6 DEF Runs, Data, Induction, RepairsCounted
<1>9. CASE e \in Unconditional
  <2>1. CASE e \in {<<"intake", "context">>, <<"plan", "plan_check">>, <<"diagnose", "repair">>}
    BY <1>7, <1>8, <2>1 DEF StageAt, Gate!vars
  <2>2. CASE e = <<"implement", "apply">>
    BY <1>7, <1>8, <2>2 DEF StageAt, Gate!Propose, Gate!Next
  <2>3. CASE e = <<"repair", "apply">>
    BY <1>7, <1>8, <2>3 DEF StageAt, Gate!Repair, Gate!Next
  <2> QED BY <1>9, <2>1, <2>2, <2>3 DEF Unconditional
<1>10. CASE e \in ByRoute
  BY <1>7, <1>8, <1>10 DEF ByRoute, StageAt, Gate!vars
<1>11. CASE e \in OnPass
  <2>1. CASE e = <<"plan_check", "implement">>
    BY <1>7, <1>8, <2>1 DEF StageAt, Gate!vars
  <2>2. CASE e \in {<<"apply", "tests">>, <<"tests", "review">>, <<"review", "finish">>}
    BY <1>7, <1>8, <2>2 DEF StageAt, Gate!Accept, Gate!Next
  <2> QED BY <1>11, <2>1, <2>2 DEF OnPass
<1>12. CASE e \in OnFailRetry
  <2>1. mem.repairs < RepairLimit
    BY <1>4, <1>12 DEF When, Unconditional, OnFailRetry, OnPass, OnFailStop, PlanRetry
  <2>2. Gate!Reject
    BY <1>7, <1>8, <1>12, <2>1 DEF OnFailRetry, StageAt, Gate!Reject, Gate!Gates, RepairLimit
  <2> QED BY <2>2 DEF Gate!Next
<1>13. CASE e \in OnFailStop
  BY <1>7, <1>8, <1>13 DEF OnFailStop, StageAt, Gate!GiveUp, Gate!Stages, Gate!Gates, Gate!Next
<1>14. CASE e \in PlanRetry
  <2>1. CASE e = <<"plan_check", "plan">>
    BY <1>7, <1>8, <2>1 DEF StageAt, Gate!vars
  <2>2. CASE e = <<"plan_check", "abort">>
    BY <1>7, <1>8, <2>2 DEF StageAt, Gate!GiveUp, Gate!Stages, Gate!Gates, Gate!Next
  <2> QED BY <1>14, <2>1, <2>2 DEF PlanRetry
<1> QED BY <1>4, <1>9, <1>10, <1>11, <1>12, <1>13, <1>14 DEF Edges

LEMMA NextRefines == Induction /\ [Next]_vars => [Gate!Next]_(Gate!vars)
<1> SUFFICES ASSUME Induction, [Next]_vars PROVE [Gate!Next]_(Gate!vars)
  OBVIOUS
<1>1. CASE UNCHANGED run
  BY <1>1, SameRow
<1>2. CASE CreateRun \/ BudgetStop
  BY <1>2, StopRefines
<1>3. CASE CommitStep
  <2>1. pc = "ran"
    BY <1>3, CommitCases
  <2>2. PICK over \in {{}, {"tokens"}, {"seconds"}} :
        \/ /\ run.node \in Terminals /\ run' = Finished(Counted(run, over))
           /\ pc' = "down" /\ mem' = mem
        \/ pc' = "down" /\ mem' = run.data /\ run' = run
        \/ /\ run.node \notin Terminals
           /\ \E e \in ValidOutgoing(run.counts, mem, run.node) :
                run' = Follow(Counted(run, over), e)
           /\ pc' = "ready" /\ mem' = mem
    BY <1>3, CommitCases
  <2> QED BY <1>1, <2>1, <2>2, FinishRefines, FollowRefines
<1>4. UNCHANGED run \/ CreateRun \/ BudgetStop \/ CommitStep
  BY DEF Next, Loop, vars, Resume, Pause, Crash, EditWorktree, Operate, RouteTask,
         CollectContext, MakePlan, CheckPlan, Implement, ApplyCandidate, RunTests, Review,
         Diagnose, Repair, Finalize, Abort, Returns
<1> QED BY <1>1, <1>2, <1>3, <1>4

\* The loop implements the verification gate for every cap function and every set of budgets:
\* nothing is delivered without the three verdicts in order, a rejection costs one of at most
\* RepairLimit repairs, and a rejected run delivers nothing.
THEOREM GateImplemented == Spec => ImplementsGate
<1>1. Init => Gate!Init
  BY InitRefines
<1>2. Induction /\ [Next]_vars => [Gate!Next]_(Gate!vars)
  BY NextRefines
<1> QED BY <1>1, <1>2, InductionHolds, PTL DEF Spec, ImplementsGate, Gate!Spec

\* What the gate keeps about repairs: one is started only while one is left.
RepairsLeft ==
  /\ run.data.repairs \in 0..RepairLimit
  /\ GateStage = "repairing" => run.data.repairs < RepairLimit

\* No run, however often it is resumed, is repaired more than twice (the conditions on the
\* edges to diagnose and the counter repair advances).
THEOREM RepairsBounded == Spec => []RepairsLeft
<1>1. Gate!Init => RepairsLeft
  BY DEF Gate!Init, RepairsLeft, RepairLimit
<1>2. RepairsLeft /\ [Gate!Next]_(Gate!vars) => RepairsLeft'
  <2> SUFFICES ASSUME RepairsLeft, [Gate!Next]_(Gate!vars) PROVE RepairsLeft'
    OBVIOUS
  <2> USE DEF RepairsLeft, RepairLimit
  <2>1. CASE Gate!Propose
    BY <2>1 DEF Gate!Propose
  <2>2. CASE Gate!Accept
    BY <2>2 DEF Gate!Accept
  <2>3. CASE Gate!Reject
    BY <2>3 DEF Gate!Reject
  <2>4. CASE Gate!Repair
    BY <2>4 DEF Gate!Repair
  <2>5. CASE Gate!Deliver \/ Gate!GiveUp
    BY <2>5 DEF Gate!Deliver, Gate!GiveUp
  <2>6. CASE UNCHANGED Gate!vars
    BY <2>6 DEF Gate!vars
  <2> QED BY <2>1, <2>2, <2>3, <2>4, <2>5, <2>6 DEF Gate!Next
<1> QED BY <1>1, <1>2, GateImplemented, PTL DEF ImplementsGate, Gate!Spec
=============================================================================
