----------------------------- MODULE CodingGraph -----------------------------
(***************************************************************************)
(* The default repository graph (graphs/coding_supergraph.yaml) and the    *)
(* authority boundary of every controller, valid_outgoing_edges.           *)
(*                                                                         *)
(* An edge is the pair <<source, target>>: the graph has no parallel edges.*)
(* Traversal caps are the constant Cap, because the offline graph search   *)
(* only ever varies caps and priorities of this topology; DefaultCap holds *)
(* the caps of the file.                                                   *)
(***************************************************************************)
EXTENDS Integers

CONSTANT Cap    \* Cap[e] is max_traversals of edge e

Nodes == {"intake", "context", "plan", "plan_check", "implement", "apply",
          "tests", "review", "diagnose", "repair", "finish", "abort"}

Start == "intake"
Terminals == {"finish", "abort"}

\* Kinds that budget_violations tells apart; intake and the finals count as neither.
LlmNodes == {"plan", "implement", "review", "diagnose", "repair"}
ToolNodes == {"context", "apply", "plan_check", "tests"}    \* tools and verifiers

Unconditional == {<<"intake", "context">>, <<"plan", "plan_check">>,
                  <<"implement", "apply">>, <<"diagnose", "repair">>,
                  <<"repair", "apply">>}
ByRoute == {<<"context", "implement">>, <<"context", "plan">>}
OnPass == {<<"plan_check", "implement">>, <<"apply", "tests">>,
           <<"tests", "review">>, <<"review", "finish">>}
OnFailRetry == {<<"apply", "diagnose">>, <<"tests", "diagnose">>,
                <<"review", "diagnose">>}
OnFailStop == {<<"apply", "abort">>, <<"tests", "abort">>, <<"review", "abort">>}
PlanRetry == {<<"plan_check", "plan">>, <<"plan_check", "abort">>}

Edges == Unconditional \cup ByRoute \cup OnPass \cup OnFailRetry
         \cup OnFailStop \cup PlanRetry

\* The literal bound 2 of the file's conditions on repair_count and plan_revision_count.
RepairLimit == 2
PlanLimit == 2

DefaultCap ==
  [e \in Edges |->
     IF e \in {<<"apply", "tests">>, <<"tests", "review">>} THEN 3
     ELSE IF e \in OnFailRetry \cup {<<"plan", "plan_check">>,
                      <<"diagnose", "repair">>, <<"repair", "apply">>} THEN 2
     ELSE 1]

\* EdgeSpec.max_traversals is at least 1.
ASSUME CapAssumption == Cap \in [Edges -> Nat \ {0}]

-----------------------------------------------------------------------------

\* The condition of edge e over the run's data d.
When(e, d) ==
  \/ e \in Unconditional
  \/ e = <<"context", "implement">> /\ d.route = "fast"
  \/ e = <<"context", "plan">> /\ d.route = "planned"    \* deep or repair
  \/ e \in OnPass /\ d.verdict = "pass"
  \/ e \in OnFailRetry /\ d.verdict = "fail" /\ d.repairs < RepairLimit
  \/ e \in OnFailStop /\ d.verdict = "fail" /\ d.repairs >= RepairLimit
  \/ e = <<"plan_check", "plan">> /\ d.verdict = "fail" /\ d.planRev < PlanLimit
  \/ e = <<"plan_check", "abort">> /\ d.verdict = "fail" /\ d.planRev >= PlanLimit

\* A mutant whose cap is one traversal short (count + 1 >= max_traversals).
ShortOutgoing(counts, d, n) ==
  {e \in Edges : e[1] = n /\ counts[e] + 1 < Cap[e] /\ When(e, d)}

\* valid_outgoing_edges: the edges any controller may choose from at node n.
ValidOutgoing(counts, d, n) ==
  {e \in Edges : e[1] = n /\ counts[e] < Cap[e] /\ When(e, d)}
=============================================================================
