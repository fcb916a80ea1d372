---------------------------- MODULE MCDeployment ----------------------------
(* A retry edge, its way back, and one temperature. *)
EXTENDS Deployment, GraphControl, TLC

\* No temperature is configured.
Absent == -1
MCHandwritten == [s \in Slots |-> IF s \in Caps THEN 2 ELSE Absent]

Set(slot, value) == [slot |-> slot, value |-> value]

\* Caps 1 and 2 for an edge whose cap is 2; a file lowers the cap or leaves it at 1, and writes
\* out the temperature that is the operator's default.
MCDefaultSpace == {Set("retry", 1), Set("retry", 2)}
MCMutationFiles == {{Set("retry", 1), Set("heat", 0)}, {Set("retry", 3)}}

Case(id, task) == [id |-> id, task |-> task]
MCTrain == {Case("c1", "t1")}
MCValidationFiles == {{}, {Case("c2", "t2")}, {Case("c2", "t1")}}

Verdict(gain, notWorse) == [gain |-> gain, notWorse |-> notWorse]
MCVerdicts == {Verdict(1, TRUE), Verdict(0, TRUE), Verdict(1, FALSE)}

\* An earlier search lowered the cap and was promoted.
MCEarlier ==
  LET path == <<Set("retry", 1)>>
  IN  [graph |-> [settings |-> [MCHandwritten EXCEPT !["retry"] = 1], version |-> <<path>>],
       report |-> [status |-> "promoted", path |-> path, gain |-> MinGain]]

\* A node with four ways on, and another node's edge between them in the order of keys.
Edge(key, from, to, priority, cap) ==
  [key |-> key, from |-> from, to |-> to, priority |-> priority, cap |-> cap]

ControlEdges(top) ==
  {Edge(1, "tests", "abort", 80, 1), Edge(2, "tests", "diagnose", 90, 1),
   Edge(3, "review", "finish", 100, 1), Edge(4, "tests", "review", top, 2),
   Edge(5, "tests", "finish", 85, 1)}

ASSUME DecisionsAreSound ==
  \A top \in {95, 200}, counts \in [1..5 -> 0..1], holding \in SUBSET (1..5), stalled \in BOOLEAN :
    DecisionSound(ControlEdges(top), counts, "tests", holding, stalled)

ASSUME ControllersAgree ==
  \A counts \in [1..5 -> 0..1], holding \in SUBSET (1..5), action \in ToSet(StopActions) :
    QuietAgrees(ControlEdges(95), counts, "tests", holding, action)

\* The rule decides unless a learned route is known and sure.
ASSUME RoutesAreKnown ==
  \A task \in Markers, route \in {"fast", "elsewhere"}, loaded, confident \in BOOLEAN :
    LET prediction == [route |-> route, loaded |-> loaded, confident |-> confident]
    IN  /\ RouteOf(task, prediction) \in ToSet(Routes)
        /\ LearnedRoutes(task, FALSE) = {RuleRoute(task)}
        /\ LearnedRoutes(task, loaded) \subseteq ToSet(Routes)
        /\ route = "elsewhere" => RouteOf(task, prediction) = RuleRoute(task)

ASSUME ForcedIsForced ==
  \A score \in [1..3 -> {0, 60, 80}], mask \in SUBSET (1..3) : SkippingIsSafe(score, mask)

MCSymmetry == Permutations(Procs)
=============================================================================
