----------------------------- MODULE GraphControl -----------------------------
(***************************************************************************)
(* What the two controllers choose: the deterministic one and the MLX one, *)
(* whose learned heads add any number to the score of any choice.  An edge *)
(* is its key, source, target, priority and cap; candidates are the edges  *)
(* valid_outgoing_edges returns, by falling priority.  Scores are in       *)
(* tenths.                                                                 *)
(***************************************************************************)
EXTENDS Integers, FiniteSets, SequencesExt

Routes == <<"fast", "deep", "repair">>
StopActions == <<"continue", "repair", "finish", "abort">>

\* What a task says, as the marker lists find it.
Markers == [repair : BOOLEAN, deep : BOOLEAN, fast : BOOLEAN,
            length : {"below 140", "140 to 500", "above 500"}]

RuleRoute(task) ==
  IF task.repair THEN "repair"
  ELSE IF task.deep \/ task.length = "above 500" THEN "deep"
  ELSE IF task.fast \/ task.length = "below 140" THEN "fast"
  ELSE "deep"

\* The hashed router replaces the rule when it knows the route and is sure of it.
RouteOf(task, prediction) ==
  IF prediction.loaded /\ prediction.route \in ToSet(Routes) /\ prediction.confident
  THEN prediction.route ELSE RuleRoute(task)

Targets(candidates) == {candidates[i].to : i \in DOMAIN candidates}

FinalAction(node) == IF node = "abort" THEN "abort" ELSE "finish"

\* DeterministicGraphController.select_stop; stalled: no progress for as long as the budget lets.
StopOf(node, terminal, candidates, stalled) ==
  LET targets == Targets(candidates)
  IN  IF terminal THEN FinalAction(node)
      ELSE IF stalled THEN "abort"
      ELSE IF "finish" \in targets THEN "finish"
      ELSE IF targets = {"abort"} THEN "abort"
      ELSE IF targets \cap {"diagnose", "repair"} # {} THEN "repair"
      ELSE "continue"

Preferred(action) ==
  CASE action = "repair" -> "diagnose" [] action \in {"finish", "abort"} -> action
    [] action = "continue" -> "none"

EdgeOf(candidates, action) ==
  LET preferred == {i \in DOMAIN candidates : candidates[i].to = Preferred(action)}
  IN  IF preferred = {} THEN candidates[1]
      ELSE candidates[CHOOSE i \in preferred : \A j \in preferred : i <= j]

-----------------------------------------------------------------------------
(* MLXGraphController.                                                     *)

ActionFor(target) ==
  CASE target \in {"abort", "finish"} -> target
    [] target \in {"diagnose", "repair"} -> "repair"
    [] target \notin {"abort", "finish", "diagnose", "repair"} -> "continue"

AllowedActions(node, candidates, stalled) ==
  (IF candidates = <<>> THEN {FinalAction(node)} ELSE {ActionFor(t) : t \in Targets(candidates)})
  \cup (IF stalled THEN {"abort"} ELSE {})

\* _context: the policy is asked unless the choice is forced and forced choices are skipped.
Asked(policy, skipForced, mask) == policy /\ ~(skipForced /\ Cardinality(mask) <= 1)

PriorAction(node, candidates) ==
  IF candidates = <<>> THEN FinalAction(node) ELSE ActionFor(candidates[1].to)

\* masked_softmax_argmax: the best score under the mask, the earliest of equals; it raises on
\* an empty mask.
MaskedChoices(score, mask, learned) ==
  IF learned THEN mask
  ELSE {i \in mask : \A j \in mask : score[i] > score[j] \/ (score[i] = score[j] /\ i <= j)}

LearnedRoutes(task, learned) ==
  LET score == [i \in DOMAIN Routes |-> IF Routes[i] = RuleRoute(task) THEN 80 ELSE 0]
  IN  {Routes[i] : i \in MaskedChoices(score, DOMAIN Routes, learned)}

Stops(node, candidates, stalled, learned) ==
  LET allowed == AllowedActions(node, candidates, stalled)
      score == [i \in DOMAIN StopActions |->
                  IF StopActions[i] = PriorAction(node, candidates) THEN 80 ELSE 0]
      chosen == MaskedChoices(score, {i \in DOMAIN StopActions : StopActions[i] \in allowed}, learned)
  IN  {StopActions[i] : i \in chosen}

\* The compiled tables: the graph's edges, in the order of their keys.
Compiled(edges) == SetToSortSeq(edges, LAMBDA e, f : e.key < f.key)

Mask(tables, counts, node, candidates) ==
  {i \in DOMAIN tables :
     /\ tables[i].from = node /\ \E j \in DOMAIN candidates : candidates[j].key = tables[i].key
     /\ counts[tables[i].key] < tables[i].cap}

EdgesOf(tables, counts, node, candidates, action, learned) ==
  LET mask == Mask(tables, counts, node, candidates)
      score == [i \in DOMAIN tables |->
                  tables[i].priority
                  + IF i \in mask /\ tables[i].to = Preferred(action) THEN 60 ELSE 0]
  IN  {tables[i] : i \in MaskedChoices(score, mask, learned)}

-----------------------------------------------------------------------------
(* What every decision must satisfy.                                       *)

\* valid_outgoing_edges, with the conditions that hold given as a set of keys.
Candidates(edges, counts, node, holding) ==
  SetToSortSeq({e \in edges : e.from = node /\ counts[e.key] < e.cap /\ e.key \in holding},
               LAMBDA e, f : e.priority > f.priority)

\* Whatever the learned heads say, an action and an edge are found, the edge is a candidate,
\* and the mask over the compiled tables is exactly the candidates.
DecisionSound(edges, counts, node, holding, stalled) ==
  LET candidates == Candidates(edges, counts, node, holding)
      tables == Compiled(edges)
      stops == Stops(node, candidates, stalled, TRUE)
  IN  candidates # <<>> =>
        /\ {tables[i] : i \in Mask(tables, counts, node, candidates)} = ToSet(candidates)
        /\ EdgeOf(candidates, StopOf(node, FALSE, candidates, stalled)) \in ToSet(candidates)
        /\ Stops(node, candidates, stalled, FALSE) \subseteq stops
        /\ \A action \in stops :
             LET quiet == EdgesOf(tables, counts, node, candidates, action, FALSE)
                 any == EdgesOf(tables, counts, node, candidates, action, TRUE)
             IN  quiet # {} /\ quiet \subseteq any /\ any \subseteq ToSet(candidates)

\* With priorities less than 60 apart, as in the repository's graph, and the same stop, the MLX
\* controller without a policy takes the deterministic controller's edge.
QuietAgrees(edges, counts, node, holding, action) ==
  LET candidates == Candidates(edges, counts, node, holding)
  IN  candidates # <<>> =>
        EdgesOf(Compiled(edges), counts, node, candidates, action, FALSE)
          = {EdgeOf(candidates, action)}

\* Skipping forced choices changes none: without a policy, or with one choice, the mask decides.
SkippingIsSafe(score, mask) ==
  mask # {} => \A policy \in BOOLEAN :
    MaskedChoices(score, mask, Asked(policy, TRUE, mask))
      = MaskedChoices(score, mask, Asked(policy, FALSE, mask))
=============================================================================
