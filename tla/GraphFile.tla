------------------------------ MODULE GraphFile ------------------------------
(***************************************************************************)
(* What a graph file says beyond its edges: the conditions under `when`,   *)
(* as evaluate_condition computes them, and what GraphSpec accepts.  TLC   *)
(* compares the conditions of the repository's graph with CodingGraph's    *)
(* translation of them, over runs whose data lacks a key included.         *)
(*                                                                         *)
(* A value is a tuple that starts with its Python type.  An expression is  *)
(* a record; a key is looked up in the run's data.  Numbers are not        *)
(* compared with truth values, nor text with `in`: no condition does.      *)
(***************************************************************************)
EXTENDS CodingGraph, FiniteSets, SequencesExt

None == <<"none">>
Error == <<"error">>      \* the expression raises
Bool(b) == <<"bool", b>>
Str(s) == <<"str", s>>
Num(n) == <<"num", n>>

Truthy(v) == v \notin {None, Bool(FALSE), Str(""), Num(0), <<"set", {}>>}

\* One comparison; an order of unlike types and `in` a scalar raise.
Compared(operator, left, right) ==
  CASE Error \in {left, right} -> Error
    [] operator = "==" -> Bool(left = right)
    [] operator = "<" -> IF left[1] = "num" /\ right[1] = "num" THEN Bool(left[2] < right[2])
                         ELSE Error
    [] operator = ">=" -> IF left[1] = "num" /\ right[1] = "num" THEN Bool(left[2] >= right[2])
                          ELSE Error
    [] operator = "in" -> IF right[1] = "set" THEN Bool(left \in right[2]) ELSE Error

RECURSIVE Evaluate(_, _)

\* `and` and `or` stop at the operand that decides, and answer with a truth value.
Connected(until, args, data) ==
  LET Look(decided, arg) ==
        IF decided # Bool(~until) THEN decided
        ELSE LET v == Evaluate(arg, data)
             IN  IF v = Error THEN Error ELSE Bool(Truthy(v))
  IN  FoldLeft(Look, Bool(~until), args)

\* a op b op c ... : each operand is evaluated once, until a comparison fails.
Chained(first, links, data) ==
  LET Link(s, l) ==
        IF s.result # Bool(TRUE) THEN s
        ELSE LET right == Evaluate(l.right, data)
             IN  [left |-> right, result |-> Compared(l.op, s.left, right)]
  IN  FoldLeft(Link, [left |-> Evaluate(first, data), result |-> Bool(TRUE)], links).result

Evaluate(node, data) ==
  CASE node.kind = "const" -> node.value
    [] node.kind = "key" -> IF node.key \in DOMAIN data THEN data[node.key] ELSE None
    [] node.kind = "set" -> LET values == {Evaluate(node.args[i], data) : i \in DOMAIN node.args}
                            IN  IF Error \in values THEN Error ELSE <<"set", values>>
    [] node.kind = "and" -> Connected(FALSE, node.args, data)
    [] node.kind = "or" -> Connected(TRUE, node.args, data)
    [] node.kind = "not" -> LET v == Evaluate(node.arg, data)
                            IN  IF v = Error THEN Error ELSE Bool(~Truthy(v))
    [] node.kind = "compare" -> Chained(node.first, node.links, data)

Always == [kind |-> "const", value |-> Bool(TRUE)]

\* An edge whose condition raises is not a candidate.
Holds(expression, data) ==
  LET v == Evaluate(expression, data) IN v # Error /\ Truthy(v)

-----------------------------------------------------------------------------
(* The conditions of coding_supergraph.yaml.                               *)

Const(v) == [kind |-> "const", value |-> v]
Key(k) == [kind |-> "key", key |-> k]
Is(left, operator, right) ==
  [kind |-> "compare", first |-> left, links |-> <<[op |-> operator, right |-> right]>>]
VerdictIs(verdict) == Is(Key("verdict"), "==", Const(Str(verdict)))
FailAnd(key, operator, limit) ==
  [kind |-> "and", args |-> <<VerdictIs("fail"), Is(Key(key), operator, Const(Num(limit)))>>]

FileCondition(e) ==
  CASE e \in Unconditional -> Always
    [] e = <<"context", "implement">> -> Is(Key("route"), "==", Const(Str("fast")))
    [] e = <<"context", "plan">> ->
         Is(Key("route"), "in",
            [kind |-> "set", args |-> <<Const(Str("deep")), Const(Str("repair"))>>])
    [] e \in OnPass -> VerdictIs("pass")
    [] e \in OnFailRetry -> FailAnd("repair_count", "<", 2)
    [] e \in OnFailStop -> FailAnd("repair_count", ">=", 2)
    [] e = <<"plan_check", "plan">> -> FailAnd("plan_revision_count", "<", 2)
    [] e = <<"plan_check", "abort">> -> FailAnd("plan_revision_count", ">=", 2)

\* The data a run may hold: its route and verdict are set by nodes, the counts from the start.
FileData ==
  {[k \in keys \cup {"repair_count", "plan_revision_count"} |-> full[k]] :
     keys \in SUBSET {"route", "verdict"},
     full \in {[route |-> Str(r), verdict |-> Str(v), repair_count |-> Num(n),
                plan_revision_count |-> Num(m)] :
                 r \in {"fast", "deep", "repair"}, v \in {"pending", "pass", "fail"},
                 n \in 0..3, m \in 0..3}}

\* The same data as CodingGraph and GraphRuntime keep it.
Kept(data) ==
  [route |-> IF "route" \notin DOMAIN data THEN "none"
             ELSE IF data.route = Str("fast") THEN "fast" ELSE "planned",
   verdict |-> IF "verdict" \in DOMAIN data THEN data.verdict[2] ELSE "none",
   repairs |-> data.repair_count[2], planRev |-> data.plan_revision_count[2]]

-----------------------------------------------------------------------------
(* GraphSpec.validate_graph.  An edge is <<source, target>> or, labelled,  *)
(* <<source, target, label>>; edges is a function of any index to an edge.  *)

RECURSIVE Spread(_, _)

\* Everything reached from set along pairs.
Spread(set, pairs) ==
  LET wider == set \cup {p[2] : p \in {q \in pairs : q[1] \in set}}
  IN  IF wider = set THEN set ELSE Spread(wider, pairs)

GraphAccepted(nodes, start, terminals, edges) ==
  LET ahead == {<<edges[i][1], edges[i][2]>> : i \in DOMAIN edges}
      back == {<<p[2], p[1]>> : p \in ahead}
  IN  /\ start \in nodes /\ terminals \subseteq nodes
      /\ ahead \subseteq (nodes \ terminals) \X nodes
      /\ IsInjective(edges)
      /\ nodes \ terminals \subseteq {p[1] : p \in ahead}
      /\ nodes \subseteq Spread({start}, ahead)
      /\ nodes \subseteq Spread(terminals, back)

-----------------------------------------------------------------------------
(* What the two must satisfy.                                              *)

\* CodingGraph's When is what evaluating the file's text gives.
ConditionsTranslated ==
  \A e \in Edges, data \in FileData : Holds(FileCondition(e), data) <=> When(e, Kept(data))

\* A count that is missing raises only behind a failed verdict, never in front of one.
MissingCountsRaise ==
  \A e \in Edges, verdict \in {"pass", "fail"} :
    Evaluate(FileCondition(e), [k \in {"verdict"} |-> Str(verdict)]) = Error
      <=> verdict = "fail" /\ e \in OnFailRetry \cup OnFailStop \cup PlanRetry

\* A walk without repetition from a to b.
Joined(nodes, pairs, a, b) ==
  \E n \in 1..Cardinality(nodes) : \E walk \in [1..n -> nodes] :
    /\ walk[1] = a /\ walk[n] = b
    /\ \A i \in 1..n - 1 : <<walk[i], walk[i + 1]>> \in pairs

\* What is accepted has every node on a walk from the start to a terminal, and ends there.
AcceptanceMeansEnds(nodes, start) ==
  \A terminals \in SUBSET nodes, pairs \in SUBSET (nodes \X nodes) :
    GraphAccepted(nodes, start, terminals, [p \in pairs |-> p]) <=>
      /\ \A p \in pairs : p[1] \notin terminals
      /\ \A n \in nodes : /\ Joined(nodes, pairs, start, n)
                          /\ \E t \in terminals : Joined(nodes, pairs, n, t)
=============================================================================
