---------------------------- MODULE MCGraphRuntime ----------------------------
(* Budgets for model checking: the longest path exactly, and one far below it. *)
EXTENDS GraphRuntime, GraphFile

MCBudgets == {[steps |-> 21, llm |-> 10, tools |-> 9],
              [steps |-> 9, llm |-> 3, tools |-> 4]}

LongBudget == {[steps |-> 21, llm |-> 10, tools |-> 9]}

\* The graph the runtime executes is the file's, and the file is accepted.
ASSUME FileIsTranslated ==
  /\ ConditionsTranslated /\ MissingCountsRaise
  /\ GraphAccepted(Nodes, Start, Terminals, [e \in Edges |-> e])

ASSUME AcceptedGraphsEnd == AcceptanceMeansEnds({"a", "b", "c"}, "a")
=============================================================================
