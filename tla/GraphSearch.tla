----------------------------- MODULE GraphSearch -----------------------------
(***************************************************************************)
(* optimize-graph: the tree search over mutations of a graph and the gate  *)
(* its winner has to pass.                                                 *)
(*                                                                         *)
(* A graph is its settings, one value for every slot a mutation may set    *)
(* (an edge's traversal cap, an edge's priority, a node's temperature),    *)
(* and its version.  A temperature that a node does not configure is a     *)
(* value of its own: its schema hash differs from that of the operator's   *)
(* default written out.  What evaluating a graph earns is measured, so any *)
(* reward may come out, once per graph.  The choice of a child by UCT is   *)
(* any choice; visits and mean rewards, which only that choice reads, are  *)
(* left out.                                                               *)
(***************************************************************************)
EXTENDS Integers, Sequences, FiniteSetsExt

CONSTANTS Slots, Caps,         \* Caps: the slots that are traversal caps
          Handwritten,         \* the settings of the repository's own graph
          Tunings,             \* the temperatures and priorities the envelope allows
          DefaultSpace,        \* what default_graph_mutations proposes, before it looks
          MutationFiles,       \* sets of mutations --mutations may name
          Train,               \* the training cases
          ValidationFiles,     \* sets of cases --validation-input may name; {} for none
          Rewards,             \* what training may measure
          Verdicts,            \* what validation may: gain in reward, outcome no worse
          MinGain, MaxIterations

\* A mutation names a slot and a value; a file may name a slot the graph does not have.
ASSUME SearchAssumption ==
  /\ Caps \subseteq Slots /\ Handwritten \in [Slots -> Int]
  /\ \A c \in Caps : Handwritten[c] >= 0
  /\ Tunings \subseteq Int /\ Rewards \subseteq Int /\ MaxIterations \in Nat \ {0}
  /\ Verdicts \subseteq [gain : Int, notWorse : BOOLEAN]
  /\ \A pool \in MutationFiles \cup {DefaultSpace} : \A m \in pool :
       m = [slot |-> m.slot, value |-> m.value]

VARIABLE search                \* the search under way, or Idle

Idle == [left |-> -1]
Searching == search # Idle

Original == [settings |-> Handwritten, version |-> <<>>]

Default(graph) == {m \in DefaultSpace : graph.settings[m.slot] # m.value}

\* A mutant: a cap is compared with the hand-written graph's, not with the base's.
CreepingEnvelope(graph, m) ==
  /\ m.slot \in Slots
  /\ m.value \in IF m.slot \in Caps THEN 1..Handwritten[m.slot] ELSE Tunings

\* validate_mutation_envelope
InEnvelope(graph, m) ==
  /\ m.slot \in Slots
  /\ m.value \in IF m.slot \in Caps THEN 1..graph.settings[m.slot] ELSE Tunings

\* validate_held_out_cases: neither an id nor a task of the training cases comes again.
HeldOut(validation) ==
  \A v \in validation, t \in Train : v.id # t.id /\ v.task # t.task

Admitted(graph, pool, validation) ==
  pool # {} /\ (\A m \in pool : InEnvelope(graph, m)) /\ HeldOut(validation)

Apply(settings, m) == [settings EXCEPT ![m.slot] = m.value]

\* The graph of a node of the tree.
SettingsAt(path) == search.tree[path]

\* A schema hash is in the evaluation cache from its first evaluation on.
RewardsOf(settings) ==
  IF settings \in DOMAIN search.known THEN {search.known[settings]} ELSE Rewards

\* A mutant: the root is not evaluated.
BeginUnevaluated(graph, pool, validation, inSample) ==
  search' = [left |-> MaxIterations - 1, base |-> graph, pool |-> pool,
             validation |-> validation, inSample |-> inSample,
             tree |-> [path \in {<<>>} |-> graph.settings], best |-> <<>>, known |-> [s \in {} |-> 0]]

\* The root is evaluated first; the rest of the iterations extend the tree.
Begin(graph, pool, validation, inSample) ==
  \E reward \in Rewards :
    search' = [left |-> MaxIterations - 1, base |-> graph, pool |-> pool,
               validation |-> validation, inSample |-> inSample,
               tree |-> [path \in {<<>>} |-> graph.settings], best |-> <<>>,
               known |-> [s \in {graph.settings} |-> reward]]

SlotsOf(path) == {path[i].slot : i \in DOMAIN path}

\* One mutation per slot and path, each tried once under a node.
Untried(path) ==
  {m \in search.pool : m.slot \notin SlotsOf(path) /\ Append(path, m) \notin DOMAIN search.tree}

\* The descent passes through nodes that have no mutation left to try.
Reached(path) == \A i \in 0..Len(path) - 1 : Untried(SubSeq(path, 1, i)) = {}

\* A mutant: the latest of the best wins, and wins with a mutation that changes nothing.
BetterOrEqual(reward) == reward >= search.known[SettingsAt(search.best)]

Better(reward) == reward > search.known[SettingsAt(search.best)]

Expand(path, m) ==
  /\ search.left > 0 /\ Reached(path) /\ m \in Untried(path)
  /\ LET child == Append(path, m)
         settings == Apply(SettingsAt(path), m)
     IN  \E reward \in RewardsOf(settings) :
           search' = [search EXCEPT
             !.left = @ - 1,
             !.tree = [q \in DOMAIN @ \cup {child} |-> IF q = child THEN settings ELSE @[q]],
             !.known = [s \in DOMAIN @ \cup {settings} |-> IF s = settings THEN reward ELSE @[s]],
             !.best = IF Better(reward) THEN child ELSE @]

\* A leaf with nothing left to try gives its cached reward again.
Revisit(path) ==
  /\ search.left > 0 /\ Reached(path) /\ Untried(path) = {}
  /\ \A m \in search.pool : Append(path, m) \notin DOMAIN search.tree
  /\ search' = [search EXCEPT !.left = @ - 1]

SearchStep ==
  /\ Searching
  /\ \E path \in DOMAIN search.tree : Revisit(path) \/ \E m \in search.pool : Expand(path, m)

\* A mutant: an optimized graph keeps the version of its base.
SameVersion(path) == search.base.version

\* optimized_graph_version: the version is a digest of base and mutations.
VersionAfter(path) ==
  IF path = <<>> THEN search.base.version ELSE Append(search.base.version, path)

PromotionAllowed == search.validation # {} \/ search.inSample

Status(verdict) ==
  IF PromotionAllowed /\ verdict.notWorse /\ verdict.gain >= MinGain /\ search.best # <<>>
  THEN "promoted"
  ELSE IF verdict.notWorse THEN "candidate" ELSE "rejected"

\* Base and winner on the validation cases, the gate, and the report; the flags the status was
\* computed from are in the report too and not told apart from it.
Outcome(verdict) ==
  [graph |-> [settings |-> SettingsAt(search.best), version |-> VersionAfter(search.best)],
   report |-> [status |-> Status(verdict), path |-> search.best, gain |-> verdict.gain]]

-----------------------------------------------------------------------------
(* What a version stands for.                                              *)

Mutations == [slot : Slots, value : Int]
Graphs == [settings : [Slots -> Int], version : Seq(Seq(Mutations))]

\* A base under a path of mutations: the last mutation of a slot counts.
LastOf(path, slot) == path[Max({i \in DOMAIN path : path[i].slot = slot})].value
Mutated(base, path) == [s \in Slots |-> IF s \in SlotsOf(path) THEN LastOf(path, s) ELSE base[s]]

\* The hand-written graph under one path after the other.
Rebuilt(version) ==
  [s \in Slots |->
     LET naming == {k \in DOMAIN version : s \in SlotsOf(version[k])}
     IN  IF naming = {} THEN Handwritten[s] ELSE LastOf(version[Max(naming)], s)]

\* The graph that the first k searches of a version had come to; the hand-written one for 0.
Ancestor(version, k) == Rebuilt(SubSeq(version, 1, k))

\* A graph that searches on searches can come to: it is what its version says, and no cap is
\* negative or above that of a graph it descends from.
Descended(graph) ==
  /\ graph \in Graphs /\ graph.settings = Rebuilt(graph.version)
  /\ \A c \in Caps, k \in 0..Len(graph.version) :
       graph.settings[c] \in 0..Ancestor(graph.version, k)[c]

-----------------------------------------------------------------------------

SearchTypeOK ==
  Searching =>
    /\ search.left \in 0..MaxIterations - 1
    /\ search.base.settings \in [Slots -> Int]
    /\ search.best \in DOMAIN search.tree
    /\ \A path \in DOMAIN search.tree : SettingsAt(path) \in DOMAIN search.known
    /\ \A s \in DOMAIN search.known : search.known[s] \in Rewards

\* The winner of a search is its best graph, is not the base under mutations that leave its
\* schema hash as it was, and sets no slot twice: the mutation path in the evidence rebuilds it.
WinnerIsBest ==
  Searching =>
    /\ \A s \in DOMAIN search.known : search.known[s] <= search.known[SettingsAt(search.best)]
    /\ search.best # <<>> => SettingsAt(search.best) # search.base.settings
    /\ \A path \in DOMAIN search.tree : \A i, j \in DOMAIN path : path[i].slot = path[j].slot => i = j
=============================================================================
