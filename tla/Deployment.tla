----------------------------- MODULE Deployment -----------------------------
(***************************************************************************)
(* The commands that meet at a bundle directory: optimize-graph, run and   *)
(* resume, from the repository's own graph, a graph.yaml or a promoted     *)
(* bundle; verify-graph-bundle.  One run is followed over any number of    *)
(* resumes.  What a step of it does is GraphRuntime's; here it traverses   *)
(* any edge the loaded graph has traversals left for.                      *)
(*                                                                         *)
(* A search reads and writes nothing but its own memory until it has an    *)
(* outcome, so the searches of two processes are taken one after another;  *)
(* all other steps interleave.                                             *)
(***************************************************************************)
EXTENDS GraphBundle, FiniteSets

CONSTANTS Earlier,                   \* what a search may have concluded before
          MaxCommands, MaxCrashes    \* bounds

ASSUME DeploymentAssumption ==
  /\ Descended(Earlier.graph) /\ Missing \notin Graphs
  /\ MaxCommands \in Nat /\ MaxCrashes \in Nat

VARIABLES
  row,         \* the stored run: status, graph version, traversals
  commands, crashes,
  outcomes,    \* history: what searches concluded, with their base
  ranOn        \* history: the graphs the run's steps used

vars == <<search, directory, pc, locals, row, commands, crashes, outcomes, ranOn>>

history == <<outcomes, ranOn>>
bounds == <<commands, crashes>>

NoRun == [status |-> "absent", version |-> <<>>, counts |-> [e \in Caps |-> 0]]

\* A run of the graph of outcome, stopped after its first step.
Started(outcome) == [NoRun EXCEPT !.status = "running", !.version = outcome.graph.version]

\* Nothing yet; or the bundle of an earlier search, and perhaps a run that was started from it.
Init ==
  /\ search = Idle /\ ProcInit /\ commands = 0 /\ crashes = 0
  /\ \/ Empty /\ row = NoRun /\ outcomes = {} /\ ranOn = {}
     \/ /\ Holds(Earlier) /\ outcomes = {Earlier}
        /\ \/ row = NoRun /\ ranOn = {}
           \/ row = Started(Earlier) /\ ranOn = {Earlier.graph.settings}

Command(p) == pc[p] = "idle" /\ commands < MaxCommands /\ commands' = commands + 1

-----------------------------------------------------------------------------
(* optimize-graph.                                                         *)

\* What optimize_graph refuses raises, and the command ends.
BeginSearch(p, graph) ==
  /\ ~Searching
  /\ \E pool \in MutationFiles \cup {Default(graph)}, validation \in ValidationFiles,
        inSample \in BOOLEAN :
       IF Admitted(graph, pool, validation)
       THEN /\ Begin(graph, pool, validation, inSample)
            /\ Goto(p, "search") /\ UNCHANGED locals
       ELSE Done(p) /\ UNCHANGED search
  /\ UNCHANGED <<directory, row, crashes, history>>

Optimize(p) ==
  /\ pc[p] = "verified" /\ purpose[p] \in {"optimize", "yaml"}
  /\ BeginSearch(p, got[p]) /\ UNCHANGED commands

SearchOn == SearchStep /\ UNCHANGED <<directory, pc, locals, row, bounds, history>>

\* The gate is computed, and the bundle written whatever it says.
Conclude(p) ==
  /\ pc[p] = "search" /\ search.left = 0
  /\ \E verdict \in Verdicts :
       LET outcome == Outcome(verdict)
       IN  /\ WriteBundle(p, outcome)
           /\ outcomes' = outcomes \cup {outcome}
  /\ search' = Idle
  /\ UNCHANGED <<row, bounds, ranOn>>

-----------------------------------------------------------------------------
(* run, resume, verify-graph-bundle.                                       *)

LoadBundle(p) ==
  /\ Command(p)
  /\ \E what \in {"run", "optimize", "report"} : Verify(p, what)
  /\ UNCHANGED <<search, row, crashes, history>>

\* --graph is not given, or names graph.yaml itself: parsed, and no more.
LoadYaml(p) ==
  /\ Command(p)
  /\ \E yaml \in {Original, graphFile} \ {Missing} : got' = [got EXCEPT ![p] = yaml]
  /\ Goto(p, "verified") /\ purpose' = [purpose EXCEPT ![p] = "yaml"]
  /\ UNCHANGED <<search, directory, job, digests, seen, row, crashes, history>>

BundleStep(p) ==
  /\ WriterStep(p) \/ VerifierStep(p)
  /\ UNCHANGED <<search, row, bounds, history>>

\* The outcome is reported.
Report(p) ==
  /\ pc[p] = "verified" /\ purpose[p] = "report"
  /\ Done(p)
  /\ UNCHANGED <<search, directory, row, bounds, history>>

\* A new run takes the graph's version; a stored one is resumed under the same version only.
EnterRun(p) ==
  /\ pc[p] = "verified" /\ purpose[p] \in {"run", "yaml"}
  /\ \A q \in Procs : pc[q] # "running"      \* the run lease
  /\ IF row.status = "absent" \/ (row.status = "running" /\ row.version = got[p].version)
     THEN /\ row' = [row EXCEPT !.status = "running", !.version = got[p].version]
          /\ Goto(p, "running") /\ UNCHANGED locals
     ELSE Done(p) /\ UNCHANGED row
  /\ UNCHANGED <<search, directory, bounds, history>>

\* valid_outgoing_edges and the controller's choice among them.
Traverse(p) ==
  /\ pc[p] = "running"
  /\ \E e \in Caps :
       /\ row.counts[e] < got[p].settings[e]
       /\ row' = [row EXCEPT !.counts[e] = @ + 1]
  /\ ranOn' = ranOn \cup {got[p].settings}
  /\ UNCHANGED <<search, directory, pc, locals, bounds, outcomes>>

\* A terminal node.
EndRun(p) ==
  /\ pc[p] = "running"
  /\ row' = [row EXCEPT !.status = "ended"]
  /\ Done(p)
  /\ UNCHANGED <<search, directory, bounds, history>>

\* --stop-after-steps, or a node without a valid edge: the run stays where it is.
LeaveRun(p) ==
  /\ pc[p] = "running"
  /\ Done(p)
  /\ UNCHANGED <<search, directory, row, bounds, history>>

Crash(p) ==
  /\ pc[p] # "idle" /\ crashes < MaxCrashes
  /\ crashes' = crashes + 1
  /\ Done(p)
  /\ search' = IF pc[p] = "search" THEN Idle ELSE search
  /\ UNCHANGED <<directory, row, commands, history>>

Next ==
  \/ SearchOn
  \/ \E p \in Procs :
       \/ Optimize(p) \/ Conclude(p)
       \/ LoadBundle(p) \/ LoadYaml(p) \/ BundleStep(p) \/ Report(p)
       \/ EnterRun(p) \/ Traverse(p) \/ EndRun(p) \/ LeaveRun(p)
       \/ Crash(p)

Spec == Init /\ [][Next]_vars

-----------------------------------------------------------------------------
(* Properties.                                                             *)

Verified == {p \in Procs : pc[p] \in {"verified", "running", "search"} /\ purpose[p] \notin {"none", "yaml"}}

TypeOK ==
  /\ SearchTypeOK
  /\ pc \in [Procs -> {"idle", "search", "graph", "truncate", "compiled", "benchmark", "digest",
                       "manifest", "compare", "load", "recompile", "evidence", "verified",
                       "running"}]
  /\ purpose \in [Procs -> {"none", "report", "run", "optimize", "yaml"}]
  /\ graphFile = Missing => manifest = Missing
  /\ \A p \in Procs : Len(digests[p]) <= Len(Files)
  /\ Searching <=> \E p \in Procs : pc[p] = "search"
  /\ row.status \in {"absent", "running", "ended"} /\ row.counts \in [Caps -> Nat]
  /\ commands \in 0..MaxCommands /\ crashes \in 0..MaxCrashes

\* The directory is never taken for a bundle while it is a mix of two writes or half a write:
\* whatever verification accepts, the graph it returns and the status, mutations and rewards
\* it returns them with are one search's outcome, however writers and a verification
\* interleave and whoever is killed.
LoadedIsOneWrite ==
  \A p \in Verified :
    \E o \in outcomes :
      /\ got[p] = o.graph
      /\ seen[p].status = o.report.status /\ seen[p].path = o.report.path
      /\ seen[p].gain = o.report.gain

\* However many searches were run on top of one another, and whichever graph a run was
\* resumed with, it never traverses an edge more often than the hand-written graph allows, nor
\* than any of the graphs its own descends from: a cap once lowered does not creep up again.
CapsNeverRise ==
  \A e \in Caps, k \in 0..Len(row.version) : row.counts[e] <= Ancestor(row.version, k)[e]

\* A run is resumed under the graph it was started with, though the directory its command
\* names may hold another one by then.
RunKeepsItsGraph == Cardinality(ranOn) <= 1
=============================================================================
