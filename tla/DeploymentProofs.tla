--------------------------- MODULE DeploymentProofs ---------------------------
(***************************************************************************)
(* The invariants of Deployment, for any number of processes, commands,    *)
(* kills and searches of any length.                                       *)
(*                                                                         *)
(* LoadedIsOneWrite: the directory may hold a mix of writes, but its       *)
(* manifest never does: a writer takes all of it from the one outcome it   *)
(* holds, in one step.  A verification reads the manifest once and keeps   *)
(* it, and the graph it returns was compared with that copy.  The digests  *)
(* are not needed.                                                         *)
(*                                                                         *)
(* The others rest on what is said of every graph in a file, in a search   *)
(* or in a process: it is what its version stands for, and no cap of it is *)
(* above that of a graph the version leads through.  A search keeps this   *)
(* because a node of its tree is its base under the path that leads there, *)
(* and because a longer version leads through the same graphs; a run keeps *)
(* to one graph because a version stands for one.                          *)
(***************************************************************************)
EXTENDS Deployment, TLAPS, FiniteSetTheorems, SequenceTheorems, WellFoundedInduction

Writing == {"graph", "truncate", "compiled", "benchmark", "digest"}
Reading == {"compare", "load", "recompile", "evidence", "verified", "running", "search"}
Loaded == {"recompile", "evidence", "verified", "running", "search"}

\* The manifest is of a search that was concluded.
Concluded(m) ==
  \E o \in outcomes : /\ m.graph = o.graph /\ m.status = o.report.status
                      /\ m.path = o.report.path /\ m.gain = o.report.gain

\* The verification is of a bundle.
OfBundle(p) == purpose[p] \notin {"none", "yaml"}

Domains ==
  /\ DOMAIN pc = Procs /\ DOMAIN purpose = Procs /\ DOMAIN job = Procs
  /\ DOMAIN seen = Procs /\ DOMAIN got = Procs

Induction ==
  /\ Domains
  /\ manifest # Missing => Concluded(manifest)
  /\ \A p \in Procs :
       /\ pc[p] = "idle" => purpose[p] = "none"
       /\ pc[p] \in Writing => job[p] \in outcomes
       /\ pc[p] \in Reading /\ OfBundle(p) => Concluded(seen[p])
       /\ pc[p] \in Loaded /\ OfBundle(p) => got[p] = seen[p].graph

\* A process that has forgotten what it held claims nothing.
LEMMA DoneKeeps ==
  ASSUME Induction, NEW p \in Procs, Done(p), manifest' = manifest, outcomes' = outcomes
  PROVE  Induction'
BY DEF Induction, Domains, Concluded, OfBundle, Done, Goto, Writing, Reading, Loaded

\* The steps of a writer and of a verification.
LEMMA BundleKeeps ==
  ASSUME Induction, NEW p \in Procs, BundleStep(p)
  PROVE  Induction'
<1> USE DEF Induction, Domains, Concluded, OfBundle, BundleStep, history, locals, directory, Goto,
            Writing, Reading, Loaded
<1>1. CASE WriteGraph(p)
  BY <1>1 DEF WriteGraph
<1>2. CASE TruncateCompiled(p)
  BY <1>2 DEF TruncateCompiled
<1>3. CASE WriteCompiled(p)
  BY <1>3 DEF WriteCompiled
<1>4. CASE WriteBenchmark(p)
  BY <1>4 DEF WriteBenchmark
<1>5. CASE Digest(p)
  BY <1>5 DEF Digest
<1>6. CASE WriteManifest(p)
  <2>1. job[p] \in outcomes
    BY <1>6 DEF WriteManifest
  <2>2. Concluded(manifest')
    BY <1>6, <2>1 DEF WriteManifest, ManifestOf
  <2> QED BY <1>6, <2>2 DEF WriteManifest
<1>7. CASE ReadManifest(p)
  <2>1. CASE Done(p)
    BY <1>7, <2>1, DoneKeeps DEF ReadManifest
  <2>2. CASE ~Done(p)
    BY <1>7, <2>2 DEF ReadManifest
  <2> QED BY <2>1, <2>2
<1>8. CASE CompareFile(p)
  <2>1. CASE Done(p)
    BY <1>8, <2>1, DoneKeeps DEF CompareFile
  <2>2. CASE ~Done(p)
    BY <1>8, <2>2 DEF CompareFile
  <2> QED BY <2>1, <2>2
<1>9. CASE LoadGraph(p)
  <2>1. CASE Done(p)
    BY <1>9, <2>1, DoneKeeps DEF LoadGraph
  <2>2. CASE ~Done(p)
    BY <1>9, <2>2 DEF LoadGraph, SameGraph
  <2> QED BY <2>1, <2>2
<1>10. CASE Recompile(p)
  <2>1. CASE Done(p)
    BY <1>10, <2>1, DoneKeeps DEF Recompile
  <2>2. CASE ~Done(p)
    BY <1>10, <2>2 DEF Recompile
  <2> QED BY <2>1, <2>2
<1>11. CASE ReadEvidence(p)
  <2>1. CASE Done(p)
    BY <1>11, <2>1, DoneKeeps DEF ReadEvidence
  <2>2. CASE ~Done(p)
    BY <1>11, <2>2 DEF ReadEvidence
  <2> QED BY <2>1, <2>2
<1> QED BY <1>1, <1>2, <1>3, <1>4, <1>5, <1>6, <1>7, <1>8, <1>9, <1>10, <1>11
     DEF WriterStep, VerifierStep

\* A search begins, whatever it begins from, or is refused.
LEMMA BeginSearchKeeps ==
  ASSUME Induction, NEW p \in Procs, NEW graph, BeginSearch(p, graph),
         pc[p] = "verified" /\ purpose[p] \in {"optimize", "yaml"}
  PROVE  Induction'
<1>1. CASE Done(p)
  BY <1>1, DoneKeeps DEF BeginSearch, directory, history
<1>2. CASE ~Done(p)
  BY <1>2 DEF BeginSearch, directory, history, locals, Goto, Induction, Domains, Concluded,
              OfBundle, Writing, Reading, Loaded
<1> QED BY <1>1, <1>2

\* The outcome a writer holds is remembered.
LEMMA ConcludeKeeps ==
  ASSUME Induction, NEW p \in Procs, Conclude(p)
  PROVE  Induction'
<1>1. PICK verdict \in Verdicts : /\ WriteBundle(p, Outcome(verdict))
                                  /\ outcomes' = outcomes \cup {Outcome(verdict)}
  BY Zenon DEF Conclude
<1>2. manifest' = manifest /\ outcomes \subseteq outcomes'
  BY <1>1 DEF WriteBundle, directory
<1>3. CASE Done(p)
  BY <1>2, <1>3 DEF Done, Goto, Induction, Domains, Concluded, OfBundle, Writing, Reading, Loaded
<1>4. CASE ~Done(p)
  BY <1>1, <1>2, <1>4 DEF WriteBundle, Goto, Induction, Domains, Concluded, OfBundle, Writing,
                          Reading, Loaded
<1> QED BY <1>3, <1>4

\* The rest of the commands.
LEMMA CommandsKeep ==
  ASSUME Induction, NEW p \in Procs,
         LoadBundle(p) \/ LoadYaml(p) \/ Report(p) \/ EnterRun(p) \/ Traverse(p) \/ EndRun(p)
           \/ LeaveRun(p) \/ Crash(p)
  PROVE  Induction'
<1> USE DEF directory, history
<1>1. CASE Done(p)
  BY <1>1, DoneKeeps DEF LoadBundle, Verify, LoadYaml, Report, EnterRun, Traverse, EndRun,
                         LeaveRun, Crash
<1>2. CASE ~Done(p)
  <2> USE DEF Induction, Domains, Concluded, OfBundle, Writing, Reading, Loaded, Goto, locals
  <2>1. CASE LoadBundle(p)
    BY <2>1 DEF LoadBundle, Verify, Command
  <2>2. CASE LoadYaml(p)
    BY <2>2 DEF LoadYaml
  <2>3. CASE EnterRun(p)
    BY <1>2, <2>3 DEF EnterRun
  <2>4. CASE Traverse(p)
    BY <2>4 DEF Traverse
  <2> QED BY <1>2, <2>1, <2>2, <2>3, <2>4 DEF Report, EndRun, LeaveRun, Crash
<1> QED BY <1>1, <1>2

\* The initial directory is empty, or one write's.
LEMMA InductionInit ==
  ASSUME Init
  PROVE  Induction
<1>1. CASE Empty /\ outcomes = {}
  BY <1>1 DEF Init, ProcInit, Empty, Induction, Domains, Writing, Reading, Loaded
<1>2. CASE Holds(Earlier) /\ outcomes = {Earlier}
  <2>1. Concluded(manifest)
    BY <1>2 DEF Holds, ManifestOf, Concluded
  <2> QED BY <2>1 DEF Init, ProcInit, Induction, Domains, Writing, Reading, Loaded
<1> QED BY <1>1, <1>2 DEF Init

\* The induction hypothesis is kept by every step.
LEMMA InductionStep ==
  ASSUME Induction, [Next]_vars
  PROVE  Induction'
<1>1. ASSUME NEW p \in Procs, Optimize(p) PROVE Induction'
  BY <1>1, BeginSearchKeeps DEF Optimize
<1>2. CASE SearchOn \/ UNCHANGED vars
  BY <1>2 DEF SearchOn, vars, Induction, Domains, Concluded, OfBundle, directory, history, locals
<1> QED BY <1>1, <1>2, BundleKeeps, ConcludeKeeps, CommandsKeep DEF Next

\* The directory is never taken for a bundle while it is a mix of two writes or half a write:
\* graph, status, mutations and gain that a verification accepts are one search's outcome.
THEOREM BundlesAreOneWrite ==
  Spec => []LoadedIsOneWrite
<1>1. Induction => LoadedIsOneWrite
  BY DEF Induction, LoadedIsOneWrite, Verified, Concluded, OfBundle, Reading, Loaded
<1>2. Init => Induction
  BY InductionInit
<1>3. Induction /\ [Next]_vars => Induction'
  BY InductionStep
<1> QED BY <1>1, <1>2, <1>3, PTL DEF Spec

-----------------------------------------------------------------------------
(* What paths and versions stand for.                                      *)

\* A set of positions has a last one.
LEMMA MaxExists ==
  ASSUME NEW n \in Nat, NEW S \in SUBSET (1..n), S # {}
  PROVE  Max(S) \in S /\ \A y \in S : Max(S) >= y
<1> DEFINE R == OpToRel(<, Nat)
           T == {n - x : x \in S}
<1>1. T \subseteq Nat /\ T # {}
  <2>1. \A x \in S : n - x \in Nat /\ n - x \in T
    OBVIOUS
  <2> QED BY <2>1
<1>2. IsWellFoundedOn(R, Nat)
  BY NatLessThanWellFounded, Zenon
<1>3. \A x, y \in Nat : y < x => <<y, x>> \in R
  BY DEF OpToRel
<1>4. PICK least \in T : \A y \in T : <<y, least>> \notin R
  <2> HIDE DEF R, T
  <2> QED BY <1>1, <1>2, WFMin, Zenon
<1>5. PICK x \in S : least = n - x
  OBVIOUS
<1>6. ASSUME NEW y \in S PROVE x >= y
  <2>1. n - y \in T
    OBVIOUS
  <2>2. ~(n - y < n - x)
    <3> HIDE DEF R
    <3> QED BY <1>1, <1>3, <1>4, <1>5, <2>1
  <2> QED BY <2>2
<1> QED BY <1>6, Zenon DEF Max

LEMMA MaxIs ==
  ASSUME NEW S \in SUBSET Int, NEW x \in S, \A y \in S : x >= y
  PROVE  Max(S) = x
<1>1. \A y \in S : (\A z \in S : y >= z) => y = x
  OBVIOUS
<1> QED BY <1>1, Zenon DEF Max

\* A path that is one longer names one slot more, and names the others where it did.
LEMMA AppendNames ==
  ASSUME NEW path \in Seq(Mutations), NEW m \in Mutations
  PROVE  /\ SlotsOf(Append(path, m)) = SlotsOf(path) \cup {m.slot}
         /\ LastOf(Append(path, m), m.slot) = m.value
         /\ \A s \in SlotsOf(path) \ {m.slot} : LastOf(Append(path, m), s) = LastOf(path, s)
<1> DEFINE longer == Append(path, m)
           at(q, s) == {i \in DOMAIN q : q[i].slot = s}
<1>1. /\ Len(path) \in Nat /\ DOMAIN longer = 1..Len(path) + 1 /\ DOMAIN path = 1..Len(path)
      /\ longer[Len(path) + 1] = m /\ \A i \in 1..Len(path) : longer[i] = path[i]
  OBVIOUS
<1>2. SlotsOf(longer) = SlotsOf(path) \cup {m.slot}
  BY <1>1 DEF SlotsOf
<1>3. LastOf(longer, m.slot) = m.value
  <2>1. Len(path) + 1 \in at(longer, m.slot) /\ at(longer, m.slot) \in SUBSET Int
    BY <1>1
  <2>2. \A y \in at(longer, m.slot) : Len(path) + 1 >= y
    BY <1>1
  <2>3. Max(at(longer, m.slot)) = Len(path) + 1
    BY <2>1, <2>2, MaxIs
  <2> QED BY <1>1, <2>3 DEF LastOf
<1>4. ASSUME NEW s \in SlotsOf(path) \ {m.slot} PROVE LastOf(longer, s) = LastOf(path, s)
  <2>1. at(longer, s) = at(path, s) /\ at(path, s) # {} /\ at(path, s) \subseteq 1..Len(path)
    BY <1>1 DEF SlotsOf
  <2>2. Max(at(path, s)) \in 1..Len(path)
    BY <1>1, <2>1, MaxExists
  <2> QED BY <1>1, <2>1, <2>2 DEF LastOf
<1> QED BY <1>2, <1>3, <1>4

\* A mutant of a base under a path is the base under the longer path.
LEMMA MutatedAppend ==
  ASSUME NEW path \in Seq(Mutations), NEW m \in Mutations, NEW base
  PROVE  Apply(Mutated(base, path), m) = Mutated(base, Append(path, m))
<1>1. m.slot \in Slots
  BY DEF Mutations
<1>2. ASSUME NEW s \in Slots
      PROVE  Apply(Mutated(base, path), m)[s] = Mutated(base, Append(path, m))[s]
  <2>1. CASE s = m.slot
    BY <1>1, <2>1, AppendNames DEF Apply, Mutated
  <2>2. CASE s # m.slot
    BY <1>1, <2>2, AppendNames DEF Apply, Mutated
  <2> QED BY <2>1, <2>2
<1> QED BY <1>2 DEF Apply, Mutated

LEMMA MutatedEmpty ==
  ASSUME NEW base \in [Slots -> Int]
  PROVE  Mutated(base, <<>>) = base
<1>1. SlotsOf(<<>>) = {}
  BY DEF SlotsOf
<1> QED BY <1>1 DEF Mutated

LEMMA RebuiltEmpty == Rebuilt(<<>>) = Handwritten
<1>1. \A s \in Slots : {k \in DOMAIN <<>> : s \in SlotsOf(<<>>[k])} = {}
  OBVIOUS
<1> QED BY <1>1, SearchAssumption DEF Rebuilt, SearchAssumption

\* A version that is one search longer stands for the old one's settings under the new path.
LEMMA RebuiltAppend ==
  ASSUME NEW version \in Seq(Seq(Mutations)), NEW path \in Seq(Mutations)
  PROVE  Rebuilt(Append(version, path)) = Mutated(Rebuilt(version), path)
<1> DEFINE longer == Append(version, path)
           naming(v, s) == {k \in DOMAIN v : s \in SlotsOf(v[k])}
<1>1. /\ Len(version) \in Nat /\ DOMAIN longer = 1..Len(version) + 1
      /\ DOMAIN version = 1..Len(version) /\ longer[Len(version) + 1] = path
      /\ \A i \in 1..Len(version) : longer[i] = version[i]
  OBVIOUS
<1>2. ASSUME NEW s \in Slots, s \in SlotsOf(path)
      PROVE  Rebuilt(longer)[s] = LastOf(path, s)
  <2>1. Len(version) + 1 \in naming(longer, s) /\ naming(longer, s) \in SUBSET Int
    BY <1>1, <1>2
  <2>2. \A y \in naming(longer, s) : Len(version) + 1 >= y
    BY <1>1
  <2>3. Max(naming(longer, s)) = Len(version) + 1
    BY <2>1, <2>2, MaxIs
  <2> QED BY <1>1, <2>1, <2>3 DEF Rebuilt
<1>3. ASSUME NEW s \in Slots, s \notin SlotsOf(path)
      PROVE  Rebuilt(longer)[s] = Rebuilt(version)[s]
  <2>1. naming(longer, s) = naming(version, s) /\ naming(version, s) \subseteq 1..Len(version)
    BY <1>1, <1>3
  <2>2. CASE naming(version, s) = {}
    BY <2>1, <2>2 DEF Rebuilt
  <2>3. CASE naming(version, s) # {}
    <3>1. Max(naming(version, s)) \in 1..Len(version)
      BY <1>1, <2>1, <2>3, MaxExists
    <3>2. longer[Max(naming(longer, s))] = version[Max(naming(version, s))]
      BY <1>1, <2>1, <3>1
    <3> QED BY <2>1, <2>3, <3>2 DEF Rebuilt
  <2> QED BY <2>2, <2>3
<1> QED BY <1>2, <1>3 DEF Rebuilt, Mutated

LEMMA RebuiltTyped ==
  ASSUME NEW version \in Seq(Seq(Mutations))
  PROVE  Rebuilt(version) \in [Slots -> Int]
<1>1. ASSUME NEW s \in Slots PROVE Rebuilt(version)[s] \in Int
  <2> DEFINE naming == {k \in DOMAIN version : s \in SlotsOf(version[k])}
             latest == version[Max(naming)]
             at == {i \in DOMAIN latest : latest[i].slot = s}
  <2>1. CASE naming = {}
    BY <2>1, SearchAssumption DEF Rebuilt, SearchAssumption
  <2>2. CASE naming # {}
    <3>1. Len(version) \in Nat /\ naming \subseteq 1..Len(version)
      OBVIOUS
    <3>2. Max(naming) \in naming
      <4> HIDE DEF naming
      <4> QED BY <2>2, <3>1, MaxExists
    <3>3. latest \in Seq(Mutations) /\ s \in SlotsOf(latest)
      BY <3>1, <3>2
    <3> HIDE DEF latest
    <3>4. Len(latest) \in Nat /\ at \subseteq 1..Len(latest) /\ at # {}
      BY <3>3 DEF SlotsOf
    <3>5. Max(at) \in at
      <4> HIDE DEF at
      <4> QED BY <3>4, MaxExists
    <3>6. LastOf(latest, s) \in Int
      <4>1. latest[Max(at)] \in Mutations
        BY <3>3, <3>4, <3>5
      <4>2. latest[Max(at)].value \in Int
        BY <4>1 DEF Mutations
      <4> QED BY <4>2 DEF LastOf
    <3> QED BY <2>2, <3>6 DEF Rebuilt, latest
  <2> QED BY <2>1, <2>2
<1> QED BY <1>1 DEF Rebuilt

LEMMA AncestorTyped ==
  ASSUME NEW version \in Seq(Seq(Mutations)), NEW k \in 0..Len(version)
  PROVE  Ancestor(version, k) \in [Slots -> Int]
<1>1. SubSeq(version, 1, k) \in Seq(Seq(Mutations))
  OBVIOUS
<1> QED BY <1>1, RebuiltTyped DEF Ancestor

\* A version that is one search longer leads through the same graphs, and then to its own.
LEMMA AncestorAppend ==
  ASSUME NEW version \in Seq(Seq(Mutations)), NEW path \in Seq(Mutations)
  PROVE  LET longer == Append(version, path)
         IN  /\ Len(longer) = Len(version) + 1
             /\ \A k \in 0..Len(version) : Ancestor(longer, k) = Ancestor(version, k)
             /\ Ancestor(longer, Len(longer)) = Rebuilt(longer)
<1> DEFINE longer == Append(version, path)
<1>1. Len(longer) = Len(version) + 1 /\ longer \in Seq(Seq(Mutations))
  OBVIOUS
<1>2. ASSUME NEW k \in 0..Len(version)
      PROVE  SubSeq(longer, 1, k) = SubSeq(version, 1, k)
  OBVIOUS
<1>3. SubSeq(longer, 1, Len(longer)) = longer
  <2> HIDE DEF longer
  <2> QED BY <1>1
<1> QED BY <1>1, <1>2, <1>3 DEF Ancestor

\* The graph a search starts from by default descends from itself.
LEMMA OriginalDescends == Descended(Original)
<1>1. Original.settings = Handwritten /\ Original.version = <<>>
  BY DEF Original
<1>2. Ancestor(<<>>, 0) = Handwritten
  <2>1. SubSeq(<<>>, 1, 0) = <<>>
    OBVIOUS
  <2> QED BY <2>1, RebuiltEmpty DEF Ancestor
<1>3. Original \in Graphs
  <2>1. Handwritten \in [Slots -> Int] /\ <<>> \in Seq(Seq(Mutations))
    BY SearchAssumption DEF SearchAssumption
  <2> QED BY <2>1 DEF Original, Graphs
<1>4. ASSUME NEW c \in Caps, NEW k \in 0..Len(Original.version)
      PROVE  Original.settings[c] \in 0..Ancestor(Original.version, k)[c]
  <2>1. k = 0 /\ Handwritten[c] \in 0..Handwritten[c]
    BY <1>1, <1>4, SearchAssumption DEF SearchAssumption
  <2> QED BY <1>1, <1>2, <2>1
<1> QED BY <1>1, <1>3, <1>4, RebuiltEmpty DEF Descended

-----------------------------------------------------------------------------
(* The search.                                                             *)

\* What a search knows: how its tree was grown from its base, and that its winner is the best.
Envelope ==
  \A m \in search.pool :
    m \in Mutations /\ (m.slot \in Caps => m.value \in 0..search.base.settings[m.slot])

Unrepeated(path) == \A i, j \in DOMAIN path : path[i].slot = path[j].slot => i = j

Below(settings) == \A c \in Caps : settings[c] \in 0..search.base.settings[c]

Grown(path) ==
  /\ path \in Seq(Mutations) /\ Unrepeated(path)
  /\ SettingsAt(path) \in [Slots -> Int] /\ Below(SettingsAt(path))
  /\ SettingsAt(path) = Mutated(search.base.settings, path)
  /\ SettingsAt(path) \in DOMAIN search.known

Best ==
  /\ search.best \in DOMAIN search.tree
  /\ search.base.settings \in DOMAIN search.known
  /\ \A s \in DOMAIN search.known : /\ search.known[s] \in Rewards
                                    /\ search.known[s] <= search.known[SettingsAt(search.best)]
  /\ search.best # <<>> =>
       search.known[search.base.settings] < search.known[SettingsAt(search.best)]

\* The fields a search has.
Shape ==
  search = [left |-> search.left, base |-> search.base, pool |-> search.pool,
            validation |-> search.validation, inSample |-> search.inSample,
            tree |-> search.tree, best |-> search.best, known |-> search.known]

SearchInduction ==
  Searching =>
    /\ Shape /\ search.left \in 0..MaxIterations - 1
    /\ Descended(search.base) /\ Envelope /\ Best
    /\ \A path \in DOMAIN search.tree : Grown(path)

\* No cap of a graph is negative.
LEMMA DescendedCaps ==
  ASSUME NEW graph, Descended(graph), NEW c \in Caps
  PROVE  graph.settings[c] \in 0..graph.settings[c]
<1>1. /\ graph.settings \in [Slots -> Int] /\ graph.version \in Seq(Seq(Mutations))
      /\ c \in Slots /\ 0 \in 0..Len(graph.version)
  BY SearchAssumption DEF Descended, Graphs, SearchAssumption
<1>2. Ancestor(graph.version, 0)[c] \in Int
  BY <1>1, AncestorTyped
<1>3. graph.settings[c] \in 0..Ancestor(graph.version, 0)[c]
  BY <1>1 DEF Descended
<1> QED BY <1>1, <1>2, <1>3

LEMMA BeginKeeps ==
  ASSUME NEW graph, NEW pool, NEW validation, NEW inSample, Descended(graph),
         Admitted(graph, pool, validation), Begin(graph, pool, validation, inSample),
         \A m \in pool : m = [slot |-> m.slot, value |-> m.value]
  PROVE  SearchInduction' /\ Searching'
<1>1. PICK reward \in Rewards :
        search' = [left |-> MaxIterations - 1, base |-> graph, pool |-> pool,
                   validation |-> validation, inSample |-> inSample,
                   tree |-> [path \in {<<>>} |-> graph.settings], best |-> <<>>,
                   known |-> [s \in {graph.settings} |-> reward]]
  BY DEF Begin
<1>2. /\ search'.left = MaxIterations - 1 /\ search'.base = graph /\ search'.pool = pool
      /\ search'.best = <<>> /\ search'.tree = [path \in {<<>>} |-> graph.settings]
      /\ search'.known = [s \in {graph.settings} |-> reward] /\ Shape'
  BY <1>1 DEF Shape
<1>3. DOMAIN search'.tree = {<<>>} /\ search'.tree[<<>>] = graph.settings
  BY <1>2
<1>4. DOMAIN search'.known = {graph.settings} /\ search'.known[graph.settings] = reward
  BY <1>2
<1>5. graph.settings \in [Slots -> Int] /\ reward \in Int
  BY <1>1, SearchAssumption DEF Descended, Graphs, SearchAssumption
<1>6. search'.left \in 0..MaxIterations - 1 /\ search'.left # -1
  BY <1>2, SearchAssumption DEF SearchAssumption
<1>7. Envelope'
  <2>1. ASSUME NEW m \in pool
        PROVE  m \in Mutations /\ (m.slot \in Caps => m.value \in 0..graph.settings[m.slot])
    <3>1. m.slot \in Slots /\ m.value \in IF m.slot \in Caps THEN 1..graph.settings[m.slot]
                                          ELSE Tunings
      BY DEF Admitted, InEnvelope
    <3>2. graph.settings[m.slot] \in Int
      BY <1>5, <3>1
    <3>3. m.value \in Int
      BY <3>1, <3>2, SearchAssumption DEF SearchAssumption
    <3>4. m = [slot |-> m.slot, value |-> m.value]
      OBVIOUS
    <3>5. m \in Mutations
      BY <3>1, <3>3, <3>4 DEF Mutations
    <3> QED BY <3>1, <3>2, <3>5
  <2> QED BY <1>2, <2>1 DEF Envelope
<1>8. Grown(<<>>)'
  <2>1. <<>> \in Seq(Mutations) /\ Unrepeated(<<>>)
    BY DEF Unrepeated
  <2>2. Mutated(graph.settings, <<>>) = graph.settings
    BY <1>5, MutatedEmpty
  <2>3. Below(graph.settings)'
    <3>1. \A c \in Caps : graph.settings[c] \in 0..graph.settings[c]
      BY DescendedCaps
    <3> QED BY <1>2, <3>1 DEF Below
  <2> QED BY <1>2, <1>3, <1>4, <1>5, <2>1, <2>2, <2>3 DEF Grown, SettingsAt, Unrepeated
<1>9. Best'
  BY <1>1, <1>2, <1>3, <1>4, <1>5 DEF Best, SettingsAt
<1>10. Descended(search'.base)
  BY <1>2
<1>11. \A path \in DOMAIN search'.tree : Grown(path)'
  BY <1>3, <1>8
<1>12. Searching'
  BY <1>6 DEF Searching, Idle
<1> QED BY <1>2, <1>6, <1>7, <1>9, <1>10, <1>11, <1>12 DEF SearchInduction

LEMMA RevisitKeeps ==
  ASSUME SearchInduction, Searching, NEW path, Revisit(path)
  PROVE  SearchInduction' /\ Searching'
<1>1. search' = [search EXCEPT !.left = @ - 1] /\ search.left > 0
  BY DEF Revisit
<1>2. search.left \in 0..MaxIterations - 1 /\ MaxIterations \in Int /\ Shape
  BY SearchAssumption DEF SearchInduction, SearchAssumption
<1>3. /\ search'.left = search.left - 1 /\ search'.base = search.base
      /\ search'.pool = search.pool /\ search'.best = search.best /\ search'.tree = search.tree
      /\ search'.known = search.known /\ Shape'
  BY <1>1, <1>2 DEF Shape
<1>4. search'.left \in 0..MaxIterations - 1 /\ search'.left # -1
  BY <1>1, <1>2, <1>3
<1>5. Searching'
  BY <1>4 DEF Searching, Idle
<1>6. Envelope' /\ Best'
  BY <1>3 DEF SearchInduction, Envelope, Best, SettingsAt
<1>7. \A q \in DOMAIN search.tree : Grown(q)'
  BY <1>3 DEF SearchInduction, Grown, SettingsAt, Below
<1> QED BY <1>3, <1>4, <1>5, <1>6, <1>7 DEF SearchInduction

LEMMA ExpandKeeps ==
  ASSUME SearchInduction, Searching, NEW path \in DOMAIN search.tree, NEW m \in search.pool,
         Expand(path, m)
  PROVE  SearchInduction' /\ Searching'
<1> DEFINE child == Append(path, m)
           settings == Apply(SettingsAt(path), m)
<1>1. PICK reward \in RewardsOf(settings) :
        search' = [search EXCEPT
          !.left = @ - 1,
          !.tree = [q \in DOMAIN @ \cup {child} |-> IF q = child THEN settings ELSE @[q]],
          !.known = [s \in DOMAIN @ \cup {settings} |-> IF s = settings THEN reward ELSE @[s]],
          !.best = IF Better(reward) THEN child ELSE @]
  BY DEF Expand
<1>2. /\ search.left \in 0..MaxIterations - 1 /\ MaxIterations \in Int /\ Shape
      /\ search.left > 0 /\ child \notin DOMAIN search.tree /\ m.slot \notin SlotsOf(path)
  BY SearchAssumption DEF SearchInduction, SearchAssumption, Expand, Untried
<1>3. /\ search'.left = search.left - 1 /\ search'.base = search.base
      /\ search'.pool = search.pool
      /\ search'.best = IF Better(reward) THEN child ELSE search.best
      /\ search'.tree = [q \in DOMAIN search.tree \cup {child} |->
                           IF q = child THEN settings ELSE search.tree[q]]
      /\ search'.known = [s \in DOMAIN search.known \cup {settings} |->
                            IF s = settings THEN reward ELSE search.known[s]]
      /\ Shape'
  <2> HIDE DEF child, settings
  <2> QED BY <1>1, <1>2 DEF Shape
<1> HIDE DEF child, settings
<1>4. /\ DOMAIN search'.tree = DOMAIN search.tree \cup {child} /\ search'.tree[child] = settings
      /\ \A q \in DOMAIN search.tree : search'.tree[q] = search.tree[q]
  BY <1>2, <1>3
<1>5. /\ DOMAIN search'.known = DOMAIN search.known \cup {settings}
      /\ search'.known[settings] = reward
      /\ \A s \in DOMAIN search.known : search'.known[s] = search.known[s]
  BY <1>1, <1>3 DEF RewardsOf
<1>6. search'.left \in 0..MaxIterations - 1 /\ search'.left # -1
  BY <1>2, <1>3
<1>7. Searching'
  BY <1>6 DEF Searching, Idle
<1>8. Envelope'
  BY <1>3 DEF SearchInduction, Envelope
<1>9. \A q \in DOMAIN search.tree : Grown(q)'
  BY <1>3, <1>4, <1>5 DEF SearchInduction, Grown, SettingsAt, Below
<1>10. Grown(child)'
  <2>1. /\ path \in Seq(Mutations) /\ Unrepeated(path) /\ m \in Mutations
        /\ SettingsAt(path) \in [Slots -> Int] /\ Below(SettingsAt(path))
        /\ SettingsAt(path) = Mutated(search.base.settings, path)
        /\ m.slot \in Caps => m.value \in 0..search.base.settings[m.slot]
    BY DEF SearchInduction, Grown, Envelope
  <2>2. child \in Seq(Mutations)
    BY <2>1 DEF child
  <2>3. Unrepeated(child)
    BY <1>2, <2>1 DEF child, Unrepeated, SlotsOf
  <2>4. m.slot \in Slots /\ m.value \in Int
    BY <2>1 DEF Mutations
  <2>5. settings \in [Slots -> Int]
    BY <2>1, <2>4 DEF settings, Apply
  <2>6. Below(settings)
    BY <2>1, <2>4, SearchAssumption DEF settings, Apply, Below, SearchAssumption
  <2>7. settings = Mutated(search.base.settings, child)
    BY <2>1, MutatedAppend DEF settings, child
  <2> QED BY <1>3, <1>4, <1>5, <2>2, <2>3, <2>5, <2>6, <2>7
          DEF Grown, SettingsAt, Below, Unrepeated
<1>11. Best'
  <2>1. /\ search.best \in DOMAIN search.tree /\ SettingsAt(search.best) \in DOMAIN search.known
        /\ search.base.settings \in DOMAIN search.known /\ Best
    BY DEF SearchInduction, Best, Grown
  <2>2. reward \in Rewards /\ Rewards \subseteq Int
    BY <1>1, <2>1, SearchAssumption DEF RewardsOf, Best, SearchAssumption
  <2>3. CASE Better(reward)
    <3>1. search'.best = child /\ SettingsAt(child)' = settings
      BY <1>3, <1>4, <2>3 DEF SettingsAt
    <3>2. /\ reward \in Int /\ reward > search.known[SettingsAt(search.best)]
          /\ \A s \in DOMAIN search.known :
               search.known[s] \in Int /\ search.known[s] <= search.known[SettingsAt(search.best)]
      BY <2>1, <2>2, <2>3 DEF Best, Better
    <3>3. \A s \in DOMAIN search.known : search.known[s] < reward
      BY <2>1, <3>2
    <3>4. \A s \in DOMAIN search'.known : search'.known[s] \in Rewards /\ search'.known[s] <= reward
      BY <1>5, <2>1, <2>2, <3>2, <3>3 DEF Best
    <3>5. search'.known[search'.base.settings] < reward
      BY <1>3, <1>5, <2>1, <3>3
    <3>6. search'.best \in DOMAIN search'.tree /\ search'.base.settings \in DOMAIN search'.known
      BY <1>3, <1>4, <1>5, <2>1, <3>1
    <3> QED BY <1>5, <3>1, <3>4, <3>5, <3>6 DEF Best
  <2>4. CASE ~Better(reward)
    <3>1. search'.best = search.best /\ SettingsAt(search.best)' = SettingsAt(search.best)
      BY <1>3, <1>4, <2>1, <2>4 DEF SettingsAt
    <3>2. reward <= search.known[SettingsAt(search.best)]
      BY <2>1, <2>2, <2>4 DEF Best, Better
    <3> QED BY <1>3, <1>4, <1>5, <2>1, <2>2, <3>1, <3>2 DEF Best
  <2> QED BY <2>3, <2>4
<1>12. \A q \in DOMAIN search'.tree : Grown(q)'
  BY <1>4, <1>9, <1>10
<1> QED BY <1>3, <1>6, <1>7, <1>8, <1>11, <1>12 DEF SearchInduction

LEMMA SearchKeeps ==
  ASSUME SearchInduction, SearchStep
  PROVE  SearchInduction' /\ Searching'
BY ExpandKeeps, RevisitKeeps DEF SearchStep

\* What a search concludes is a graph that descends from the hand-written one.
LEMMA OutcomeDescends ==
  ASSUME SearchInduction, Searching, NEW verdict
  PROVE  Descended(Outcome(verdict).graph)
<1> DEFINE graph == Outcome(verdict).graph
           base == search.base
<1>1. /\ Descended(base) /\ Grown(search.best)
  BY DEF SearchInduction, Best
<1>2. /\ graph.settings = SettingsAt(search.best) /\ graph.version = VersionAfter(search.best)
      /\ graph = [settings |-> graph.settings, version |-> graph.version]
  BY DEF Outcome
<1>3. /\ base.settings \in [Slots -> Int] /\ base.version \in Seq(Seq(Mutations))
      /\ base.settings = Rebuilt(base.version)
  BY <1>1 DEF Descended, Graphs
<1>4. /\ search.best \in Seq(Mutations) /\ graph.settings \in [Slots -> Int]
      /\ graph.settings = Mutated(base.settings, search.best)
      /\ \A c \in Caps : graph.settings[c] \in 0..base.settings[c]
  BY <1>1, <1>2 DEF Grown, Below
<1>5. graph.version \in Seq(Seq(Mutations)) /\ graph.settings = Rebuilt(graph.version)
  <2>1. CASE search.best = <<>>
    BY <1>2, <1>3, <1>4, <2>1, MutatedEmpty DEF VersionAfter
  <2>2. CASE search.best # <<>>
    BY <1>2, <1>3, <1>4, <2>2, RebuiltAppend DEF VersionAfter
  <2> QED BY <2>1, <2>2
<1>6. ASSUME NEW c \in Caps, NEW k \in 0..Len(graph.version)
      PROVE  graph.settings[c] \in 0..Ancestor(graph.version, k)[c]
  <2>1. /\ c \in Slots /\ base.settings[c] \in Int
        /\ graph.settings[c] \in 0..base.settings[c]
    BY <1>3, <1>4, SearchAssumption DEF SearchAssumption
  <2>2. CASE k \in 0..Len(base.version) /\ Ancestor(graph.version, k) = Ancestor(base.version, k)
    <3>1. base.settings[c] \in 0..Ancestor(base.version, k)[c]
      BY <1>1, <2>2 DEF Descended
    <3>2. Ancestor(base.version, k)[c] \in Int
      BY <1>3, <2>1, <2>2, AncestorTyped
    <3> QED BY <2>1, <2>2, <3>1, <3>2
  <2>3. CASE search.best = <<>>
    BY <1>2, <2>2, <2>3 DEF VersionAfter
  <2>4. CASE search.best # <<>>
    <3>1. graph.version = Append(base.version, search.best)
      BY <1>2, <2>4 DEF VersionAfter
    <3>2. /\ Len(graph.version) = Len(base.version) + 1
          /\ \A i \in 0..Len(base.version) : Ancestor(graph.version, i) = Ancestor(base.version, i)
          /\ Ancestor(graph.version, Len(graph.version)) = graph.settings
      BY <1>3, <1>4, <1>5, <3>1, AncestorAppend
    <3>3. k \in 0..Len(base.version) \/ k = Len(graph.version)
      BY <1>3, <3>2
    <3>4. graph.settings[c] \in 0..graph.settings[c]
      BY <2>1
    <3> QED BY <2>2, <3>2, <3>3, <3>4
  <2> QED BY <2>3, <2>4
<1> HIDE DEF graph
<1>7. graph \in Graphs
  BY <1>2, <1>4, <1>5 DEF Graphs
<1> QED BY <1>5, <1>6, <1>7 DEF Descended, graph

-----------------------------------------------------------------------------
(* The processes.                                                          *)

\* One process searches, or none.
Searchers ==
  /\ Searching <=> \E p \in Procs : pc[p] = "search"
  /\ \A p, q \in Procs : pc[p] = "search" /\ pc[q] = "search" => p = q

\* What a file may be.
Contents == {Missing, Partial} \cup {o.graph : o \in outcomes} \cup {o.report : o \in outcomes}

Stored ==
  /\ \A o \in outcomes : Descended(o.graph)
  /\ graphFile = Missing \/ Descended(graphFile)
  /\ graphFile = Missing => manifest = Missing
  /\ graphFile \in Contents /\ compiled \in Contents /\ benchmark \in Contents

Local(p) ==
  /\ pc[p] \in Writing \ {"graph"} => graphFile # Missing
  /\ pc[p] \in {"manifest", "compare", "load", "recompile", "evidence"} => OfBundle(p)
  /\ pc[p] \in Loaded \ {"search"} => Descended(got[p])
  /\ digests[p] \in Seq(Contents)
  /\ Len(digests[p]) <= IF pc[p] = "digest" THEN 3 ELSE IF pc[p] = "compare" THEN 2 ELSE 0

\* The run knows its graph by the version, and its steps have used no other.
Resumed ==
  /\ \A p \in Procs : pc[p] = "running" => row.status # "absent" /\ row.version = got[p].version
  /\ row.status = "absent" => ranOn = {}
  /\ row.status = "absent" => \A e \in Caps : row.counts[e] = 0
  /\ ranOn \subseteq {Rebuilt(row.version)}
  /\ row.version \in Seq(Seq(Mutations)) /\ CapsNeverRise

\* The part of the types that the rest does not imply.
ProcessesTyped ==
  /\ pc \in [Procs -> {"idle", "search", "graph", "truncate", "compiled", "benchmark", "digest",
                       "manifest", "compare", "load", "recompile", "evidence", "verified",
                       "running"}]
  /\ purpose \in [Procs -> {"none", "report", "run", "optimize", "yaml"}]
  /\ DOMAIN digests = Procs

RowTyped ==
  /\ row = [status |-> row.status, version |-> row.version, counts |-> row.counts]
  /\ row.status \in {"absent", "running", "ended"} /\ row.counts \in [Caps -> Nat]
  /\ commands \in 0..MaxCommands /\ crashes \in 0..MaxCrashes

DeploymentInduction ==
  /\ Induction /\ SearchInduction /\ Searchers /\ Stored /\ ProcessesTyped /\ RowTyped
  /\ Resumed /\ \A p \in Procs : Local(p)

LEMMA SeqGrows ==
  ASSUME NEW S, NEW T, S \subseteq T, NEW s \in Seq(S)
  PROVE  s \in Seq(T)
OBVIOUS

\* A process that does not move keeps what it knows, while files and outcomes only come.
LEMMA LocalStays ==
  ASSUME NEW q \in Procs, Local(q), Contents \subseteq Contents',
         graphFile # Missing => graphFile' # Missing,
         pc'[q] = pc[q], purpose'[q] = purpose[q], got'[q] = got[q], digests'[q] = digests[q]
  PROVE  Local(q)'
<1>1. digests'[q] \in Seq(Contents')
  BY SeqGrows DEF Local
<1> HIDE DEF Contents
<1> QED BY <1>1 DEF Local, OfBundle

LEMMA DoneIsLocal ==
  ASSUME DeploymentInduction, NEW p \in Procs, Done(p), UNCHANGED <<directory, outcomes>>
  PROVE  ProcessesTyped' /\ \A q \in Procs : Local(q)'
<1> USE DEF Done, Goto, DeploymentInduction, Induction, Domains, ProcessesTyped
<1>1. ProcessesTyped'
  OBVIOUS
<1>2. Contents' = Contents /\ graphFile' = graphFile
  BY DEF Contents, directory
<1>3. ASSUME NEW q \in Procs, q # p PROVE Local(q)'
  BY <1>2, <1>3, LocalStays
<1>4. Local(p)'
  BY DEF Local, Writing, Loaded
<1> QED BY <1>1, <1>3, <1>4

\* Nobody begins or ends a search.
LEMMA SearchersStay ==
  ASSUME Searchers, SearchInduction, search' = search,
         \A q \in Procs : pc'[q] = "search" <=> pc[q] = "search"
  PROVE  Searchers' /\ SearchInduction'
BY DEF Searchers, Searching, SearchInduction, Shape, Envelope, Best, Grown, SettingsAt, Below

\* Nobody enters the run.
LEMMA ResumedStays ==
  ASSUME Resumed, row' = row, ranOn' = ranOn,
         \A q \in Procs : pc'[q] = "running" => pc[q] = "running" /\ got'[q] = got[q]
  PROVE  Resumed'
BY DEF Resumed, CapsNeverRise

\* A graph allows a run no negative number of traversals, and neither does one it descends from.
LEMMA StartsBelow ==
  ASSUME NEW graph, Descended(graph), NEW e \in Caps, NEW k \in 0..Len(graph.version)
  PROVE  0 <= Ancestor(graph.version, k)[e]
<1>1. graph.version \in Seq(Seq(Mutations)) /\ e \in Slots
  BY SearchAssumption DEF Descended, Graphs, SearchAssumption
<1>2. Ancestor(graph.version, k)[e] \in Int
  BY <1>1, AncestorTyped
<1>3. graph.settings[e] \in 0..Ancestor(graph.version, k)[e]
  BY DEF Descended
<1> QED BY <1>2, <1>3

\* Whoever gives up, outside a search.
LEMMA DoneKeepsAll ==
  ASSUME DeploymentInduction, NEW p \in Procs, Done(p), pc[p] # "search", RowTyped',
         UNCHANGED <<search, directory, row, outcomes, ranOn>>
  PROVE  DeploymentInduction'
<1>1. Induction'
  BY DoneKeeps DEF DeploymentInduction, directory
<1>2. ProcessesTyped' /\ \A q \in Procs : Local(q)'
  BY DoneIsLocal
<1>3. \A q \in Procs : q # p => pc'[q] = pc[q] /\ got'[q] = got[q]
  BY DEF Done, Goto, DeploymentInduction, Induction, Domains
<1>4. pc'[p] = "idle"
  BY DEF Done, Goto, DeploymentInduction, Induction, Domains
<1>5. Searchers' /\ SearchInduction'
  BY <1>3, <1>4, SearchersStay DEF DeploymentInduction
<1>6. Resumed'
  BY <1>3, <1>4, ResumedStays DEF DeploymentInduction
<1>7. Stored'
  BY DEF DeploymentInduction, Stored, Contents, directory
<1> QED BY <1>1, <1>2, <1>5, <1>6, <1>7 DEF DeploymentInduction

\* Whoever moves on, neither into a search nor into the run, is all that has to be looked at.
LEMMA StepKeepsAll ==
  ASSUME DeploymentInduction, NEW p \in Procs,
         Induction', Stored', ProcessesTyped', RowTyped', Local(p)',
         UNCHANGED <<search, row, outcomes, ranOn>>,
         pc[p] # "search", pc'[p] \notin {"search", "running"},
         graphFile # Missing => graphFile' # Missing,
         \A q \in Procs \ {p} : /\ pc'[q] = pc[q] /\ purpose'[q] = purpose[q]
                                /\ got'[q] = got[q] /\ digests'[q] = digests[q]
  PROVE  DeploymentInduction'
<1>1. Searchers' /\ SearchInduction'
  BY SearchersStay DEF DeploymentInduction
<1>2. Resumed'
  BY ResumedStays DEF DeploymentInduction
<1>3. Contents \subseteq Contents'
  BY DEF DeploymentInduction, Stored, Contents
<1>4. \A q \in Procs \ {p} : Local(q)'
  BY <1>3, LocalStays DEF DeploymentInduction
<1> QED BY <1>1, <1>2, <1>4 DEF DeploymentInduction

\* What a writer puts into the directory is of the outcome it holds.
LEMMA WritesAreStored ==
  ASSUME DeploymentInduction, NEW p \in Procs, pc[p] \in Writing
  PROVE  /\ Descended(job[p].graph) /\ job[p].graph \in Contents /\ job[p].report \in Contents
         /\ job[p].graph # Missing /\ Partial \in Contents
BY DeploymentAssumption DEF DeploymentInduction, Induction, Stored, Contents, Descended,
                            DeploymentAssumption

LEMMA FilesAreContents ==
  /\ Len(Files) = 3
  /\ Stored => \A i \in 0..2 : Files[i + 1] \in Contents
<1>1. Len(Files) = 3 /\ Files[1] = graphFile /\ Files[2] = compiled /\ Files[3] = benchmark
  BY DEF Files
<1>2. ASSUME Stored, NEW i \in 0..2 PROVE Files[i + 1] \in Contents
  <2>1. i = 0 \/ i = 1 \/ i = 2
    OBVIOUS
  <2>2. Files[1] \in Contents /\ Files[2] \in Contents /\ Files[3] \in Contents
    BY <1>1, <1>2 DEF Stored
  <2> QED BY <2>1, <2>2
<1> QED BY <1>1, <1>2

LEMMA WriterKeepsAll ==
  ASSUME DeploymentInduction, NEW p \in Procs, BundleStep(p), WriterStep(p)
  PROVE  DeploymentInduction'
<1>1. Induction' /\ RowTyped' /\ UNCHANGED <<search, row, outcomes, ranOn>>
  BY BundleKeeps DEF DeploymentInduction, BundleStep, history, bounds, RowTyped
<1>2. pc[p] \in Writing /\ Contents' = Contents
  BY <1>1 DEF WriterStep, WriteGraph, TruncateCompiled, WriteCompiled, WriteBenchmark, Digest,
              WriteManifest, Writing, Contents
<1>3. /\ Descended(job[p].graph) /\ job[p].graph \in Contents /\ job[p].report \in Contents
      /\ job[p].graph # Missing /\ Partial \in Contents
  BY <1>2, WritesAreStored
<1>4. /\ ProcessesTyped /\ Stored /\ Local(p) /\ DOMAIN got = Procs
  BY DEF DeploymentInduction, Induction, Domains
<1> USE DEF Goto, locals
<1>5. CASE WriteGraph(p)
  <2>1. Stored'
    BY <1>1, <1>2, <1>3, <1>4, <1>5 DEF WriteGraph, Stored
  <2>2. ProcessesTyped'
    BY <1>4, <1>5 DEF WriteGraph, ProcessesTyped
  <2>3. Local(p)'
    BY <1>2, <1>3, <1>4, <1>5 DEF WriteGraph, ProcessesTyped, Local, OfBundle, Writing, Loaded
  <2> QED BY <1>1, <1>3, <1>4, <1>5, <2>1, <2>2, <2>3, StepKeepsAll
          DEF WriteGraph, ProcessesTyped
<1>6. CASE TruncateCompiled(p) \/ WriteCompiled(p) \/ WriteBenchmark(p)
  <2> USE DEF TruncateCompiled, WriteCompiled, WriteBenchmark
  <2>1. Stored'
    BY <1>1, <1>2, <1>3, <1>4, <1>6 DEF Stored
  <2>2. ProcessesTyped'
    BY <1>4, <1>6 DEF ProcessesTyped
  <2>3. Local(p)'
    BY <1>2, <1>4, <1>6 DEF ProcessesTyped, Local, OfBundle, Writing, Loaded
  <2> QED BY <1>1, <1>4, <1>6, <2>1, <2>2, <2>3, StepKeepsAll DEF ProcessesTyped
<1>7. CASE Digest(p)
  <2>1. Stored'
    BY <1>1, <1>2, <1>4, <1>7 DEF Digest, Stored, directory
  <2>2. ProcessesTyped'
    BY <1>4, <1>7 DEF Digest, ProcessesTyped
  <2>3. digests[p] \in Seq(Contents) /\ Len(digests[p]) \in 0..2
    <3>1. digests[p] \in Seq(Contents) /\ Len(digests[p]) < 3
      BY <1>4, <1>7, FilesAreContents DEF Digest, Local
    <3>2. \A n \in Nat : n < 3 => n \in 0..2
      OBVIOUS
    <3>3. Len(digests[p]) \in Nat
      BY <3>1, LenProperties
    <3> QED BY <3>1, <3>2, <3>3, Zenon
  <2>4. Files[Len(digests[p]) + 1] \in Contents
    BY <1>4, <2>3, FilesAreContents
  <2>5. digests'[p] = Append(digests[p], Files[Len(digests[p]) + 1])
    BY <1>4, <1>7 DEF Digest, ProcessesTyped
  <2>6. digests'[p] \in Seq(Contents) /\ Len(digests'[p]) <= 3
    <3> HIDE DEF Contents
    <3> QED BY <2>3, <2>4, <2>5
  <2>7. Local(p)'
    BY <1>2, <1>4, <1>7, <2>6 DEF Digest, Local, OfBundle, Writing, Loaded, directory
  <2> QED BY <1>1, <1>4, <1>7, <2>1, <2>2, <2>7, StepKeepsAll
          DEF Digest, ProcessesTyped, directory
<1>8. CASE WriteManifest(p)
  <2>1. Stored'
    BY <1>1, <1>2, <1>4, <1>8 DEF WriteManifest, Stored, Local, Writing
  <2>2. ProcessesTyped'
    BY <1>4, <1>8 DEF WriteManifest, ProcessesTyped
  <2>3. Local(p)'
    BY <1>2, <1>4, <1>8 DEF WriteManifest, ProcessesTyped, Local, OfBundle, Writing, Loaded,
                            DeploymentInduction, Induction, Domains
  <2> QED BY <1>1, <1>4, <1>8, <2>1, <2>2, <2>3, StepKeepsAll DEF WriteManifest, ProcessesTyped,
             DeploymentInduction, Induction, Domains
<1> QED BY <1>5, <1>6, <1>7, <1>8 DEF WriterStep

LEMMA VerifierKeepsAll ==
  ASSUME DeploymentInduction, NEW p \in Procs, BundleStep(p), VerifierStep(p)
  PROVE  DeploymentInduction'
<1>1. Induction' /\ RowTyped' /\ UNCHANGED <<search, row, directory, outcomes, ranOn>>
  BY BundleKeeps DEF DeploymentInduction, BundleStep, history, bounds, RowTyped, VerifierStep,
                     ReadManifest, CompareFile, LoadGraph, Recompile, ReadEvidence
<1>2. pc[p] \in {"manifest", "compare", "load", "recompile", "evidence"}
  BY DEF VerifierStep, ReadManifest, CompareFile, LoadGraph, Recompile, ReadEvidence
<1>3. Contents' = Contents /\ Stored' /\ graphFile' = graphFile
  BY <1>1 DEF Contents, directory, DeploymentInduction, Stored
<1>4. ProcessesTyped /\ Stored /\ Local(p) /\ DOMAIN got = Procs /\ DOMAIN seen = Procs
  BY DEF DeploymentInduction, Induction, Domains
<1>5. CASE Done(p)
  BY <1>1, <1>2, <1>5, DoneKeepsAll
<1> USE DEF Goto, locals, Local, OfBundle, Writing, Loaded
<1>6. CASE ReadManifest(p) /\ ~Done(p)
  <2>1. ProcessesTyped'
    BY <1>4, <1>6 DEF ReadManifest, ProcessesTyped
  <2>2. digests'[p] = digests[p] /\ Len(digests[p]) <= 0
    BY <1>4, <1>6 DEF ReadManifest, ProcessesTyped
  <2>3. Local(p)'
    BY <1>2, <1>3, <1>4, <1>6, <2>2 DEF ReadManifest, ProcessesTyped
  <2> QED BY <1>1, <1>2, <1>3, <1>4, <1>6, <2>1, <2>3, StepKeepsAll
          DEF ReadManifest, ProcessesTyped
<1>7. CASE CompareFile(p) /\ ~Done(p)
  <2>1. ProcessesTyped'
    BY <1>4, <1>7 DEF CompareFile, ProcessesTyped
  <2>2. digests[p] \in Seq(Contents) /\ Len(digests[p]) <= 2
    BY <1>4, <1>7 DEF CompareFile
  <2>3. Len(digests[p]) \in 0..2
    <3>1. \A n \in Nat : n <= 2 => n \in 0..2
      OBVIOUS
    <3>2. Len(digests[p]) \in Nat
      BY <2>2, LenProperties
    <3> QED BY <2>2, <3>1, <3>2, Zenon
  <2>4. Local(p)'
    <3>1. CASE Len(digests[p]) + 1 = Len(Files)
      <4>1. /\ digests'[p] = <<>> /\ pc'[p] = "load" /\ purpose' = purpose /\ got' = got
        BY <1>4, <1>7, <3>1 DEF CompareFile, ProcessesTyped
      <4>2. <<>> \in Seq(Contents) /\ Len(<<>>) = 0
        OBVIOUS
      <4>3. purpose[p] \notin {"none", "yaml"}
        BY <1>2, <1>4
      <4> HIDE DEF Contents
      <4> QED BY <1>3, <1>4, <4>1, <4>2, <4>3
    <3>2. CASE Len(digests[p]) + 1 # Len(Files)
      <4>1. digests'[p] = Append(digests[p], Files[Len(digests[p]) + 1]) /\ pc'[p] = "compare"
        BY <1>4, <1>7, <3>2 DEF CompareFile, ProcessesTyped
      <4>2. Files[Len(digests[p]) + 1] \in Contents /\ Len(digests[p]) \in 0..1
        <5>1. Len(digests[p]) \in 0..2 /\ Len(digests[p]) + 1 # 3
          BY <2>3, <3>2, FilesAreContents
        <5>2. \A n \in 0..2 : n + 1 # 3 => n \in 0..1
          OBVIOUS
        <5>3. Len(digests[p]) \in 0..1
          BY <5>1, <5>2, Zenon
        <5> QED BY <1>4, <5>1, <5>3, FilesAreContents, Zenon
      <4>3. digests'[p] \in Seq(Contents) /\ Len(digests'[p]) <= 2
        <5> HIDE DEF Contents
        <5> QED BY <2>2, <4>1, <4>2
      <4> QED BY <1>2, <1>3, <1>4, <1>7, <3>2, <4>1, <4>3 DEF CompareFile, ProcessesTyped
    <3> QED BY <3>1, <3>2
  <2> QED BY <1>1, <1>2, <1>3, <1>4, <1>7, <2>1, <2>4, StepKeepsAll
          DEF CompareFile, ProcessesTyped
<1>8. CASE LoadGraph(p) /\ ~Done(p)
  <2>1. ProcessesTyped'
    BY <1>4, <1>8 DEF LoadGraph, ProcessesTyped
  <2>2. Descended(graphFile)
    <3>1. graphFile = seen[p].graph
      BY <1>8 DEF LoadGraph, SameGraph
    <3>2. Concluded(seen[p])
      BY <1>2, <1>4, <1>8 DEF LoadGraph, DeploymentInduction, Induction, Reading
    <3> QED BY <1>4, <3>1, <3>2 DEF Concluded, Stored
  <2>3. Local(p)'
    BY <1>2, <1>3, <1>4, <1>8, <2>2 DEF LoadGraph, ProcessesTyped
  <2> QED BY <1>1, <1>2, <1>3, <1>4, <1>8, <2>1, <2>3, StepKeepsAll
          DEF LoadGraph, ProcessesTyped
<1>9. CASE (Recompile(p) \/ ReadEvidence(p)) /\ ~Done(p)
  <2> USE DEF Recompile, ReadEvidence
  <2>1. ProcessesTyped'
    BY <1>4, <1>9 DEF ProcessesTyped
  <2>2. Local(p)'
    BY <1>2, <1>3, <1>4, <1>9 DEF ProcessesTyped
  <2> QED BY <1>1, <1>2, <1>3, <1>4, <1>9, <2>1, <2>2, StepKeepsAll DEF ProcessesTyped
<1> QED BY <1>5, <1>6, <1>7, <1>8, <1>9 DEF VerifierStep

LEMMA BeginSearchKeepsAll ==
  ASSUME DeploymentInduction, NEW p \in Procs, NEW graph, Descended(graph),
         BeginSearch(p, graph), RowTyped',
         pc[p] = "verified" /\ purpose[p] \in {"optimize", "yaml"}
  PROVE  DeploymentInduction'
<1>1. PICK pool \in MutationFiles \cup {Default(graph)}, validation \in ValidationFiles,
           inSample \in BOOLEAN :
        IF Admitted(graph, pool, validation)
        THEN /\ Begin(graph, pool, validation, inSample)
             /\ Goto(p, "search") /\ UNCHANGED locals
        ELSE Done(p) /\ UNCHANGED search
  BY Zenon DEF BeginSearch
<1>2. UNCHANGED <<directory, row, outcomes, ranOn>> /\ ~Searching
  BY DEF BeginSearch, history
<1>3. CASE ~Admitted(graph, pool, validation)
  BY <1>1, <1>2, <1>3, DoneKeepsAll
<1>4. CASE Admitted(graph, pool, validation)
  <2>1. Induction'
    BY BeginSearchKeeps DEF DeploymentInduction
  <2>2. \A m \in pool : m = [slot |-> m.slot, value |-> m.value]
    BY SearchAssumption DEF SearchAssumption, Default
  <2>3. SearchInduction' /\ Searching'
    BY <1>1, <1>4, <2>2, BeginKeeps
  <2>4. /\ DOMAIN pc = Procs /\ pc' = [pc EXCEPT ![p] = "search"] /\ UNCHANGED locals
        /\ \A q \in Procs : pc[q] # "search"
    BY <1>1, <1>2, <1>4 DEF Goto, DeploymentInduction, Induction, Domains, Searchers
  <2>5. Searchers'
    BY <2>3, <2>4 DEF Searchers
  <2>6. Stored' /\ Contents' = Contents /\ graphFile' = graphFile
    BY <1>2 DEF DeploymentInduction, Stored, Contents, directory
  <2>7. ProcessesTyped'
    BY <2>4 DEF DeploymentInduction, ProcessesTyped, locals
  <2>8. Resumed'
    BY <1>2, <2>4, ResumedStays DEF DeploymentInduction, locals
  <2>9. ASSUME NEW q \in Procs PROVE Local(q)'
    <3>1. CASE q = p
      BY <2>4, <2>6, <3>1 DEF DeploymentInduction, Local, OfBundle, Writing, Loaded, locals
    <3>2. CASE q # p
      BY <2>4, <2>6, <3>2, LocalStays DEF DeploymentInduction, locals
    <3> QED BY <3>1, <3>2
  <2> QED BY <2>1, <2>3, <2>5, <2>6, <2>7, <2>8, <2>9 DEF DeploymentInduction
<1> QED BY <1>3, <1>4

LEMMA SearchEnds ==
  ASSUME Searchers, NEW p \in Procs, pc[p] = "search", search' = Idle, pc'[p] # "search",
         \A q \in Procs \ {p} : pc'[q] = pc[q]
  PROVE  Searchers' /\ SearchInduction'
BY DEF Searchers, Searching, SearchInduction

LEMMA ConcludeKeepsAll ==
  ASSUME DeploymentInduction, NEW p \in Procs, Conclude(p)
  PROVE  DeploymentInduction'
<1>1. PICK verdict \in Verdicts : /\ WriteBundle(p, Outcome(verdict))
                                  /\ outcomes' = outcomes \cup {Outcome(verdict)}
  BY Zenon DEF Conclude
<1>2. /\ pc[p] = "search" /\ search' = Idle /\ UNCHANGED <<directory, row, bounds, ranOn>>
  BY <1>1 DEF Conclude, WriteBundle
<1>3. Descended(Outcome(verdict).graph)
  BY <1>2, OutcomeDescends DEF DeploymentInduction, Searchers
<1>4. Induction'
  BY ConcludeKeeps DEF DeploymentInduction
<1>5. /\ ProcessesTyped /\ Local(p) /\ DOMAIN got = Procs
  BY DEF DeploymentInduction, Induction, Domains
<1>6. /\ ProcessesTyped' /\ pc'[p] \in {"graph", "idle"}
      /\ digests'[p] = <<>> \/ digests'[p] = digests[p]
      /\ \A q \in Procs \ {p} : /\ pc'[q] = pc[q] /\ purpose'[q] = purpose[q]
                                /\ got'[q] = got[q] /\ digests'[q] = digests[q]
  <2>1. CASE Writable(Outcome(verdict).report)
    BY <1>1, <1>5, <2>1 DEF WriteBundle, Goto, ProcessesTyped
  <2>2. CASE ~Writable(Outcome(verdict).report)
    BY <1>1, <1>5, <2>2 DEF WriteBundle, Goto, Done, ProcessesTyped
  <2> QED BY <2>1, <2>2
<1>7. Searchers' /\ SearchInduction'
  BY <1>2, <1>6, SearchEnds DEF DeploymentInduction
<1>8. Contents \subseteq Contents' /\ graphFile' = graphFile
  BY <1>1, <1>2 DEF Contents, directory
<1>9. Stored'
  BY <1>1, <1>2, <1>3, <1>8 DEF DeploymentInduction, Stored, directory
<1>10. Resumed'
  BY <1>2, <1>6, ResumedStays DEF DeploymentInduction
<1>11. RowTyped'
  BY <1>2 DEF DeploymentInduction, RowTyped, bounds
<1>12. \A q \in Procs \ {p} : Local(q)'
  BY <1>6, <1>8, LocalStays DEF DeploymentInduction
<1>13. Local(p)'
  <2>1. digests'[p] \in Seq(Contents') /\ Len(digests'[p]) <= 0
    <3>1. digests[p] \in Seq(Contents') /\ Len(digests[p]) <= 0
      BY <1>2, <1>5, <1>8, SeqGrows DEF Local
    <3> HIDE DEF Contents
    <3> QED BY <1>6, <3>1
  <2> QED BY <1>6, <2>1 DEF Local, Writing, Loaded
<1> QED BY <1>4, <1>6, <1>7, <1>9, <1>10, <1>11, <1>12, <1>13 DEF DeploymentInduction

LEMMA CrashKeepsAll ==
  ASSUME DeploymentInduction, NEW p \in Procs, Crash(p)
  PROVE  DeploymentInduction'
<1>1. /\ Done(p) /\ UNCHANGED <<directory, row, outcomes, ranOn>>
      /\ search' = IF pc[p] = "search" THEN Idle ELSE search
  BY DEF Crash, history
<1>2. RowTyped'
  BY DeploymentAssumption DEF Crash, DeploymentInduction, RowTyped, DeploymentAssumption
<1>3. CASE pc[p] # "search"
  BY <1>1, <1>2, <1>3, DoneKeepsAll
<1>4. CASE pc[p] = "search"
  <2>1. Induction'
    BY <1>1, DoneKeeps DEF DeploymentInduction, directory
  <2>2. ProcessesTyped' /\ \A q \in Procs : Local(q)'
    BY <1>1, DoneIsLocal
  <2>3. pc'[p] = "idle" /\ \A q \in Procs \ {p} : pc'[q] = pc[q] /\ got'[q] = got[q]
    BY <1>1 DEF Done, Goto, DeploymentInduction, Induction, Domains
  <2>4. Searchers' /\ SearchInduction'
    BY <1>1, <1>4, <2>3, SearchEnds DEF DeploymentInduction
  <2>5. Resumed'
    BY <1>1, <2>3, ResumedStays DEF DeploymentInduction
  <2>6. Stored'
    BY <1>1 DEF DeploymentInduction, Stored, Contents, directory
  <2> QED BY <1>2, <2>1, <2>2, <2>4, <2>5, <2>6 DEF DeploymentInduction
<1> QED BY <1>3, <1>4

\* A verification begins, or graph.yaml is taken as it is.
LEMMA LoadKeepsAll ==
  ASSUME DeploymentInduction, NEW p \in Procs, LoadBundle(p) \/ LoadYaml(p)
  PROVE  DeploymentInduction'
<1>1. Induction'
  BY CommandsKeep DEF DeploymentInduction
<1>2. /\ UNCHANGED <<search, row, directory, outcomes, ranOn>> /\ pc[p] = "idle"
      /\ commands < MaxCommands /\ commands' = commands + 1 /\ crashes' = crashes
  BY DEF LoadBundle, LoadYaml, Verify, Command, history
<1>3. RowTyped'
  BY <1>2, DeploymentAssumption DEF DeploymentInduction, RowTyped, DeploymentAssumption
<1>4. Contents' = Contents /\ Stored' /\ graphFile' = graphFile
  BY <1>2 DEF Contents, directory, DeploymentInduction, Stored
<1>5. ProcessesTyped /\ Stored /\ Local(p) /\ DOMAIN got = Procs
  BY DEF DeploymentInduction, Induction, Domains
<1>6. CASE LoadBundle(p)
  <2>1. PICK what \in {"run", "optimize", "report"} : Verify(p, what)
    BY <1>6 DEF LoadBundle
  <2>2. ProcessesTyped'
    BY <1>5, <2>1 DEF Verify, Goto, ProcessesTyped
  <2>3. Local(p)'
    BY <1>4, <1>5, <2>1 DEF Verify, Goto, ProcessesTyped, Local, OfBundle, Writing, Loaded
  <2> QED BY <1>1, <1>2, <1>3, <1>4, <1>5, <2>1, <2>2, <2>3, StepKeepsAll
          DEF Verify, Goto, ProcessesTyped
<1>7. CASE LoadYaml(p)
  <2>1. ProcessesTyped'
    BY <1>5, <1>7 DEF LoadYaml, Goto, ProcessesTyped
  <2>2. PICK yaml \in {Original, graphFile} \ {Missing} : got' = [got EXCEPT ![p] = yaml]
    BY <1>7 DEF LoadYaml
  <2>3. Descended(yaml)
    BY <1>5, <2>2, OriginalDescends DEF Stored
  <2>4. Local(p)'
    BY <1>2, <1>4, <1>5, <1>7, <2>2, <2>3
       DEF LoadYaml, Goto, ProcessesTyped, Local, OfBundle, Writing, Loaded
  <2> QED BY <1>1, <1>2, <1>3, <1>4, <1>5, <1>7, <2>1, <2>2, <2>4, StepKeepsAll
          DEF LoadYaml, Goto, ProcessesTyped
<1> QED BY <1>6, <1>7

\* The run takes the version of its graph, or a graph of its version.
LEMMA EnterKeepsAll ==
  ASSUME DeploymentInduction, NEW p \in Procs, EnterRun(p)
  PROVE  DeploymentInduction'
<1>1. Induction'
  BY CommandsKeep DEF DeploymentInduction
<1>2. /\ UNCHANGED <<search, directory, outcomes, ranOn, commands, crashes>>
      /\ pc[p] = "verified" /\ \A q \in Procs : pc[q] # "running"
  BY DEF EnterRun, history, bounds
<1>3. CASE Done(p) /\ row' = row
  <2>1. RowTyped'
    BY <1>2, <1>3 DEF DeploymentInduction, RowTyped
  <2> QED BY <1>2, <1>3, <2>1, DoneKeepsAll
<1>4. CASE ~(Done(p) /\ row' = row)
  <2>1. /\ row' = [row EXCEPT !.status = "running", !.version = got[p].version]
        /\ pc' = [pc EXCEPT ![p] = "running"] /\ UNCHANGED locals
        /\ row.status = "absent" \/ row.version = got[p].version
    BY <1>4 DEF EnterRun, Goto
  <2>2. /\ row = [status |-> row.status, version |-> row.version, counts |-> row.counts]
        /\ ProcessesTyped /\ Local(p) /\ Resumed /\ RowTyped
    BY DEF DeploymentInduction, RowTyped
  <2>3. row' = [status |-> "running", version |-> got[p].version, counts |-> row.counts]
    BY <2>1, <2>2
  <2>4. RowTyped'
    BY <1>2, <2>2, <2>3 DEF RowTyped
  <2>5. Resumed'
    <3>1. Descended(got[p]) /\ got[p].version \in Seq(Seq(Mutations))
      BY <1>2, <2>2 DEF Local, Loaded, Descended, Graphs
    <3>2. CapsNeverRise'
      <4>1. CASE row.status = "absent"
        BY <2>2, <2>3, <3>1, <4>1, StartsBelow DEF Resumed, CapsNeverRise
      <4>2. CASE row.version = got[p].version
        BY <2>2, <2>3, <4>2 DEF Resumed, CapsNeverRise
      <4> QED BY <2>1, <4>1, <4>2
    <3> QED BY <1>2, <2>1, <2>2, <2>3, <3>1, <3>2 DEF Resumed, ProcessesTyped, locals
  <2>6. Searchers' /\ SearchInduction'
    BY <1>2, <2>1, <2>2, SearchersStay DEF DeploymentInduction, ProcessesTyped
  <2>7. ProcessesTyped'
    BY <2>1, <2>2 DEF ProcessesTyped, locals
  <2>8. Stored' /\ Contents' = Contents /\ graphFile' = graphFile
    BY <1>2 DEF DeploymentInduction, Stored, Contents, directory
  <2>9. Local(p)'
    BY <1>2, <2>1, <2>2, <2>8 DEF ProcessesTyped, Local, OfBundle, Writing, Loaded, locals
  <2>10. \A q \in Procs \ {p} : Local(q)'
    BY <2>1, <2>2, <2>8, LocalStays DEF DeploymentInduction, ProcessesTyped, locals
  <2> QED BY <1>1, <2>4, <2>5, <2>6, <2>7, <2>8, <2>9, <2>10 DEF DeploymentInduction
<1> QED BY <1>3, <1>4

\* A traversal below the cap of the graph the process holds.
LEMMA TraverseKeepsAll ==
  ASSUME DeploymentInduction, NEW p \in Procs, Traverse(p)
  PROVE  DeploymentInduction'
<1>1. Induction'
  BY CommandsKeep DEF DeploymentInduction
<1>2. /\ UNCHANGED <<search, directory, pc, locals, outcomes, commands, crashes>>
      /\ pc[p] = "running" /\ ranOn' = ranOn \cup {got[p].settings}
  BY DEF Traverse, bounds
<1>3. PICK e \in Caps : /\ row.counts[e] < got[p].settings[e]
                        /\ row' = [row EXCEPT !.counts[e] = @ + 1]
  BY DEF Traverse
<1>4. /\ row = [status |-> row.status, version |-> row.version, counts |-> row.counts]
      /\ row.counts \in [Caps -> Nat] /\ Resumed
  BY DEF DeploymentInduction, RowTyped
<1>5. row' = [status |-> row.status, version |-> row.version,
              counts |-> [row.counts EXCEPT ![e] = @ + 1]]
  BY <1>3, <1>4
<1>6. /\ got[p].settings = Rebuilt(row.version) /\ row.version = got[p].version
      /\ row.version \in Seq(Seq(Mutations)) /\ got[p].settings \in [Slots -> Int]
      /\ Descended(got[p]) /\ e \in Slots
  BY <1>2, <1>4, SearchAssumption DEF DeploymentInduction, Local, Loaded, Descended, Graphs, Resumed,
                                      SearchAssumption
<1>7. CapsNeverRise'
  <2>1. ASSUME NEW k \in 0..Len(row.version)
        PROVE  row.counts[e] + 1 <= Ancestor(row.version, k)[e]
    <3>1. got[p].settings[e] \in 0..Ancestor(row.version, k)[e]
      BY <1>6 DEF Descended
    <3>2. Ancestor(row.version, k)[e] \in Int
      BY <1>6, AncestorTyped
    <3> QED BY <1>3, <1>4, <1>6, <3>1, <3>2
  <2> QED BY <1>4, <1>5, <2>1 DEF Resumed, CapsNeverRise
<1>8. RowTyped'
  BY <1>2, <1>4, <1>5 DEF DeploymentInduction, RowTyped
<1>9. Resumed'
  BY <1>2, <1>4, <1>5, <1>6, <1>7 DEF Resumed, locals
<1>10. Searchers' /\ SearchInduction'
  BY <1>2, SearchersStay DEF DeploymentInduction
<1>11. ProcessesTyped' /\ Stored' /\ Contents' = Contents /\ graphFile' = graphFile
  BY <1>2 DEF DeploymentInduction, ProcessesTyped, Stored, Contents, directory, locals
<1>12. \A q \in Procs : Local(q)'
  BY <1>2, <1>11, LocalStays DEF DeploymentInduction, locals
<1> QED BY <1>1, <1>8, <1>9, <1>10, <1>11, <1>12 DEF DeploymentInduction

\* The ends of a run and of a report.
LEMMA EndKeepsAll ==
  ASSUME DeploymentInduction, NEW p \in Procs, Report(p) \/ EndRun(p) \/ LeaveRun(p)
  PROVE  DeploymentInduction'
<1>1. /\ Done(p) /\ pc[p] # "search"
      /\ UNCHANGED <<search, directory, outcomes, ranOn, commands, crashes>>
  BY DEF Report, EndRun, LeaveRun, history, bounds
<1>2. CASE row' = row
  BY <1>1, <1>2, DoneKeepsAll DEF DeploymentInduction, RowTyped
<1>3. CASE EndRun(p)
  <2>1. row = [status |-> row.status, version |-> row.version, counts |-> row.counts]
    BY DEF DeploymentInduction, RowTyped
  <2>2. row' = [status |-> "ended", version |-> row.version, counts |-> row.counts]
    BY <1>3, <2>1 DEF EndRun
  <2>3. RowTyped'
    BY <1>1, <2>2 DEF DeploymentInduction, RowTyped
  <2>4. Induction'
    BY <1>1, DoneKeeps DEF DeploymentInduction, directory
  <2>5. ProcessesTyped' /\ \A q \in Procs : Local(q)'
    BY <1>1, DoneIsLocal
  <2>6. pc'[p] = "idle" /\ \A q \in Procs \ {p} : pc'[q] = pc[q] /\ got'[q] = got[q]
    BY <1>1 DEF Done, Goto, DeploymentInduction, Induction, Domains
  <2>7. Searchers' /\ SearchInduction'
    BY <1>1, <2>6, SearchersStay DEF DeploymentInduction
  <2>8. Resumed'
    BY <1>1, <2>2, <2>6 DEF DeploymentInduction, Resumed, CapsNeverRise
  <2>9. Stored'
    BY <1>1 DEF DeploymentInduction, Stored, Contents, directory
  <2> QED BY <2>3, <2>4, <2>5, <2>7, <2>8, <2>9 DEF DeploymentInduction
<1> QED BY <1>2, <1>3 DEF Report, LeaveRun

\* A search goes on by itself.
LEMMA SearchOnKeepsAll ==
  ASSUME DeploymentInduction, SearchOn \/ UNCHANGED vars
  PROVE  DeploymentInduction'
<1>1. UNCHANGED <<directory, pc, locals, row, commands, crashes, outcomes, ranOn>>
  BY DEF SearchOn, vars, history, bounds
<1>2. Induction' /\ ProcessesTyped' /\ RowTyped' /\ Resumed' /\ Stored' /\ \A p \in Procs : Local(p)'
  BY <1>1 DEF DeploymentInduction, Induction, Domains, Concluded, OfBundle, ProcessesTyped,
              RowTyped, Resumed, CapsNeverRise, Stored, Contents, Local, locals, directory
<1>3. Searchers' /\ SearchInduction'
  <2>1. CASE SearchOn
    BY <1>1, <2>1, SearchKeeps DEF DeploymentInduction, SearchOn, SearchStep, Searchers
  <2>2. CASE UNCHANGED vars
    BY <2>2, SearchersStay DEF DeploymentInduction, vars
  <2> QED BY <2>1, <2>2
<1> QED BY <1>2, <1>3 DEF DeploymentInduction

-----------------------------------------------------------------------------
(* The theorems.                                                           *)

LEMMA RowStarts ==
  ASSUME NEW r, NEW started, NEW version, NEW counts,
         r = [status |-> "absent", version |-> <<>>, counts |-> counts],
         started = [r EXCEPT !.status = "running", !.version = version]
  PROVE  started = [status |-> "running", version |-> version, counts |-> counts]
<1>1. r.counts = counts /\ r = [status |-> r.status, version |-> r.version, counts |-> r.counts]
  OBVIOUS
<1> QED BY <1>1

LEMMA DeploymentInit ==
  ASSUME Init
  PROVE  DeploymentInduction
<1>1. Induction
  BY InductionInit
<1>2. /\ search = Idle /\ commands = 0 /\ crashes = 0
      /\ \A p \in Procs : pc[p] = "idle" /\ purpose[p] = "none" /\ digests[p] = <<>>
      /\ ProcessesTyped
  BY DEF Init, ProcInit, ProcessesTyped
<1>3. SearchInduction /\ Searchers
  BY <1>2 DEF SearchInduction, Searchers, Searching
<1>4. \/ row = NoRun /\ ranOn = {}
      \/ row = Started(Earlier) /\ ranOn = {Earlier.graph.settings}
  BY DEF Init
<1>5. /\ NoRun = [status |-> "absent", version |-> <<>>, counts |-> [e \in Caps |-> 0]]
      /\ Started(Earlier) = [status |-> "running", version |-> Earlier.graph.version,
                             counts |-> [e \in Caps |-> 0]]
  <2>1. NoRun = [status |-> "absent", version |-> <<>>, counts |-> [e \in Caps |-> 0]]
    BY DEF NoRun
  <2>2. Started(Earlier) =
          [NoRun EXCEPT !.status = "running", !.version = Earlier.graph.version]
    BY Zenon DEF Started
  <2> QED BY <2>1, <2>2, RowStarts, Zenon
<1>6. RowTyped
  <2>1. commands \in 0..MaxCommands /\ crashes \in 0..MaxCrashes
    BY <1>2, DeploymentAssumption DEF DeploymentAssumption
  <2> QED BY <1>4, <1>5, <2>1 DEF RowTyped
<1>7. Stored
  <2>1. CASE Empty /\ outcomes = {}
    BY <2>1 DEF Empty, Stored, Contents
  <2>2. CASE Holds(Earlier) /\ outcomes = {Earlier}
    <3>1. Descended(Earlier.graph) /\ Earlier.graph # Missing
      BY DeploymentAssumption DEF Descended, DeploymentAssumption
    <3> QED BY <2>2, <3>1 DEF Holds, Stored, Contents
  <2> QED BY <2>1, <2>2 DEF Init
<1>8. Resumed
  <2>1. /\ Descended(Original) /\ Original.version = <<>>
        /\ Descended(Earlier.graph) /\ Earlier.graph.version \in Seq(Seq(Mutations))
    BY OriginalDescends, DeploymentAssumption DEF Original, Descended, Graphs, DeploymentAssumption
  <2>2. \A e \in Caps : row.counts[e] = 0
    BY <1>4, <1>5
  <2>3. Earlier.graph.settings = Rebuilt(Earlier.graph.version)
    BY DeploymentAssumption DEF Descended, DeploymentAssumption
  <2>4. row.version = Original.version \/ row.version = Earlier.graph.version
    BY <1>4, <1>5, <2>1
  <2>5. CapsNeverRise
    BY <2>1, <2>2, <2>4, StartsBelow DEF CapsNeverRise
  <2>6. row.version \in Seq(Seq(Mutations))
    <3>1. Original.version \in Seq(Seq(Mutations))
      BY <2>1
    <3> QED BY <2>1, <2>4, <3>1, Zenon
  <2>7. /\ row.status = "absent" => ranOn = {}
        /\ ranOn \subseteq {Rebuilt(row.version)}
    BY <1>4, <1>5, <2>3
  <2> QED BY <1>2, <2>2, <2>5, <2>6, <2>7 DEF Resumed
<1>9. ASSUME NEW p \in Procs PROVE Local(p)
  <2>1. pc[p] = "idle" /\ purpose[p] = "none" /\ digests[p] = <<>>
    BY <1>2
  <2>2. <<>> \in Seq(Contents) /\ Len(<<>>) <= 0
    OBVIOUS
  <2> HIDE DEF Contents
  <2> QED BY <2>1, <2>2 DEF Local, Writing, Loaded
<1> QED BY <1>1, <1>2, <1>3, <1>6, <1>7, <1>8, <1>9 DEF DeploymentInduction

LEMMA DeploymentStep ==
  ASSUME DeploymentInduction, [Next]_vars
  PROVE  DeploymentInduction'
<1>1. ASSUME NEW p \in Procs, Optimize(p) PROVE DeploymentInduction'
  <2>1. Descended(got[p]) /\ pc[p] = "verified" /\ purpose[p] \in {"optimize", "yaml"}
    BY <1>1 DEF Optimize, DeploymentInduction, Local, Loaded
  <2>2. BeginSearch(p, got[p]) /\ RowTyped'
    BY <1>1 DEF Optimize, BeginSearch, DeploymentInduction, RowTyped
  <2> QED BY <2>1, <2>2, BeginSearchKeepsAll
<1>2. ASSUME NEW p \in Procs, BundleStep(p) PROVE DeploymentInduction'
  BY <1>2, WriterKeepsAll, VerifierKeepsAll DEF BundleStep
<1> QED BY <1>1, <1>2, ConcludeKeepsAll, LoadKeepsAll, EnterKeepsAll, TraverseKeepsAll,
           EndKeepsAll, CrashKeepsAll, SearchOnKeepsAll DEF Next

LEMMA DeploymentInvariant == Spec => []DeploymentInduction
<1>1. Init => DeploymentInduction
  BY DeploymentInit
<1>2. DeploymentInduction /\ [Next]_vars => DeploymentInduction'
  BY DeploymentStep
<1> QED BY <1>1, <1>2, PTL DEF Spec

\* Every variable of the commands, of the search and of the directory has its type; one process
\* searches at most; no manifest stands in a directory without a graph.
THEOREM DeploymentTyped ==
  Spec => []TypeOK
<1>1. DeploymentInduction => TypeOK
  <2> SUFFICES ASSUME DeploymentInduction PROVE TypeOK
    OBVIOUS
  <2>1. SearchTypeOK
    BY DEF DeploymentInduction, SearchInduction, SearchTypeOK, Best, Grown, Descended, Graphs
  <2>2. \A p \in Procs : Len(digests[p]) <= Len(Files)
    <3>1. ASSUME NEW p \in Procs PROVE Len(digests[p]) <= 3
      <4>1. digests[p] \in Seq(Contents) /\ Local(p)
        BY DEF DeploymentInduction, Local
      <4>2. Len(digests[p]) \in Nat
        BY <4>1, LenProperties
      <4> QED BY <4>1, <4>2 DEF Local
    <3> QED BY <3>1, FilesAreContents
  <2> QED BY <2>1, <2>2 DEF DeploymentInduction, TypeOK, Stored, Searchers, ProcessesTyped, RowTyped
<1> QED BY <1>1, DeploymentInvariant, PTL

\* The winner of a search is its best graph, is not the base under mutations that leave its
\* schema hash as it was, and sets no slot twice.
THEOREM WinnersAreBest ==
  Spec => []WinnerIsBest
<1>1. DeploymentInduction => WinnerIsBest
  <2> SUFFICES ASSUME SearchInduction, Searching PROVE WinnerIsBest
    BY DEF DeploymentInduction, WinnerIsBest
  <2>1. \A s \in DOMAIN search.known : search.known[s] <= search.known[SettingsAt(search.best)]
    BY DEF SearchInduction, Best
  <2>2. search.best # <<>> => SettingsAt(search.best) # search.base.settings
    BY SearchAssumption DEF SearchInduction, Best, SearchAssumption
  <2>3. \A path \in DOMAIN search.tree : Unrepeated(path)
    BY DEF SearchInduction, Grown
  <2> QED BY <2>1, <2>2, <2>3 DEF WinnerIsBest, Unrepeated
<1> QED BY <1>1, DeploymentInvariant, PTL

\* A run never traverses an edge more often than the hand-written graph or any other graph that
\* its own descends from allows, however many searches were run on top of one another and
\* whichever graph it was resumed with.
THEOREM CapsOnlyFall ==
  Spec => []CapsNeverRise
<1>1. DeploymentInduction => CapsNeverRise
  BY DEF DeploymentInduction, Resumed, CapsNeverRise
<1> QED BY <1>1, DeploymentInvariant, PTL

\* All steps of a run use one graph, whatever the directory holds when it is resumed.
THEOREM RunsKeepTheirGraph ==
  Spec => []RunKeepsItsGraph
<1>1. DeploymentInduction => RunKeepsItsGraph
  <2> SUFFICES ASSUME DeploymentInduction PROVE Cardinality(ranOn) <= 1
    BY DEF RunKeepsItsGraph
  <2>1. ranOn = {} \/ ranOn = {Rebuilt(row.version)}
    BY DEF DeploymentInduction, Resumed
  <2>2. Cardinality({}) = 0 /\ Cardinality({Rebuilt(row.version)}) = 1
    BY FS_EmptySet, FS_Singleton
  <2> QED BY <2>1, <2>2
<1> QED BY <1>1, DeploymentInvariant, PTL
=============================================================================
