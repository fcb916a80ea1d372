----------------------------- MODULE GraphBundle -----------------------------
(***************************************************************************)
(* The bundle directory: what optimize-graph writes into it file by file,  *)
(* and what verify_graph_bundle makes of it.  Any number of processes do   *)
(* either at any time, nothing locks the directory, and a process may be   *)
(* killed between two steps.  A file is its content; a digest of a file is *)
(* that content.                                                           *)
(***************************************************************************)
EXTENDS GraphSearch

CONSTANTS Procs, Missing, Partial    \* no such file; a file opened for writing and still empty

VARIABLES
  graphFile, compiled, benchmark, manifest,   \* the directory
  pc,
  purpose,     \* [Procs -> what a verification is for]
  job,         \* [Procs -> the outcome being written]
  digests,     \* [Procs -> what a writer read back, file by file]
  seen, got    \* [Procs -> the manifest, and the graph, that a verification holds]

directory == <<graphFile, compiled, benchmark, manifest>>
locals == <<purpose, job, digests, seen, got>>

Files == <<graphFile, compiled, benchmark>>

ManifestOf(outcome, files) ==
  [graph |-> outcome.graph, status |-> outcome.report.status, path |-> outcome.report.path,
   gain |-> outcome.report.gain, files |-> files]

Empty == graphFile = Missing /\ compiled = Missing /\ benchmark = Missing /\ manifest = Missing

\* The directory as an undisturbed write leaves it.
Holds(outcome) ==
  /\ graphFile = outcome.graph /\ compiled = outcome.graph /\ benchmark = outcome.report
  /\ manifest = ManifestOf(outcome, <<outcome.graph, outcome.graph, outcome.report>>)

ProcInit ==
  /\ pc = [p \in Procs |-> "idle"]
  /\ purpose = [p \in Procs |-> "none"]
  /\ job = [p \in Procs |-> Missing]
  /\ digests = [p \in Procs |-> <<>>]
  /\ seen = [p \in Procs |-> Missing] /\ got = [p \in Procs |-> Missing]

Goto(p, label) == pc' = [pc EXCEPT ![p] = label]

\* The process forgets what it held.
Done(p) ==
  /\ Goto(p, "idle")
  /\ purpose' = [purpose EXCEPT ![p] = "none"] /\ job' = [job EXCEPT ![p] = Missing]
  /\ digests' = [digests EXCEPT ![p] = <<>>]
  /\ seen' = [seen EXCEPT ![p] = Missing] /\ got' = [got EXCEPT ![p] = Missing]

-----------------------------------------------------------------------------
(* write_graph_bundle.                                                     *)

Writable(report) ==
  report.status = "promoted" => report.path # <<>> /\ report.gain >= 0

WriteBundle(p, outcome) ==
  /\ IF Writable(outcome.report)
     THEN /\ Goto(p, "graph") /\ job' = [job EXCEPT ![p] = outcome]
          /\ UNCHANGED <<purpose, digests, seen, got>>
     ELSE Done(p)
  /\ UNCHANGED directory

WriteGraph(p) ==
  /\ pc[p] = "graph" /\ graphFile' = job[p].graph /\ Goto(p, "truncate")
  /\ UNCHANGED <<compiled, benchmark, manifest, locals>>

\* write_generated_module writes in place: the file is empty before it is full.
TruncateCompiled(p) ==
  /\ pc[p] = "truncate" /\ compiled' = Partial /\ Goto(p, "compiled")
  /\ UNCHANGED <<graphFile, benchmark, manifest, locals>>

WriteCompiled(p) ==
  /\ pc[p] = "compiled" /\ compiled' = job[p].graph /\ Goto(p, "benchmark")
  /\ UNCHANGED <<graphFile, benchmark, manifest, locals>>

WriteBenchmark(p) ==
  /\ pc[p] = "benchmark" /\ benchmark' = job[p].report /\ Goto(p, "digest")
  /\ UNCHANGED <<graphFile, compiled, manifest, locals>>

\* The digests in the manifest are of the files as they are read back.
Digest(p) ==
  /\ pc[p] = "digest" /\ Len(digests[p]) < Len(Files)
  /\ digests' = [digests EXCEPT ![p] = Append(@, Files[Len(@) + 1])]
  /\ UNCHANGED <<directory, pc, purpose, job, seen, got>>

\* The manifest comes last, and the writer verifies the directory it leaves.
WriteManifest(p) ==
  /\ pc[p] = "digest" /\ Len(digests[p]) = Len(Files)
  /\ manifest' = ManifestOf(job[p], digests[p])
  /\ Goto(p, "manifest") /\ purpose' = [purpose EXCEPT ![p] = "report"]
  /\ digests' = [digests EXCEPT ![p] = <<>>] /\ job' = [job EXCEPT ![p] = Missing]
  /\ UNCHANGED <<graphFile, compiled, benchmark, seen, got>>

WriterStep(p) == \/ WriteGraph(p) \/ TruncateCompiled(p) \/ WriteCompiled(p) \/ WriteBenchmark(p)
                 \/ Digest(p) \/ WriteManifest(p)

-----------------------------------------------------------------------------
(* verify_graph_bundle.                                                    *)

\* run, resume and optimize-graph take a directory only if it is promoted.
Verify(p, what) ==
  /\ pc[p] = "idle"
  /\ Goto(p, "manifest") /\ purpose' = [purpose EXCEPT ![p] = what]
  /\ UNCHANGED <<directory, job, digests, seen, got>>

ReadManifest(p) ==
  /\ pc[p] = "manifest"
  /\ IF manifest = Missing \/ (purpose[p] \in {"run", "optimize"} /\ manifest.status # "promoted")
     THEN Done(p)
     ELSE /\ seen' = [seen EXCEPT ![p] = manifest] /\ Goto(p, "compare")
          /\ UNCHANGED <<purpose, job, digests, got>>
  /\ UNCHANGED directory

\* One file after the other is hashed and compared.
CompareFile(p) ==
  /\ pc[p] = "compare"
  /\ LET file == Files[Len(digests[p]) + 1]
     IN  IF file # seen[p].files[Len(digests[p]) + 1] THEN Done(p)
         ELSE IF Len(digests[p]) + 1 = Len(Files)
         THEN /\ digests' = [digests EXCEPT ![p] = <<>>] /\ Goto(p, "load")
              /\ UNCHANGED <<purpose, job, seen, got>>
         ELSE /\ digests' = [digests EXCEPT ![p] = Append(@, file)]
              /\ UNCHANGED <<pc, purpose, job, seen, got>>
  /\ UNCHANGED directory

\* A mutant: the digests have been compared, which is enough.
Trusted(graph, wanted) == TRUE

\* Name, version and schema hash.
SameGraph(graph, wanted) == graph = wanted

\* graph.yaml is opened a second time to be parsed.
LoadGraph(p) ==
  /\ pc[p] = "load"
  /\ IF SameGraph(graphFile, seen[p].graph)
     THEN /\ got' = [got EXCEPT ![p] = graphFile] /\ Goto(p, "recompile")
          /\ UNCHANGED <<purpose, job, digests, seen>>
     ELSE Done(p)
  /\ UNCHANGED directory

\* The tables are compiled again and compared with the file, read once more.
Recompile(p) ==
  /\ pc[p] = "recompile"
  /\ IF compiled = got[p]
     THEN Goto(p, "evidence") /\ UNCHANGED locals
     ELSE Done(p)
  /\ UNCHANGED directory

\* The rewards and, for a promoted bundle, the gate.
EvidenceHolds(report, m) ==
  /\ report.status = m.status /\ report.gain = m.gain
  /\ m.status = "promoted" =>
       /\ report.path # <<>> /\ report.path = m.path
       /\ report.gain >= MinGain

ReadEvidence(p) ==
  /\ pc[p] = "evidence"
  /\ IF EvidenceHolds(benchmark, seen[p])
     THEN Goto(p, "verified") /\ UNCHANGED locals
     ELSE Done(p)
  /\ UNCHANGED directory

VerifierStep(p) == \/ ReadManifest(p) \/ CompareFile(p) \/ LoadGraph(p) \/ Recompile(p)
                   \/ ReadEvidence(p)
=============================================================================
