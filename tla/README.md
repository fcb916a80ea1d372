# TLA+ verification of graph-native-mlx

TLA+ models of the repository agent of graph-native-mlx, the TLC runs that check
them, and theorems about them checked by TLAPS. Paths below are relative to the
repository; `src/graph_model/` is its package.

## The system

A *run* takes a coding task through the default repository graph: route, context,
plan, check the plan, implement, apply, test, review, and either finish or
diagnose and repair. Every step is checkpointed in SQLite, patches land in a
managed git worktree under file-based ledgers, and any process may be killed and
the run resumed by another.

| Part | State it keeps | Operations | Interacts with |
|---|---|---|---|
| Repository graph (`graphs/coding_supergraph.yaml`, `models.py`, `graph.py`, `conditions.py`) | none; nodes, conditional edges, caps | `valid_outgoing_edges` | runtime, controllers, search |
| Graph runtime (`runtime.py`) | the run's row in memory | `run`, the loop, budgets, `apply_node_result` | store, operators, controller |
| Operators (`operators.py`) | `state.data`: verdicts, reports with fingerprints, pending patch, counters | one per node | workspace, providers |
| Workspace (`workspace.py`) | worktree, `workspace.lock`, intent and commit files, `verified.patch` | `ensure_prepared`, `apply_patch`, `run_tests`, `export_patch`, `promote_verified_patch`, removal; `validate_patch`, context selection, choice of verification commands | git, operators, CLI |
| Store and lease (`store.py`) | `runs` and `events` tables, one lock file per run | `create_run`, `commit_step`, `save_terminal_event`, `run_lock`, reopen | runtime, collector |
| Trace collection (`trace_collection.py`) | a manifest; the rows of its runs | attend to each task, reopen, terminalize failures | store, runtime |
| Command line (`cli.py`) | none | run, resume, apply-result, cleanup, optimize-graph, verify-graph-bundle | runtime, workspace, bundle |
| Controllers (`controller.py`, `router_policy.py`) | optional learned policy | choose one of the valid edges | runtime |
| MLX provider and hidden-state cache (`mlx_native/provider.py`, `hidden_state.py`) | worker thread, model, hidden-state cache, artifacts | load, generate, capture, close | operators, MLX controller |
| MLX controller (`mlx_native/controller.py`, `policy.py`, tables, features) | policy weights, compiled graph tables | masked scoring of edges | controllers |
| Model providers (`provider.py`) | none | chat calls with retries, mock | operators |
| Graph search, optimizer, bundle (`graph_search.py`, `optimizer.py`, `graph_bundle.py`) | search tree, evaluation cache, bundle directory | mutate caps, priorities and temperatures, promote, write, verify | repository graph, run and resume |
| Restate service (`integrations/restate_service.py`) | journal | the step functions as journalled calls | runtime, operators |
| Contract oracle, training, evaluation, reporting | none that interacts | batch computations | - |

Hard behaviours: a process killed between an operator's effect and its checkpoint;
repeated, concurrent and killed `apply_patch` calls; a worktree changed between
the tests and the review; evidence of an earlier repair round surviving a new
candidate; two processes on one run; a collector that writes a run's row without
its lease; counters, caps and budgets whose combination can leave a run with no
edge to follow; cleanup, promotion and a running run on one worktree and one source
repository; a verification command that never ends; a bundle directory that is written
file by file, without a lock, while others verify it; searches run on the results of
searches, and a run resumed after its graph was replaced. What makes each part correct is stated by the properties below;
the hazards, each with its line, are in `PROJECT.json`.

## Modules

| Module | Models | State to code |
|---|---|---|
| `CodingGraph` | the YAML graph and `valid_outgoing_edges` | an edge is a pair; caps are the constant `Cap` because the graph search varies them; `DefaultCap` is the file |
| `GraphRuntime` (uses `CodingGraph`) | one run in workspace mode: loop, 12 operators, checkpoint, crash, outside edits | `run` = durable row, `mem` = `state.data`, `worktree` = fingerprint split into what `git diff HEAD` shows and what only untracked files hold, `ledger` = committed apply operations, `exported` = `verified.patch` |
| `VerificationGate` | abstract: propose, three gates, at most two repairs, deliver or reject | implemented by `GraphRuntime` (`ImplementsGate`) |
| `PatchLedger` | `apply_patch` with its ledgers and locks, called by a run's apply node (`leased`) or by apply-result processes | `intents`/`commits` = the JSON files, `before`/`after` their fingerprints, `lock` = `workspace.lock`, `effects` is a history variable |
| `ApplyOnce` | abstract: each operation takes effect atomically, at most once, in order | implemented by `PatchLedger` (`ImplementsApplyOnce`) |
| `RunLease` | processes around one row: `GraphRuntime.run` under `run_lock`, and trace collectors | `row`, `events` = the tables, `mem` = each process's RunState, `lease` = flock |
| `MlxWorker` | `MLXLocalProvider`: callers, its executor of one thread, generation with recovery, hidden-state cache, `close` | `closed` = `_closed`, `queue`/`shut`/`worker` = the ThreadPoolExecutor, `model` = `_model` and `_tokenizer`, `cache` = keys of `_hidden_cache` in its order, `artifacts` = hidden store; `spent` and `recency` (the prompts answered since the last release) are history variables |
| `Workspaces` (uses `PatchPolicy`) | one run's worktree from `ensure_prepared` to its removal: the run command, `cleanup` and `apply-result` as processes | `row` = the stored run, `tree` = the worktree (commit, changed tracked paths, stray files), `retained` = `verified.patch`, `head`/`edits` = the source repository, `lease`/`lock` = the run lease and `workspace.lock`, `ledger`/`before` = the promotion's operation; `runner` = where the run command stands, a verification command being refused before it has started only; `disturbed`, `onto` are history variables |
| `PatchPolicy` | `validate_patch`: the scan of a diff's lines, refused paths, limits | pure functions; a line is a record of its kind and paths |
| `ContextSelection` | which files go into a prompt under its byte limit, and which verification commands are detected or configured | pure functions |
| `GraphSearch` | `optimize_graph`: envelope, held-out check, tree search with its evaluation cache, promotion gate, version digest | `search` = the locals of one search; its `tree` is what each `SearchNode` holds: the path of mutations to it, and its graph |
| `GraphBundle` | `write_graph_bundle` and `verify_graph_bundle`, file by file | `graphFile`, `compiled`, `benchmark`, `manifest` = the directory; per process the step, and what it has read |
| `Deployment` (composes the two) | `optimize-graph`, `verify-graph-bundle`, `run` and `resume` around one bundle directory and one stored run; each may start from the default graph, from a `graph.yaml` or from a promoted bundle | `row` = status, graph version, traversal counts; `outcomes`, `ranOn` are history variables |
| `GraphControl` | route, stop action and edge of the rule, learned and MLX controllers | pure functions; learned scores are any scores |
| `GraphFile` | the evaluation of a graph file's conditions with its errors and short circuits, and the validation of a graph | pure functions, over the conditions of the file as they are written |
| `MCGraphRuntime`, `MCPatchLedger`, `MCWorkspaces`, `MCDeployment` | values for TLC, and the pure functions against their references (below) | - |
| `GraphRuntimeProofs`, `GraphRuntimePaths`, `GraphRuntimeRefinement`, `PatchLedgerProofs`, `WorkspacesProofs`, `RunLeaseProofs`, `MlxWorkerProofs`, `DeploymentProofs` | theorems | - |

Each operator of the graph is one action that ends with `Returns(d)`; the
checkpoint is `CommitStep`, one transaction as in `commit_step`, so a `Crash`
between the two keeps the effect and loses the delta, as in the code. Names
follow the source (`ApplyCandidate` is `apply_candidate`, and so on). Operators
marked "A mutant" are plausible bugs used to show that each property can fail.

### Abstractions

- Patch content, prompts and reports are verdicts and fingerprints; a worktree's
  content is a pair of version numbers. Routes deep and repair are one value, `planned`:
  the graph does not tell them apart.
- `git apply` is external and atomic. In `GraphRuntime` a failed application may have
  left the worktree changed (`landed` without `seen`), and a replay is identified by
  the step count because the idempotency key hashes the checkpoint. Under it,
  `PatchLedger` models the ledger itself.
- `Crash` in `GraphRuntime` also stands for an operator that raises: the loop saves
  nothing in either case.
- The no-progress budget is left out: progress keys start with the node's name and
  no edge is a self-loop, so the counter stays zero. The per-process step cache is
  never hit twice within one run.
- Tokens and seconds are a set of budgets already reached, chosen at every
  checkpoint; the counted budgets are exact.
- In `RunLease` a step's content is its count.
- In `MlxWorker` a generation is one unit of tokens with an outcome (parses, does not,
  is cut off, raises), and a prompt is its digest. Callers are blocking threads or
  awaiting tasks; cancelling an awaiting task is left out, and no function handed to
  the worker calls the provider again, so its inline branch is not taken. Writing an
  artifact is one step.
- In `Workspaces` an application in the worktree is one step (`PatchLedger` has its
  ledger), a worktree is the set of its changed tracked paths and whether it has stray
  files, and another run's promotion is an outside change of the source. Only worktree
  mode is modelled: in-place mode has no worktree to remove and nothing to promote.
- In `GraphSearch` a temperature that a node does not configure is a value of its own, because
  the schema hash tells it from the operator's default written out: a mutation that only writes
  the default may earn a reward of its own. A task of the held-out check stands for its text,
  repository, base and test commands. The child UCT prefers is any child, and what an evaluation measures
  is any reward, once per graph, because the cache keeps the first. In `Deployment` the
  searches of two processes come one after another: a search reads and writes nothing
  but its own memory until it has an outcome. A step of the run there is any edge with
  traversals left. A search that fails ends like a kill. `optimization-summary.json`,
  which nothing reads back, is left out.
- In `GraphControl` the features, the cached policy context and the arithmetic behind a
  score are left out; what is modelled is which scores can be overruled by what.

## Runs

| Run | Question | Bounds |
|---|---|---|
| `runtime` | verified completion, content, budgets, no dead end, diagnosis, gate refinement, return of calls | default caps; budgets exactly the longest path (21/10/9) and far below it; one crash, one edit: each is enough to separate any operator from its checkpoint or any gate from the next |
| `ledger` | atomic, at-most-once application | two operations of four patches over four contents, two processes, two kills, so a call, its repetition and a second kill; no patch applies to its own result (`NoRematchHere` checks it) |
| `lease` | one executor, fresh memory, log and checkpoints, lease freed | two runners and a collector that takes turns, three steps, two failures, two kills, one reopening |
| `worker` | every call answered, every generation counted and bounded, cache holding exactly the prompts used last, quiet after `close` | two callers of three calls each, so a request, a close and another request of both interleave; three prompts in a cache of two, so eviction happens and its order matters |
| `workspaces` | exported work survives cleanup, no removal under a running run, promotion onto an unchanged base, every command ends | one run with one repair and two verification commands, two `apply-result` processes, one cleanup, one outside change, one kill: any two commands can meet at any step, and a kill can come before or after |
| `deployment` | verified bundles are one search's outcome, the winner is the best graph, caps never rise above any earlier graph's, a run keeps its graph | two processes, two commands, one kill, searches of three iterations: a writer and a reader, two writers, a search on the result of another, a resume after the directory was rewritten; processes are symmetric (3.3 million states, the largest run) |
| `closed_reload` (violation) | tests/test_mlx_provider.py:365 with a call racing `close` | two callers |
| `double_apply` (violation) | ARCHITECTURE.md:65 with a patch that applies to its own result | one kill |
| `promotion_stuck` (violation) | ARCHITECTURE.md:65 for apply-result | one kill |
| `collector_clobber` (violation) | ARCHITECTURE.md:115 with a collector overlapping a runner | one of each |
| `export_untracked` (violation) | ARCHITECTURE.md:190 on the exported patch | default caps, one budget |
| `crashed_verifier` (violation) | ARCHITECTURE.md:93 across a crash | one crash |

Pure functions are checked where TLC evaluates the `ASSUME`s of an MC module, with the
run that extends it. With `runtime`: the conditions of `CodingGraph` are those of the file
evaluated by `conditions.py` on every record the runtime can hold, a comparison with a
missing count raises, and every graph the validation accepts reaches an end from every
node it can enter. With `workspaces`: the one-pass scan of a diff accepts exactly
the patches that are sound as a whole, with and without a refused path; context stays within
its limits and a file is left out only when better ones have used them up; the diff check is
the first command, none runs twice and no configured one is left out. With `deployment`: every controller's decision is a
valid edge or an allowed stop, under any scores; the MLX controller under no learned
preference decides like the deterministic one; a learned route is a known one or the
rule's; a forced move is the only move.

The six violations are disagreements between a document or a test and the code;
PROJECT.json quotes them. `CHECK_DEADLOCK FALSE` is set because runs, ledgers and processes end.

Properties of note: `VerifiedCompletion` (a completed run holds all three verdicts,
tests and review on one fingerprint, under crashes and edits), `VerifiedContent`
(undisturbed, the exported content is the tested one), `ExactlyOneSuccessor` (the caps
of the file never leave a node without an edge, and the conditions never leave a
controller a choice), `BudgetsSuffice` (the default budget never cuts a run short),
`DiagnosesLatestFailure` (evidence of an earlier round never misleads the diagnosis),
`LedgerIsCurrent`, `RefusalRestores`, `CheckpointsKept`, `LogMatchesRow`,
`QuietAfterClose` (no caller, queue entry or worker survives `close`), `WorkRetained` (two
status checks and a patch written at another time speak of the same content),
`PromotionSeesBase` (kills, retries and rival promotions between a check and its use),
`LoadedIsOneWrite` (file-by-file writes and reads, no lock, one manifest), `CapsNeverRise`
(searches on searches, resumes under other graphs; a cap once lowered stays lowered),
`EndIsLogged` (what the log may tell of an end after any kill: a run killed between its last
checkpoint and its terminal event ends with that step's event, and nothing else is ever lost
or told wrongly), `CallsReturn` (with a verification command that hangs nothing but the time
limit and SIGKILL lets the run go on: a refusal is possible before the command starts only).

### Fairness

`GraphRuntime`: WF of `Loop`, because a `run()` call that is not killed keeps
executing its `while`. Crash, pause and edit are never forced. `PatchLedger` and
`RunLease`: WF of each process's own steps; flock wakes a waiter once the lock is
free, and `run_lock` never waits. `MlxWorker`: WF of the worker thread and of each
caller's own steps; nobody has to call or close. `Workspaces`: WF of the steps each command
takes by itself; SF of the steps that wait in `flock` for `workspace.lock`, which queues its
waiters; none of the verification commands, which may hang, and none of a budget's being
spent: that the run returns all the
same is the work of the time limit and of SIGKILL. `Deployment` states safety only. No fairness between a call and its retry is assumed.

## Proofs

Every invariant and every action property the passing runs check is a theorem, and so are
both refinements; liveness is not (below). All constants are arbitrary within their
assumptions: `Cap` any function from edges to positive numbers, any budgets, any crash and
edit bounds, any processes, callers, patches, prompts, pools of mutations and rewards. An
assumption on a constant is an `ASSUME` of the module that declares it, evaluated by TLC
with the run of that module. Three assumptions are hypotheses of single theorems:

| Hypothesis | Of | Why |
|---|---|---|
| `NoRematch` | `AppliedOnce`, `OnceImplemented` | `double_apply` is the counterexample without it |
| `~Overlap` | `MemoryFresh`, `NothingLost`, `LogFollowsRow`, `EndsAreLogged` | `collector_clobber` is the counterexample without it |
| `FileCaps`: no cap is below the one in the graph file | `OneSuccessor`, `ContentIsVerified` | a cap used up leaves a node without an edge |

`GraphRuntimeProofs` proves `Spec => []TypeOK` by one lemma per group of actions.
`VerifiedCompletion` is not inductive: a completed run is reached through gates whose
evidence was written steps before, in memory that a crash throws away.
`EvidenceAtGates` strengthens it: at every node of the durable row the evidence of the
gates already passed is in the durable data, and an operator's result with verdict
"pass" carries the evidence of the node its edge leads to. The argument then only needs
that edges into a gate are conditioned on a passing verdict (`GuardedEdges`), that
`review` passes only on the fingerprint of the tests, and that a commit stores the
operator's data. `BudgetInduction` adds that an operator runs only below its budgets
and that followed edges were below their caps; `RepairsCounted` that only repair moves
the repair counter. Their conjunction `Induction` is checked by TLC in `runtime` and
proved there, with `VerifiedCompletion`, `BudgetRespected` and
`CapsRespected` as consequences. `GraphRuntimeRefinement` maps each step to a step or
a stutter of `VerificationGate`, and derives that no run is repaired more than twice.

`GraphRuntimePaths` says where a run can stand. `Result` relates what an operator returns to
the checkpointed data it was given, and `ResultInMemory` holds it between the operator and
its checkpoint; from it follow, node by node, how often the two loops were entered
(`RoundsAt`), which edges that took (`TraversalsAt`), what it can have cost (`SpentAt`) and
which gate failed last (`FailureAt`). Their conjunction `PathInduction` holds for any caps and
gives `DiagnosesLatestFailure` and `BudgetsSuffice`: the rounds bound the length of a path, so
no cap is needed for that. With the caps of the file the traversals stay below them, so the one
edge whose condition holds is open, which is `ExactlyOneSuccessor`. `VerifiedContent` needs it:
a test that changed the worktree and then found no edge to follow would be run again, on the
changed content. `ContentAt` says which content worktree, candidate, report and export hold at
each node of a run nobody disturbed.

`RunLeaseProofs` proves that the lease keeps one executor with collectors overlapping or
not, and, assuming `~Overlap`, that executing processes hold the row as it is
(`MemoryFresh`) and that checkpoints and ends are kept (`NothingLost`). `LogInduction` adds
the log to that. `LogMatchesRow` counts step events, so a step is only counted once because the
row that is saved is the fresh one plus that step. `EndIsLogged` needs to know, while an end
is being written, who is writing it and what is in front of it: the row and its terminal
event are two transactions (`EndsHeld`, `EndPending`), and a kill in between leaves the last
step's event at the end of the log.

`MlxWorkerProofs` proves the worker's `Induction` for any number of callers, prompts and
calls. `QuietAfterClose` needs all of it: that a submitted caller is in the queue or
served (`Queued`), that close has a single owner whose release precedes the shutdown
(`CloserAlone`), and that the worker ends only on an empty queue. `Charged` ties each
stage of a request to its generations, which gives `GenerationsAccounted`. `HiddenInduction`
proves the types and `CacheFaithful` for any cache limit: that the cache is the end of the
list of prompts by last use, and stays it when a prompt moves to the end and when the oldest is
evicted (`LatestKeepsEnd`, `TrimmedKeepsEnd`), needs that no prompt is in that list twice.

`PatchLedgerProofs` first proves what holds whatever the patches are. `TypeOK` and
`MutualExclusion` are not inductive alone: that `git apply` yields a content needs that the
worktree is still the one the forward check saw, which needs that whoever is inside holds
the lock (`Locks`) and that what a call has read stays true (`Ledger`). `Position` (a worktree
in doubt is at its intent, or the patch goes on, or comes off) then gives `RefusalRestores`.
`AtMostOnce` and the refinement of `ApplyOnce` assume `NoRematch`, which `double_apply` shows
cannot be dropped. `Place` is the strengthening they need: an operation in doubt is at the
content of its intent, one patch ahead of it, or, after the rollback of a patch that somebody
else brought, one behind. The refinement maps a worktree in doubt to the content of its intent
and the commit file to the moment of effect.

`WorkspacesProofs` proves its three safety properties for any number of promoters, patches,
repairs, commands, outside changes and kills. `Holders` says in which steps the lease and
`workspace.lock` are held, so cleanup and the run exclude each other; `Retention`, that only
an ended run has a manifest and that its worktree is not written again, so the exported patch
holds what cleanup may remove; `Boundary`, that while an undisturbed promotion is on its way
the run has ended, HEAD is its base commit and the source is clean or committed. Both action
properties rest on `OnlyCleanupRemoves`.

`DeploymentProofs` proves `LoadedIsOneWrite` without using the digests: the manifest is
written in one step from one outcome, a verification keeps its one copy of it, and the graph
it returns was compared with that copy after it was read. The digests guard against files
edited by hand, which the model does not have.

The other four rest on one statement about every graph that a file, a search or a process
holds: `Descended`. Its settings are what its version stands for (`Rebuilt`: the hand-written
settings under one path of mutations after the other), and none of its caps is above that of a
graph its version leads through (`Ancestor`), the hand-written one among them. A search keeps this (`SearchInduction`) because each node of its tree is the
base under the path to it, which the envelope bounds by the base; `MutatedAppend` and
`RebuiltAppend` are the two steps of that argument, and need no recursion because only the last
mutation of a slot counts. `AncestorAppend` says that a longer version leads through the same
graphs and then to its own, so caps below the base's are below all of them. A run keeps to one graph because it keeps to one version. The
envelope alone would not give `CapsNeverRise`: it compares with the base of one search, and
searches start from what the directory holds, which is a mix of writes until a verification has
refused it. `WinnerIsBest` is kept because a cached reward is never replaced and ties lose. The
earlier bundle a behaviour may start from is assumed to descend too.

Only model-checked: liveness (`CallReturns`, `CallsAnswered`, `LeaseReleased`,
`EveryCallAnswered`, `CallsReturn`), because TLAPS reasons neither about fairness with
`ENABLED` nor about well-founded measures in temporal steps, and the six violations, each a
counterexample of TLC's. The pure functions of `PatchPolicy`, `ContextSelection`,
`GraphControl` and `GraphFile` are checked over bounded inputs: most are folds or recursive, and
what a recursive definition computes for every input needs an induction theorem over an
operator, which the installed provers cannot instantiate.

## Not modelled

- *Restate integration*: `restate_service.py` runs the loop of `runtime.py` with the same
  `apply_node_result`, and journals each node. What it adds is the external server's promise
  that a journalled result is replayed; a model would assume what it shows.
- *Model providers*: HTTP calls with retries and a mock, without state of their own.
- *In-place mode* of the workspace, data patches as nested dictionaries, snapshots in events.
- *A torn `git apply`*: it is external and atomic here, so a worktree with half a patch, which
  neither of git's checks recognises, does not occur.
- *Calls lost with a killed step*: they are paid and in no counter the code keeps, so no
  property of the budgets can speak of them.
- *Two hidden stores on one artifact root*, whose temporary names can collide: the model has
  one store, and a write is one step.
- *Training, evaluation, reporting, the contract oracle*: batch computations and text analysis
  without interacting state. Tensor arithmetic, argument parsing, printing, generated tables
  and code outside the package (examples, scripts) are left aside.

What could be added: the in-place mode, the summaries and exports of traces, and theorems about
the pure functions that are not recursive (the stop action and the edge of the controllers).
