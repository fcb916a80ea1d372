------------------------------- MODULE RunLease -------------------------------
(***************************************************************************)
(* The processes around one run row: CLI calls of GraphRuntime.run, which  *)
(* hold the per-run lease (SQLiteRunStore.run_lock), and trace collectors, *)
(* which read the row before such a call and, when it raises, terminalize  *)
(* the row outside the lease.  The row, its event log and the transactions *)
(* of SQLiteRunStore are modelled; what a step computes is in GraphRuntime.*)
(***************************************************************************)
EXTENDS Naturals, Sequences, FiniteSets

CONSTANTS Runners, Collectors, Nobody,
          MaxSteps,      \* bound on the steps of the run
          MaxFailures,   \* bound on operator and provider exceptions
          MaxCrashes,    \* bound on killed processes
          MaxReopens,    \* bound on collector retries
          Overlap        \* collectors may attend to a run another process executes

Processes == Runners \cup Collectors

ASSUME LeaseAssumption ==
  /\ Runners \cap Collectors = {} /\ Nobody \notin Processes
  /\ MaxSteps \in Nat \ {0} /\ MaxFailures \in Nat /\ MaxCrashes \in Nat
  /\ MaxReopens \in Nat /\ Overlap \in BOOLEAN

VARIABLES
  row,        \* the runs table's row
  events,     \* the types of its events, in seq order
  lease,      \* holder of run_lock
  pc,         \* where each process is
  mem,        \* the RunState each process holds
  failures, crashes, reopens

vars == <<row, events, lease, pc, mem, failures, crashes, reopens>>
store == <<row, events>>
bounds == <<failures, crashes, reopens>>

Rows == [status : {"absent", "running", "completed", "failed"}, steps : 0..MaxSteps,
         error : {"none", "abort", "budget", "collector"}]

EventTypes == {"run_started", "node_completed", "run_completed", "run_failed",
               "budget_exceeded", "collector_retry"}

Absent == [status |-> "absent", steps |-> 0, error |-> "none"]

Init ==
  /\ row = Absent
  /\ events = <<>>
  /\ lease = Nobody
  /\ pc = [p \in Processes |-> "idle"]
  /\ mem = [p \in Processes |-> Absent]
  /\ failures = 0 /\ crashes = 0 /\ reopens = 0

Goto(p, l) == pc' = [pc EXCEPT ![p] = l]
Hold(p, state) == mem' = [mem EXCEPT ![p] = state]

\* A mutant: the event is lost.
SaveSilently(state, event) == row' = state /\ UNCHANGED events

\* One transaction: the state replaces the row whatever it holds, the event gets the next seq.
Save(state, event) == row' = state /\ events' = Append(events, event)

Release(p) == lease' = IF lease = p THEN Nobody ELSE lease

\* A mutant: the finally clause of run_lock is missing.
RaiseHolding(p) ==
  /\ Goto(p, IF p \in Collectors THEN "handling" ELSE "idle")
  /\ UNCHANGED lease

\* run() raises: the lease goes, the collector's except clause runs.
Raise(p) ==
  /\ Goto(p, IF p \in Collectors THEN "handling" ELSE "idle")
  /\ Release(p)

Return(p) == Goto(p, "idle") /\ Release(p)

Quiet(others) == \A q \in others : pc[q] = "idle"

-----------------------------------------------------------------------------
(* GraphRuntime.run.                                                       *)

\* The run and resume commands.
Start(p) ==
  /\ p \in Runners /\ pc[p] = "idle" /\ (Overlap \/ Quiet(Collectors))
  /\ Goto(p, "asking")
  /\ UNCHANGED <<store, lease, mem, bounds>>

\* A mutant: the file lock is not taken.
FreeForAll == TRUE

\* run_lock is non-blocking.
LeaseFree == lease = Nobody

\* Take the lease, then load the row or create it.
Enter(p) ==
  /\ pc[p] = "asking" /\ LeaseFree
  /\ IF row.status = "absent"
     THEN LET new == [Absent EXCEPT !.status = "running"]
          IN  /\ Save(new, "run_started") /\ Hold(p, new)
              /\ Goto(p, "looping") /\ lease' = p
     ELSE /\ IF row.status = "running"
             THEN Goto(p, "looping") /\ lease' = p
             ELSE Goto(p, "idle") /\ UNCHANGED lease
          /\ Hold(p, row) /\ UNCHANGED store
  /\ UNCHANGED bounds

\* RunAlreadyActive.
Busy(p) ==
  /\ pc[p] = "asking" /\ ~LeaseFree
  /\ Raise(p)
  /\ UNCHANGED <<store, mem, bounds>>

\* stop_after_steps.
Pause(p) ==
  /\ pc[p] = "looping"
  /\ Return(p)
  /\ UNCHANGED <<store, mem, bounds>>

BudgetStop(p) ==
  /\ pc[p] = "looping"
  /\ LET failed == [mem[p] EXCEPT !.status = "failed", !.error = "budget"]
     IN  Hold(p, failed) /\ Save(failed, "budget_exceeded")
  /\ Raise(p)
  /\ UNCHANGED bounds

\* The operator of the current node is awaited.
Work(p) ==
  /\ pc[p] = "looping" /\ mem[p].steps < MaxSteps
  /\ Goto(p, "working")
  /\ UNCHANGED <<store, lease, mem, bounds>>

OperatorFails(p) ==
  /\ pc[p] = "working" /\ failures < MaxFailures
  /\ failures' = failures + 1
  /\ Raise(p)
  /\ UNCHANGED <<store, mem, crashes, reopens>>

\* A mutant: the event is written and the row is not.
StepUnsaved(state) == row' = row /\ events' = Append(events, "node_completed")

\* commit_step's transaction.
SaveStep(state) == Save(state, "node_completed")

\* commit_step: the next checkpoint, which may be the one of a final node.
CommitStep(p) ==
  /\ pc[p] = "working"
  /\ \E end \in {"none", "finish", "abort"} :
       LET next == [mem[p] EXCEPT !.steps = @ + 1,
                      !.status = IF end = "none" THEN "running"
                                 ELSE IF end = "finish" THEN "completed" ELSE "failed",
                      !.error = IF end = "abort" THEN "abort" ELSE "none"]
       IN  /\ Hold(p, next) /\ SaveStep(next)
           /\ Goto(p, IF end = "none" THEN "looping" ELSE "ending")
  /\ UNCHANGED <<lease, bounds>>

\* A mutant: a run that ended is returned without save_terminal_event.
EndUnlogged(p) ==
  /\ pc[p] = "ending"
  /\ Return(p)
  /\ UNCHANGED <<store, mem, bounds>>

\* save_terminal_event, a second transaction.
TerminalEvent(p) ==
  /\ pc[p] = "ending"
  /\ Save(mem[p], IF mem[p].status = "completed" THEN "run_completed" ELSE "run_failed")
  /\ Return(p)
  /\ UNCHANGED <<mem, bounds>>

-----------------------------------------------------------------------------
(* collect_repository_traces, one task.                                    *)

CollectorError(state) == state.status = "failed" /\ state.error = "collector"

\* Read the row without the lease.  The flags resume_existing and retry_collector_errors
\* decide between calling run(), reopening, reporting the row and raising ValueError.
Attend(p) ==
  /\ p \in Collectors /\ pc[p] = "idle" /\ (Overlap \/ Quiet(Processes))
  /\ \E resume, retry \in BOOLEAN :
       Goto(p, CASE row.status = "absent" -> "asking"
                 [] row.status = "running" -> (IF resume THEN "asking" ELSE "handling")
                 [] CollectorError(row) /\ resume /\ retry -> "reopening"
                 [] OTHER -> "idle")
  /\ Hold(p, row)
  /\ UNCHANGED <<store, lease, bounds>>

\* reopen_collector_failed_run's check, inside its transaction.
Reopens(state) == CollectorError(state)

Reopen(p) ==
  /\ pc[p] = "reopening" /\ reopens < MaxReopens
  /\ IF Reopens(row)
     THEN /\ Save([row EXCEPT !.status = "running", !.error = "none"], "collector_retry")
          /\ reopens' = reopens + 1
          /\ Goto(p, "asking")
     ELSE Goto(p, "handling") /\ UNCHANGED <<store, reopens>>
  /\ UNCHANGED <<lease, mem, failures, crashes>>

\* A mutant: the handler terminalizes whatever it read.
FailsAny(state) == state.status # "absent"

\* The handler terminalizes only a run it read as running.
Fails(state) == state.status = "running"

\* The except clause reads the row again, without the lease.
HandlerRead(p) ==
  /\ pc[p] = "handling"
  /\ Hold(p, row)
  /\ Goto(p, IF Fails(row) THEN "failing" ELSE "idle")
  /\ UNCHANGED <<store, lease, bounds>>

\* A mutant: the row gets the status of the collector's own summary.
HandlerWriteSummary(p) ==
  /\ pc[p] = "failing"
  /\ Save([mem[p] EXCEPT !.status = "collector_error", !.error = "collector"], "run_failed")
  /\ Goto(p, "idle")
  /\ UNCHANGED <<lease, mem, bounds>>

\* And writes what it read back as failed.
HandlerWrite(p) ==
  /\ pc[p] = "failing"
  /\ Save([mem[p] EXCEPT !.status = "failed", !.error = "collector"], "run_failed")
  /\ Goto(p, "idle")
  /\ UNCHANGED <<lease, mem, bounds>>

\* The process is killed; flock goes with it.
Crash(p) ==
  /\ pc[p] # "idle" /\ crashes < MaxCrashes
  /\ crashes' = crashes + 1
  /\ Return(p)
  /\ UNCHANGED <<store, mem, failures, reopens>>

Step(p) == \/ Enter(p) \/ Busy(p) \/ BudgetStop(p) \/ Work(p) \/ OperatorFails(p)
           \/ CommitStep(p) \/ TerminalEvent(p) \/ Reopen(p) \/ HandlerRead(p)
           \/ HandlerWrite(p)

Next == \E p \in Processes : Start(p) \/ Attend(p) \/ Pause(p) \/ Crash(p) \/ Step(p)

Spec == Init /\ [][Next]_vars

\* A process that is not killed goes on: nothing in it blocks.
FairSpec == Spec /\ \A p \in Processes : WF_vars(Step(p))

-----------------------------------------------------------------------------
(* Properties.                                                             *)

Executing(p) == pc[p] \in {"looping", "working", "ending"}

TypeOK ==
  /\ row \in Rows
  /\ events \in Seq(EventTypes)
  /\ lease \in Processes \cup {Nobody}
  /\ pc \in [Processes -> {"idle", "asking", "looping", "working", "ending",
                           "reopening", "handling", "failing"}]
  /\ mem \in [Processes -> Rows]
  /\ failures \in 0..MaxFailures /\ crashes \in 0..MaxCrashes /\ reopens \in 0..MaxReopens

\* ARCHITECTURE.md on the lease: no two processes execute one run, whoever is killed when.
SingleExecutor ==
  \A p \in Processes : Executing(p) => lease = p

\* An executing process never works on a superseded checkpoint: what it will write back whole
\* is based on the row as it is (the row is loaded after the lease is taken).
MemoryIsFresh ==
  \A p \in Processes : Executing(p) => mem[p] = row

\* A checkpoint is never lost, and a run that completed, aborted or spent its budget keeps
\* that end; only a failure recorded by a collector is reopened, at its checkpoint.
CheckpointsKept ==
  [][/\ row'.steps >= row.steps
     /\ (row.status = "completed" \/ row.error \in {"abort", "budget"}) => row' = row]_vars

\* Where the log records a checkpointed step.
StepsLogged(log) == {i \in DOMAIN log : log[i] = "node_completed"}

\* The log has one node_completed event per checkpointed step (commit_step is one transaction).
LogMatchesRow == row.steps = Cardinality(StepsLogged(events))

\* The event a run that stands in this state ended with.
EndEvent(state) ==
  IF state.status = "completed" THEN "run_completed"
  ELSE IF state.error = "budget" THEN "budget_exceeded" ELSE "run_failed"

Ended(state) == state.status \in {"completed", "failed"}

EndEvents == {"run_completed", "run_failed", "budget_exceeded"}
LatestEvent == events[Len(events)]

\* The log ends with an end only while the row has that very end, whoever is killed when; and
\* an ended run nobody attends to has its end logged last, or lost that one event to a kill
\* between commit_step and save_terminal_event, with the last step logged still.
EndIsLogged ==
  row.status # "absent" =>
    /\ LatestEvent \in EndEvents => Ended(row) /\ LatestEvent = EndEvent(row)
    /\ Ended(row) /\ Quiet(Processes) =>
         \/ LatestEvent = EndEvent(row)
         \/ LatestEvent = "node_completed" /\ crashes > 0

\* The lease always comes free again: no exception path leaves the run blocked for good.
LeaseReleased == lease # Nobody ~> lease = Nobody
=============================================================================
