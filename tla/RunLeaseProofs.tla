---------------------------- MODULE RunLeaseProofs ----------------------------
(***************************************************************************)
(* Theorems about RunLease for any processes and bounds: the lease keeps   *)
(* one executor whatever the collectors do, and when collectors take turns *)
(* with the other processes no checkpoint is ever lost.                    *)
(***************************************************************************)
EXTENDS RunLease, FiniteSetTheorems, TLAPS

Locations == {"idle", "asking", "looping", "working", "ending", "reopening", "handling",
              "failing"}

\* The types SingleExecutor rests on, and what Work leaves for CommitStep.
LeaseInduction ==
  /\ TypeOK /\ SingleExecutor
  /\ \A p \in Processes : pc[p] = "working" => mem[p].steps < MaxSteps

\* Leaving the lease, by return or exception, keeps the induction.
LEMMA LeavesLease ==
  ASSUME LeaseInduction, NEW p \in Processes, Return(p) \/ Raise(p)
  PROVE  /\ pc' \in [Processes -> Locations] /\ lease' \in Processes \cup {Nobody}
         /\ \A q \in Processes : Executing(q)' => lease' = q /\ Executing(q) /\ q # p
         /\ \A q \in Processes \ {p} : pc'[q] = pc[q]
         /\ pc'[p] \in {"idle", "handling"}
<1>1. /\ pc' \in [Processes -> Locations] /\ \A q \in Processes \ {p} : pc'[q] = pc[q]
      /\ pc'[p] \in {"idle", "handling"}
  BY DEF Return, Raise, Goto, LeaseInduction, TypeOK, Locations
<1>2. lease' = IF lease = p THEN Nobody ELSE lease
  BY DEF Return, Raise, Release
<1>3. lease' \in Processes \cup {Nobody}
  BY <1>2 DEF LeaseInduction, TypeOK
<1>4. ASSUME NEW q \in Processes, Executing(q)'
      PROVE  lease' = q /\ Executing(q) /\ q # p
  <2>1. q # p
    BY <1>1, <1>4 DEF Executing
  <2>2. Executing(q)
    BY <1>1, <1>4, <2>1 DEF Executing
  <2>3. lease = q
    BY <2>2 DEF LeaseInduction, SingleExecutor
  <2> QED BY <1>2, <2>1, <2>2, <2>3
<1> QED BY <1>1, <1>3, <1>4

\* Such a step may write a typed row and hold a typed state.
LEMMA LeavesTyped ==
  ASSUME LeaseInduction, NEW p \in Processes, Return(p) \/ Raise(p),
         row' \in Rows, events' \in Seq(EventTypes), mem' \in [Processes -> Rows],
         \A q \in Processes \ {p} : mem'[q] = mem[q],
         failures' \in 0..MaxFailures, crashes' \in 0..MaxCrashes, reopens' \in 0..MaxReopens
  PROVE  LeaseInduction'
<1>1. TypeOK'
  BY LeavesLease DEF TypeOK, Locations
<1>2. SingleExecutor'
  BY LeavesLease DEF SingleExecutor
<1>3. ASSUME NEW q \in Processes, pc'[q] = "working" PROVE mem'[q].steps < MaxSteps
  <2>1. q # p /\ pc[q] = "working"
    BY <1>3, LeavesLease
  <2> QED BY <2>1 DEF LeaseInduction
<1> QED BY <1>1, <1>2, <1>3 DEF LeaseInduction

\* A step that moves p without taking or leaving the lease.
LEMMA MovesTyped ==
  ASSUME LeaseInduction, NEW p \in Processes, NEW l \in Locations, Goto(p, l),
         UNCHANGED lease, l \in {"looping", "working", "ending"} => lease = p,
         row' \in Rows, events' \in Seq(EventTypes), mem' \in [Processes -> Rows],
         \A q \in Processes \ {p} : mem'[q] = mem[q],
         l = "working" => mem'[p].steps < MaxSteps,
         failures' \in 0..MaxFailures, crashes' \in 0..MaxCrashes, reopens' \in 0..MaxReopens
  PROVE  LeaseInduction'
<1>1. /\ pc' \in [Processes -> Locations] /\ \A q \in Processes \ {p} : pc'[q] = pc[q]
      /\ pc'[p] = l
  BY DEF Goto, LeaseInduction, TypeOK, Locations
<1>2. TypeOK'
  BY <1>1 DEF LeaseInduction, TypeOK, Locations
<1>3. SingleExecutor'
  BY <1>1 DEF LeaseInduction, SingleExecutor, Executing
<1>4. ASSUME NEW q \in Processes, pc'[q] = "working" PROVE mem'[q].steps < MaxSteps
  BY <1>1, <1>4 DEF LeaseInduction
<1> QED BY <1>2, <1>3, <1>4 DEF LeaseInduction

LEMMA EnterTyped ==
  ASSUME LeaseInduction, NEW p \in Processes, Enter(p)
  PROVE  LeaseInduction'
<1> USE DEF LeaseInduction
<1>1. lease = Nobody /\ pc[p] = "asking" /\ UNCHANGED bounds
  BY DEF Enter, LeaseFree
<1>2. \A q \in Processes : ~Executing(q)
  BY <1>1, LeaseAssumption DEF SingleExecutor
<1>3. /\ row' \in Rows /\ events' \in Seq(EventTypes) /\ mem' \in [Processes -> Rows]
      /\ \A q \in Processes \ {p} : mem'[q] = mem[q]
  <2>1. [Absent EXCEPT !.status = "running"] \in Rows
    BY LeaseAssumption DEF Absent, Rows
  <2>2. Append(events, "run_started") \in Seq(EventTypes)
    BY DEF TypeOK, EventTypes
  <2>3. CASE row.status = "absent"
    BY <2>1, <2>2, <2>3 DEF Enter, Save, Hold, TypeOK
  <2>4. CASE row.status # "absent"
    BY <2>4 DEF Enter, store, Hold, TypeOK
  <2> QED BY <2>3, <2>4
<1>4. \/ lease' = p /\ pc' = [pc EXCEPT ![p] = "looping"]
      \/ lease' = lease /\ pc' = [pc EXCEPT ![p] = "idle"]
  <2>1. CASE row.status = "absent"
    BY <2>1 DEF Enter, Goto, Save, Hold
  <2>2. CASE row.status # "absent"
    BY <2>2 DEF Enter, Goto, Hold, store
  <2> QED BY <2>1, <2>2
<1>5. TypeOK'
  BY <1>1, <1>3, <1>4 DEF TypeOK, bounds
<1>6. SingleExecutor'
  BY <1>2, <1>4 DEF SingleExecutor, Executing, TypeOK
<1>7. ASSUME NEW q \in Processes, pc'[q] = "working" PROVE mem'[q].steps < MaxSteps
  BY <1>2, <1>4, <1>7 DEF TypeOK, Executing
<1> QED BY <1>5, <1>6, <1>7

LEMMA RunTyped ==
  ASSUME LeaseInduction, NEW p \in Processes,
         \/ Start(p) \/ Attend(p) \/ Busy(p) \/ Pause(p) \/ Crash(p) \/ OperatorFails(p)
         \/ Work(p) \/ HandlerRead(p)
  PROVE  LeaseInduction'
<1> USE DEF bounds, store
<1>1. /\ TypeOK /\ \A q \in Processes : Executing(q) => lease = q
  BY DEF LeaseInduction, SingleExecutor
<1>2. CASE Busy(p) \/ Pause(p) \/ Crash(p) \/ OperatorFails(p)
  <2>1. Return(p) \/ Raise(p)
    BY <1>2 DEF Busy, Pause, Crash, OperatorFails
  <2>2. UNCHANGED <<store, mem, reopens>>
    BY <1>2 DEF Busy, Pause, Crash, OperatorFails
  <2>3. failures' \in 0..MaxFailures /\ crashes' \in 0..MaxCrashes
    BY <1>1, <1>2, LeaseAssumption DEF Busy, Pause, Crash, OperatorFails, TypeOK
  <2> QED BY <1>1, <2>1, <2>2, <2>3, LeavesTyped DEF TypeOK
<1>3. CASE Start(p)
  BY <1>1, <1>3, MovesTyped DEF Start, TypeOK, Locations
<1>4. CASE Work(p)
  <2>1. lease = p /\ mem[p].steps < MaxSteps
    BY <1>1, <1>4 DEF Work, Executing
  <2> QED BY <1>1, <1>4, <2>1, MovesTyped DEF Work, TypeOK, Locations
<1>5. CASE Attend(p)
  <2>1. PICK l \in {"asking", "handling", "reopening", "idle"} : Goto(p, l)
    BY <1>5 DEF Attend
  <2>2. /\ mem' \in [Processes -> Rows] /\ \A q \in Processes \ {p} : mem'[q] = mem[q]
    BY <1>1, <1>5 DEF Attend, Hold, TypeOK
  <2>3. UNCHANGED <<store, lease, bounds>>
    BY <1>5 DEF Attend
  <2> QED BY <1>1, <2>1, <2>2, <2>3, MovesTyped DEF TypeOK, Locations
<1>6. CASE HandlerRead(p)
  <2>1. PICK l \in {"failing", "idle"} : Goto(p, l)
    BY <1>6 DEF HandlerRead
  <2>2. /\ mem' \in [Processes -> Rows] /\ \A q \in Processes \ {p} : mem'[q] = mem[q]
    BY <1>1, <1>6 DEF HandlerRead, Hold, TypeOK
  <2>3. UNCHANGED <<store, lease, bounds>>
    BY <1>6 DEF HandlerRead
  <2> QED BY <1>1, <2>1, <2>2, <2>3, MovesTyped DEF TypeOK, Locations
<1> QED BY <1>2, <1>3, <1>4, <1>5, <1>6

\* Steps that write the row.
LEMMA WriteTyped ==
  ASSUME LeaseInduction, NEW p \in Processes,
         BudgetStop(p) \/ CommitStep(p) \/ TerminalEvent(p) \/ Reopen(p) \/ HandlerWrite(p)
  PROVE  LeaseInduction'
<1> USE DEF bounds
<1>1. /\ TypeOK /\ \A q \in Processes : Executing(q) => lease = q
  BY DEF LeaseInduction, SingleExecutor
<1>2. mem[p] \in Rows /\ mem \in [Processes -> Rows]
  BY <1>1 DEF TypeOK
<1>3. \A t \in EventTypes : Append(events, t) \in Seq(EventTypes)
  BY <1>1 DEF TypeOK
<1>4. CASE BudgetStop(p)
  <2> DEFINE failed == [mem[p] EXCEPT !.status = "failed", !.error = "budget"]
  <2>1. failed \in Rows
    BY <1>2 DEF Rows
  <2>2. Hold(p, failed) /\ Save(failed, "budget_exceeded") /\ Raise(p) /\ UNCHANGED bounds
    BY <1>4 DEF BudgetStop
  <2> HIDE DEF failed
  <2>3. row' \in Rows /\ events' \in Seq(EventTypes) /\ mem' \in [Processes -> Rows]
    BY <1>2, <1>3, <2>1, <2>2 DEF Hold, Save, EventTypes
  <2>4. \A q \in Processes \ {p} : mem'[q] = mem[q]
    BY <1>2, <2>2 DEF Hold
  <2> QED BY <1>1, <2>2, <2>3, <2>4, LeavesTyped DEF TypeOK
<1>5. CASE CommitStep(p)
  <2>1. pc[p] = "working" /\ UNCHANGED <<lease, bounds>>
    BY <1>5 DEF CommitStep
  <2>2. lease = p
    BY <1>1, <2>1 DEF Executing
  <2>3. mem[p].steps + 1 \in 0..MaxSteps
    BY <1>2, <2>1, LeaseAssumption DEF LeaseInduction, Rows
  <2>4. PICK end \in {"none", "finish", "abort"} :
          LET next == [mem[p] EXCEPT !.steps = @ + 1,
                         !.status = IF end = "none" THEN "running"
                                    ELSE IF end = "finish" THEN "completed" ELSE "failed",
                         !.error = IF end = "abort" THEN "abort" ELSE "none"]
          IN  /\ Hold(p, next) /\ SaveStep(next)
              /\ Goto(p, IF end = "none" THEN "looping" ELSE "ending")
    BY <1>5 DEF CommitStep
  <2> DEFINE next == [mem[p] EXCEPT !.steps = mem[p].steps + 1,
                        !.status = IF end = "none" THEN "running"
                                   ELSE IF end = "finish" THEN "completed" ELSE "failed",
                        !.error = IF end = "abort" THEN "abort" ELSE "none"]
             l == IF end = "none" THEN "looping" ELSE "ending"
  <2>5. next \in Rows
    BY <1>2, <2>3 DEF Rows
  <2>6. Hold(p, next) /\ Save(next, "node_completed") /\ Goto(p, l)
    BY <2>4 DEF SaveStep
  <2>7. l \in {"looping", "ending"}
    OBVIOUS
  <2> HIDE DEF next, l
  <2>8. row' \in Rows /\ events' \in Seq(EventTypes) /\ mem' \in [Processes -> Rows]
    BY <1>2, <1>3, <2>5, <2>6 DEF Hold, Save, EventTypes
  <2>9. \A q \in Processes \ {p} : mem'[q] = mem[q]
    BY <1>2, <2>6 DEF Hold
  <2> QED BY <1>1, <2>1, <2>2, <2>6, <2>7, <2>8, <2>9, MovesTyped DEF TypeOK, Locations
<1>6. CASE TerminalEvent(p)
  <2>1. Return(p) /\ UNCHANGED <<mem, bounds>> /\ row' = mem[p] /\ events' \in Seq(EventTypes)
    BY <1>3, <1>6 DEF TerminalEvent, Save, EventTypes
  <2> QED BY <1>1, <1>2, <2>1, LeavesTyped DEF TypeOK
<1>7. CASE Reopen(p)
  <2>1. [row EXCEPT !.status = "running", !.error = "none"] \in Rows
    BY <1>1 DEF TypeOK, Rows
  <2>2. row' \in Rows /\ events' \in Seq(EventTypes) /\ reopens' \in 0..MaxReopens
    <3>1. CASE Reopens(row)
      <4>1. /\ row' = [row EXCEPT !.status = "running", !.error = "none"]
            /\ events' = Append(events, "collector_retry") /\ reopens' = reopens + 1
            /\ reopens < MaxReopens
        BY <1>7, <3>1 DEF Reopen, Save
      <4>2. reopens' \in 0..MaxReopens
        BY <1>1, <4>1, LeaseAssumption DEF TypeOK
      <4> QED BY <1>3, <2>1, <4>1, <4>2 DEF EventTypes
    <3>2. CASE ~Reopens(row)
      BY <1>1, <1>7, <3>2 DEF Reopen, store, TypeOK
    <3> QED BY <3>1, <3>2
  <2>3. PICK l \in {"asking", "handling"} : Goto(p, l)
    BY <1>7 DEF Reopen
  <2>4. UNCHANGED <<lease, mem, failures, crashes>>
    BY <1>7 DEF Reopen
  <2> QED BY <1>1, <2>2, <2>3, <2>4, MovesTyped DEF TypeOK, Locations
<1>8. CASE HandlerWrite(p)
  <2>1. [mem[p] EXCEPT !.status = "failed", !.error = "collector"] \in Rows
    BY <1>2 DEF Rows
  <2>2. row' \in Rows /\ events' \in Seq(EventTypes)
    BY <1>3, <1>8, <2>1 DEF HandlerWrite, Save, EventTypes
  <2> QED BY <1>1, <1>8, <2>2, MovesTyped DEF HandlerWrite, TypeOK, Locations
<1> QED BY <1>4, <1>5, <1>6, <1>7, <1>8

LEMMA InitLease == Init => LeaseInduction
BY LeaseAssumption DEF Init, LeaseInduction, TypeOK, SingleExecutor, Executing, Absent, Rows

LEMMA NextLease == LeaseInduction /\ [Next]_vars => LeaseInduction'
<1> SUFFICES ASSUME LeaseInduction, [Next]_vars PROVE LeaseInduction'
  OBVIOUS
<1>1. CASE UNCHANGED vars
  BY <1>1 DEF vars, LeaseInduction, TypeOK, SingleExecutor, Executing
<1>2. CASE Next
  <2>1. PICK p \in Processes : Start(p) \/ Attend(p) \/ Pause(p) \/ Crash(p) \/ Step(p)
    BY <1>2 DEF Next
  <2> QED BY <2>1, EnterTyped, RunTyped, WriteTyped DEF Step
<1> QED BY <1>1, <1>2

THEOREM LeaseInductionHolds == Spec => []LeaseInduction
<1> QED BY InitLease, NextLease, PTL DEF Spec

\* Every reachable state is typed: no write leaves the row or a process's copy malformed.
THEOREM LeaseTypeCorrect == Spec => []TypeOK
<1>1. LeaseInduction => TypeOK
  BY DEF LeaseInduction
<1> QED BY <1>1, LeaseInductionHolds, PTL

\* No two processes execute one run, whoever is killed when and however many collectors
\* attend to it, for any number of processes (run_lock, flock released with its holder).
THEOREM OneExecutor == Spec => []SingleExecutor
<1>1. LeaseInduction => SingleExecutor
  BY DEF LeaseInduction
<1> QED BY <1>1, LeaseInductionHolds, PTL

-----------------------------------------------------------------------------
(* Collectors that take turns.                                             *)

\* While a collector attends to the run nobody else does.
Turns ==
  \A c \in Collectors : pc[c] # "idle" => \A q \in Processes \ {c} : pc[q] = "idle"

\* The row is what its writers take it for.
FreshInduction ==
  /\ LeaseInduction /\ MemoryIsFresh /\ Turns
  /\ \A p \in Processes : pc[p] \in {"looping", "working"} => mem[p].status = "running"
  /\ \A p \in Processes : pc[p] = "failing" => mem[p] = row /\ row.status = "running"
  /\ \A p \in Processes : pc[p] \in {"reopening", "handling", "failing"} => p \in Collectors
  /\ row.status = "absent" => row = Absent
  /\ row.status = "running" => row.error = "none"

\* The bound of CheckpointsKept on one step.
Kept ==
  /\ row'.steps >= row.steps
  /\ (row.status = "completed" \/ row.error \in {"abort", "budget"}) => row' = row

LEMMA KeptWhenUnchanged == ASSUME TypeOK, UNCHANGED row PROVE Kept
BY LeaseAssumption DEF Kept, TypeOK, Rows

\* A step that moves p between locations, writing neither the row nor another's state.
LEMMA QuietStep ==
  ASSUME FreshInduction, LeaseInduction', NEW p \in Processes, NEW l \in Locations,
         Goto(p, l), UNCHANGED row,
         \A q \in Processes \ {p} : mem'[q] = mem[q],
         pc[p] = "idle" =>
           IF p \in Collectors THEN Quiet(Processes) ELSE Quiet(Collectors),
         l \in {"looping", "working"} => mem'[p] = row /\ row.status = "running",
         l = "ending" => mem'[p] = row,
         l = "failing" => mem'[p] = row /\ row.status = "running",
         l \in {"reopening", "handling", "failing"} => p \in Collectors
  PROVE  FreshInduction' /\ Kept
<1>1. /\ \A q \in Processes \ {p} : pc'[q] = pc[q]
      /\ pc'[p] = l
  BY DEF Goto, FreshInduction, LeaseInduction, TypeOK
<1>2. Kept
  BY KeptWhenUnchanged DEF FreshInduction, LeaseInduction
<1>3. MemoryIsFresh'
  BY <1>1 DEF FreshInduction, MemoryIsFresh, Executing
<1>4. Turns'
  <2>1. ASSUME NEW c \in Collectors, pc'[c] # "idle", NEW q \in Processes \ {c}
        PROVE  pc'[q] = "idle"
    <3>1. CASE pc[p] = "idle"
      BY <1>1, <2>1, <3>1 DEF Quiet, Processes
    <3>2. CASE pc[p] # "idle"
      BY <1>1, <2>1, <3>2 DEF FreshInduction, Turns, Processes
    <3> QED BY <3>1, <3>2
  <2> QED BY <2>1 DEF Turns
<1>5. /\ \A q \in Processes : pc'[q] \in {"looping", "working"} => mem'[q].status = "running"
      /\ \A q \in Processes : pc'[q] = "failing" => mem'[q] = row' /\ row'.status = "running"
      /\ \A q \in Processes :
           pc'[q] \in {"reopening", "handling", "failing"} => q \in Collectors
  BY <1>1 DEF FreshInduction
<1> QED BY <1>2, <1>3, <1>4, <1>5 DEF FreshInduction

\* The writers hold a fresh copy, or everybody else is idle: their write keeps what it replaces.
LEMMA WritingStep ==
  ASSUME FreshInduction, LeaseInduction', NEW p \in Processes, NEW l \in Locations,
         Goto(p, l), pc[p] # "idle",
         \A q \in Processes \ {p} : mem'[q] = mem[q],
         \A q \in Processes \ {p} : ~Executing(q),
         Kept, row'.status # "absent", row'.status = "running" => row'.error = "none",
         l \in {"looping", "ending"} => mem'[p] = row',
         l = "looping" => row'.status = "running",
         l \in {"idle", "looping", "ending", "handling", "asking"},
         l = "handling" => p \in Collectors,
         p \in Collectors \/ \A q \in Processes : pc[q] # "failing"
  PROVE  FreshInduction' /\ Kept
<1>1. /\ \A q \in Processes \ {p} : pc'[q] = pc[q]
      /\ pc'[p] = l
  BY DEF Goto, FreshInduction, LeaseInduction, TypeOK
<1>2. MemoryIsFresh'
  BY <1>1 DEF MemoryIsFresh, Executing
<1>3. Turns'
  BY <1>1 DEF FreshInduction, Turns, Processes
<1>4. \A q \in Processes : pc'[q] # "failing"
  BY <1>1 DEF FreshInduction, Turns, Processes
<1>5. /\ \A q \in Processes : pc'[q] \in {"looping", "working"} => mem'[q].status = "running"
      /\ \A q \in Processes :
           pc'[q] \in {"reopening", "handling", "failing"} => q \in Collectors
  BY <1>1 DEF FreshInduction, Executing
<1> QED BY <1>2, <1>3, <1>4, <1>5 DEF FreshInduction

LEMMA NextFresh ==
  ASSUME ~Overlap, FreshInduction, LeaseInduction', NEW p \in Processes,
         Start(p) \/ Attend(p) \/ Pause(p) \/ Crash(p) \/ Step(p)
  PROVE  FreshInduction' /\ Kept
<1>1. /\ TypeOK /\ SingleExecutor /\ MemoryIsFresh /\ Turns /\ row \in Rows
      /\ mem \in [Processes -> Rows]
      /\ \A q \in Processes : pc[q] \in {"looping", "working"} => mem[q].status = "running"
      /\ pc[p] = "failing" => mem[p] = row /\ row.status = "running"
      /\ pc[p] \in {"reopening", "handling", "failing"} => p \in Collectors
      /\ row.status = "absent" => row = Absent
      /\ row.status = "running" => row.error = "none"
  BY DEF FreshInduction, LeaseInduction, TypeOK
<1>2. Executing(p) => mem[p] = row /\ \A q \in Processes \ {p} : ~Executing(q)
  BY <1>1, LeaseAssumption DEF SingleExecutor, MemoryIsFresh
<1>3. pc[p] # "idle" => p \in Collectors \/ \A q \in Processes : pc[q] # "failing"
  BY DEF FreshInduction, Turns
<1>4. p \in Collectors /\ pc[p] # "idle" => \A q \in Processes \ {p} : ~Executing(q)
  BY <1>1 DEF Turns, Executing
<1>5. CASE Start(p)
  <2>1. Goto(p, "asking") /\ UNCHANGED <<row, mem>> /\ p \in Runners /\ Quiet(Collectors)
    BY <1>5 DEF Start, store
  <2> QED BY <2>1, QuietStep, LeaseAssumption DEF Locations
<1>6. CASE Attend(p)
  <2>1. PICK l \in {"asking", "handling", "reopening", "idle"} : Goto(p, l)
    BY <1>6 DEF Attend
  <2>2. UNCHANGED row /\ p \in Collectors /\ Quiet(Processes) /\ Hold(p, row)
    BY <1>6 DEF Attend, store
  <2>3. \A q \in Processes \ {p} : mem'[q] = mem[q]
    BY <1>1, <2>2 DEF Hold
  <2> QED BY <2>1, <2>2, <2>3, QuietStep DEF Locations
<1>7. CASE Pause(p) \/ Crash(p)
  <2>1. pc[p] # "idle" /\ Goto(p, "idle") /\ UNCHANGED <<row, mem>>
    BY <1>7 DEF Pause, Crash, Return, store
  <2> QED BY <2>1, QuietStep DEF Locations
<1>8. CASE Enter(p)
  <2>1. pc[p] = "asking" /\ \A q \in Processes : ~Executing(q)
    BY <1>1, <1>8, LeaseAssumption DEF Enter, LeaseFree, SingleExecutor
  <2>2. CASE row.status = "absent"
    <3> DEFINE new == [Absent EXCEPT !.status = "running"]
    <3>1. row' = new /\ Hold(p, new) /\ Goto(p, "looping")
      BY <1>8, <2>2 DEF Enter, Save
    <3>2. new.status = "running" /\ new.error = "none" /\ new.steps = 0
      BY DEF Absent
    <3>3. row = Absent /\ row.steps = 0 /\ row.error = "none"
      BY <1>1, <2>2 DEF Absent
    <3> HIDE DEF new
    <3>4. mem'[p] = new /\ \A q \in Processes \ {p} : mem'[q] = mem[q]
      BY <1>1, <3>1 DEF Hold
    <3>5. Kept
      BY <2>2, <3>1, <3>2, <3>3 DEF Kept
    <3> QED BY <1>3, <2>1, <3>1, <3>2, <3>4, <3>5, WritingStep DEF Locations
  <2>3. CASE row.status = "running"
    <3>1. UNCHANGED row /\ Hold(p, row) /\ Goto(p, "looping")
      BY <1>8, <2>3 DEF Enter, store
    <3>2. mem'[p] = row /\ \A q \in Processes \ {p} : mem'[q] = mem[q]
      BY <1>1, <3>1 DEF Hold
    <3> QED BY <2>1, <2>3, <3>1, <3>2, QuietStep DEF Locations
  <2>4. CASE row.status \notin {"absent", "running"}
    <3>1. UNCHANGED row /\ Hold(p, row) /\ Goto(p, "idle")
      BY <1>8, <2>4 DEF Enter, store
    <3>2. \A q \in Processes \ {p} : mem'[q] = mem[q]
      BY <1>1, <3>1 DEF Hold
    <3> QED BY <2>1, <3>1, <3>2, QuietStep DEF Locations
  <2> QED BY <2>2, <2>3, <2>4
<1>9. CASE Busy(p) \/ OperatorFails(p)
  <2>1. /\ pc[p] # "idle" /\ UNCHANGED <<row, mem>>
        /\ Goto(p, IF p \in Collectors THEN "handling" ELSE "idle")
    BY <1>9 DEF Busy, OperatorFails, Raise, store
  <2>2. CASE p \in Collectors
    BY <2>1, <2>2, QuietStep DEF Locations
  <2>3. CASE p \notin Collectors
    BY <2>1, <2>3, QuietStep DEF Locations
  <2> QED BY <2>2, <2>3
<1>10. CASE BudgetStop(p)
  <2> DEFINE failed == [mem[p] EXCEPT !.status = "failed", !.error = "budget"]
             l == IF p \in Collectors THEN "handling" ELSE "idle"
  <2>1. pc[p] = "looping" /\ row' = failed /\ Hold(p, failed) /\ Goto(p, l)
    BY <1>10 DEF BudgetStop, Save, Raise
  <2>2. failed.status = "failed" /\ failed.steps = mem[p].steps
    BY <1>1 DEF Rows
  <2>3. l \in {"handling", "idle"} /\ (l = "handling" => p \in Collectors)
    OBVIOUS
  <2> HIDE DEF failed, l
  <2>4. \A q \in Processes \ {p} : mem'[q] = mem[q]
    BY <1>1, <2>1 DEF Hold
  <2>5. mem[p] = row /\ row.status = "running" /\ \A q \in Processes \ {p} : ~Executing(q)
    BY <1>1, <1>2, <2>1 DEF Executing
  <2>6. Kept
    BY <1>1, <2>1, <2>2, <2>5 DEF Kept, Rows
  <2> QED BY <1>3, <2>1, <2>2, <2>3, <2>4, <2>5, <2>6, WritingStep DEF Locations
<1>11. CASE Work(p)
  <2>1. pc[p] = "looping" /\ Goto(p, "working") /\ UNCHANGED <<row, mem>>
    BY <1>11 DEF Work, store
  <2>2. mem'[p] = row /\ row.status = "running"
    BY <1>1, <1>2, <2>1 DEF Executing
  <2> QED BY <2>1, <2>2, QuietStep DEF Locations
<1>12. CASE CommitStep(p)
  <2>1. pc[p] = "working"
    BY <1>12 DEF CommitStep
  <2>2. PICK end \in {"none", "finish", "abort"} :
          LET next == [mem[p] EXCEPT !.steps = @ + 1,
                         !.status = IF end = "none" THEN "running"
                                    ELSE IF end = "finish" THEN "completed" ELSE "failed",
                         !.error = IF end = "abort" THEN "abort" ELSE "none"]
          IN  /\ Hold(p, next) /\ SaveStep(next)
              /\ Goto(p, IF end = "none" THEN "looping" ELSE "ending")
    BY <1>12 DEF CommitStep
  <2> DEFINE next == [mem[p] EXCEPT !.steps = mem[p].steps + 1,
                        !.status = IF end = "none" THEN "running"
                                   ELSE IF end = "finish" THEN "completed" ELSE "failed",
                        !.error = IF end = "abort" THEN "abort" ELSE "none"]
             l == IF end = "none" THEN "looping" ELSE "ending"
  <2>3. Hold(p, next) /\ row' = next /\ Goto(p, l)
    BY <2>2 DEF SaveStep, Save
  <2>4. /\ next.steps = mem[p].steps + 1 /\ next.status # "absent"
        /\ next.status = "running" => next.error = "none"
        /\ l = "looping" => next.status = "running"
        /\ l \in {"looping", "ending"}
    BY <1>1 DEF Rows
  <2> HIDE DEF next, l
  <2>5. mem'[p] = next /\ \A q \in Processes \ {p} : mem'[q] = mem[q]
    BY <1>1, <2>3 DEF Hold
  <2>6. mem[p] = row /\ row.status = "running" /\ \A q \in Processes \ {p} : ~Executing(q)
    BY <1>1, <1>2, <2>1 DEF Executing
  <2>7. row.steps \in Nat
    BY <1>1, LeaseAssumption DEF Rows
  <2>8. Kept
    BY <1>1, <2>3, <2>4, <2>6, <2>7 DEF Kept
  <2> QED BY <1>3, <2>1, <2>3, <2>4, <2>5, <2>6, <2>8, WritingStep DEF Locations
<1>13. CASE TerminalEvent(p)
  <2>1. pc[p] = "ending" /\ row' = mem[p] /\ Goto(p, "idle") /\ UNCHANGED mem
    BY <1>13 DEF TerminalEvent, Save, Return
  <2>2. UNCHANGED row
    BY <1>2, <2>1 DEF Executing
  <2> QED BY <2>1, <2>2, QuietStep DEF Locations
<1>14. CASE Reopen(p)
  <2>1. pc[p] = "reopening" /\ UNCHANGED mem
    BY <1>14 DEF Reopen
  <2>2. CASE Reopens(row)
    <3> DEFINE next == [row EXCEPT !.status = "running", !.error = "none"]
    <3>1. row' = next /\ Goto(p, "asking")
      BY <1>14, <2>2 DEF Reopen, Save
    <3>2. next.status = "running" /\ next.error = "none" /\ next.steps = row.steps
      BY <1>1 DEF Rows
    <3>3. row.status = "failed" /\ row.error = "collector"
      BY <2>2 DEF Reopens, CollectorError
    <3> HIDE DEF next
    <3>4. Kept
      BY <1>1, <3>1, <3>2, <3>3, LeaseAssumption DEF Kept, Rows
    <3> QED BY <1>3, <1>4, <1>1, <2>1, <3>1, <3>2, <3>4, WritingStep DEF Locations
  <2>3. CASE ~Reopens(row)
    <3>1. UNCHANGED row /\ Goto(p, "handling")
      BY <1>14, <2>3 DEF Reopen, store
    <3> QED BY <1>1, <2>1, <3>1, QuietStep DEF Locations
  <2> QED BY <2>2, <2>3
<1>15. CASE HandlerRead(p)
  <2>1. pc[p] = "handling" /\ UNCHANGED row /\ Hold(p, row)
    BY <1>15 DEF HandlerRead, store
  <2>2. mem'[p] = row /\ \A q \in Processes \ {p} : mem'[q] = mem[q]
    BY <1>1, <2>1 DEF Hold
  <2>3. CASE Fails(row)
    <3>1. Goto(p, "failing") /\ row.status = "running"
      BY <1>15, <2>3 DEF HandlerRead, Fails
    <3> QED BY <1>1, <2>1, <2>2, <3>1, QuietStep DEF Locations
  <2>4. CASE ~Fails(row)
    <3>1. Goto(p, "idle")
      BY <1>15, <2>4 DEF HandlerRead
    <3> QED BY <1>1, <2>1, <2>2, <3>1, QuietStep DEF Locations
  <2> QED BY <2>3, <2>4
<1>16. CASE HandlerWrite(p)
  <2> DEFINE failed == [mem[p] EXCEPT !.status = "failed", !.error = "collector"]
  <2>1. pc[p] = "failing" /\ row' = failed /\ Goto(p, "idle") /\ UNCHANGED mem
    BY <1>16 DEF HandlerWrite, Save
  <2>2. failed.status = "failed" /\ failed.steps = mem[p].steps
    BY <1>1 DEF Rows
  <2> HIDE DEF failed
  <2>3. mem[p] = row /\ row.status = "running" /\ p \in Collectors
    BY <1>1, <2>1
  <2>4. Kept
    BY <1>1, <2>1, <2>2, <2>3, LeaseAssumption DEF Kept, Rows
  <2> QED BY <1>4, <2>1, <2>2, <2>3, <2>4, WritingStep DEF Locations
<1> QED
  BY <1>5, <1>6, <1>7, <1>8, <1>9, <1>10, <1>11, <1>12, <1>13, <1>14, <1>15, <1>16 DEF Step

LEMMA InitFresh == Init => FreshInduction
BY InitLease DEF Init, FreshInduction, MemoryIsFresh, Executing, Turns, Absent, Processes

LEMMA NextFreshOrStutters ==
  ASSUME ~Overlap
  PROVE  FreshInduction /\ [Next]_vars => FreshInduction' /\ [Kept]_vars
<1> SUFFICES ASSUME FreshInduction, [Next]_vars PROVE FreshInduction' /\ [Kept]_vars
  OBVIOUS
<1>1. LeaseInduction'
  BY NextLease DEF FreshInduction
<1>2. CASE UNCHANGED vars
  BY <1>1, <1>2 DEF vars, FreshInduction, MemoryIsFresh, Turns, Executing
<1>3. CASE Next
  <2>1. PICK p \in Processes : Start(p) \/ Attend(p) \/ Pause(p) \/ Crash(p) \/ Step(p)
    BY <1>3 DEF Next
  <2> QED BY <1>1, <2>1, NextFresh
<1> QED BY <1>2, <1>3

\* With collectors that take turns an executing process always holds the row as it is, so the
\* whole-row write of its next checkpoint replaces nothing it has not seen.
THEOREM MemoryFresh == ASSUME ~Overlap PROVE Spec => []MemoryIsFresh
<1>1. FreshInduction => MemoryIsFresh
  BY DEF FreshInduction
<1>2. FreshInduction /\ [Next]_vars => FreshInduction'
  BY NextFreshOrStutters
<1> QED BY <1>1, <1>2, InitFresh, PTL DEF Spec

\* With collectors that take turns no step count goes back and no completion, abort or spent
\* budget is overwritten, for any number of processes, crashes and reopenings.
THEOREM NothingLost == ASSUME ~Overlap PROVE Spec => CheckpointsKept
<1>1. FreshInduction /\ [Next]_vars => FreshInduction'
  BY NextFreshOrStutters
<1>2. FreshInduction /\ [Next]_vars =>
        [/\ row'.steps >= row.steps
         /\ (row.status = "completed" \/ row.error \in {"abort", "budget"}) => row' = row]_vars
  BY NextFreshOrStutters DEF Kept
<1> QED BY <1>1, <1>2, InitFresh, PTL DEF Spec, CheckpointsKept

-----------------------------------------------------------------------------
(* The event log.                                                          *)

\* An event more, and a checkpointed step more if it says so.
LEMMA LogGrows ==
  ASSUME NEW log \in Seq(EventTypes), NEW e \in EventTypes
  PROVE  Cardinality(StepsLogged(Append(log, e))) =
           Cardinality(StepsLogged(log)) + (IF e = "node_completed" THEN 1 ELSE 0)
<1> DEFINE longer == Append(log, e)
           n == Len(log) + 1
<1>1. /\ Len(log) \in Nat /\ DOMAIN log = 1..Len(log)
      /\ DOMAIN longer = 1..n /\ longer[n] = e /\ \A i \in 1..Len(log) : longer[i] = log[i]
  OBVIOUS
<1> HIDE DEF longer
<1>2. IsFiniteSet(StepsLogged(log)) /\ n \notin StepsLogged(log)
  <2>1. IsFiniteSet(1..Len(log))
    BY <1>1, FS_Interval
  <2>2. StepsLogged(log) \subseteq 1..Len(log)
    BY <1>1 DEF StepsLogged
  <2> QED BY <1>1, <2>1, <2>2, FS_Subset
<1>3. Cardinality(StepsLogged(log)) \in Nat
  BY <1>2, FS_CardinalityType
<1>4. CASE e = "node_completed"
  <2>1. StepsLogged(longer) = StepsLogged(log) \cup {n}
    BY <1>1, <1>4 DEF StepsLogged
  <2>2. Cardinality(StepsLogged(log) \cup {n}) = Cardinality(StepsLogged(log)) + 1
    BY <1>2, FS_AddElement
  <2> QED BY <1>3, <1>4, <2>1, <2>2 DEF longer
<1>5. CASE e # "node_completed"
  <2>1. StepsLogged(longer) = StepsLogged(log)
    BY <1>1, <1>5 DEF StepsLogged
  <2> QED BY <1>3, <1>5, <2>1 DEF longer
<1> QED BY <1>4, <1>5

\* The three things a step may do to the row and its log: nothing; a write that keeps the step
\* count and logs no step, but logs an end exactly when it writes one; one more step, logged, whose end, if it
\* is one, is left to save_terminal_event.
Silent == UNCHANGED store
Noted ==
  \E e \in EventTypes \ {"node_completed"} :
    /\ row'.steps = row.steps /\ events' = Append(events, e)
    /\ Ended(row') => e = EndEvent(row')
    /\ e \in EndEvents => Ended(row')
Stepped(p) ==
  /\ row'.steps = row.steps + 1 /\ events' = Append(events, "node_completed")
  /\ mem'[p] = row' /\ row'.error \in {"none", "abort"}
  /\ Ended(row') <=> pc'[p] = "ending"

\* Between commit_step's transaction and save_terminal_event's: the ends the loop gives a run.
EndsHeld ==
  \A p \in Processes :
    pc[p] = "ending" => Ended(mem[p]) /\ mem[p].error \in {"none", "abort"}

LEMMA StoreSteps ==
  ASSUME FreshInduction, EndsHeld, NEW p \in Processes,
         Start(p) \/ Attend(p) \/ Pause(p) \/ Crash(p) \/ Step(p)
  PROVE  /\ Silent \/ Noted \/ Stepped(p)
         /\ pc[p] = "ending" => Noted \/ crashes' # 0
         /\ pc'[p] = "ending" => Stepped(p) \/ (pc[p] = "ending" /\ mem'[p] = mem[p])
<1> USE DEF Silent, store
<1>0. /\ row \in Rows /\ mem \in [Processes -> Rows] /\ mem[p] \in Rows
      /\ pc \in [Processes -> Locations] /\ events \in Seq(EventTypes)
      /\ Executing(p) => mem[p] = row
      /\ pc[p] = "failing" => mem[p] = row
      /\ row.status = "absent" => row = Absent
      /\ crashes \in Nat
  BY DEF FreshInduction, LeaseInduction, TypeOK, MemoryIsFresh, Locations
<1>1. CASE Start(p)
  BY <1>0, <1>1 DEF Start, Goto
<1>2. CASE Attend(p)
  <2>1. PICK l \in {"asking", "handling", "reopening", "idle"} : Goto(p, l)
    BY <1>2 DEF Attend
  <2>2. Silent /\ pc[p] = "idle"
    BY <1>2 DEF Attend
  <2> QED BY <1>0, <2>1, <2>2 DEF Goto
<1>3. CASE Pause(p)
  BY <1>0, <1>3 DEF Pause, Return, Goto
<1>4. CASE Crash(p)
  BY <1>0, <1>4 DEF Crash, Return, Goto
<1>5. CASE Enter(p)
  <2>1. PICK l \in {"looping", "idle"} : Goto(p, l)
    BY <1>5 DEF Enter
  <2>2. pc[p] = "asking"
    BY <1>5 DEF Enter
  <2>3. CASE row.status = "absent"
    <3> DEFINE new == [Absent EXCEPT !.status = "running"]
    <3>1. row' = new /\ events' = Append(events, "run_started")
      BY <1>5, <2>3 DEF Enter, Save
    <3>2. new.status = "running" /\ new.steps = 0 /\ row.steps = 0
      BY <1>0, <2>3 DEF Absent
    <3> HIDE DEF new
    <3>3. Noted
      BY <3>1, <3>2 DEF Noted, Ended, EventTypes, EndEvents
    <3> QED BY <1>0, <2>1, <2>2, <3>3 DEF Goto
  <2>4. CASE row.status # "absent"
    BY <1>0, <1>5, <2>1, <2>2, <2>4 DEF Enter, Goto
  <2> QED BY <2>3, <2>4
<1>6. CASE Busy(p) \/ OperatorFails(p)
  BY <1>0, <1>6 DEF Busy, OperatorFails, Raise, Goto
<1>7. CASE BudgetStop(p)
  <2> DEFINE failed == [mem[p] EXCEPT !.status = "failed", !.error = "budget"]
  <2>1. /\ pc[p] = "looping" /\ row' = failed /\ events' = Append(events, "budget_exceeded")
        /\ pc'[p] # "ending"
    BY <1>0, <1>7 DEF BudgetStop, Save, Raise, Goto
  <2>2. failed.status = "failed" /\ failed.error = "budget" /\ failed.steps = mem[p].steps
    BY <1>0 DEF Rows
  <2> HIDE DEF failed
  <2>3. Noted
    BY <1>0, <2>1, <2>2 DEF Noted, Ended, EndEvent, Executing, EventTypes
  <2> QED BY <2>1, <2>3
<1>8. CASE Work(p)
  BY <1>0, <1>8 DEF Work, Goto
<1>9. CASE CommitStep(p)
  <2>1. PICK end \in {"none", "finish", "abort"} :
          LET next == [mem[p] EXCEPT !.steps = @ + 1,
                         !.status = IF end = "none" THEN "running"
                                    ELSE IF end = "finish" THEN "completed" ELSE "failed",
                         !.error = IF end = "abort" THEN "abort" ELSE "none"]
          IN  /\ Hold(p, next) /\ SaveStep(next)
              /\ Goto(p, IF end = "none" THEN "looping" ELSE "ending")
    BY <1>9 DEF CommitStep
  <2> DEFINE next == [mem[p] EXCEPT !.steps = mem[p].steps + 1,
                        !.status = IF end = "none" THEN "running"
                                   ELSE IF end = "finish" THEN "completed" ELSE "failed",
                        !.error = IF end = "abort" THEN "abort" ELSE "none"]
             l == IF end = "none" THEN "looping" ELSE "ending"
  <2>2. Hold(p, next) /\ row' = next /\ events' = Append(events, "node_completed") /\ Goto(p, l)
    BY <2>1 DEF SaveStep, Save
  <2>3. /\ next.steps = mem[p].steps + 1 /\ next.error \in {"none", "abort"}
        /\ next.status \in {"completed", "failed"} <=> l = "ending"
    BY <1>0 DEF Rows
  <2>4. pc[p] = "working"
    BY <1>9 DEF CommitStep
  <2> HIDE DEF next, l
  <2>5. mem'[p] = next /\ pc'[p] = l /\ mem[p] = row
    BY <1>0, <2>2, <2>4 DEF Hold, Goto, Executing
  <2>6. Stepped(p)
    BY <2>2, <2>3, <2>5 DEF Stepped, Ended
  <2> QED BY <2>4, <2>6
<1>10. CASE TerminalEvent(p)
  <2>1. /\ pc[p] = "ending" /\ row' = mem[p] /\ pc'[p] = "idle"
        /\ events' = Append(events, IF mem[p].status = "completed" THEN "run_completed"
                                    ELSE "run_failed")
    BY <1>0, <1>10 DEF TerminalEvent, Save, Return, Goto
  <2>2. row' = row /\ mem[p] = row /\ row.error \in {"none", "abort"} /\ Ended(row)
    BY <1>0, <2>1 DEF Executing, EndsHeld
  <2>3. Noted
    BY <2>1, <2>2 DEF Noted, EndEvent, EventTypes
  <2> QED BY <2>1, <2>3
<1>11. CASE Reopen(p)
  <2>1. PICK l \in {"asking", "handling"} : Goto(p, l)
    BY <1>11 DEF Reopen
  <2>2. pc[p] = "reopening"
    BY <1>11 DEF Reopen
  <2>3. CASE Reopens(row)
    <3> DEFINE next == [row EXCEPT !.status = "running", !.error = "none"]
    <3>1. row' = next /\ events' = Append(events, "collector_retry")
      BY <1>11, <2>3 DEF Reopen, Save
    <3>2. next.status = "running" /\ next.steps = row.steps
      BY <1>0 DEF Rows
    <3> HIDE DEF next
    <3>3. Noted
      BY <3>1, <3>2 DEF Noted, Ended, EventTypes, EndEvents
    <3> QED BY <1>0, <2>1, <2>2, <3>3 DEF Goto
  <2>4. CASE ~Reopens(row)
    BY <1>0, <1>11, <2>1, <2>2, <2>4 DEF Reopen, Goto
  <2> QED BY <2>3, <2>4
<1>12. CASE HandlerRead(p)
  BY <1>0, <1>12 DEF HandlerRead, Goto
<1>13. CASE HandlerWrite(p)
  <2> DEFINE failed == [mem[p] EXCEPT !.status = "failed", !.error = "collector"]
  <2>1. /\ pc[p] = "failing" /\ row' = failed /\ events' = Append(events, "run_failed")
        /\ pc'[p] = "idle"
    BY <1>0, <1>13 DEF HandlerWrite, Save, Goto
  <2>2. /\ failed.status = "failed" /\ failed.error = "collector"
        /\ failed.steps = mem[p].steps
    BY <1>0 DEF Rows
  <2> HIDE DEF failed
  <2>3. Noted
    BY <1>0, <2>1, <2>2 DEF Noted, Ended, EndEvent, EventTypes
  <2> QED BY <2>1, <2>3
<1> QED
  BY <1>1, <1>2, <1>3, <1>4, <1>5, <1>6, <1>7, <1>8, <1>9, <1>10, <1>11, <1>12, <1>13 DEF Step

\* An end whose event is still to be written is in the hands of its executor, or the executor
\* was killed.
EndPending ==
  row.status # "absent" =>
    /\ LatestEvent \in EndEvents => Ended(row) /\ LatestEvent = EndEvent(row)
    /\ Ended(row) =>
         \/ LatestEvent = EndEvent(row)
         \/ /\ LatestEvent = "node_completed"
            /\ crashes > 0 \/ \E p \in Processes : pc[p] = "ending"

LogInduction == FreshInduction /\ EndsHeld /\ LogMatchesRow /\ EndPending

LEMMA LogStep ==
  ASSUME ~Overlap, LogInduction, NEW p \in Processes,
         Start(p) \/ Attend(p) \/ Pause(p) \/ Crash(p) \/ Step(p)
  PROVE  EndsHeld' /\ LogMatchesRow' /\ EndPending'
<1>0. /\ FreshInduction /\ EndsHeld /\ LogMatchesRow /\ EndPending
      /\ events \in Seq(EventTypes) /\ Len(events) \in Nat
      /\ crashes \in Nat /\ crashes' \in Nat /\ (crashes' = 0 => crashes = 0)
  <2>1. crashes \in Nat /\ (crashes' = crashes \/ crashes' = crashes + 1)
    BY DEF LogInduction, FreshInduction, LeaseInduction, TypeOK, bounds, Start, Attend, Pause,
       Crash, Step, Enter, Busy, BudgetStop, Work, OperatorFails, CommitStep, TerminalEvent,
       Reopen, HandlerRead, HandlerWrite
  <2> QED BY <2>1 DEF LogInduction, FreshInduction, LeaseInduction, TypeOK
<1>1. /\ Silent \/ Noted \/ Stepped(p)
      /\ pc[p] = "ending" => Noted \/ crashes' # 0
      /\ pc'[p] = "ending" => Stepped(p) \/ (pc[p] = "ending" /\ mem'[p] = mem[p])
  BY <1>0, StoreSteps
<1>2. \A q \in Processes \ {p} : pc'[q] = pc[q] /\ mem'[q] = mem[q]
  BY <1>0 DEF FreshInduction, LeaseInduction, TypeOK, Start, Attend, Pause, Crash, Step, Enter,
     Busy, BudgetStop, Work, OperatorFails, CommitStep, TerminalEvent, Reopen, HandlerRead,
     HandlerWrite, Raise, Return, Goto, Hold
<1>3. EndsHeld'
  <2> SUFFICES ASSUME NEW q \in Processes, pc'[q] = "ending"
               PROVE  Ended(mem'[q]) /\ mem'[q].error \in {"none", "abort"}
    BY DEF EndsHeld
  <2>1. CASE q # p
    BY <1>0, <1>2, <2>1 DEF EndsHeld
  <2>2. CASE q = p /\ Stepped(p)
    BY <2>2 DEF Stepped
  <2>3. CASE q = p /\ pc[p] = "ending" /\ mem'[p] = mem[p]
    BY <1>0, <2>3 DEF EndsHeld
  <2> QED BY <1>1, <2>1, <2>2, <2>3
<1>4. LogMatchesRow'
  <2>1. CASE Silent
    BY <1>0, <2>1 DEF Silent, store, LogMatchesRow
  <2>2. CASE Noted
    <3>1. PICK e \in EventTypes \ {"node_completed"} :
            row'.steps = row.steps /\ events' = Append(events, e)
      BY <2>2 DEF Noted
    <3>2. Cardinality(StepsLogged(events')) = Cardinality(StepsLogged(events)) + 0
      BY <1>0, <3>1, LogGrows
    <3>3. row.steps \in Nat
      BY <1>0 DEF FreshInduction, LeaseInduction, TypeOK, Rows
    <3> QED BY <1>0, <3>1, <3>2, <3>3 DEF LogMatchesRow
  <2>3. CASE Stepped(p)
    <3>1. Cardinality(StepsLogged(events')) = Cardinality(StepsLogged(events)) + 1
      BY <1>0, <2>3, LogGrows DEF Stepped, EventTypes
    <3> QED BY <1>0, <2>3, <3>1 DEF LogMatchesRow, Stepped
  <2> QED BY <1>1, <2>1, <2>2, <2>3
<1>5. EndPending'
  <2>1. CASE Noted
    <3>1. PICK e \in EventTypes \ {"node_completed"} :
            /\ events' = Append(events, e)
            /\ Ended(row') => e = EndEvent(row')
            /\ e \in EndEvents => Ended(row')
      BY <2>1 DEF Noted
    <3>2. LatestEvent' = e
      BY <1>0, <3>1 DEF LatestEvent
    <3> QED BY <3>1, <3>2 DEF EndPending, Ended
  <2>2. CASE Stepped(p)
    <3>1. LatestEvent' = "node_completed"
      BY <1>0, <2>2 DEF LatestEvent, Stepped, EventTypes
    <3>2. Ended(row') => pc'[p] = "ending"
      BY <2>2 DEF Stepped
    <3> QED BY <3>1, <3>2 DEF EndPending, Ended, EndEvents
  <2>3. CASE Silent /\ ~Noted
    <3>1. row' = row /\ events' = events
      BY <2>3 DEF Silent, store
    <3>2. crashes > 0 => crashes' > 0
      BY <1>0
    <3>3. ASSUME NEW q \in Processes, pc[q] = "ending"
          PROVE  crashes' > 0 \/ pc'[q] = "ending"
      <4>1. CASE q = p
        <5>1. crashes' # 0
          BY <1>1, <2>3, <3>3, <4>1
        <5> QED BY <1>0, <5>1
      <4>2. CASE q # p
        BY <1>2, <3>3, <4>2
      <4> QED BY <4>1, <4>2
    <3>4. LatestEvent' = LatestEvent
      BY <3>1 DEF LatestEvent
    <3>5. /\ Ended(row') <=> Ended(row) /\ EndEvent(row') = EndEvent(row)
          /\ row.status # "absent" <=> row'.status # "absent"
      BY <3>1
    <3>6. (\E q \in Processes : pc[q] = "ending") =>
            crashes' > 0 \/ \E q \in Processes : pc'[q] = "ending"
      BY <3>3
    <3> QED BY <1>0, <3>1, <3>2, <3>4, <3>5, <3>6 DEF EndPending
  <2> QED BY <1>1, <2>1, <2>2, <2>3
<1> QED BY <1>3, <1>4, <1>5

LEMMA LogInductive ==
  ASSUME ~Overlap
  PROVE  /\ Init => LogInduction
         /\ LogInduction /\ [Next]_vars => LogInduction'
<1>1. ASSUME Init PROVE LogInduction
  <2>1. StepsLogged(events) = {} /\ row.steps = 0
    BY <1>1 DEF Init, StepsLogged, Absent
  <2>2. LogMatchesRow
    BY <2>1, FS_EmptySet DEF LogMatchesRow
  <2>3. EndsHeld /\ EndPending
    BY <1>1 DEF Init, EndsHeld, EndPending, Ended, Absent
  <2> QED BY <1>1, <2>2, <2>3, InitFresh DEF LogInduction
<1>2. ASSUME LogInduction, [Next]_vars PROVE LogInduction'
  <2>1. FreshInduction'
    BY <1>2, NextFreshOrStutters DEF LogInduction
  <2>2. CASE UNCHANGED vars
    BY <1>2, <2>1, <2>2 DEF vars, LogInduction, EndsHeld, LogMatchesRow, StepsLogged,
       EndPending, Ended, EndEvent, LatestEvent
  <2>3. CASE Next
    <3>1. PICK p \in Processes : Start(p) \/ Attend(p) \/ Pause(p) \/ Crash(p) \/ Step(p)
      BY <2>3 DEF Next
    <3> QED BY <1>2, <2>1, <3>1, LogStep DEF LogInduction
  <2> QED BY <1>2, <2>2, <2>3
<1> QED BY <1>1, <1>2

\* With collectors that take turns the log has exactly one node_completed event per step of the
\* row, for any number of processes, kills and reopenings (commit_step is one transaction).
THEOREM LogFollowsRow == ASSUME ~Overlap PROVE Spec => []LogMatchesRow
<1>1. LogInduction => LogMatchesRow
  BY DEF LogInduction
<1> QED BY <1>1, LogInductive, PTL DEF Spec

\* With collectors that take turns, the log tells of no end the row does not have, and a run
\* that ended lacks the event of its end only while its executor is about to write it or
\* because a kill came between: no exception path skips save_terminal_event.
THEOREM EndsAreLogged == ASSUME ~Overlap PROVE Spec => []EndIsLogged
<1>1. LogInduction => EndIsLogged
  BY DEF LogInduction, EndPending, EndIsLogged, Quiet
<1> QED BY <1>1, LogInductive, PTL DEF Spec
=============================================================================
