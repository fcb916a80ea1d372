--------------------------- MODULE MlxWorkerProofs ---------------------------
(***************************************************************************)
(* The inductive invariant of the worker's life holds for any number of    *)
(* callers, prompts and calls.  Every step of the worker on a request      *)
(* either finishes it or goes on with it; what the two share is stated     *)
(* once (Ends, GoesOn), and the preservation proof only uses that.         *)
(***************************************************************************)
EXTENDS MlxWorker, SequenceTheorems, TLAPS

Spending ==
  \/ UNCHANGED spent
  \/ spent' = [spent EXCEPT ![current] = @ + 1]

\* The request in hand is finished, within its limit and with its tokens stated.
Ends ==
  /\ current # Nobody /\ model' \in BOOLEAN /\ Spending
  /\ spent'[current] <= Limit(Kind)
  /\ \E place \in {"returned", "failed", "released"}, tokens \in Nat :
       /\ Finish(place, tokens)
       /\ place = "released" <=> Kind = "close"
       /\ place = "returned" => tokens = spent'[current]

\* It stays in hand, in a stage that matches what was spent.
GoesOn ==
  /\ current # Nobody /\ model' \in BOOLEAN /\ Spending
  /\ UNCHANGED <<lifecycle, queue, current, at, req, reported, calls>>
  /\ stage' \in Stages \ {"none"}
  /\ total' \in Nat /\ total' = spent'[current] /\ total' <= Limit(Kind)
  /\ stage' \notin {"second", "continuation"} => total' = 0
  /\ stage' = "second" => total' = 1
  /\ stage' = "continuation" => total' = 2 /\ Kind = "patch"
  /\ stage' \in Attempts => Kind \in {"json", "patch"}
  /\ stage' = "capture" => Kind = "capture"

Serves ==
  /\ current # Nobody
  /\ \/ Predict \/ EnsureLoaded \/ LoadFails \/ Release
     \/ GenerationFails \/ Parsed
     \/ \E outcome \in {"invalid", "truncated"} : Rejected(outcome)
     \/ Hit \/ Extract \/ CaptureFails

LEMMA EndsBy ==
  ASSUME NEW place \in {"returned", "failed", "released"}, NEW tokens \in Nat,
         current # Nobody, model' \in BOOLEAN, Spending,
         spent'[current] <= Limit(Kind), Finish(place, tokens),
         place = "released" <=> Kind = "close",
         place = "returned" => tokens = spent'[current]
  PROVE  Ends
BY DEF Ends

LEMMA ServesShape ==
  ASSUME Induction, Serves
  PROVE  Ends \/ GoesOn
<1>0. /\ current \in Callers /\ current # Nobody
      /\ spent[current] \in Nat /\ total = spent[current]
      /\ spent[current] <= Limit(Kind) /\ Limit(Kind) \in Nat
      /\ spent \in [Callers -> Nat] /\ model \in BOOLEAN
  BY DEF Induction, WorkTyped, Charged, GenerationsAccounted, Serves, Limit, Kind
<1>s. /\ stage \notin {"second", "continuation"} => total = 0
      /\ stage = "second" => total = 1
      /\ stage = "continuation" => total = 2 /\ Kind = "patch"
      /\ stage \in Attempts => Kind \in {"json", "patch"}
      /\ stage = "capture" => Kind = "capture"
  BY <1>0 DEF Induction, Charged
<1>f. ASSUME UNCHANGED <<model, spent>>, Kind # "close", Finish("failed", 0)
      PROVE  Ends
  BY <1>0, <1>f, EndsBy DEF Spending
<1>r. ASSUME UNCHANGED spent, model' \in BOOLEAN, Kind # "close", spent[current] = 0,
             Finish("returned", 0)
      PROVE  Ends
  BY <1>0, <1>r, EndsBy DEF Spending
<1>1. CASE Predict
  <2>1. /\ Kind = "predict" /\ stage = "begun" /\ UNCHANGED <<model, spent>>
        /\ Finish("returned", 0) \/ Finish("failed", 0)
    BY <1>1 DEF Predict, Raise
  <2> QED BY <1>0, <1>s, <1>f, <1>r, <2>1
<1>2. CASE EnsureLoaded
  <2>1. /\ stage = "begun" /\ Kind \in {"load", "json", "patch", "capture"}
        /\ model' = TRUE /\ UNCHANGED spent /\ spent[current] = 0 /\ total = 0
    BY <1>0, <1>s, <1>2 DEF EnsureLoaded, NeedsModel
  <2>2. CASE Kind = "load"
    BY <1>2, <1>r, <2>1, <2>2 DEF EnsureLoaded
  <2>3. CASE Kind # "load"
    <3>1. /\ UNCHANGED <<lifecycle, queue, current, total, at, req, reported, calls>>
          /\ stage' = IF Kind = "capture" THEN "capture" ELSE "first"
      BY <1>2, <2>3 DEF EnsureLoaded
    <3> QED BY <1>0, <2>1, <2>3, <3>1 DEF GoesOn, Spending, Stages, Attempts
  <2> QED BY <2>2, <2>3
<1>3. CASE LoadFails
  <2>1. Kind # "close" /\ UNCHANGED <<model, spent>> /\ Finish("failed", 0)
    BY <1>3 DEF LoadFails, NeedsModel, Raise
  <2> QED BY <1>f, <2>1
<1>4. CASE Release
  <2>1. Kind = "close" /\ model' = FALSE /\ UNCHANGED spent /\ Finish("released", 0)
    BY <1>4 DEF Release
  <2> QED BY <1>0, <2>1, EndsBy DEF Spending
<1>5. CASE GenerationFails \/ Parsed \/ \E outcome \in {"invalid", "truncated"} : Rejected(outcome)
  <2>1. /\ stage \in Attempts /\ Kind \in {"json", "patch"}
        /\ spent' = [spent EXCEPT ![current] = @ + 1]
        /\ UNCHANGED model
    BY <1>s, <1>5 DEF GenerationFails, Parsed, Rejected, Generate
  <2>2. spent'[current] = total + 1
    BY <1>0, <2>1
  <2>3. spent'[current] <= Limit(Kind)
    BY <1>0, <1>s, <2>1, <2>2 DEF Limit, Attempts
  <2>4. ASSUME Finish("failed", 0) PROVE Ends
    BY <1>0, <2>1, <2>3, <2>4, EndsBy DEF Spending
  <2>5. CASE GenerationFails
    BY <2>4, <2>5 DEF GenerationFails, Raise
  <2>6. CASE Parsed
    <3>1. Finish("returned", total + 1) /\ total + 1 \in Nat
      BY <1>0, <2>6 DEF Parsed, Counted
    <3> QED BY <1>0, <2>1, <2>2, <2>3, <3>1, EndsBy DEF Spending
  <2>7. ASSUME NEW outcome \in {"invalid", "truncated"}, Rejected(outcome)
        PROVE  Ends \/ GoesOn
    <3>1. CASE Recovery(outcome) = "none"
      BY <2>4, <2>7, <3>1 DEF Rejected, Raise
    <3>2. CASE Recovery(outcome) # "none"
      <4>1. /\ UNCHANGED <<lifecycle, queue, current, at, req, reported, calls>>
            /\ stage' = Recovery(outcome) /\ total' = total + 1
        BY <2>7, <3>2 DEF Rejected, Counted
      <4>2. \/ stage = "first" /\ stage' = "second"
            \/ stage = "second" /\ Kind = "patch" /\ stage' = "continuation"
        BY <3>2, <4>1 DEF Recovery
      <4> QED BY <1>0, <1>s, <2>1, <2>2, <2>3, <4>1, <4>2 DEF GoesOn, Spending, Stages, Attempts
    <3> QED BY <3>1, <3>2
  <2> QED BY <1>5, <2>5, <2>6, <2>7
<1>6. CASE Hit \/ Extract \/ CaptureFails
  <2>1. /\ Kind = "capture" /\ spent[current] = 0 /\ UNCHANGED <<model, spent>>
        /\ Finish("returned", 0) \/ Finish("failed", 0)
    BY <1>0, <1>s, <1>6 DEF Hit, Extract, CaptureFails, Raise
  <2> QED BY <1>0, <1>f, <1>r, <2>1
<1> QED BY <1>1, <1>2, <1>3, <1>4, <1>5, <1>6 DEF Serves

-----------------------------------------------------------------------------
(* Preservation, one lemma per kind of step.                               *)

LEMMA CallPreserves ==
  ASSUME Induction, NEW c \in Callers, NEW r \in Requests, Call(c, r)
  PROVE  Induction'
<1>0. /\ WorkTyped /\ Queued /\ CloserAlone /\ Charged /\ GenerationsAccounted
      /\ at[c] \in Answered \cup {"idle"} /\ calls[c] < MaxCalls
      /\ UNCHANGED <<shut, worker, queue, current, stage, total, model>>
      /\ calls' = [calls EXCEPT ![c] = @ + 1] /\ req' = [req EXCEPT ![c] = r]
      /\ spent' = [spent EXCEPT ![c] = 0] /\ reported' = [reported EXCEPT ![c] = 0]
      /\ closed' = (closed \/ r.kind = "close")
      /\ at' = [at EXCEPT ![c] = IF r.kind = "close"
                                  THEN (IF closed THEN "returned" ELSE "marked")
                                  ELSE IF closed THEN "refused" ELSE "checked"]
  BY DEF Induction, Call, Goto, work
<1>1. c # current /\ \A i \in 1..Len(queue) : queue[i] # c
  <2>1. at[c] \notin Engaged /\ c # Nobody
    BY <1>0, WorkerAssumption DEF Engaged, Answered
  <2> QED BY <1>0, <2>1 DEF Queued
<1>2. WorkTyped'
  BY <1>0, WorkerAssumption DEF WorkTyped, Waiting, Answered
<1>3. Queued'
  BY <1>0, <1>1 DEF Queued, WorkTyped, Engaged
<1>4. CloserAlone'
  BY <1>0 DEF CloserAlone, WorkTyped, Closing, Answered
<1>5. Charged'
  BY <1>0, <1>1 DEF Charged, WorkTyped, Kind
<1>6. GenerationsAccounted'
  BY <1>0 DEF GenerationsAccounted, WorkTyped, Limit
<1> QED BY <1>2, <1>3, <1>4, <1>5, <1>6 DEF Induction

LEMMA SubmitPreserves ==
  ASSUME Induction, NEW c \in Callers, Submit(c)
  PROVE  Induction'
<1>0. /\ WorkTyped /\ Queued /\ CloserAlone /\ Charged /\ GenerationsAccounted
      /\ at[c] \in {"checked", "marked"}
      /\ UNCHANGED <<closed, shut, worker, current, stage, total, model, req, reported, calls, spent>>
  BY DEF Induction, Submit, lifecycle, work
<1>1. CASE shut
  <2>1. at' = [at EXCEPT ![c] = "refused"] /\ UNCHANGED queue
    BY <1>1 DEF Submit, Goto
  <2>2. WorkTyped'
    BY <1>0, <2>1 DEF WorkTyped, Answered
  <2>3. Queued'
    BY <1>0, <2>1 DEF Queued, WorkTyped, Engaged
  <2>4. CloserAlone'
    BY <1>0, <2>1 DEF CloserAlone, WorkTyped, Closing
  <2>5. Charged' /\ GenerationsAccounted'
    BY <1>0, <2>1 DEF Charged, GenerationsAccounted, WorkTyped, Kind, Limit
  <2> QED BY <2>2, <2>3, <2>4, <2>5 DEF Induction
<1>2. CASE ~shut
  <2>1. /\ at' = [at EXCEPT ![c] = IF at[c] = "marked" THEN "releasing" ELSE "waiting"]
        /\ queue' = Append(queue, c)
    BY <1>2 DEF Submit, Goto
  <2>2. WorkTyped'
    BY <1>0, <2>1 DEF WorkTyped, Waiting
  <2>3. Queued'
    <3>1. /\ queue \in Seq(Callers) /\ Len(queue) \in Nat /\ Len(queue') = Len(queue) + 1
          /\ queue'[Len(queue) + 1] = c
          /\ \A i \in 1..Len(queue) : queue'[i] = queue[i] /\ queue[i] \in Callers
      BY <1>0, <2>1 DEF WorkTyped
    <3>2. c # current /\ \A i \in 1..Len(queue) : queue[i] # c
      <4>1. at[c] \notin Engaged /\ c # Nobody
        BY <1>0, WorkerAssumption DEF Engaged
      <4> QED BY <1>0, <4>1 DEF Queued
    <3>3. \A i \in 1..Len(queue') : at'[queue'[i]] \in Engaged /\ queue'[i] # current'
      BY <1>0, <2>1, <3>1, <3>2 DEF Queued, WorkTyped, Engaged
    <3>4. \A i, j \in 1..Len(queue') : queue'[i] = queue'[j] => i = j
      BY <1>0, <3>1, <3>2 DEF Queued
    <3>5. current' # Nobody => at'[current'] \in Engaged
      BY <1>0, <2>1, <3>2 DEF Queued, WorkTyped
    <3>6. ASSUME NEW d \in Callers, at'[d] \in Engaged
          PROVE  d = current' \/ \E i \in 1..Len(queue') : queue'[i] = d
      <4>1. CASE d = c
        BY <3>1, <4>1
      <4>2. CASE d # c
        BY <1>0, <2>1, <3>1, <3>6, <4>2 DEF Queued, WorkTyped
      <4> QED BY <4>1, <4>2
    <3> QED BY <3>3, <3>4, <3>5, <3>6 DEF Queued
  <2>4. CloserAlone'
    BY <1>0, <1>2, <2>1 DEF CloserAlone, WorkTyped, Closing
  <2>5. Charged' /\ GenerationsAccounted'
    BY <1>0, <2>1 DEF Charged, GenerationsAccounted, WorkTyped, Kind, Limit
  <2> QED BY <2>2, <2>3, <2>4, <2>5 DEF Induction
<1> QED BY <1>1, <1>2

LEMMA ClosePreserves ==
  ASSUME Induction, NEW c \in Callers, Shutdown(c) \/ Join(c)
  PROVE  Induction'
<1>0. /\ WorkTyped /\ Queued /\ CloserAlone /\ Charged /\ GenerationsAccounted
      /\ UNCHANGED <<closed, worker, queue, current, stage, total, model,
                     req, reported, calls, spent>>
      /\ \/ at[c] = "released" /\ at' = [at EXCEPT ![c] = "joining"] /\ shut' = TRUE
         \/ at[c] = "joining" /\ at' = [at EXCEPT ![c] = "closed"] /\ worker = "exited" /\ shut' = shut
  BY DEF Induction, Shutdown, Join, Goto, lifecycle, work
<1>1. WorkTyped'
  BY <1>0 DEF WorkTyped, Waiting, Answered
<1>2. Queued'
  <2>1. \A d \in Callers : at'[d] \in Engaged <=> at[d] \in Engaged
    BY <1>0 DEF WorkTyped, Engaged
  <2>2. \A i \in 1..Len(queue) : queue[i] \in Callers
    BY <1>0 DEF WorkTyped
  <2>3. current # Nobody => current \in Callers
    BY <1>0 DEF WorkTyped
  <2> QED BY <1>0, <2>1, <2>2, <2>3 DEF Queued
<1>3. CloserAlone'
  BY <1>0 DEF CloserAlone, WorkTyped, Closing
<1>4. Charged' /\ GenerationsAccounted'
  BY <1>0 DEF Charged, GenerationsAccounted, WorkTyped, Kind, Limit
<1> QED BY <1>1, <1>2, <1>3, <1>4 DEF Induction

LEMMA TakePreserves ==
  ASSUME Induction, Take
  PROVE  Induction'
<1>0. /\ WorkTyped /\ Queued /\ CloserAlone /\ Charged /\ GenerationsAccounted
      /\ worker = "running" /\ current = Nobody /\ queue # <<>>
      /\ current' = Head(queue) /\ queue' = Tail(queue)
      /\ stage' = "begun" /\ total' = 0
      /\ UNCHANGED <<closed, shut, worker, model, at, req, reported, calls, spent>>
  BY DEF Induction, Take, lifecycle, callers
<1>1. /\ queue \in Seq(Callers) /\ Len(queue) \in Nat \ {0}
      /\ Len(queue') = Len(queue) - 1 /\ current' = queue[1] /\ current' \in Callers
      /\ \A i \in 1..Len(queue') : queue'[i] = queue[i + 1]
      /\ \A i \in 1..Len(queue) : queue[i] \in Callers
  BY <1>0 DEF WorkTyped
<1>2. WorkTyped'
  BY <1>0, <1>1, WorkerAssumption DEF WorkTyped, Stages
<1>3. Queued'
  <2>1. \A i \in 1..Len(queue') : i + 1 \in 1..Len(queue)
    BY <1>1
  <2>2. \A i \in 1..Len(queue') : at'[queue'[i]] \in Engaged /\ queue'[i] # current'
    BY <1>0, <1>1, <2>1 DEF Queued
  <2>3. \A i, j \in 1..Len(queue') : queue'[i] = queue'[j] => i = j
    BY <1>0, <1>1, <2>1 DEF Queued
  <2>4. at'[current'] \in Engaged
    BY <1>0, <1>1 DEF Queued
  <2>5. ASSUME NEW d \in Callers, at'[d] \in Engaged
        PROVE  d = current' \/ \E i \in 1..Len(queue') : queue'[i] = d
    <3>1. PICK i \in 1..Len(queue) : queue[i] = d
      BY <1>0, <2>5, WorkerAssumption DEF Queued
    <3>2. CASE i = 1
      BY <1>1, <3>1, <3>2
    <3>3. CASE i # 1
      <4>1. i - 1 \in 1..Len(queue') /\ queue'[i - 1] = d
        BY <1>1, <3>1, <3>3
      <4> QED BY <4>1
    <3> QED BY <3>2, <3>3
  <2> QED BY <2>2, <2>3, <2>4, <2>5 DEF Queued
<1>4. CloserAlone'
  BY <1>0 DEF CloserAlone
<1>5. Charged'
  <2>1. at[queue[1]] \in Engaged /\ spent[queue[1]] = 0
    BY <1>0, <1>1, WorkerAssumption DEF Queued, Charged, Engaged
  <2> QED BY <1>0, <1>1, <2>1, WorkerAssumption DEF Charged, Attempts
<1>6. GenerationsAccounted'
  BY <1>0 DEF GenerationsAccounted
<1> QED BY <1>2, <1>3, <1>4, <1>5, <1>6 DEF Induction

LEMMA EndsPreserves ==
  ASSUME Induction, Ends
  PROVE  Induction'
<1>0. /\ WorkTyped /\ Queued /\ CloserAlone /\ Charged /\ GenerationsAccounted
      /\ current \in Callers /\ model' \in BOOLEAN /\ Spending
      /\ spent'[current] <= Limit(Kind)
  BY DEF Induction, WorkTyped, Ends
<1>1. PICK place \in {"returned", "failed", "released"}, tokens \in Nat :
        /\ at' = [at EXCEPT ![current] = place]
        /\ reported' = [reported EXCEPT ![current] = tokens]
        /\ current' = Nobody /\ stage' = "none" /\ total' = 0
        /\ UNCHANGED <<closed, shut, worker, queue, req, calls>>
        /\ place = "released" <=> Kind = "close"
        /\ place = "returned" => tokens = spent'[current]
  BY DEF Ends, Finish, Goto, lifecycle
<1>2. /\ spent' \in [Callers -> Nat]
      /\ \A c \in Callers : c # current => spent'[c] = spent[c]
  <2>1. spent \in [Callers -> Nat]
    BY <1>0 DEF WorkTyped
  <2> QED BY <1>0, <2>1 DEF Spending
<1>3. WorkTyped'
  BY <1>0, <1>1, <1>2 DEF WorkTyped, Waiting, Answered, Stages
<1>4. Queued'
  <2>1. \A i \in 1..Len(queue) : queue[i] \in Callers /\ queue[i] # current
    BY <1>0 DEF Queued, WorkTyped
  <2>2. \A i \in 1..Len(queue') : at'[queue'[i]] \in Engaged /\ queue'[i] # current'
    BY <1>0, <1>1, <2>1, WorkerAssumption DEF Queued, WorkTyped
  <2>3. ASSUME NEW d \in Callers, at'[d] \in Engaged
        PROVE  \E i \in 1..Len(queue') : queue'[i] = d
    BY <1>0, <1>1, <2>3 DEF Queued, WorkTyped, Engaged
  <2> QED BY <1>0, <1>1, <2>2, <2>3 DEF Queued
<1>5. CloserAlone'
  <2>1. place = "released" => at[current] = "releasing"
    BY <1>0, <1>1, WorkerAssumption DEF Queued, CloserAlone, Engaged, Kind
  <2>2. ~(worker = "exited")
    BY <1>0, WorkerAssumption DEF CloserAlone
  <2> QED BY <1>0, <1>1, <2>1, <2>2 DEF CloserAlone, WorkTyped, Closing
<1>6. Charged'
  BY <1>0, <1>1, <1>2 DEF Charged, WorkTyped
<1>7. GenerationsAccounted'
  BY <1>0, <1>1, <1>2 DEF GenerationsAccounted, WorkTyped, Kind
<1> QED BY <1>3, <1>4, <1>5, <1>6, <1>7 DEF Induction

LEMMA GoesOnPreserves ==
  ASSUME Induction, GoesOn
  PROVE  Induction'
<1>0. /\ WorkTyped /\ Queued /\ CloserAlone /\ Charged /\ GenerationsAccounted
      /\ current \in Callers /\ model' \in BOOLEAN /\ Spending
      /\ UNCHANGED <<closed, shut, worker, queue, current, at, req, reported, calls>>
      /\ stage' \in Stages /\ stage' # "none"
      /\ total' \in Nat /\ total' = spent'[current] /\ total' <= Limit(Kind)
  BY DEF Induction, WorkTyped, GoesOn, lifecycle
<1>1. /\ spent' \in [Callers -> Nat]
      /\ \A c \in Callers : c # current => spent'[c] = spent[c]
  <2>1. spent \in [Callers -> Nat]
    BY <1>0 DEF WorkTyped
  <2> QED BY <1>0, <2>1 DEF Spending
<1>2. WorkTyped'
  BY <1>0, <1>1, WorkerAssumption DEF WorkTyped
<1>3. Queued' /\ CloserAlone'
  BY <1>0 DEF Queued, CloserAlone
<1>4. Charged'
  BY <1>0, <1>1 DEF Charged, GoesOn, Kind
<1>5. GenerationsAccounted'
  <2>1. at[current] # "returned"
    BY <1>0, WorkerAssumption DEF Queued, Engaged
  <2> QED BY <1>0, <1>1, <2>1 DEF GenerationsAccounted, Kind
<1> QED BY <1>2, <1>3, <1>4, <1>5 DEF Induction

-----------------------------------------------------------------------------
\* The inductive invariant, for any number of callers, prompts, entries and calls.
THEOREM WorkerInductionHolds == Spec => []Induction
<1>1. Init => Induction
  <2> SUFFICES ASSUME Init PROVE Induction
    OBVIOUS
  <2>1. WorkTyped
    <3>1. [kind |-> "load", prompt |-> NoPrompt] \in Requests
      BY DEF Requests
    <3>2. req \in [Callers -> Requests]
      BY <3>1 DEF Init
    <3>3. /\ at \in [Callers -> Waiting \cup Answered \cup {"idle"}]
          /\ reported \in [Callers -> Nat] /\ spent \in [Callers -> Nat]
          /\ calls \in [Callers -> 0..MaxCalls]
      BY WorkerAssumption DEF Init
    <3>4. queue \in Seq(Callers) /\ current \in Callers \cup {Nobody}
      BY DEF Init
    <3>5. /\ closed \in BOOLEAN /\ shut \in BOOLEAN /\ worker \in {"running", "exited"}
          /\ stage \in Stages /\ total \in Nat /\ model \in BOOLEAN
          /\ stage = "none" <=> current = Nobody
      BY DEF Init, Stages
    <3> QED BY <3>2, <3>3, <3>4, <3>5 DEF WorkTyped
  <2>2. Queued
    BY DEF Init, Queued, Engaged
  <2>3. CloserAlone
    BY DEF Init, CloserAlone, Closing
  <2>4. Charged /\ GenerationsAccounted
    BY DEF Init, Charged, GenerationsAccounted, Limit
  <2> QED BY <2>1, <2>2, <2>3, <2>4 DEF Induction
<1>2. Induction /\ [Next]_vars => Induction'
  <2> SUFFICES ASSUME Induction, [Next]_vars PROVE Induction'
    OBVIOUS
  <2>1. ASSUME NEW c \in Callers, NEW r \in Requests, Call(c, r) PROVE Induction'
    BY <2>1, CallPreserves
  <2>2. ASSUME NEW c \in Callers, CallerStep(c) PROVE Induction'
    BY <2>2, SubmitPreserves, ClosePreserves DEF CallerStep
  <2>3. CASE Take
    BY <2>3, TakePreserves
  <2>4. CASE WorkerExits
    BY <2>4 DEF WorkerExits, Induction, WorkTyped, Queued, CloserAlone, Charged,
       GenerationsAccounted, Kind, work, callers
  <2>5. CASE Serves
    BY <2>5, ServesShape, EndsPreserves, GoesOnPreserves
  <2>6. CASE UNCHANGED vars
    BY <2>6 DEF vars, lifecycle, work, callers, Induction, WorkTyped, Queued, CloserAlone,
       Charged, GenerationsAccounted, Kind
  <2> QED BY <2>1, <2>2, <2>3, <2>4, <2>5, <2>6 DEF Next, WorkerStep, Serves
<1> QED BY <1>1, <1>2, PTL DEF Spec

\* An answer states every generation made for it, and none exceeds its recovery's limit
\* (_complete_json_sync, _complete_patch_sync).
THEOREM GenerationsCounted == Spec => []GenerationsAccounted
<1>1. Induction => GenerationsAccounted
  BY DEF Induction
<1> QED BY <1>1, WorkerInductionHolds, PTL

\* When close() has returned the provider is quiet, however many callers raced it (close).
THEOREM ClosedIsQuiet == Spec => []QuietAfterClose
<1>1. Induction => QuietAfterClose
  <2> SUFFICES ASSUME Induction, NEW c \in Callers, at[c] = "closed"
               PROVE  /\ shut /\ worker = "exited" /\ queue = <<>> /\ current = Nobody
                      /\ \A d \in Callers : at[d] \notin {"waiting", "marked", "releasing"}
    BY DEF QuietAfterClose
  <2>1. shut /\ worker = "exited" /\ queue = <<>> /\ current = Nobody
    BY DEF Induction, CloserAlone
  <2>2. \A d \in Callers : at[d] \notin Engaged
    BY <2>1, WorkerAssumption DEF Induction, Queued
  <2>3. \A d \in Callers : at[d] # "marked"
    BY <2>1 DEF Induction, CloserAlone
  <2> QED BY <2>1, <2>2, <2>3 DEF Engaged
<1> QED BY <1>1, WorkerInductionHolds, PTL

-----------------------------------------------------------------------------
(* The hidden-state cache.                                                 *)

Distinct(s) == \A i, j \in 1..Len(s) : s[i] = s[j] => i = j

\* s holds the last entries of longer, in their order.
EndOf(s, longer) ==
  /\ Len(s) <= Len(longer)
  /\ \A i \in 1..Len(s) : s[i] = longer[Len(longer) - Len(s) + i]

\* A key that is new is appended; one that is there moves to the end from its one place.
LEMMA LatestShape ==
  ASSUME NEW s \in Seq(Prompts), Distinct(s), NEW p \in Prompts
  PROVE  /\ Latest(s, p) \in Seq(Prompts) /\ Distinct(Latest(s, p))
         /\ (\A i \in 1..Len(s) : s[i] # p) => Latest(s, p) = Append(s, p)
         /\ \A k \in 1..Len(s) : s[k] = p =>
              /\ Len(Latest(s, p)) = Len(s)
              /\ \A i \in 1..Len(s) :
                   Latest(s, p)[i] = IF i < k THEN s[i] ELSE IF i < Len(s) THEN s[i + 1] ELSE p
<1>0. Len(s) \in Nat /\ DOMAIN s = 1..Len(s) /\ \A i \in 1..Len(s) : s[i] \in Prompts
  OBVIOUS
<1>1. CASE \A i \in 1..Len(s) : s[i] # p
  <2>1. Latest(s, p) = Append(s, p)
    BY <1>0, <1>1 DEF Latest, Others
  <2>2. /\ Append(s, p) \in Seq(Prompts) /\ Len(Append(s, p)) = Len(s) + 1
        /\ Append(s, p)[Len(s) + 1] = p /\ \A i \in 1..Len(s) : Append(s, p)[i] = s[i]
    BY AppendProperties
  <2>3. Distinct(Append(s, p))
    BY <1>0, <1>1, <2>2 DEF Distinct
  <2> QED BY <1>1, <2>1, <2>2, <2>3
<1>2. CASE \E i \in 1..Len(s) : s[i] = p
  <2>1. PICK k \in 1..Len(s) : s[k] = p /\ k = CHOOSE i \in DOMAIN s : s[i] = p
    BY <1>0, <1>2
  <2> DEFINE rest == [i \in 1..(Len(s) - 1) |-> IF i < k THEN s[i] ELSE s[i + 1]]
  <2>2. Others(s, p) = rest
    BY <1>0, <1>2, <2>1 DEF Others
  <2>3. rest \in Seq(Prompts) /\ Len(rest) = Len(s) - 1
    <3>1. rest \in [1..(Len(s) - 1) -> Prompts] /\ Len(s) - 1 \in Nat
      BY <1>0, <2>1
    <3> QED BY <3>1
  <2>4. \A i \in 1..(Len(s) - 1) : rest[i] = IF i < k THEN s[i] ELSE s[i + 1]
    OBVIOUS
  <2> HIDE DEF rest
  <2>a. /\ Append(rest, p) \in Seq(Prompts) /\ Len(Append(rest, p)) = Len(s)
        /\ \A i \in 1..(Len(s) - 1) : Append(rest, p)[i] = rest[i]
        /\ Append(rest, p)[Len(s)] = p
    <3>1. /\ Append(rest, p) \in Seq(Prompts) /\ Len(Append(rest, p)) = Len(rest) + 1
          /\ \A i \in 1..Len(rest) : Append(rest, p)[i] = rest[i]
          /\ Append(rest, p)[Len(rest) + 1] = p
      BY <2>3, AppendProperties
    <3> QED BY <1>0, <2>1, <2>3, <3>1
  <2>5. /\ Latest(s, p) = Append(rest, p) /\ Latest(s, p) \in Seq(Prompts)
        /\ Len(Latest(s, p)) = Len(s)
    BY <2>2, <2>a DEF Latest
  <2>6. \A i \in 1..Len(s) :
          Latest(s, p)[i] = IF i < k THEN s[i] ELSE IF i < Len(s) THEN s[i + 1] ELSE p
    BY <1>0, <2>1, <2>4, <2>5, <2>a
  <2>7. Distinct(Latest(s, p))
    <3> DEFINE from(i) == IF i < k THEN i ELSE IF i < Len(s) THEN i + 1 ELSE k
    <3>1. \A i, j \in 1..Len(s) : from(i) = from(j) => i = j
      BY <1>0, <2>1
    <3>2. \A i \in 1..Len(s) : from(i) \in 1..Len(s) /\ Latest(s, p)[i] = s[from(i)]
      BY <1>0, <2>1, <2>6
    <3> HIDE DEF from
    <3>3. \A i, j \in 1..Len(s) : Latest(s, p)[i] = Latest(s, p)[j] => i = j
      BY <3>1, <3>2 DEF Distinct
    <3> QED BY <2>5, <3>3 DEF Distinct
  <2>8. \A l \in 1..Len(s) : s[l] = p => l = k
    BY <2>1 DEF Distinct
  <2> QED BY <1>2, <2>5, <2>6, <2>7, <2>8
<1> QED BY <1>0, <1>1, <1>2

\* An answered prompt moves to the end of both, whether it was cached or not.
LEMMA LatestKeepsEnd ==
  ASSUME NEW s \in Seq(Prompts), NEW longer \in Seq(Prompts), Distinct(longer),
         EndOf(s, longer), NEW p \in Prompts
  PROVE  Distinct(s) /\ EndOf(Latest(s, p), Latest(longer, p))
<1>0. /\ Len(s) \in Nat /\ Len(longer) \in Nat /\ Len(s) <= Len(longer)
      /\ \A i \in 1..Len(s) : s[i] = longer[Len(longer) - Len(s) + i]
  BY DEF EndOf
<1>1. Distinct(s)
  BY <1>0 DEF Distinct
<1> DEFINE off == Len(longer) - Len(s)
<1>2. CASE \E k \in 1..Len(s) : s[k] = p
  <2>1. PICK k \in 1..Len(s) : s[k] = p
    BY <1>2
  <2>2. off + k \in 1..Len(longer) /\ longer[off + k] = p
    BY <1>0, <2>1
  <2>3. /\ Len(Latest(s, p)) = Len(s) /\ Len(Latest(longer, p)) = Len(longer)
        /\ \A i \in 1..Len(s) :
             Latest(s, p)[i] = IF i < k THEN s[i] ELSE IF i < Len(s) THEN s[i + 1] ELSE p
        /\ \A i \in 1..Len(longer) :
             Latest(longer, p)[i] = IF i < off + k THEN longer[i]
                                    ELSE IF i < Len(longer) THEN longer[i + 1] ELSE p
    BY <1>1, <2>1, <2>2, LatestShape
  <2>4. ASSUME NEW i \in 1..Len(s)
        PROVE  Latest(s, p)[i] = Latest(longer, p)[off + i]
    <3>1. off \in Nat /\ off + i \in 1..Len(longer) /\ off + Len(s) = Len(longer)
      BY <1>0
    <3>2. CASE i < k
      <4>1. Latest(s, p)[i] = s[i] /\ Latest(longer, p)[off + i] = longer[off + i]
        BY <1>0, <2>1, <2>3, <3>1, <3>2
      <4> QED BY <1>0, <4>1
    <3>3. CASE ~(i < k) /\ i < Len(s)
      <4>1. /\ Latest(s, p)[i] = s[i + 1] /\ i + 1 \in 1..Len(s)
            /\ Latest(longer, p)[off + i] = longer[off + i + 1]
        BY <1>0, <2>1, <2>3, <3>1, <3>3
      <4>2. off + i + 1 = off + (i + 1)
        BY <1>0, <3>1
      <4> QED BY <1>0, <4>1, <4>2
    <3>4. CASE i = Len(s)
      BY <1>0, <2>1, <2>3, <3>1, <3>4
    <3> QED BY <1>0, <3>2, <3>3, <3>4
  <2> QED BY <1>0, <1>1, <2>3, <2>4 DEF EndOf
<1>3. CASE \A k \in 1..Len(s) : s[k] # p
  <2>1. Latest(s, p) = Append(s, p)
    BY <1>1, <1>3, LatestShape
  <2>2. /\ Len(Latest(s, p)) = Len(s) + 1 /\ Latest(s, p)[Len(s) + 1] = p
        /\ \A i \in 1..Len(s) : Latest(s, p)[i] = s[i]
    BY <2>1, AppendProperties
  <2>3. CASE \A j \in 1..Len(longer) : longer[j] # p
    <3>1. Latest(longer, p) = Append(longer, p)
      BY <2>3, LatestShape
    <3>2. /\ Len(Latest(longer, p)) = Len(longer) + 1 /\ Latest(longer, p)[Len(longer) + 1] = p
          /\ \A i \in 1..Len(longer) : Latest(longer, p)[i] = longer[i]
      BY <3>1, AppendProperties
    <3>3. ASSUME NEW i \in 1..(Len(s) + 1)
          PROVE  Latest(s, p)[i] = Latest(longer, p)[off + i]
      <4>1. CASE i = Len(s) + 1
        <5>1. off + i = Len(longer) + 1
          BY <1>0, <4>1
        <5> QED BY <2>2, <3>2, <4>1, <5>1
      <4>2. CASE i # Len(s) + 1
        <5>1. i \in 1..Len(s) /\ off + i \in 1..Len(longer)
          BY <1>0, <4>2
        <5> QED BY <1>0, <2>2, <3>2, <5>1
      <4> QED BY <4>1, <4>2
    <3>4. Len(Latest(longer, p)) - Len(Latest(s, p)) = off
      BY <1>0, <2>2, <3>2
    <3>5. Len(Latest(s, p)) <= Len(Latest(longer, p))
      BY <1>0, <2>2, <3>2
    <3>6. ASSUME NEW i \in 1..Len(Latest(s, p))
          PROVE  Latest(s, p)[i] =
                   Latest(longer, p)[Len(Latest(longer, p)) - Len(Latest(s, p)) + i]
      <4>1. i \in 1..(Len(s) + 1)
        BY <2>2
      <4> QED BY <3>3, <3>4, <4>1
    <3> QED BY <1>1, <3>5, <3>6 DEF EndOf
  <2>4. CASE \E j \in 1..Len(longer) : longer[j] = p
    <3>1. PICK j \in 1..Len(longer) : longer[j] = p
      BY <2>4
    <3>2. j <= off
      <4>1. ASSUME j > off PROVE FALSE
        <5>1. j - off \in 1..Len(s) /\ s[j - off] = longer[off + (j - off)]
          BY <1>0, <3>1, <4>1
        <5> QED BY <1>0, <1>3, <3>1, <5>1
      <4> QED BY <1>0, <3>1, <4>1
    <3>3. /\ Len(Latest(longer, p)) = Len(longer)
          /\ \A i \in 1..Len(longer) :
               Latest(longer, p)[i] = IF i < j THEN longer[i]
                                      ELSE IF i < Len(longer) THEN longer[i + 1] ELSE p
      BY <3>1, LatestShape
    <3>4. ASSUME NEW i \in 1..(Len(s) + 1)
          PROVE  Latest(s, p)[i] = Latest(longer, p)[off - 1 + i]
      <4>1. CASE i = Len(s) + 1
        <5>1. off - 1 + i = Len(longer)
          BY <1>0, <4>1
        <5> QED BY <1>0, <2>2, <3>1, <3>3, <4>1, <5>1
      <4>2. CASE i # Len(s) + 1
        <5>1. /\ i \in 1..Len(s) /\ off - 1 + i \in 1..Len(longer)
              /\ ~(off - 1 + i < j) /\ off - 1 + i < Len(longer) /\ off - 1 + i + 1 = off + i
          BY <1>0, <3>1, <3>2, <4>2
        <5>2. Latest(longer, p)[off - 1 + i] = longer[off - 1 + i + 1]
          BY <3>3, <5>1
        <5> QED BY <1>0, <2>2, <5>1, <5>2
      <4> QED BY <4>1, <4>2
    <3>5. Len(Latest(longer, p)) - Len(Latest(s, p)) = off - 1
      BY <1>0, <2>2, <3>3
    <3>6. Len(Latest(s, p)) <= Len(Latest(longer, p))
      BY <1>0, <2>2, <3>1, <3>2, <3>3
    <3>7. ASSUME NEW i \in 1..Len(Latest(s, p))
          PROVE  Latest(s, p)[i] =
                   Latest(longer, p)[Len(Latest(longer, p)) - Len(Latest(s, p)) + i]
      <4>1. i \in 1..(Len(s) + 1)
        BY <2>2
      <4> QED BY <3>4, <3>5, <4>1
    <3> QED BY <1>1, <3>6, <3>7 DEF EndOf
  <2> QED BY <2>3, <2>4
<1> QED BY <1>1, <1>2, <1>3

\* The entry that is least recently used goes.
LEMMA TrimmedKeepsEnd ==
  ASSUME NEW s \in Seq(Prompts), NEW longer \in Seq(Prompts), EndOf(s, longer),
         Len(s) <= MaxEntries + 1
  PROVE  /\ Trimmed(s) \in Seq(Prompts) /\ Len(Trimmed(s)) <= MaxEntries
         /\ Len(Trimmed(s)) = IF Len(s) > MaxEntries THEN MaxEntries ELSE Len(s)
         /\ EndOf(Trimmed(s), longer)
         /\ \A i \in 1..Len(Trimmed(s)) : \E j \in 1..Len(s) : Trimmed(s)[i] = s[j]
<1>0. Len(s) \in Nat /\ Len(longer) \in Nat /\ MaxEntries \in Nat
  BY WorkerAssumption
<1>1. CASE Len(s) > MaxEntries
  <2>1. /\ Trimmed(s) = Tail(s) /\ s # <<>>
        /\ Tail(s) \in Seq(Prompts) /\ Len(Tail(s)) = Len(s) - 1
        /\ \A i \in 1..Len(Tail(s)) : Tail(s)[i] = s[i + 1] /\ i + 1 \in 1..Len(s)
    BY <1>0, <1>1 DEF Trimmed
  <2> QED BY <1>0, <1>1, <2>1 DEF EndOf
<1>2. CASE ~(Len(s) > MaxEntries)
  BY <1>0, <1>2 DEF Trimmed
<1> QED BY <1>1, <1>2

\* What makes CacheFaithful inductive: no prompt is in the history twice, so that a key has
\* one place.
HiddenInduction == HiddenTyped /\ CacheFaithful /\ Distinct(recency)

LEMMA HiddenPreserved ==
  ASSUME HiddenInduction, UNCHANGED hidden
  PROVE  HiddenInduction'
BY DEF HiddenInduction, HiddenTyped, CacheFaithful, Distinct, hidden

\* How many of n prompts the cache keeps.
Kept(n) == IF n < MaxEntries THEN n ELSE MaxEntries

LEMMA CapturePreserves ==
  ASSUME Induction, HiddenInduction, current # Nobody, Hit \/ Extract
  PROVE  HiddenInduction'
<1>0. /\ cache \in Seq(Prompts) /\ recency \in Seq(Prompts) /\ Distinct(recency)
      /\ Len(cache) \in Nat /\ Len(cache) <= MaxEntries /\ MaxEntries \in Nat
      /\ DOMAIN cache = 1..Len(cache) /\ EndOf(cache, recency) /\ Len(recency) \in Nat
      /\ Len(cache) = Kept(Len(recency))
      /\ artifacts \subseteq Prompts /\ \A i \in 1..Len(cache) : cache[i] \in artifacts
  <2>1. /\ cache \in Seq(Prompts) /\ recency \in Seq(Prompts) /\ Distinct(recency)
        /\ Len(cache) <= MaxEntries /\ artifacts \subseteq Prompts /\ MaxEntries \in Nat
    BY WorkerAssumption DEF HiddenInduction, HiddenTyped
  <2>2. Len(cache) \in Nat /\ Len(recency) \in Nat /\ DOMAIN cache = 1..Len(cache)
    BY <2>1
  <2>3. /\ Len(cache) = Kept(Len(recency))
        /\ \A i \in DOMAIN cache : cache[i] \in artifacts
        /\ \A i \in DOMAIN cache : cache[i] = recency[Len(recency) - Len(cache) + i]
    BY DEF HiddenInduction, CacheFaithful, Kept
  <2>4. EndOf(cache, recency)
    <3>1. Len(cache) <= Len(recency)
      BY <2>1, <2>2, <2>3 DEF Kept
    <3>2. \A i \in 1..Len(cache) : cache[i] = recency[Len(recency) - Len(cache) + i]
      BY <2>2, <2>3, Zenon
    <3> QED BY <3>1, <3>2 DEF EndOf
  <2> QED BY <2>1, <2>2, <2>3, <2>4
<1>1. Prompt \in Prompts
  <2>1. current \in Callers /\ stage = "capture" /\ Kind = "capture"
    BY DEF Induction, WorkTyped, Charged, Hit, Extract
  <2>2. req[current] \in Requests
    BY <2>1 DEF Induction, WorkTyped
  <2> QED BY <2>1, <2>2 DEF Requests, Kind, Prompt
<1> DEFINE moved == Latest(cache, Prompt)
<1>2. /\ Distinct(cache) /\ EndOf(moved, recency')
      /\ recency' \in Seq(Prompts) /\ Distinct(recency')
  <2>1. recency' = Latest(recency, Prompt)
    BY DEF Hit, Extract
  <2> QED BY <1>0, <1>1, <2>1, LatestKeepsEnd, LatestShape
<1>3. moved \in Seq(Prompts) /\ Len(moved) \in Nat /\ DOMAIN moved = 1..Len(moved)
  <2>1. moved \in Seq(Prompts)
    BY <1>0, <1>1, <1>2, LatestShape
  <2> QED BY <2>1
<1>4. CASE Hit
  <2>1. cache' = moved /\ artifacts' = artifacts
    BY <1>4 DEF Hit, Moved
  <2>2. PICK k \in 1..Len(cache) : cache[k] = Prompt
    BY <1>0, <1>4 DEF Hit, Cached
  <2>3. /\ Len(moved) = Len(cache)
        /\ \A i \in 1..Len(cache) :
             moved[i] = IF i < k THEN cache[i]
                        ELSE IF i < Len(cache) THEN cache[i + 1] ELSE Prompt
    BY <1>0, <1>1, <1>2, <2>2, LatestShape
  <2>4. Len(recency') = Len(recency)
    <3>1. /\ Len(recency) - Len(cache) + k \in 1..Len(recency)
          /\ recency[Len(recency) - Len(cache) + k] = Prompt
      BY <1>0, <2>2 DEF EndOf
    <3>2. recency' = Latest(recency, Prompt)
      BY <1>4 DEF Hit
    <3> QED BY <1>0, <1>1, <3>1, <3>2, LatestShape
  <2> HIDE DEF moved
  <2>5. \A i \in 1..Len(moved) : moved[i] \in artifacts
    BY <1>0, <2>2, <2>3
  <2> QED BY <1>0, <1>2, <1>3, <2>1, <2>3, <2>4, <2>5
          DEF HiddenInduction, HiddenTyped, CacheFaithful, EndOf, Kept
<1>5. CASE Extract
  <2>1. /\ artifacts' = artifacts \cup {Prompt}
        /\ cache' = IF MaxEntries = 0 THEN cache ELSE Trimmed(moved)
        /\ moved = Append(cache, Prompt)
    <3>1. \A i \in 1..Len(cache) : cache[i] # Prompt
      BY <1>0, <1>5 DEF Extract, Cached
    <3> QED BY <1>0, <1>1, <1>2, <1>5, <3>1, LatestShape DEF Extract
  <2>2. /\ Len(moved) = Len(cache) + 1
        /\ \A i \in 1..Len(moved) : moved[i] \in artifacts'
    BY <1>0, <2>1
  <2>5. /\ Len(recency') \in Nat /\ Len(recency') >= Len(recency)
        /\ Len(recency) < MaxEntries => Len(recency') = Len(recency) + 1
    <3>1. recency' = Latest(recency, Prompt)
      BY <1>5 DEF Extract
    <3>2. CASE \E j \in 1..Len(recency) : recency[j] = Prompt
      <4>1. PICK j \in 1..Len(recency) : recency[j] = Prompt
        BY <3>2
      <4>2. Len(recency') = Len(recency)
        BY <1>0, <1>1, <3>1, <4>1, LatestShape
      <4>3. ~(Len(recency) < MaxEntries)
        <5>1. ASSUME Len(recency) < MaxEntries PROVE FALSE
          <6>1. Len(cache) = Len(recency) /\ cache[j] = recency[j]
            BY <1>0, <5>1 DEF EndOf, Kept
          <6> QED BY <1>0, <1>5, <4>1, <6>1 DEF Extract, Cached
        <5> QED BY <5>1
      <4> QED BY <1>0, <4>2, <4>3
    <3>3. CASE \A j \in 1..Len(recency) : recency[j] # Prompt
      <4>1. recency' = Append(recency, Prompt)
        BY <1>0, <1>1, <3>1, <3>3, LatestShape
      <4> QED BY <1>0, <4>1
    <3> QED BY <3>2, <3>3
  <2> HIDE DEF moved
  <2>3. CASE MaxEntries = 0
    BY <1>0, <1>1, <1>2, <2>1, <2>3, <2>5
       DEF HiddenInduction, HiddenTyped, CacheFaithful, EndOf, Kept
  <2>4. CASE MaxEntries # 0
    <3>1. /\ Trimmed(moved) \in Seq(Prompts) /\ Len(Trimmed(moved)) <= MaxEntries
          /\ EndOf(Trimmed(moved), recency')
          /\ \A i \in 1..Len(Trimmed(moved)) :
               \E j \in 1..Len(moved) : Trimmed(moved)[i] = moved[j]
      BY <1>0, <1>2, <1>3, <2>2, TrimmedKeepsEnd
    <3>2. cache' = Trimmed(moved) /\ DOMAIN cache' = 1..Len(cache')
      BY <2>1, <2>4, <3>1
    <3>3. \A i \in DOMAIN cache' : cache'[i] \in artifacts'
      BY <2>2, <3>1, <3>2
    <3>4. Len(cache') = Kept(Len(recency'))
      <4>1. Len(Trimmed(moved)) = IF Len(moved) > MaxEntries THEN MaxEntries ELSE Len(moved)
        BY <1>0, <1>2, <1>3, <2>2, TrimmedKeepsEnd
      <4> QED BY <1>0, <2>2, <2>5, <3>2, <4>1 DEF Kept
    <3> QED BY <1>0, <1>1, <1>2, <2>1, <3>1, <3>2, <3>3, <3>4
            DEF HiddenInduction, HiddenTyped, CacheFaithful, EndOf, Kept
  <2> QED BY <2>3, <2>4
<1> QED BY <1>4, <1>5

LEMMA HiddenInductive ==
  /\ Init => HiddenInduction
  /\ Induction /\ HiddenInduction /\ [Next]_vars => HiddenInduction'
<1>1. ASSUME Init PROVE HiddenInduction
  BY <1>1, WorkerAssumption DEF Init, HiddenInduction, HiddenTyped, CacheFaithful, Distinct
<1>2. ASSUME Induction, HiddenInduction, [Next]_vars PROVE HiddenInduction'
  <2>1. CASE current # Nobody /\ (Hit \/ Extract)
    BY <1>2, <2>1, CapturePreserves
  <2>2. CASE Release
    BY <1>2, <2>2, WorkerAssumption
       DEF Release, HiddenInduction, HiddenTyped, CacheFaithful, Distinct
  <2>3. CASE UNCHANGED hidden
    BY <1>2, <2>3, HiddenPreserved
  <2>4. \/ current # Nobody /\ (Hit \/ Extract)
        \/ Release
        \/ UNCHANGED hidden
    BY <1>2 DEF Next, CallerStep, WorkerStep, Call, Submit, Shutdown, Join, Take, WorkerExits,
       Predict, EnsureLoaded, LoadFails, GenerationFails, Parsed, Rejected, CaptureFails, vars
  <2> QED BY <2>1, <2>2, <2>3, <2>4
<1> QED BY <1>1, <1>2

\* The worker, its callers and the cache have their types, for any number of them.
THEOREM WorkerTyped == Spec => []TypeOK
<1>1. Induction /\ HiddenInduction => TypeOK
  BY DEF Induction, HiddenInduction, TypeOK
<1> QED BY <1>1, WorkerInductionHolds, HiddenInductive, PTL DEF Spec

\* The cache holds the latest of the prompts answered, as many as fit, and never one whose
\* features are not on disk, for any capacity, 0 included (_capture_policy_hidden_sync).
THEOREM CacheIsFaithful == Spec => []CacheFaithful
<1>1. HiddenInduction => CacheFaithful
  BY DEF HiddenInduction
<1> QED BY <1>1, WorkerInductionHolds, HiddenInductive, PTL DEF Spec
=============================================================================
