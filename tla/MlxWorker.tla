------------------------------ MODULE MlxWorker ------------------------------
(***************************************************************************)
(* MLXLocalProvider: callers on any thread hand every model operation to   *)
(* one worker thread (a ThreadPoolExecutor of one), which loads the model  *)
(* when it first needs it, generates with a bounded recovery, and keeps    *)
(* the hidden-state features of recent prompts.  close() releases the      *)
(* model on the worker and shuts the executor down.                        *)
(*                                                                         *)
(* A generation is a unit of tokens and an outcome.  A prompt stands for   *)
(* its digest: model and schema of one provider do not change.  No         *)
(* function given to the worker calls back into the provider, so the       *)
(* inline branch of run_on_affinity is not taken, and temperatures are     *)
(* not negative.                                                           *)
(***************************************************************************)
EXTENDS Naturals, Sequences

CONSTANTS Callers, Nobody,
          Prompts, NoPrompt,
          MaxEntries,    \* hidden_cache_max_entries
          MaxCalls       \* bound on the calls of one caller

ASSUME WorkerAssumption ==
  /\ Nobody \notin Callers /\ NoPrompt \notin Prompts
  /\ MaxEntries \in Nat /\ MaxCalls \in Nat

VARIABLES
  closed,     \* _closed, guarded by _lifecycle_lock
  shut,       \* the executor takes no more work
  worker,     \* its thread
  queue,      \* callers whose work is submitted, in order
  current,    \* the caller whose work the worker does
  stage,      \* how far it is
  total,      \* tokens counted by that work
  model,      \* _model and _tokenizer are there
  cache,      \* keys of _hidden_cache, least recently used first
  artifacts,  \* prompts whose features hidden_store holds
  at, req,    \* where each caller is, and its request
  reported,   \* tokens its answer states
  calls,
  spent,      \* history: generations done for its request
  recency     \* history: prompts answered since the last release, latest last

lifecycle == <<closed, shut, worker>>
hidden == <<cache, artifacts, recency>>
work == <<stage, total, model>>
callers == <<at, req, reported, calls, spent>>
vars == <<lifecycle, queue, current, work, hidden, callers>>

Requests ==
  [kind : {"load", "predict", "json", "patch", "close"}, prompt : {NoPrompt}]
    \cup [kind : {"capture"}, prompt : Prompts]

Waiting == {"checked", "waiting", "marked", "releasing", "released", "joining"}
Answered == {"returned", "failed", "refused", "closed"}
Attempts == {"first", "second", "continuation"}
Stages == {"none", "begun", "capture"} \cup Attempts

Init ==
  /\ closed = FALSE /\ shut = FALSE /\ worker = "running"
  /\ queue = <<>> /\ current = Nobody
  /\ stage = "none" /\ total = 0 /\ model = FALSE
  /\ cache = <<>> /\ artifacts = {} /\ recency = <<>>
  /\ at = [c \in Callers |-> "idle"]
  /\ req = [c \in Callers |-> [kind |-> "load", prompt |-> NoPrompt]]
  /\ reported = [c \in Callers |-> 0]
  /\ calls = [c \in Callers |-> 0]
  /\ spent = [c \in Callers |-> 0]

Goto(c, place) == at' = [at EXCEPT ![c] = place]

-----------------------------------------------------------------------------
(* The callers.                                                            *)

\* The closed check, under _lifecycle_lock; a second close() has nothing to do.
Call(c, r) ==
  /\ at[c] \in Answered \cup {"idle"} /\ calls[c] < MaxCalls
  /\ calls' = [calls EXCEPT ![c] = @ + 1]
  /\ req' = [req EXCEPT ![c] = r]
  /\ spent' = [spent EXCEPT ![c] = 0]
  /\ reported' = [reported EXCEPT ![c] = 0]
  /\ closed' = (closed \/ r.kind = "close")
  /\ Goto(c, IF r.kind = "close" THEN (IF closed THEN "returned" ELSE "marked")
             ELSE IF closed THEN "refused" ELSE "checked")
  /\ UNCHANGED <<shut, worker, queue, current, work, hidden>>

\* After the lock: the executor takes the work, or has been shut down meanwhile.
Submit(c) ==
  /\ at[c] \in {"checked", "marked"}
  /\ IF shut THEN Goto(c, "refused") /\ UNCHANGED queue
     ELSE /\ queue' = Append(queue, c)
          /\ Goto(c, IF at[c] = "marked" THEN "releasing" ELSE "waiting")
  /\ UNCHANGED <<lifecycle, current, work, hidden, req, reported, calls, spent>>

\* A mutant: cancel_futures=True.
ShutdownDropping(c) ==
  /\ at[c] = "released" /\ Goto(c, "joining")
  /\ shut' = TRUE /\ queue' = <<>>
  /\ UNCHANGED <<closed, worker, current, work, hidden, req, reported, calls, spent>>

\* executor.shutdown: work submitted before it is still done.
Shutdown(c) ==
  /\ at[c] = "released" /\ Goto(c, "joining")
  /\ shut' = TRUE
  /\ UNCHANGED <<closed, worker, queue, current, work, hidden, req, reported, calls, spent>>

\* A mutant: wait=False.
JoinAtOnce(c) ==
  /\ at[c] = "joining" /\ Goto(c, "closed")
  /\ UNCHANGED <<lifecycle, queue, current, work, hidden, req, reported, calls, spent>>

\* wait=True: close() returns when the worker thread has ended.
Join(c) ==
  /\ at[c] = "joining" /\ worker = "exited" /\ Goto(c, "closed")
  /\ UNCHANGED <<lifecycle, queue, current, work, hidden, req, reported, calls, spent>>

-----------------------------------------------------------------------------
(* The worker.                                                             *)

Kind == req[current].kind

Take ==
  /\ worker = "running" /\ current = Nobody /\ queue # <<>>
  /\ current' = Head(queue) /\ queue' = Tail(queue)
  /\ stage' = "begun" /\ total' = 0
  /\ UNCHANGED <<lifecycle, model, hidden, callers>>

WorkerExits ==
  /\ worker = "running" /\ current = Nobody /\ queue = <<>> /\ shut
  /\ worker' = "exited"
  /\ UNCHANGED <<closed, shut, queue, current, work, hidden, callers>>

Finish(place, tokens) ==
  /\ Goto(current, place)
  /\ reported' = [reported EXCEPT ![current] = tokens]
  /\ current' = Nobody /\ stage' = "none" /\ total' = 0
  /\ UNCHANGED <<lifecycle, queue, req, calls>>

\* An exception travels to the caller through its future.
Raise == Finish("failed", 0)

\* A function that needs neither the model nor the cache: the policy's prediction.
Predict ==
  /\ stage = "begun" /\ Kind = "predict"
  /\ \/ Finish("returned", 0)
     \/ Raise
  /\ UNCHANGED <<model, hidden, spent>>

NeedsModel == stage = "begun" /\ Kind \in {"load", "json", "patch", "capture"}

EnsureLoaded ==
  /\ NeedsModel
  /\ model' = TRUE
  /\ IF Kind = "load" THEN Finish("returned", 0)
     ELSE /\ stage' = IF Kind = "capture" THEN "capture" ELSE "first"
          /\ UNCHANGED <<lifecycle, queue, current, total, at, req, reported, calls>>
  /\ UNCHANGED <<hidden, spent>>

LoadFails ==
  /\ NeedsModel /\ ~model
  /\ Raise
  /\ UNCHANGED <<model, hidden, spent>>

Release ==
  /\ stage = "begun" /\ Kind = "close"
  /\ model' = FALSE /\ cache' = <<>> /\ recency' = <<>>
  /\ Finish("released", 0)
  /\ UNCHANGED <<artifacts, spent>>

-----------------------------------------------------------------------------
(* One generation: it raises, it parses, or it does not; "truncated" does  *)
(* not parse, has used up max_tokens and leaves an envelope to continue.   *)

Generate == stage \in Attempts /\ spent' = [spent EXCEPT ![current] = @ + 1]

GenerationFails == Generate /\ Raise /\ UNCHANGED <<model, hidden>>

\* A mutant: the answer of a continuation states its own tokens only.
CountedLast == IF stage = "continuation" THEN 1 ELSE total + 1

Counted == total + 1

Parsed == Generate /\ Finish("returned", Counted) /\ UNCHANGED <<model, hidden>>

Recovery(outcome) ==
  IF stage = "first" THEN "second"
  ELSE IF stage = "second" /\ Kind = "patch" /\ outcome = "truncated" THEN "continuation"
  ELSE "none"

Rejected(outcome) ==
  /\ Generate
  /\ IF Recovery(outcome) = "none" THEN Raise
     ELSE /\ stage' = Recovery(outcome) /\ total' = Counted
          /\ UNCHANGED <<lifecycle, queue, current, at, req, reported, calls>>
  /\ UNCHANGED <<model, hidden>>

-----------------------------------------------------------------------------
(* Hidden-state capture.                                                   *)

\* An ordered dictionary has a key at one place at most; taken out, the rest closes up.
Others(s, p) ==
  IF \E i \in DOMAIN s : s[i] = p
  THEN LET k == CHOOSE i \in DOMAIN s : s[i] = p
       IN  [i \in 1..(Len(s) - 1) |-> IF i < k THEN s[i] ELSE s[i + 1]]
  ELSE s
Latest(s, p) == Append(Others(s, p), p)

\* Mutants: a hit does not move its entry; one entry too many is kept; one too few.
InPlace(s, p) == IF \E i \in DOMAIN s : s[i] = p THEN s ELSE Append(s, p)
TrimmedLate(s) == IF Len(s) > MaxEntries + 1 THEN Tail(s) ELSE s
TrimmedEarly(s) == IF Len(s) >= MaxEntries THEN Tail(s) ELSE s

Moved(s, p) == Latest(s, p)
Trimmed(s) == IF Len(s) > MaxEntries THEN Tail(s) ELSE s

Prompt == req[current].prompt
Cached == \E i \in DOMAIN cache : cache[i] = Prompt

Hit ==
  /\ stage = "capture" /\ Cached
  /\ cache' = Moved(cache, Prompt)
  /\ recency' = Latest(recency, Prompt)
  /\ Finish("returned", 0)
  /\ UNCHANGED <<artifacts, model, spent>>

\* The features are written before they are cached; the write verifies one that exists.
Extract ==
  /\ stage = "capture" /\ ~Cached
  /\ artifacts' = artifacts \cup {Prompt}
  /\ cache' = IF MaxEntries = 0 THEN cache ELSE Trimmed(Latest(cache, Prompt))
  /\ recency' = Latest(recency, Prompt)
  /\ Finish("returned", 0)
  /\ UNCHANGED <<model, spent>>

\* The backend or the store raises.
CaptureFails ==
  /\ stage = "capture" /\ ~Cached
  /\ Raise
  /\ UNCHANGED <<hidden, model, spent>>

-----------------------------------------------------------------------------
CallerStep(c) == Submit(c) \/ Shutdown(c) \/ Join(c)

WorkerStep ==
  \/ Take \/ WorkerExits
  \/ /\ current # Nobody
     /\ \/ Predict \/ EnsureLoaded \/ LoadFails \/ Release
        \/ GenerationFails \/ Parsed
        \/ \E outcome \in {"invalid", "truncated"} : Rejected(outcome)
        \/ Hit \/ Extract \/ CaptureFails

Next ==
  \/ \E c \in Callers : CallerStep(c) \/ \E r \in Requests : Call(c, r)
  \/ WorkerStep

Spec == Init /\ [][Next]_vars

\* Threads run: what was begun goes on.  Nobody has to call.
FairSpec == Spec /\ WF_vars(WorkerStep) /\ \A c \in Callers : WF_vars(CallerStep(c))

-----------------------------------------------------------------------------
WorkTyped ==
  /\ closed \in BOOLEAN /\ shut \in BOOLEAN /\ worker \in {"running", "exited"}
  /\ queue \in Seq(Callers) /\ current \in Callers \cup {Nobody}
  /\ stage \in Stages /\ (stage = "none" <=> current = Nobody)
  /\ total \in Nat /\ model \in BOOLEAN
  /\ at \in [Callers -> Waiting \cup Answered \cup {"idle"}]
  /\ req \in [Callers -> Requests]
  /\ reported \in [Callers -> Nat] /\ spent \in [Callers -> Nat]
  /\ calls \in [Callers -> 0..MaxCalls]

HiddenTyped ==
  /\ cache \in Seq(Prompts) /\ Len(cache) <= MaxEntries
  /\ artifacts \subseteq Prompts /\ recency \in Seq(Prompts)

TypeOK == WorkTyped /\ HiddenTyped

\* Every cached prompt has its artifact on disk, whatever write failed, and the cache
\* keeps exactly the prompts answered last, as many of them as fit: eviction takes neither
\* a more recent one nor one too many (_capture_policy_hidden_sync).
CacheFaithful ==
  /\ \A i \in DOMAIN cache : cache[i] \in artifacts
  /\ Len(cache) = IF Len(recency) < MaxEntries THEN Len(recency) ELSE MaxEntries
  /\ \A i \in DOMAIN cache : cache[i] = recency[Len(recency) - Len(cache) + i]

Limit(kind) == IF kind = "patch" THEN 3 ELSE IF kind = "json" THEN 2 ELSE 0

\* An answer states the tokens of every generation made for it, the rejected ones
\* included, and no request costs more than its recovery allows: two for JSON, three
\* for a patch (_complete_json_sync, _complete_patch_sync).
GenerationsAccounted ==
  \A c \in Callers :
    /\ spent[c] <= Limit(req[c].kind)
    /\ at[c] = "returned" => reported[c] = spent[c]

\* When close() has returned, nothing is queued or running, no caller waits for an
\* answer, and nothing can be submitted: the worker is gone (close).
QuietAfterClose ==
  (\E c \in Callers : at[c] = "closed") =>
    /\ shut /\ worker = "exited"
    /\ queue = <<>> /\ current = Nobody
    /\ \A c \in Callers : at[c] \notin {"waiting", "marked", "releasing"}

Engaged == {"waiting", "releasing"}
Closing == {"marked", "releasing", "released", "joining", "closed"}

\* A caller whose work is submitted is in the queue once, or is being served.
Queued ==
  /\ \A i \in 1..Len(queue) : at[queue[i]] \in Engaged /\ queue[i] # current
  /\ \A i, j \in 1..Len(queue) : queue[i] = queue[j] => i = j
  /\ current # Nobody => at[current] \in Engaged
  /\ \A c \in Callers : at[c] \in Engaged =>
        c = current \/ \E i \in 1..Len(queue) : queue[i] = c

\* One caller closes; the executor stops after the release, the worker after the queue.
CloserAlone ==
  /\ \A c, d \in Callers : at[c] \in Closing /\ at[d] \in Closing => c = d
  /\ \A c \in Callers :
        /\ at[c] \in Closing => closed
        /\ at[c] \in {"checked", "waiting"} => req[c].kind # "close"
        /\ at[c] = "closed" => worker = "exited"
        /\ shut => at[c] \notin {"marked", "releasing", "released"}
  /\ shut => closed
  /\ worker = "exited" => shut /\ queue = <<>> /\ current = Nobody

\* Nothing is generated before the worker takes a request; then each stage has its count.
Charged ==
  /\ \A c \in Callers :
        at[c] \in {"checked", "marked", "waiting", "releasing"} /\ c # current => spent[c] = 0
  /\ current # Nobody =>
        /\ total = spent[current]
        /\ stage \notin {"second", "continuation"} => total = 0
        /\ stage = "second" => total = 1
        /\ stage = "continuation" => total = 2 /\ Kind = "patch"
        /\ stage \in Attempts => Kind \in {"json", "patch"}
        /\ stage = "capture" => Kind = "capture"

\* The inductive invariant of the worker's life: callers, queue and worker agree on who
\* is served, and close() has one owner (run_on_affinity, close).
Induction == WorkTyped /\ Queued /\ CloserAlone /\ Charged /\ GenerationsAccounted

\* Every call of the provider, close() included, is answered: no caller hangs on a
\* future that a shutdown dropped or waits for a worker that does not end.
EveryCallAnswered == \A c \in Callers : at[c] \in Waiting ~> at[c] \in Answered

\* tests/test_mlx_provider.py:365: after close() the model is not loaded.
ReleasedWhenClosed == (\E c \in Callers : at[c] = "closed") => ~model
=============================================================================
