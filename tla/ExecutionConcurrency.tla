------------------------ MODULE ExecutionConcurrency ------------------------
(***************************************************************************)
(* Executions in one main process in regular mode: the concurrency queue,  *)
(* the reservations of its slots, the registry of active executions, what  *)
(* the workflow runner does with them, a user who stops executions and the *)
(* shutdown (packages/cli/src/concurrency/, active-executions.ts,          *)
(* workflow-runner.ts, executions/execution.service.ts).                   *)
(*                                                                         *)
(* A run is one call of ActiveExecutions.add: the first run of an          *)
(* execution creates it, the others resume it from its wait.  Code between *)
(* two awaits is one action.                                               *)
(***************************************************************************)
EXTENDS Integers, Sequences, FiniteSets, SequencesExt

CONSTANTS
  Executions,   \* executions in a mode the limit applies to
  Limit,        \* the concurrency limit, the queue's first capacity
  MaxRuns,      \* bound: runs of one execution
  Waiters,      \* the executions whose workflow may put them to wait
  StopHits      \* the situations in which a user stops executions

Situations == {"queued", "starting", "running", "parking", "resting"}

ASSUME ConcurrencyAssumption ==
  /\ Limit \in Nat \ {0} /\ MaxRuns \in Nat \ {0} /\ Waiters \subseteq Executions
  /\ StopHits \subseteq Situations

VARIABLES
  status,    \* the execution's status in the database
  at,        \* where each run is
  cc,        \* concurrency control: enabled, the queue and its capacity, the runs with a slot
  entries,   \* activeExecutions: the run an entry is for
  parked,    \* the runs whose entry has status waiting
  attached,  \* the runs whose entry knows the workflow execution
  promise,   \* each entry's postExecutePromise: pending, rejected, or resolved with whose data
  stop       \* how far a user's stop of an execution is

vars == <<status, at, cc, entries, parked, attached, promise, stop>>

Runs == Executions \X (1..MaxRuns)
NoRun == <<>>
ExecutionOf(r) == r[1]
RunsOf(e) == {r \in Runs : ExecutionOf(r) = e}

Init ==
  /\ status = [e \in Executions |-> "none"]
  /\ at = [r \in Runs |-> "none"]
  /\ cc = [enabled |-> TRUE, capacity |-> Limit, queue |-> <<>>, slots |-> {}]
  /\ entries = [e \in Executions |-> NoRun]
  /\ parked = {} /\ attached = {}
  /\ promise = [r \in Runs |-> "pending"]
  /\ stop = [e \in Executions |-> "no"]

Goto(r, pc) == at' = [at EXCEPT ![r] = pc]
SetStatus(e, s) == status' = [status EXCEPT ![e] = s]

-----------------------------------------------------------------------------
(***************************************************************************)
(* ConcurrencyQueue and its service.                                       *)
(***************************************************************************)
\* Mutated: a run that has to wait takes no capacity.
EnqueueUncounted(c, r) ==
  IF ~c.enabled THEN [c EXCEPT !.slots = @ \cup {r}]
  ELSE IF c.capacity > 0 THEN [c EXCEPT !.capacity = @ - 1, !.slots = @ \cup {r}]
  ELSE [c EXCEPT !.queue = Append(@, r)]

\* throttle: a run is let through, or waits its turn.
Enqueue(c, r) ==
  IF ~c.enabled THEN [c EXCEPT !.slots = @ \cup {r}]
  ELSE IF c.capacity > 0 THEN [c EXCEPT !.capacity = @ - 1, !.slots = @ \cup {r}]
  ELSE [c EXCEPT !.capacity = @ - 1, !.queue = Append(@, r)]

ResolveNext(c) ==
  IF c.queue = <<>> THEN c
  ELSE [c EXCEPT !.queue = Tail(@), !.slots = @ \cup {Head(c.queue)}]

\* Mutated: the slot is not handed on.
ReleaseOnly(c, r) ==
  IF r \in c.slots /\ c.enabled THEN [c EXCEPT !.slots = @ \ {r}, !.capacity = @ + 1]
  ELSE [c EXCEPT !.slots = @ \ {r}]

\* ConcurrencyCapacityReservation.release, and dequeue: the slot goes to the next run.
Release(c, r) ==
  IF r \in c.slots /\ c.enabled
  THEN ResolveNext([c EXCEPT !.slots = @ \ {r}, !.capacity = @ + 1])
  ELSE [c EXCEPT !.slots = @ \ {r}]

Queued(c, e) == {i \in DOMAIN c.queue : ExecutionOf(c.queue[i]) = e}

\* remove: the queued run leaves, gives back what it took, and the next one starts.
RemoveQueued(c, e) ==
  IF c.enabled /\ Queued(c, e) # {}
  THEN LET i == CHOOSE j \in Queued(c, e) : \A k \in Queued(c, e) : j <= k
       IN ResolveNext([c EXCEPT !.queue = RemoveAt(@, i), !.capacity = @ + 1])
  ELSE c

Disable(c) == [c EXCEPT !.enabled = FALSE]

\* removeAll: each queued run in turn; nothing once disabled.
RemoveAll(c) ==
  IF c.enabled
  THEN FoldLeft(LAMBDA d, r : RemoveQueued(d, ExecutionOf(r)), c, c.queue)
  ELSE c

\* Mutated: the queue is emptied while it still hands its slots on.
EmptyThenDisable(c) == Disable(RemoveAll(c))

\* ActiveExecutions.shutdown: disabled first, emptied then.
CloseQueue(c) == RemoveAll(Disable(c))

-----------------------------------------------------------------------------
(***************************************************************************)
(* ActiveExecutions.add.                                                   *)
(***************************************************************************)
\* The row of a new execution is written.
Create(e) ==
  /\ at[<<e, 1>>] = "none"
  /\ SetStatus(e, "new") /\ Goto(<<e, 1>>, "created")
  /\ UNCHANGED <<cc, entries, parked, attached, promise, stop>>

\* The wait tracker, a webhook or a sub-workflow's end finds the execution waiting.
Resume(r) ==
  LET e == ExecutionOf(r) IN
  /\ r[2] > 1 /\ at[r] = "none" /\ at[<<e, r[2] - 1>>] # "none"
  /\ status[e] = "waiting"
  /\ Goto(r, "created")
  /\ UNCHANGED <<status, cc, entries, parked, attached, promise, stop>>

Throttle(r) ==
  /\ at[r] = "created"
  /\ cc' = Enqueue(cc, r) /\ Goto(r, "throttled")
  /\ UNCHANGED <<status, entries, parked, attached, promise, stop>>

\* Mutated: a run that fails keeps its slot.
GiveUpHolding(r) == Goto(r, "over") /\ UNCHANGED cc

\* Mutated: the slot is released, the error not thrown on.
GiveUpAndGoOn(r) == Goto(r, "claimed") /\ cc' = Release(cc, r)

GiveUp(r) == Goto(r, "over") /\ cc' = Release(cc, r)

\* A run with a slot writes that it runs: a new one whatever the row says, a resumed
\* one if the execution still waits.  Otherwise, or if the write fails, it gives up.
ClaimExecution(r) ==
  LET e == ExecutionOf(r) IN
  /\ at[r] = "throttled" /\ r \in cc.slots
  /\ \/ /\ r[2] = 1 \/ status[e] = "waiting"
        /\ SetStatus(e, "running") /\ Goto(r, "claimed") /\ UNCHANGED cc
     \/ GiveUp(r) /\ UNCHANGED status
  /\ UNCHANGED <<entries, parked, attached, promise, stop>>

Register(r) ==
  /\ at[r] = "claimed"
  /\ entries' = [entries EXCEPT ![ExecutionOf(r)] = r] /\ Goto(r, "starting")
  /\ UNCHANGED <<status, cc, parked, attached, promise, stop>>

-----------------------------------------------------------------------------
(***************************************************************************)
(* WorkflowRunner.run and runMainProcess.                                  *)
(***************************************************************************)
\* The credentials, or the context of the execution, cannot be used.
PreflightFails(r) ==
  /\ at[r] = "starting" /\ Goto(r, "failing")
  /\ UNCHANGED <<status, cc, entries, parked, attached, promise, stop>>

SetRunning(r) ==
  /\ at[r] = "starting"
  /\ SetStatus(ExecutionOf(r), "running") /\ Goto(r, "started")
  /\ UNCHANGED <<cc, entries, parked, attached, promise, stop>>

\* A database error before the try of runMainProcess, or while the failure is recorded,
\* rejects run(): the entry stays, its promise pending.  It also stays when processError
\* takes an error for a cancellation.
Abandon(r) ==
  /\ at[r] \in {"starting", "started", "failing", "running", "parking"}
  /\ Goto(r, "abandoned")
  /\ UNCHANGED <<status, cc, entries, parked, attached, promise, stop>>

\* The workflow starts, then it is attached to the entry.  Without an entry that throws:
\* the workflow runs on, and nobody waits for its end.
StartWorkflow(r) ==
  LET b == entries[ExecutionOf(r)] IN
  /\ at[r] = "started"
  /\ IF b = NoRun THEN Goto(r, "detached") /\ UNCHANGED attached
     ELSE Goto(r, "running") /\ attached' = attached \cup {b}
  /\ UNCHANGED <<status, cc, entries, parked, promise, stop>>

\* It does not start: its issues are recorded first, any other error after the entry is
\* finalized (failExecution, processError).
StartFails(r) ==
  /\ at[r] = "started" /\ \E pc \in {"failing", "erred"} : Goto(r, pc)
  /\ UNCHANGED <<status, cc, entries, parked, attached, promise, stop>>

\* The promise of the workflow is rejected.
WorkflowRejects(r) ==
  /\ at[r] \in {"running", "parking"} /\ Goto(r, "erred")
  /\ UNCHANGED <<status, cc, entries, parked, attached, promise, stop>>

\* putExecutionToWait: the entry, by the execution's id, waits.
Park(r) ==
  LET e == ExecutionOf(r) IN
  /\ at[r] = "running" /\ e \in Waiters /\ r[2] < MaxRuns /\ entries[e] # NoRun
  /\ parked' = parked \cup {entries[e]} /\ Goto(r, "parking")
  /\ UNCHANGED <<status, cc, entries, attached, promise, stop>>

\* hookFunctionsSave: a canceled execution stays as it is.
Save(r) ==
  IF status[ExecutionOf(r)] = "canceled" THEN UNCHANGED status
  ELSE SetStatus(ExecutionOf(r),
         CASE at[r] = "parking" -> "waiting" [] at[r] = "cancelled" -> "canceled" [] OTHER -> "done")

\* The hooks save the run, or fail to.
SaveRun(r) ==
  /\ at[r] \in {"running", "parking", "cancelled", "failing", "unsaved", "detached"}
  /\ Save(r) \/ (at[r] # "failing" /\ UNCHANGED status)
  /\ Goto(r, IF at[r] \in {"unsaved", "detached"} THEN "over" ELSE "saved")
  /\ UNCHANGED <<cc, entries, parked, attached, promise, stop>>

\* finalizeExecution and the reaction to the promise it settles: whichever entry the
\* execution has is resolved, its slot released, and the entry dropped unless it waits.
\* processError saves the run only then.
Finalize(r) ==
  LET e == ExecutionOf(r)
      b == entries[e] IN
  /\ at[r] \in {"saved", "erred"} /\ Goto(r, IF at[r] = "saved" THEN "over" ELSE "unsaved")
  /\ IF b # NoRun /\ promise[b] = "pending"
     THEN /\ promise' = [promise EXCEPT ![b] = IF b = r THEN "own" ELSE "other's"]
          /\ cc' = Release(cc, b)
          /\ entries' = IF b \in parked THEN entries ELSE [entries EXCEPT ![e] = NoRun]
     ELSE UNCHANGED <<promise, cc, entries>>
  /\ UNCHANGED <<status, parked, attached, stop>>

-----------------------------------------------------------------------------
(***************************************************************************)
(* Stopping executions, and the shutdown.                                  *)
(***************************************************************************)
\* stopExecution for a set of executions, up to the slots: an entry that waits is just
\* dropped, any other cancelled and rejected; the hooks then save it as canceled, after
\* what they have saved already.
StopExecutions(S) ==
  LET hit == {entries[e] : e \in S} \ ({NoRun} \cup parked) IN
  /\ entries' = [e \in Executions |-> IF e \in S THEN NoRun ELSE entries[e]]
  /\ promise' = [r \in Runs |-> IF r \in hit /\ promise[r] = "pending" THEN "rejected" ELSE promise[r]]
  /\ at' = [r \in Runs |->
              IF r \in hit \cap attached /\ at[r] \in {"running", "saved"} THEN "cancelled" ELSE at[r]]

\* stopExecution of one, with the release that follows.
StopOne(e) ==
  /\ StopExecutions({e})
  /\ cc' = IF entries[e] \in Runs \ parked THEN Release(cc, entries[e]) ELSE cc

\* The situation a stop meets.
Situation(e) ==
  IF Queued(cc, e) # {} THEN "queued"
  ELSE IF entries[e] \in parked THEN IF at[entries[e]] \in {"parking", "saved"} THEN "parking" ELSE "resting"
  ELSE IF entries[e] \in attached THEN "running"
  ELSE "starting"

\* ExecutionService.stop reads the execution.
ReadToStop(e) ==
  /\ StopHits # {} /\ stop[e] = "no" /\ status[e] \in {"new", "running", "waiting"}
  /\ stop' = [stop EXCEPT ![e] = "read"]
  /\ UNCHANGED <<status, at, cc, entries, parked, attached, promise>>

\* stopInRegularMode: out of the queue, or out of the active executions.
StopInRegularMode(e) ==
  /\ stop[e] = "read" /\ Situation(e) \in StopHits
  /\ stop' = [stop EXCEPT ![e] = "acted"]
  /\ IF cc.enabled /\ Queued(cc, e) # {}
     THEN cc' = RemoveQueued(cc, e) /\ UNCHANGED <<entries, promise, at>>
     ELSE StopOne(e)
  /\ UNCHANGED <<status, parked, attached>>

\* stopBeforeRun or stopDuringRun writes the status.
WriteCanceled(e) ==
  /\ stop[e] = "acted"
  /\ SetStatus(e, "canceled") /\ stop' = [stop EXCEPT ![e] = "done"]
  /\ UNCHANGED <<at, cc, entries, parked, attached, promise>>

\* The timeout of a run, set once its workflow is attached, stops the execution.
TimesOut(r) ==
  /\ \/ at[r] \in {"running", "parking", "cancelled"}
     \/ r \in attached /\ at[r] \in {"saved", "erred", "unsaved", "abandoned"}
  /\ StopOne(ExecutionOf(r))
  /\ UNCHANGED <<status, parked, attached, stop>>

\* Shutdown, waiting for what runs or cancelling all of it.
Shutdown ==
  /\ cc.enabled
  /\ \/ /\ StopExecutions(Executions)
        /\ cc' = [CloseQueue(cc) EXCEPT !.slots = @ \ {entries[e] : e \in Executions}]
     \/ /\ entries' = [e \in Executions |-> IF entries[e] \in parked THEN NoRun ELSE entries[e]]
        /\ cc' = CloseQueue(cc)
        /\ UNCHANGED <<at, promise>>
  /\ UNCHANGED <<status, parked, attached, stop>>

RunNext(r) ==
  \/ Throttle(r) \/ ClaimExecution(r) \/ Register(r)
  \/ PreflightFails(r) \/ SetRunning(r) \/ Abandon(r) \/ StartWorkflow(r) \/ StartFails(r)
  \/ WorkflowRejects(r) \/ SaveRun(r) \/ Finalize(r)

Next ==
  \/ \E e \in Executions : Create(e) \/ ReadToStop(e) \/ StopInRegularMode(e) \/ WriteCanceled(e)
  \/ \E r \in Runs : RunNext(r) \/ Resume(r) \/ Park(r) \/ TimesOut(r)
  \/ Shutdown

Spec == Init /\ [][Next]_vars

\* The process goes on with what it has begun; workflows end.
Fairness == \A r \in Runs : WF_vars(RunNext(r))

FairSpec == Spec /\ Fairness

-----------------------------------------------------------------------------
Statuses == {"none", "new", "running", "waiting", "canceled", "done"}
Places == {"none", "created", "throttled", "claimed", "starting", "started", "failing", "running",
           "parking", "cancelled", "erred", "unsaved", "detached", "saved", "abandoned", "over"}

\* Type correctness.
TypeOK ==
  /\ status \in [Executions -> Statuses]
  /\ at \in [Runs -> Places]
  /\ cc \in [enabled : BOOLEAN, capacity : {n \in Int : n <= Limit}, queue : Seq(Runs), slots : SUBSET Runs]
  /\ entries \in [Executions -> Runs \cup {NoRun}]
  /\ parked \subseteq Runs /\ attached \subseteq Runs
  /\ promise \in [Runs -> {"pending", "rejected", "own", "other's"}]
  /\ stop \in [Executions -> {"no", "read", "acted", "done"}]

\* Until the shutdown every unit of capacity is free, with a run that has a slot, or
\* owed to a run that queues, whatever is released, removed or given up in between.
CapacityConserved ==
  cc.enabled => cc.capacity + Cardinality(cc.slots) + Len(cc.queue) = Limit

\* "should limit concurrency" (concurrency-queue.test.ts:10): no more runs are let
\* through than the limit.
LimitKept == cc.enabled => Cardinality(cc.slots) <= Limit

\* A run that was queued when the shutdown began never starts in this process, whatever
\* ends or is cancelled meanwhile.
NothingStartsInShutdown ==
  [][\A i \in DOMAIN cc.queue : ~cc'.enabled => cc.queue[i] \notin cc'.slots]_vars

\* A workflow that runs, its execution registered and not told to stop, has its slot.
RunsHoldSlots ==
  \A r \in attached : at[r] = "running" /\ promise[r] = "pending" => r \in cc.slots

\* A run removed from the queue is never resolved: it stays where it is.
Removed(r) == at[r] = "throttled" /\ r \notin ToSet(cc.queue) \cup cc.slots

Quiet == \A r \in Runs : at[r] \in {"none", "abandoned", "over"} \/ Removed(r)

\* A run put to wait whose entry was dropped, or taken over by the run that resumes it,
\* before it was finalized: nothing releases its slot any more.
Stranded(r) == at[r] = "over" /\ r \in cc.slots /\ r \in parked /\ entries[ExecutionOf(r)] # r

\* A run whose run() was rejected, or ended, with the entry left: nothing but a user's
\* stop, or a timeout, releases its slot.
Abandoned(r) == at[r] = "abandoned" /\ r \in cc.slots

Lost(r) == Stranded(r) \/ Abandoned(r)

\* However runs end - finished, failed, timed out, stopped - their slots come back, but
\* those of waits cut short and of runs abandoned by the runner.
SlotsComeBack == Quiet /\ cc.enabled => \A r \in cc.slots : Lost(r)

\* Every run that queues is let go or removed, unless a slot is lost or the process shuts
\* down.
QueuedRunsStart ==
  \A r \in Runs :
    at[r] = "throttled" /\ r \in ToSet(cc.queue) ~>
      r \notin ToSet(cc.queue) \/ ~cc.enabled \/ \E q \in Runs : Lost(q)
=============================================================================
