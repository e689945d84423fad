-------------------------- MODULE EngineExecution --------------------------
(***************************************************************************)
(* One workflow execution on the engine (packages/@n8n/engine): the caller *)
(* that starts it, the orchestration workers that plan its steps, the step *)
(* workers that run them, the two work queues between them and the step    *)
(* and execution tables they share.                                        *)
(*                                                                         *)
(* Every await on the database is an action of its own, so any other       *)
(* worker may run between two of them.  A transaction of the step store is *)
(* one action (EngineStepStore shows that its row lock makes it one), and a *)
(* lifecycle event goes out with the next operation its handler starts.    *)
(*                                                                         *)
(* A queue is the set of the messages published and not yet consumed: it   *)
(* covers the in-memory queue's order and every other order.  A message    *)
(* may be delivered again when Redeliver is TRUE.                          *)
(***************************************************************************)
EXTENDS EngineSettlement

CONSTANTS
  Graphs,             \* the graphs a caller may ask to run
  TriggerPayloads,    \* the trigger outputs a caller may supply
  ExecutorOutputs,    \* the outputs an executor may return
  OrchWorkers,        \* consumers of the orchestration queue
  StepWorkers,        \* consumers of the step queue
  Redeliver,          \* whether a consumed message may be delivered again
  Faults              \* the faults that may happen: "fail", "throw", "crash"

ASSUME ParametersAssumption ==
  /\ \A g \in Graphs : IsGraph(g)
  /\ TriggerPayloads \subseteq [OutputSlots -> Values]
  /\ ExecutorOutputs \subseteq [OutputSlots -> Values]
  /\ Redeliver \in BOOLEAN
  /\ Faults \subseteq {"fail", "throw", "crash"}

VARIABLES
  graph,      \* the graph the caller asks to run; immutable
  exec,       \* the execution row: [status, trigger]
  caller,     \* how far StartExecutionService.start has got
  rows,       \* the step rows, a function from the keys that have one
  orchQueue,  \* messages of the orchestration queue
  stepQueue,  \* messages of the step queue: keys of steps that are ready
  orch,       \* what each orchestration worker is doing
  runner,     \* what each step worker is doing
  events      \* the lifecycle events announced so far

vars == <<graph, exec, caller, rows, orchQueue, stepQueue, orch, runner, events>>

-----------------------------------------------------------------------------
(***************************************************************************)
(* Keys, messages, events and the workers' local state.                    *)
(***************************************************************************)
NoKey == <<>>

ExecStatuses == {"absent", "queued", "running", "completed", "failed"}

Enqueued == [type |-> "execution:enqueued", key |-> NoKey]
Settled(key) == [type |-> "step:settled", key |-> key]

ExecEvent(type) == [type |-> type, key |-> NoKey]
StepEvent(type, key) == [type |-> type, key |-> key]

IdleOrch == [ pc |-> "idle", key |-> NoKey, terms |-> {}, toQueue |-> {}, toSkip |-> {},
              created |-> {}, queued |-> FALSE, outcome |-> "none" ]

IdleRunner == [pc |-> "idle", key |-> NoKey, run |-> Failed]

Loops == [g \in Graphs |-> DeriveLoops(g)]
Reachable == [g \in Graphs |-> ReachableNodes(g)]

Init ==
  /\ graph \in Graphs
  /\ exec = [status |-> "absent", trigger |-> NoOutputs]
  /\ caller = "idle"
  /\ rows = [k \in {} |-> [status |-> "queued", outputs |-> NoOutputs]]
  /\ orchQueue = {}
  /\ stepQueue = {}
  /\ orch = [w \in OrchWorkers |-> IdleOrch]
  /\ runner = [w \in StepWorkers |-> IdleRunner]
  /\ events = {}

-----------------------------------------------------------------------------
(***************************************************************************)
(* The step store.                                                         *)
(***************************************************************************)
AnyFailed == \E k \in DOMAIN rows : rows[k].status = "failed"

SettledKeys == {k \in DOMAIN rows : IsSettled(rows[k])}

NewRow(status, outputs) == [status |-> status, outputs |-> outputs]

\* Mutated: steps are planned after a failure too.
CreatableAfterFailure(keys) == keys \ DOMAIN rows

\* createSteps: the keys it inserts, none once a step of the execution failed.
Creatable(keys) == IF AnyFailed THEN {} ELSE keys \ DOMAIN rows

InsertRows(inserted) ==
  rows' = [k \in DOMAIN rows \cup DOMAIN inserted |->
             IF k \in DOMAIN rows THEN rows[k] ELSE inserted[k]]

\* A compare-and-set on one row's status.
SetStatus(key, status, outputs) ==
  rows' = [rows EXCEPT ![key] = NewRow(status, outputs)]

\* Mutated: the sweep cancels the running steps too.
CancelUnsettledSteps ==
  rows' = [k \in DOMAIN rows |->
             IF IsSettled(rows[k]) THEN rows[k] ELSE NewRow("cancelled", NoOutputs)]

\* Mutated: the sweep cancels every step that did not complete.
CancelIncompleteSteps ==
  rows' = [k \in DOMAIN rows |->
             IF rows[k].status = "completed" THEN rows[k] ELSE NewRow("cancelled", NoOutputs)]

\* Mutated: the sweep cancels nothing.
CancelNoSteps == UNCHANGED rows

CancelQueuedSteps ==
  rows' = [k \in DOMAIN rows |->
             IF rows[k].status = "queued" THEN NewRow("cancelled", NoOutputs) ELSE rows[k]]

RowSummaries(keys) == [k \in keys \cap DOMAIN rows |-> rows[k]]

\* finishExecution: a compare-and-set on "running".
FinishExecution(status) ==
  exec' = IF exec.status = "running" THEN [exec EXCEPT !.status = status] ELSE exec

-----------------------------------------------------------------------------
(***************************************************************************)
(* The queues and the workers' steps.                                      *)
(***************************************************************************)
\* The in-flight messages after m was handed to a consumer.
Consume(queue, m) == {queue \ {m}} \cup (IF Redeliver THEN {queue} ELSE {})

OrchAt(w, pc) == orch[w].pc = pc
OrchGoto(w, pc) == orch' = [orch EXCEPT ![w].pc = pc]
OrchDone(w) == orch' = [orch EXCEPT ![w] = IdleOrch]

RunnerAt(w, pc) == runner[w].pc = pc
RunnerDone(w) == runner' = [runner EXCEPT ![w] = IdleRunner]

-----------------------------------------------------------------------------
(***************************************************************************)
(* StartExecutionService.start: persist the execution, then enqueue it.    *)
(***************************************************************************)
PersistExecution ==
  /\ caller = "idle"
  /\ exec.status = "absent"
  /\ ValidateExecutableGraph(graph)
  /\ \E payload \in TriggerPayloads :
       exec' = [status |-> "queued", trigger |-> payload]
  /\ caller' = "persisted"
  /\ UNCHANGED <<graph, rows, orchQueue, stepQueue, orch, runner, events>>

PublishEnqueued ==
  /\ caller = "persisted"
  /\ orchQueue' = orchQueue \cup {Enqueued}
  /\ caller' = "done"
  /\ UNCHANGED <<graph, exec, rows, stepQueue, orch, runner, events>>

-----------------------------------------------------------------------------
(***************************************************************************)
(* ExecutionStartHandler.handle.                                           *)
(***************************************************************************)
\* Mutated: the start handler takes an execution whatever its status.
ClaimAnyExecution(w) ==
  /\ OrchAt(w, "idle")
  /\ Enqueued \in orchQueue
  /\ orchQueue' \in Consume(orchQueue, Enqueued)
  /\ exec' = [exec EXCEPT !.status = "running"]
  /\ OrchGoto(w, "createTrigger")
  /\ UNCHANGED <<graph, caller, rows, stepQueue, runner, events>>

ClaimExecution(w) ==
  /\ OrchAt(w, "idle")
  /\ Enqueued \in orchQueue
  /\ orchQueue' \in Consume(orchQueue, Enqueued)
  /\ \/ /\ exec.status = "queued"
        /\ exec' = [exec EXCEPT !.status = "running"]
        /\ OrchGoto(w, "createTrigger")
     \/ /\ exec.status # "queued"
        /\ UNCHANGED <<exec, orch>>
  /\ UNCHANGED <<graph, caller, rows, stepQueue, runner, events>>

\* Load the execution, announce its start and record the trigger's outputs.
CreateTriggerStep(w) ==
  LET key == <<TriggerOf(graph), 0>>
      created == Creatable({key})
  IN  /\ OrchAt(w, "createTrigger")
      /\ events' = events \cup {ExecEvent("started")}
      /\ InsertRows([k \in created |-> NewRow("completed", exec.trigger)])
      /\ orch' = [orch EXCEPT ![w] =
                    IF created = {} THEN IdleOrch
                    ELSE [IdleOrch EXCEPT !.pc = "announceTrigger", !.key = key]]
      /\ UNCHANGED <<graph, exec, caller, orchQueue, stepQueue, runner>>

AnnounceTrigger(w) ==
  /\ OrchAt(w, "announceTrigger")
  /\ orchQueue' = orchQueue \cup {Settled(orch[w].key)}
  /\ OrchDone(w)
  /\ UNCHANGED <<graph, exec, caller, rows, stepQueue, runner, events>>

-----------------------------------------------------------------------------
(***************************************************************************)
(* StepSettledHandler.handle.                                              *)
(***************************************************************************)
\* Where the handler goes once it has loaded the step and the execution.
AfterLoad(row) ==
  IF row.status = "failed" THEN "fail"
  ELSE IF exec.status # "running" THEN "idle"
  ELSE IF row.status \in {"completed", "skipped"} THEN "checkFailed"
  ELSE "finishTerminals"

LoadSettled(w) ==
  /\ OrchAt(w, "idle")
  /\ \E m \in orchQueue \ {Enqueued} :
       /\ orchQueue' \in Consume(orchQueue, m)
       /\ LET pc == AfterLoad(rows[m.key])
          IN  orch' = [orch EXCEPT ![w] =
                         IF pc = "idle" THEN IdleOrch
                         ELSE [IdleOrch EXCEPT !.pc = pc, !.key = m.key]]
  /\ UNCHANGED <<graph, exec, caller, rows, stepQueue, runner, events>>

\* A failure elsewhere ends the execution before anything is planned.
CheckFailed(w) ==
  /\ OrchAt(w, "checkFailed")
  /\ OrchGoto(w, IF AnyFailed THEN "fail" ELSE "planTerminals")
  /\ UNCHANGED <<graph, exec, caller, rows, orchQueue, stepQueue, runner, events>>

\* planSuccessors: the last passes of the loops the candidates leave.
PlanTerminals(w) ==
  LET candidates == Successors(graph, {orch[w].key[1]})
      sources == ExitSourcesInto(graph, Loops[graph], candidates)
  IN  /\ OrchAt(w, "planTerminals")
      /\ orch' = [orch EXCEPT ![w].pc = "plan",
                              ![w].terms = LoadTerminalIterations(rows, sources)]
      /\ UNCHANGED <<graph, exec, caller, rows, orchQueue, stepQueue, runner, events>>

\* planSuccessors: load the rows the decision reads, and decide.
Plan(w) ==
  LET loops == Loops[graph]
      steps == RowSummaries(DecisionKeys(graph, loops, orch[w].key, orch[w].terms))
      plan == DecideSuccessors(graph, loops, orch[w].key, steps, orch[w].terms)
      nothing == plan.toQueue \cup plan.toSkip = {}
  IN  /\ OrchAt(w, "plan")
      /\ orch' = [orch EXCEPT
                    ![w] = [IdleOrch EXCEPT
                              !.pc = IF nothing THEN "finishTerminals" ELSE "create",
                              !.key = orch[w].key,
                              !.toQueue = plan.toQueue, !.toSkip = plan.toSkip]]
      /\ UNCHANGED <<graph, exec, caller, rows, orchQueue, stepQueue, runner, events>>

\* planSuccessors: one batch insert; only the rows it created are announced.
CreateSteps(w) ==
  LET created == Creatable(orch[w].toQueue \cup orch[w].toSkip)
      status(k) == IF k \in orch[w].toQueue THEN "queued" ELSE "skipped"
  IN  /\ OrchAt(w, "create")
      /\ InsertRows([k \in created |-> NewRow(status(k), NoOutputs)])
      /\ orch' = [orch EXCEPT
                    ![w].pc = IF created = {} THEN "finishTerminals" ELSE "announce",
                    ![w].toSkip = {},
                    ![w].created = created,
                    ![w].queued = created \cap orch[w].toQueue # {}]
      /\ UNCHANGED <<graph, exec, caller, orchQueue, stepQueue, runner, events>>

\* announceCreatedSteps: one message per created row.  The execution is not
\* done while the handler has queued a step.
AnnounceCreated(w) ==
  /\ OrchAt(w, "announce")
  /\ \E k \in orch[w].created :
       LET left == orch[w].created \ {k}
           last == IF orch[w].queued THEN IdleOrch
                   ELSE [IdleOrch EXCEPT !.pc = "finishTerminals", !.key = orch[w].key]
       IN  /\ \/ /\ k \in orch[w].toQueue
                 /\ stepQueue' = stepQueue \cup {k}
                 /\ UNCHANGED orchQueue
              \/ /\ k \notin orch[w].toQueue
                 /\ orchQueue' = orchQueue \cup {Settled(k)}
                 /\ UNCHANGED stepQueue
           /\ orch' = [orch EXCEPT ![w] =
                         IF left = {} THEN last ELSE [@ EXCEPT !.created = left]]
  /\ UNCHANGED <<graph, exec, caller, rows, runner, events>>

\* How many settled steps a finished execution owes, given how its loops ended.
Expected(terms) == CountExpectedSettledSteps(Loops[graph], Reachable[graph], terms)

\* finishExecutionIfDone: read how far each reachable loop has got, ...
FinishTerminals(w) ==
  LET heads == {l.batch : l \in ReachableLoops(Loops[graph], Reachable[graph])}
      terms == LoadTerminalIterations(rows, heads)
  IN  /\ OrchAt(w, "finishTerminals")
      /\ orch' = [orch EXCEPT ![w] =
                    IF Expected(terms) = StillRunning THEN IdleOrch
                    ELSE [IdleOrch EXCEPT !.pc = "count", !.terms = terms]]
      /\ UNCHANGED <<graph, exec, caller, rows, orchQueue, stepQueue, runner, events>>

\* Mutated: the execution ends one settled step early.
CountSettledEarly(w) ==
  /\ OrchAt(w, "count")
  /\ IF Cardinality(SettledKeys) + 1 < Expected(orch[w].terms)
     THEN OrchDone(w) ELSE OrchGoto(w, "outcome")
  /\ UNCHANGED <<graph, exec, caller, rows, orchQueue, stepQueue, runner, events>>

\* ... and count the settled steps against what that comes to.
CountSettled(w) ==
  /\ OrchAt(w, "count")
  /\ IF Cardinality(SettledKeys) < Expected(orch[w].terms)
     THEN OrchDone(w) ELSE OrchGoto(w, "outcome")
  /\ UNCHANGED <<graph, exec, caller, rows, orchQueue, stepQueue, runner, events>>

ReadOutcome(w) ==
  /\ OrchAt(w, "outcome")
  /\ orch' = [orch EXCEPT ![w] = [IdleOrch EXCEPT
                 !.pc = "finish", !.outcome = IF AnyFailed THEN "failed" ELSE "completed"]]
  /\ UNCHANGED <<graph, exec, caller, rows, orchQueue, stepQueue, runner, events>>

\* Only the worker whose write won announces the outcome.
Finish(w) ==
  /\ OrchAt(w, "finish")
  /\ FinishExecution(orch[w].outcome)
  /\ IF exec.status = "running" THEN OrchGoto(w, "announceEnd") ELSE OrchDone(w)
  /\ UNCHANGED <<graph, caller, rows, orchQueue, stepQueue, runner, events>>

AnnounceEnd(w) ==
  /\ OrchAt(w, "announceEnd")
  /\ events' = events \cup {ExecEvent(orch[w].outcome)}
  /\ OrchDone(w)
  /\ UNCHANGED <<graph, exec, caller, rows, orchQueue, stepQueue, runner>>

\* failExecution: record the failure, ...
FailExecution(w) ==
  /\ OrchAt(w, "fail")
  /\ FinishExecution("failed")
  /\ orch' = [orch EXCEPT ![w] = [IdleOrch EXCEPT
                 !.pc = "sweep",
                 !.outcome = IF exec.status = "running" THEN "failed" ELSE "none"]]
  /\ UNCHANGED <<graph, caller, rows, orchQueue, stepQueue, runner, events>>

\* ... announce it when this write won, and cancel what is still queued.
Sweep(w) ==
  /\ OrchAt(w, "sweep")
  /\ events' = events \cup {ExecEvent(o) : o \in {orch[w].outcome} \ {"none"}}
  /\ CancelQueuedSteps
  /\ OrchDone(w)
  /\ UNCHANGED <<graph, exec, caller, orchQueue, stepQueue, runner>>

-----------------------------------------------------------------------------
(***************************************************************************)
(* StepReadyHandler.handle.                                                *)
(***************************************************************************)
\* Mutated: a step worker takes a step whatever its status.
ClaimAnyStep(w) ==
  /\ RunnerAt(w, "idle")
  /\ ~AnyFailed
  /\ \E k \in stepQueue :
       /\ stepQueue' \in Consume(stepQueue, k)
       /\ SetStatus(k, "running", NoOutputs)
       /\ runner' = [runner EXCEPT ![w] = [IdleRunner EXCEPT !.pc = "load", !.key = k]]
  /\ UNCHANGED <<graph, exec, caller, orchQueue, orch, events>>

ClaimStep(w) ==
  /\ RunnerAt(w, "idle")
  /\ \E k \in stepQueue :
       /\ stepQueue' \in Consume(stepQueue, k)
       /\ \/ /\ rows[k].status = "queued" /\ ~AnyFailed
             /\ SetStatus(k, "running", NoOutputs)
             /\ runner' = [runner EXCEPT ![w] = [IdleRunner EXCEPT !.pc = "load", !.key = k]]
          \/ /\ rows[k].status # "queued" \/ AnyFailed
             /\ UNCHANGED <<rows, runner>>
  /\ UNCHANGED <<graph, exec, caller, orchQueue, orch, events>>

\* Load the execution.  The step stays "running" for good when its type has no
\* executor or the execution has ended.
LoadExecution(w) ==
  LET k == runner[w].key
  IN  /\ RunnerAt(w, "load")
      /\ \/ /\ HasExecutor(graph, k[1]) /\ exec.status = "running"
            /\ runner' = [runner EXCEPT ![w].pc = "run"]
         \/ /\ ~HasExecutor(graph, k[1]) \/ exec.status # "running"
            /\ RunnerDone(w)
      /\ UNCHANGED <<graph, exec, caller, rows, orchQueue, stepQueue, orch, events>>

\* What an executor may return; it may also fail.
ExecutorRuns ==
  {Succeeded(o) : o \in ExecutorOutputs} \cup (IF "fail" \in Faults THEN {Failed} ELSE {})

\* A batch step reads its loop inside the handler's try, so an error of the store
\* there fails the step.
BatchErrors == IF "throw" \in Faults THEN {Failed} ELSE {}

\* Mutated: the outcome is announced before it is recorded.
RunStepUnrecorded(w) ==
  LET k == runner[w].key
  IN  /\ RunnerAt(w, "run")
      /\ events' = events \cup {StepEvent("started", k)}
      /\ \E run \in StepRuns(graph, Loops[graph], rows, k, ExecutorRuns, BatchErrors) :
           runner' = [runner EXCEPT ![w].pc = "announce", ![w].run = run]
      /\ UNCHANGED <<graph, exec, caller, rows, orchQueue, stepQueue, orch>>

\* Announce the start, gather the inputs and run the step.  Everything read here
\* has settled, so one query or several read the same.
RunStep(w) ==
  LET k == runner[w].key
  IN  /\ RunnerAt(w, "run")
      /\ events' = events \cup {StepEvent("started", k)}
      /\ IF InputsReadable(graph, Loops[graph], rows, k)
         THEN \E run \in StepRuns(graph, Loops[graph], rows, k, ExecutorRuns, BatchErrors) :
                runner' = [runner EXCEPT ![w].pc = "record", ![w].run = run]
         ELSE RunnerDone(w)
      /\ UNCHANGED <<graph, exec, caller, rows, orchQueue, stepQueue, orch>>

\* completeStep or failStep, a compare-and-set on "running".
RecordStep(w) ==
  LET k == runner[w].key
      run == runner[w].run
  IN  /\ RunnerAt(w, "record")
      /\ IF rows[k].status = "running"
         THEN /\ SetStatus(k, IF run.ok THEN "completed" ELSE "failed", run.outputs)
              /\ runner' = [runner EXCEPT ![w].pc = "announce"]
         ELSE RunnerDone(w) /\ UNCHANGED rows
      /\ UNCHANGED <<graph, exec, caller, orchQueue, stepQueue, orch, events>>

\* The lifecycle event goes out before the settled message.
AnnounceStep(w) ==
  LET k == runner[w].key
  IN  /\ RunnerAt(w, "announce")
      /\ events' = events \cup {StepEvent(IF runner[w].run.ok THEN "completed" ELSE "failed", k)}
      /\ orchQueue' = orchQueue \cup {Settled(k)}
      /\ RunnerDone(w)
      /\ UNCHANGED <<graph, exec, caller, rows, stepQueue, orch>>

-----------------------------------------------------------------------------
(***************************************************************************)
(* Faults.  A store error makes a handler throw, and the queue drops its   *)
(* message.  A crash loses the queues and every handler, not the tables.   *)
(***************************************************************************)
OrchThrows(w) ==
  /\ "throw" \in Faults
  /\ ~OrchAt(w, "idle")
  /\ OrchDone(w)
  /\ UNCHANGED <<graph, exec, caller, rows, orchQueue, stepQueue, runner, events>>

RunnerThrows(w) ==
  /\ "throw" \in Faults
  /\ ~RunnerAt(w, "idle")
  /\ RunnerDone(w)
  /\ UNCHANGED <<graph, exec, caller, rows, orchQueue, stepQueue, orch, events>>

Crash ==
  /\ "crash" \in Faults
  /\ caller # "idle"
  /\ caller' = "done"
  /\ orchQueue' = {}
  /\ stepQueue' = {}
  /\ orch' = [w \in OrchWorkers |-> IdleOrch]
  /\ runner' = [w \in StepWorkers |-> IdleRunner]
  /\ UNCHANGED <<graph, exec, rows, events>>

-----------------------------------------------------------------------------
StartHandler(w) == ClaimExecution(w) \/ CreateTriggerStep(w) \/ AnnounceTrigger(w)

SettledHandler(w) ==
  \/ LoadSettled(w) \/ CheckFailed(w)
  \/ PlanTerminals(w) \/ Plan(w) \/ CreateSteps(w) \/ AnnounceCreated(w)
  \/ FinishTerminals(w) \/ CountSettled(w) \/ ReadOutcome(w)
  \/ Finish(w) \/ AnnounceEnd(w) \/ FailExecution(w) \/ Sweep(w)

ReadyHandler(w) ==
  \/ ClaimStep(w) \/ LoadExecution(w) \/ RunStep(w) \/ RecordStep(w) \/ AnnounceStep(w)

Next ==
  \/ PersistExecution
  \/ PublishEnqueued
  \/ \E w \in OrchWorkers : StartHandler(w) \/ SettledHandler(w) \/ OrchThrows(w)
  \/ \E w \in StepWorkers : ReadyHandler(w) \/ RunnerThrows(w)
  \/ Crash

Spec == Init /\ [][Next]_vars

\* Each worker goes on serving its queue, and each executor returns.  A fault
\* and the caller's first move are never owed.
Fairness ==
  /\ WF_vars(PublishEnqueued)
  /\ \A w \in OrchWorkers : WF_vars(StartHandler(w) \/ SettledHandler(w))
  /\ \A w \in StepWorkers : WF_vars(ReadyHandler(w))

FairSpec == Spec /\ Fairness

-----------------------------------------------------------------------------
(***************************************************************************)
(* Properties.                                                             *)
(***************************************************************************)
OrchPcs == {"idle", "createTrigger", "announceTrigger", "checkFailed", "planTerminals",
            "plan", "create", "announce", "finishTerminals", "count", "outcome", "finish",
            "announceEnd", "fail", "sweep"}
RunnerPcs == {"idle", "load", "run", "record", "announce"}

\* The steps a worker has claimed and not let go of.
Claimed(w) == runner[w].pc # "idle"
Unrecorded(w) == runner[w].pc \in {"load", "run", "record"}

Outputs == [OutputSlots -> Values]

Row == [status : StepStatuses, outputs : Outputs]

StepKeys == NodesOf(graph) \X Nat

OrchState == [ pc : OrchPcs, key : StepKeys \cup {NoKey}, terms : SUBSET StepKeys,
               toQueue : SUBSET StepKeys, toSkip : SUBSET StepKeys, created : SUBSET StepKeys,
               queued : BOOLEAN, outcome : {"none", "completed", "failed"} ]

RunnerState == [ pc : RunnerPcs, key : StepKeys \cup {NoKey},
                 run : [ok : BOOLEAN, outputs : Outputs] ]

\* Only a completed step has outputs.
RowsOK ==
  /\ rows = [k \in DOMAIN rows |-> rows[k]]
  /\ \A k \in DOMAIN rows :
       /\ k \in StepKeys /\ rows[k] \in Row
       /\ rows[k].status # "completed" => rows[k].outputs = NoOutputs

\* Type correctness of every table and worker.
TypeOK ==
  /\ graph \in Graphs
  /\ exec \in [status : ExecStatuses, trigger : Outputs]
  /\ caller \in {"idle", "persisted", "done"}
  /\ RowsOK
  /\ orch \in [OrchWorkers -> OrchState]
  /\ runner \in [StepWorkers -> RunnerState]

\* A message names a row that exists, and one announcing a settlement a row that
\* settled, so a consumer can always load what it is told of
\* (step-settled-handler.ts, announceCreatedSteps).
MessagesNameRows ==
  /\ stepQueue \subseteq DOMAIN rows
  /\ \A m \in orchQueue \ {Enqueued} : m.key \in SettledKeys /\ m = Settled(m.key)

\* No step runs twice at a time, however often its message is delivered, and the
\* row of a step a worker has not recorded yet is still that worker's
\* (step-ready-handler.ts: "Claim via CAS so a duplicate/redelivered event is a
\* no-op").
OneRunner ==
  /\ \A w \in StepWorkers : Unrecorded(w) => rows[runner[w].key].status = "running"
  /\ \A v, w \in StepWorkers :
       v # w /\ Claimed(v) /\ Claimed(w) => runner[v].key # runner[w].key

TellsTruth(e) ==
  LET status == IF e.key = NoKey THEN exec.status ELSE rows[e.key].status
  IN  IF e.type = "started" THEN status \in {"running", "completed", "failed"}
      ELSE status = e.type

\* The lifecycle events tell the truth at any moment: only a step that was
\* claimed was started, and each outcome announced is the one recorded
\* (step-settled-handler.ts: "Only the worker whose write won announces the
\* outcome").
EventsTruthful == \A e \in events : TellsTruth(e)

\* A settled step's fate and outputs never change (settlement.ts, rule 1).
SettledImmutable ==
  [][\A k \in SettledKeys : k \in DOMAIN rows' /\ rows'[k] = rows[k]]_vars

\* Once a step of the execution failed no step is planned and none starts to run
\* (typeorm-step-store.ts, createSteps and claimStep).
FailFast ==
  [][AnyFailed => /\ DOMAIN rows' = DOMAIN rows
                  /\ \A k \in DOMAIN rows :
                       rows'[k].status = "running" => rows[k].status = "running"]_vars

Idle ==
  /\ caller = "done" /\ orchQueue = {} /\ stepQueue = {}
  /\ \A w \in OrchWorkers : OrchAt(w, "idle")
  /\ \A w \in StepWorkers : RunnerAt(w, "idle")

\* Short of faults, and where every step's type has an executor, no work is lost
\* between concurrent handlers: when nothing is in flight the execution has ended,
\* and no step still waits to run.
NoWorkLost ==
  Idle => /\ exec.status \in {"completed", "failed"}
          /\ \A k \in DOMAIN rows : rows[k].status # "queued"

\* Whatever the interleaving, the redeliveries and the faults, the tables go
\* through the steps of the abstract engine: a plan made from a partial and stale
\* read is one the whole table justifies, and the execution completes only when
\* nothing is left to decide (settlement.ts, step-settled-handler.ts).
Dataflow == INSTANCE EngineDataflow
ImplementsDataflow == Dataflow!Spec

\* Short of faults, every execution that was persisted ends, with no step left
\* waiting.
ExecutionEnds ==
  exec.status = "queued" ~>
    /\ exec.status \in {"completed", "failed"}
    /\ \A k \in DOMAIN rows : rows[k].status # "queued"

\* A step's completion is announced before the end of its execution
\* (step-ready-handler.ts: "Before the settled event, or the execution could
\* announce its end first").
EndAnnouncedLast ==
  ExecEvent("completed") \in events =>
    \A k \in DOMAIN rows :
      rows[k].status = "completed" /\ k[1] # TriggerOf(graph) =>
        StepEvent("completed", k) \in events
=============================================================================
