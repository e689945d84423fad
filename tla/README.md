# Specifications of the engine, the scheduler and the mains that run executions

TLA+ modules, TLC configurations and TLAPS proofs for this repository, a fork of
n8n. They cover the parts whose correctness depends on the order in which several
workers, processes or callbacks act: the second execution engine, the durable
scheduler, concurrency control of executions, leader election and the wait tracker.
Paths below are relative to `src/`; `cli/` stands for `packages/cli/src/`.

- [The system](#the-system)
- [The modules](#the-modules)
- [What is checked](#what-is-checked)
- [What is proved](#what-is-proved)
- [Where code and comments disagree](#where-code-and-comments-disagree)
- [What is not modelled](#what-is-not-modelled)
- [Plan](#plan)

## The system

### The execution engine (`packages/@n8n/engine/src`)

| Part | State | Operations |
|---|---|---|
| Graph (`graph/`) | an immutable graph of typed nodes; edges join an output slot to an input slot, back-edges close loops | derive loops, validate |
| Planning rules (`execution/settlement.ts`, `iteration-mapping.ts`, `loop-ledger.ts`, `completion.ts`, `batch-step.ts`) | none | decide the fates of a settled step's successors, count what a finished execution owes, run one pass of a batch node |
| Execution start (`start-execution.service.ts`) | the execution row | validate, admit, persist as `queued`, publish `execution:enqueued` |
| Start handler | | claim the execution, record the trigger step as completed, publish `step:settled` |
| Settled handler | | plan successors (`queued` or `skipped` rows), publish `step:ready` / `step:settled`, finish or fail the execution |
| Ready handler | | claim the step, gather inputs, run it, record the outcome, publish `step:settled` |
| Step store (`database/typeorm-step-store.ts`) | one row per `(node, iteration)`: status, outputs | create (insert unless one has failed), claim, complete, fail, cancel the queued, count |
| Work queues (`queue/in-memory-work-queue.ts`) | pending messages, the consumer, whether the loop runs | publish, start, stop |
| Lifecycle publisher (`lifecycle-events/`) | a bounded buffer, a timer, a drain loop | publish, stop |
| Runtime (`runtime/create-engine-runtime.ts`) | the two workers, their queues, the publisher | start, stop: workers first, then the publisher |

A caller starts an execution; from there everything is driven by two queues. The
orchestration worker consumes `execution:enqueued` and `step:settled`, the step
worker `step:ready`. Handlers share nothing but the database rows: they make
compare-and-set updates, and the transactions of the step store lock the
execution row (shared for a plan or a claim, exclusive for a failure).

What is hard in it: handlers yield at every database call, so those of two steps
that feed one join plan it from partial reads taken at different moments; the end of
an execution is found by counting rows, over three reads; a failure stops planning
and claiming while other workers are in the middle of both; messages may come twice,
a handler may throw at any await (the queue then drops its message), and a crash
loses both queues; a stop has to wait for what is under way and for nothing else.

### The mains (`packages/@n8n/scheduler`, `packages/cli/src`)

| Part | State | Operations | What makes it correct |
|---|---|---|---|
| Scheduler: executor (`scheduler/src/core/executor/executor.ts`) | per main: claims, timers, fires under way | claim due tasks, arm timers, begin a dispatch, run the handler, record the outcome, stop | a handler is called once per lease; a late outcome never overwrites a newer lease |
| Scheduler: reaper (`core/reaper/reap.ts`) | expired rows read and not yet decided | retire missed tasks, complete, fail or reclaim expired ones | no live lease is taken, no dispatched work recorded as failed, every task ends |
| Task table (`packages/@n8n/db/.../scheduled-task.repository.ts`) | status, attempts, lease, epoch, owner, dispatch marker per task | guarded updates | what executor and reaper share |
| Concurrency control (`cli/concurrency`) | capacity, a queue of runs, slots held | enqueue, release, remove, disable | capacity is neither lost nor made |
| Active executions and runner (`cli/active-executions.ts`, `workflow-runner.ts`) | one entry per execution with a promise | add, run, put to wait, resume, finalize, stop, time out, shut down | a running workflow has a slot; every way out should give it back once, and two do not (below) |
| Leader election (`cli/scaling/multi-main-setup.ee.ts`, `leader-election-client.ts`) | a key with a time to live in Redis; `isLeader` per main | claim, renew, reclaim, step down, clear | a leader knows when it leads for certain; one leader in the end |
| Wait tracker (`cli/wait-tracker.ts`) | a list of waiting executions and a timer each, on the leader | poll, arm, resume, cancel, start and stop tracking | a wait ends once, and does end |

They interact through rows and events. Executor and reaper of all mains share the
task table. The leader election's takeover and stepdown events start and stop the
wait tracker (`cli/commands/start.ts`); the tracker resumes an execution through the
workflow runner, whose compare-and-set on the status `waiting` decides among timers of
several mains, webhooks and cancellations; every run passes concurrency control before
it starts, and its entry's promise releases its slot when it ends.

What is hard: leases that run out while their holder still works; two mains that both
take themselves for the leader; commands to Redis that time out for the caller and are
executed all the same; a main that restarts under the same host id; timers, lists and
claims that outlive what they were made for; stops that meet an execution between two
awaits.

### The rest of the repository

Task broker and runners, the workflow publication outbox, queue mode, the scheduler's
materializer and reconciler, the v1 execution loop, and the server, nodes and front
end: see [below](#what-is-not-modelled).

## The modules

| Module | Models | Notes |
|---|---|---|
| `EngineGraph` | `graph/` | graph operators, `DeriveLoops`, and one operator per validation rule, joined in `ValidateExecutableGraph` |
| `EngineSettlement` | the planning rules | pure operators over a graph, its loops and a table of rows |
| `EngineDataflow` | what the engine promises about one execution | the abstract specification: fates are decided from the whole table at once |
| `EngineExecution` | caller, handlers, workers, queues and tables | implements `EngineDataflow`; its step store operations are those of `EngineStepTable` |
| `EngineStepTable` | the step store's operations, each atomic | abstract specification of the store |
| `EngineStepStore` | the store's transactions, statement by statement, on PostgreSQL | implements `EngineStepTable` |
| `EngineWorkQueue`, `EngineEventPublisher` | the in-memory queues, the lifecycle publisher | operations, composed by the next |
| `EngineRuntime` | `create-engine-runtime.ts`: both workers, the publisher they share, start and stop | handlers are open: they publish, emit and settle |
| `TaskLifecycle` | what the scheduler promises about one task | the abstract specification |
| `SchedulerTasks` | executor and reaper of every main over the task table | implements `TaskLifecycle` |
| `ExecutionConcurrency` | concurrency queue, reservations, active executions, runner, stop and shutdown in one main | |
| `LeaderElection` | `MultiMainSetup` of every main over the Redis key | |
| `WaitTracking` | `WaitTracker` of every main, the runs it resumes, webhooks and cancellation | leadership moves freely: `LeaderElection` allows two leaders |
| `EngineSampleGraphs`, `MC*` | graphs and constants for TLC | |
| `EngineDataflowProofs`, `EngineExecutionProofs`, `EngineStepStoreProofs`, `EngineRuntimeProofs`, `SchedulerTasksProofs`, `ExecutionConcurrencyProofs`, `LeaderElectionProofs`, `WaitTrackingProofs` | theorems about the module they extend | see [What is proved](#what-is-proved) |

How the models stand to the code:

- **Atomicity.** Code between two awaits is one action, and every await on the
  database or Redis separates two. One shortcut in `EngineExecution`: the reads a
  step makes before it runs are one action, because all the rows they touch have
  settled and cannot change (`SettledImmutable`, `RunningStepsCanRead`).
- **Statements and transactions.** A guarded update is atomic. The step store's
  transactions are single actions in `EngineExecution`; that they may be is what
  `EngineStepStore` shows, with row locks, statement snapshots, the wait for an
  uncommitted row, and a transaction that may be aborted at any moment (which is how
  a deadlock between two planners ends).
- **Data.** A slot's value is `NoData` (JSON `null`, or a slot not listed),
  `NotAList`, or the length of a list: the engine looks no further into a value. An
  executor is a set of outputs it may return, and possibly a failure. A scheduler
  handler works, reports, returns or throws; a workflow runs, waits or ends.
- **Time** is what the code can tell of it: a lease live or expired, a task due or past
  its deadline, a wait far off, within the window of a poll or over. `LeaderElection`
  counts check intervals (`Tick`), since its key's life is a multiple of them.
- **Redis.** A command is sent, executed and answered in steps of its own. One that
  fails for its caller is either dropped or stays in `late` until it is executed.
  `asked` and `sure` are the lease a main can know of; `robbed` is a history variable
  that records that a main cleared another's key, or, by a late command of its earlier
  process, its own. A main that starts again has a new connection, so nothing orders its
  commands behind the late ones of the old (`orphans`). A leader that shuts down waits for
  its `DEL` while the check under way goes on (`checking`, `reclaiming`) and may claim the
  key again behind it; it then expires.
- **A run of an execution** passes the places of `ExecutionConcurrency` (`at`): created,
  throttled, claimed, starting, started, running, saved, over, with a wait (parking) and a
  stop (cancelled) on the way. Where the runner's code can throw the run leaves that path.
  Unusable credentials or context, and issues of the workflow, are saved first and
  finalized then (`failing`: `failExecution`); other errors, and a workflow that rejects, are
  finalized first and saved then (`erred`, `unsaved`: `processError`). A run whose entry
  is gone when its workflow starts runs on with nobody waiting for its end (`detached`).
  An error that rejects `run()`, or that `processError` takes for a cancellation, leaves
  the entry with its promise pending (`abandoned`). Saves may fail. A cancelled
  workflow's save, which the code runs in the background (`workflow-execute.ts:1632`), is
  one step before the end of the run, also when the run had been saved before.
- **Queues** in `EngineExecution` are sets, so messages arrive in any order; with
  `Redeliver` a message may stay after its delivery. The in-memory queue's own order
  is that of `EngineWorkQueue`. There may be any number of workers.
- **Faults.** Engine: a handler throws at any await, queues and handlers are lost in a
  crash, executors fail. Scheduler: any store call fails, before or after it was
  executed where the code could tell; passes time out, mains stop, crash and restart.
  Election and waits: commands and calls fail, mains crash.
- **Left out** beside what a module's components row says: log lines, metrics, event
  payloads, ids (a key names its row), admittance and access checks, which change no
  state.

## What is checked

| Run | Question | Properties |
|---|---|---|
| `engine_dataflow` | are the planning rules right and is validation strong enough | `FatesJustified`, `PassesInOrder`, `EveryItemHandedOut`, `CountIsExact`, `CompletedIsComplete`, `RunningStepsCanRead`, `AdmittedExecutionsEnd` |
| `engine_handlers` | concurrent handlers on joins, forks and loops, with steps that fail | `MessagesNameRows`, `EventsTruthful`, `NoWorkLost`, `SettledImmutable`, `FailFast`, `ImplementsDataflow`, `ExecutionEnds` |
| `engine_faults` | redelivery, throwing handlers and crashes on a chain, a bare loop and a step without an executor | `OneRunner`, `ImplementsDataflow` |
| `engine_step_store` | do the store's transactions come to atomic operations | `SweepLeavesNothing`, `ImplementsStepTable` |
| `engine_runtime` | queues, workers and publisher together: start, stop, order, backlog | `HandedOnceInOrder`, `QuietBeforeDraining`, `LastEventsReachHost`, `SilentOnceStopped`, `RuntimeStops`, `MessagesAreConsumed`, `EveryEventLeaves` |
| `scheduler_tasks` | executors and reapers against each other, with faults | `OncePerLease`, `DispatchedNeverFailed`, `LiveLeaseIsLeftAlone`, `ImplementsLifecycle`, `EveryTaskEnds` |
| `concurrency` | slots under waits, stops, timeouts, errors and shutdown | `CapacityConserved`, `RunsHoldSlots`, `SlotsComeBack`, `NothingStartsInShutdown`, `QueuedRunsStart` |
| `leader_election` | who leads, with late and failed commands | `LeaseHoldsKey`, `LeaseIsKept`, `Recovers` |
| `wait_tracking` | timers of two mains, webhooks, cancellation | `ResumedOnce`, `WaitsEnd` |
| `engine_end_announced`, `concurrency_removed`, `wait_retaken` | what a comment or a test says and the code does not keep (below) | `EndAnnouncedLast`, `LimitKept`, `WaitsEnd` |

Three refinements carry most of the weight. `ImplementsDataflow`: whatever the
interleaving, each change of the execution row and of the step rows is a step of
`EngineDataflow`, where a fate is decided from the whole table; a plan from a partial
and stale read is one the whole table justifies, and an execution completes only when
there is nothing left to run or to decide. The properties of `EngineDataflow` then
hold of the engine; `NoWorkLost` is the complement: when no message and no handler is
left, the execution has ended. `ImplementsStepTable`: the store's transactions are
atomic. `ImplementsLifecycle`: whatever executors, reapers, crashes and late answers
do, a task goes through claims with fresh leases, outcomes for work done under the
lease that holds it, and counted attempts.

**Bounds.**

- *Engine.* Two workers of each kind are the fewest that interleave two handlers of
  one kind. `engine_dataflow` takes every graph of four nodes and at most five edges
  (four without a batch node) that validation admits, and seven samples: joins, a loop
  next to a branch, a body that joins, a loop feeding a loop, an empty body; the
  payloads are two items, an empty list, and a value that is no list, so loops make
  none, one and two full passes. The concurrent runs take the smallest graphs with
  each shape: a join on two slots, a fork, a loop with an exit, a loop whose exit
  joins a branch. Step store: three sessions, so that a planner, a claim and a failure
  meet, and three keys in overlapping plans, one in opposite order (the deadlock).
- *Runtime.* Batches of three, a buffer of four and seven events fill the buffer past
  its cap and send three batches; three messages per queue leave a backlog behind a
  handler. `SizesAssumption` asks for fewer workers than a batch has events (the code:
  two and 500): with batches of two both workers could publish a full batch as the
  drain loop ends, and it would wait for the next event.
- *Scheduler.* One task, two mains and two attempts are the fewest with a main that
  loses a lease, one that gains it, and a last attempt; `MaxOutages = 1` allows one
  crash, stop, timeout, late claim or failed call, while leases expire and handlers
  hang or throw freely. Tasks meet only in batched statements, whose rows are
  independent.
- *Concurrency.* Two executions at a limit of one, one of which may wait and be
  resumed (`MaxRuns = 2`); a user's stop meets each in every `Situation`, and every call of
  either may fail (565,042 states, depth 37). The removal
  that breaks the limit needs three executions and has its own run; with two nothing is
  left in the queue to be let through.
- *Election.* Three mains, a time to live of three intervals and three faults: a
  claim that comes late, a takeover, and a shutdown or restart on top of it. A command
  that outlives the start of the next process of its main by an interval counts as a
  fault of its own, and so does a check that takes longer than an interval: in a tick
  without faults there is neither.
- *Waits.* Two mains that each take over once, one execution that waits three times,
  one failed call or crash. One poll of a main is under way at a time: it takes far
  less than the interval of a minute. A second takeover of the same main is what
  `wait_retaken` shows to lose waits.

**Fairness.** Always weak, and of steps the code owes: the dispatch loop calls the
handler as long as there is a message, database calls and executors return
(`EngineExecution`, used without faults only: after a crash or a dropped message nothing
resumes an execution, and no liveness is claimed); an abstract execution goes on as
long as it can (`EngineDataflow`); handlers settle and host callbacks have a deadline
(`EngineRuntime`); ticks of a main's loops, timers and calls go on and time passes,
while a scheduler's handler may hang and nobody has to restart a main
(`SchedulerTasks`); a run's own steps go on and workflows end (`ExecutionConcurrency`);
Redis answers and intervals fire (`LeaderElection`); time passes and polls go on while
a main leads (`WaitTracking`). Starting, stopping, publishing, cancelling and faults are
never owed. `CHECK_DEADLOCK FALSE` stands where an execution or a stopped component has
nothing more to do; the election always has.

## What is proved

TLC checks the instances above; the theorems below hold for every value of the
constants that satisfies the named assumption, so for any number of workers, mains,
executions and tasks, and without the bounds on counters being small.

| Module | Theorems | Assumptions |
|---|---|---|
| `EngineDataflowProofs` | `Invariant`, `FatesAlwaysJustified`, `PassesAlwaysInOrder`, `ItemsAllHandedOut`, `RunningStepsAlwaysRead`, `CompletedAlwaysComplete`, `CountAlwaysExact` | `DataflowAssumption`, `OutputSlotsAssumption` |
| `EngineExecutionProofs` | `TypeCorrect`, `MessagesAlwaysNameRows`, `OneRunnerAtATime`, `EventsAlwaysTruthful`, `SettledStaysSettled`, `FailureStopsWork`, `EngineImplementsDataflow`, `EngineKeepsDataflow`, `NoWorkEverLost` | `ParametersAssumption`, `OutputSlotsAssumption`; `NoWorkEverLost` also `StepsMayFail`, `AllHaveExecutors` |
| `EngineStepStoreProofs` | `StoreImplementsTable`, `NothingQueuedBehindSweep` | `PlansAssumption` |
| `EngineRuntimeProofs` | `MessagesOnceInOrder`, `WorkersQuietFirst`, `NoEventLost`, `CallbackSilent` | `SizesAssumption`, `WorkersAssumption` |
| `SchedulerTasksProofs` | `TypeCorrect`, `MarkedNeverFails`, `HandlerOncePerLease`, `ReaperRespectsLeases`, `SchedulerImplementsLifecycle` | `TasksAssumption` |
| `ExecutionConcurrencyProofs` | `TypeCorrect`, `CapacityIsConserved`, `ShutdownStartsNothing`, `RunsHoldTheirSlots`, `SlotsAreReturned` | `ConcurrencyAssumption` |
| `LeaderElectionProofs` | `LeaseHoldsTheKey`, `LeaseKept` | `ElectionAssumption` |
| `WaitTrackingProofs` | `TypeCorrect`, `RunOnceAtATime` | `WaitsAssumption` |

Each module has one inductive invariant, `IInv` (`DataInv` in `EngineDataflowProofs`;
`ExecutionConcurrencyProofs` has a second, `SlotsInv`, that rests on the first, and
`EngineExecutionProofs` two more, `PlanInv` and `WorkHeld`, each on those before it), proved
initial and preserved by one lemma per action or group of actions; the theorems follow from it.

- **Planning rules.** `FatesJustified` speaks of the table as it stands, while a step's
  fate was decided from an earlier one; it is kept because rows that settle later change
  nothing of what a decided step reads. That takes what the table looks like along a
  loop: a pass is there only if the pass before has settled and was not the last, so a
  loop has at most one last pass and everything that leaves the loop reads that one
  (`LoopsOK`); a row has the depth its node's loops give it (`KeysOK`), and every row but
  the trigger's is one that `DecideSuccessors` asks for (`FatesOK`). `HeadsOK` says
  what each pass of a batch node took from its loop's list, from which the passes of a
  loop that ran out hold all its items, each once. The facts about graphs come from
  validation: edges that are no back edges have ranks that grow, loops share no member,
  an entry or an exit is a batch node's.
  `CountIsExact` goes through the set of steps an execution owes: they are as many as
  the handler's sum says (`CountIs`), every row is one of them (`RowsAreOwed`), and as
  long as one is missing a settled row decides another - by induction on the rank of
  the missing step's node and, within a loop, on the pass.

- **Engine handlers.** `OneRunner` is not inductive: a worker may claim a row only
  because the row is queued, and records only a step it has claimed itself.
  `Admission` (an execution that has begun has an admitted graph and its payload) and
  `WorkersOK` (what a handler holds between two awaits agrees with rows that can no
  longer change) supply what `OneRunner` and `EventsTruthful` need; `EventsOK` types
  the events. The two action properties then follow from what each store operation
  may write. The theorems include redelivery, throwing handlers and crashes.
- **Engine refinement.** A settled handler reads the last passes of some loops, then
  some rows, plans, and inserts, with any other worker between two of these; the
  abstract engine decides from the whole table in one step. `PlanInv` says that what a
  handler holds is still true of the whole table: the last passes it read are last
  passes, a step in its plan that has no row yet is planned the same now, a count that
  was reached leaves nothing to decide or to run, a failure that was seen is in the
  table, and what a step worker is about to record is what its step may still come to.
  It holds `DataInv`, too, of the engine's tables. Five facts about the planning rules
  carry it, all in `EngineDataflowProofs`: the rows a decision loads give the fates of
  the whole table (`PlanFromPart`), a plan stays until its key has a row (`PlanStays`),
  the count tells what it should though the last passes were read before it
  (`CountReached`), what a step reads stays (`StepRunsStay`), and of a done execution no
  row changes (`DoneStays`). Each action is then a step of `EngineDataflow` or leaves
  graph, execution and rows alone (`NextMaps`), and the properties of `EngineDataflow`
  hold of the engine (`EngineKeepsDataflow`).
- **No lost work.** Each handler may end in the belief that another one carries on, and
  `NoWorkLost` says that they never all do. `WorkHeld` names, for each kind of work, who
  holds it: the caller or the start message an execution that is queued (`StartHeld`); a
  step worker each running step (`RunningHeld`); a message, or the handler that created
  it, each queued step (`QueuedHeld`); a message or a handler on its way to
  `failExecution` a failure (`FailureHeld`); and a message or a handler on its way to the
  count an execution of which nothing is left to do (`EndHeld`). The hard part is
  `DecisionHeld`, for a join: its sources settle in any order and each of their handlers
  plans from what it reads, which may not be enough. The invariant is that some settled
  source that decides the step now either has not been read yet, or is held by a handler
  whose plan will have the step. Two facts about the planning rules carry it. When a row
  settles and a step becomes decidable, the newly settled row is one that decides it
  (`LatestDecides`), so its message, not yet sent, answers for the step; and what a
  handler loads for a source that decides a step when it looks is enough to plan it
  (`TermsEnough`, `PlanFromEnough`); a step that becomes decidable after it looked is
  answered for by the settlement that made it so. The theorem has two hypotheses. `StepsMayFail`:
  executors fail, but no store call throws and no process crashes, since a thrown or
  crashed handler does lose what it held (the queue redelivers nothing by itself).
  `AllHaveExecutors`: no step has a type that nothing executes, as such a step stays
  "running" for good (`step-ready-handler.ts:60`, the graph `Waiting` in `engine_faults`).
  Both hold in `engine_handlers`, which checks the property on its instances.
- **Step store.** `EngineExecution` treats the store's transactions as atomic; this is
  the theorem that licenses it. Only one session writes a row at a time, and the row it
  will replace stays as it found it (`WritesOK`); a plan or a claim that has passed its
  check holds the shared lock until it commits, so no failure commits meanwhile
  (`LocksOK` and the phases in `TxOK`), and a plan has written or found every row it no
  longer has to insert. A commit is then one operation of `EngineStepTable`, and the
  invariant of every other transaction survives it, because of what the operations
  of the table leave alone (`TableStep`).
- **Runtime.** `QueuesOK` says of each queue that what was handed over and what waits
  are the numbers up to the last message published, that the loop is recorded exactly
  while a handler runs, and how far its stop is, in step with the host. `PublisherOK`
  relates buffer, host and stop: nothing is left once the loop has looked at an empty
  buffer and no worker has published since (`resting`), and after stop() gave up the
  buffer is thrown away as a whole, so what the host got is a prefix. The batch step
  rests on a lemma that a batch and the rest are the buffer.
- **Scheduler.** That a handler is called once per lease needs the whole bookkeeping
  of a main: a claim is in one place at a time (`PlacesOK`), is of a lease granted to
  this host with the attempts of the row (`ClaimsOK`), a lease under which a handler
  was called is marked as started or over (`BegunOK`), and one fire at most has passed
  `beginDispatch` under a lease (`OneFire`). A host that crashes and comes back under
  its own host id is no exception: its claims are gone, and epochs only grow.
  The module then lists everything a step may do to a row
  (`RowsStepAlways`), and gets from that list the two action properties and the
  refinement: initial states map to initial states, each step to a step of
  `TaskLifecycle` or a stutter.
- **Concurrency.** `QueueOK` is the conservation law with what it takes: a run is in
  the queue once and never with a slot. Release and removal resolve the next item, so
  the law is proved of each queue operation; a shutdown disables the queue first, which
  leaves its items where they are (`PlacesOK` says where a run that queues or has a
  slot may be). Who holds a slot takes the registry as well: an execution has one
  active run at most and none while its row waits (`OneActive`), an entry is for the
  active run or for one that is past saving (`EntriesOK`), and so the slot that is
  released with a settled promise is the slot of the promise's own run, whichever run
  finalizes (`SlotsOK`). `RunsHoldSlots` and `SlotsComeBack` follow; a slot without a run
  under way is that of a wait that was cut short (`Stranded`) or of a run the runner
  abandoned (`Abandoned`), and the theorem holds with every error path of the runner. `LimitKept` does
  not follow, and does not hold (below): capacity may go negative while one run too
  many has a slot.
- **Election.** `AnswersOK` ties each answer under way to the command as executed, and
  `LeasesOK` ties a main's certain lease (`sure`) to the time the key has left;
  `NoLease` says which mains claim no certainty: those that are off, clear the key, or
  claim it again after it was gone. They hold until a main clears the key of another, or
  late its own (`robbed`); commands that come late from an earlier process, in whatever
  order to the new one's, are within the invariant.
- **Waits.** `ResumedOnce` is strengthened by what a main's list, timers and calls
  may refer to.

**Only model-checked.** Liveness under fairness, all of it (`ExecutionEnds`,
`AdmittedExecutionsEnd`, `RuntimeStops`, `MessagesAreConsumed`, `EveryEventLeaves`,
`EveryTaskEnds`, `QueuedRunsStart`, `Recovers`, `WaitsEnd`), is beyond the prover. Every
invariant and every action property of the passing runs has its theorem.

## Where code and comments disagree

Three runs expect a violation:

- `engine_end_announced`. `step-ready-handler.ts:102` says the step's completion is
  announced "before the settled event, or the execution could announce its end first".
  It can all the same: the row is recorded (line 93) before the announcement (line
  104), and another step's settled event may trigger the count that completes the
  execution in between. In the run that step is a sibling that *completed* before: both
  branches of a fork run, and the first one's event is handled between the record and the
  announcement of the second.
- `concurrency_removed`. Stopping a queued execution (`concurrency-queue.ts:52`) gives
  back the unit it took when it queued, and then resolves the next in line though no
  slot came free: with two queued, one more execution runs than the limit
  (`concurrency-queue.test.ts:10`, "should limit concurrency"). The same test, at lines 52
  to 56, removes item 4 and expects item 5 to start while 3 still runs: it fixes the
  behaviour that its title excludes.
- `wait_retaken`. `stopTracking()` (`wait-tracker.ts:259`) clears the timers and keeps
  the list. Leader again, the main skips what it still lists (line 100) and sets no
  timer for it, against the comment at line 96.

Seen while modelling, with no run of their own; the models behave as the code does:

- A batch step reads its loop inside the `try` that turns an executor's error into a
  failed step (`step-ready-handler.ts:78`), so a transient store error fails the
  execution; the comment above it says store errors propagate.
- A timer removes its task's entry of `claimedTaskById` (`executor.ts:197`), which may
  by then be a later claim's; a stop (line 341) then does not release that claim, and
  the task waits for its lease to expire.
- A handler that reported its effect and then throws is retried when the write of its
  marker failed (`executor.ts:307`), and one that outlives its lease, refreshed once
  before it starts, overlaps with the next (`executor.ts:73`).
- A stop that meets an execution whose status is `waiting` drops the entry whose
  promise would release the slot: `SlotsComeBack` excepts these (`Stranded`). A run
  that was resumed first has a new entry, whose promise the old run then settles.
- `setRunning` (`workflow-runner.ts:410`) and the awaits at 360 and 391 come after
  `ActiveExecutions.add` and before the `try`. An error there rejects `run()`; the entry
  stays, its promise pending, and the slot comes back only when a user stops the
  execution, or with the process. The same goes for an error while a failed start is
  recorded (line 181), and for an error that `processError` takes for a cancellation (line
  113) and returns without finalizing. `SlotsComeBack` and `QueuedRunsStart` except these
  (`Abandoned`): with a limit of one, such a run blocks every run behind it.
- An execution that is being canceled may have its status overwritten by `running`
  (`workflow-runner.ts:410`).
- A timer that survives its wait may resume the execution's *next* wait early: it is
  resumed once, but not at its time.
- Gaps the code itself names: no reconciler for rows without a message (CAT-2938), an
  orderly stop drops queued messages (CAT-3882), and a shutdown's unguarded `DEL` of
  the leader key (the TODO in `multi-main-setup.ee.ts`), which `robbed` records.

## What is not modelled

- *In modelled parts.* Engine: duplicate node ids and non-integer slots cannot be
  written in the model. Scheduler: a fire whose handler is no longer registered, and
  the store's statements for materializer and retention. Concurrency: the evaluation
  queue, executions taken up at startup, deletion, response promises. Wait tracker:
  the resumption of a parent when its child ends. The start sequence of a main
  (`start.ts:281` to `308`), in which the wait tracker may miss a takeover.
- *The engine's server, views and entities*: request parsing and read-only queries.
- *Scheduler: materializer, reconciliation, retention, provisioning*: overlapping
  passes over one definition; no time for them yet.
- *Task broker and runners, the workflow publication outbox, queue mode*: each a
  protocol of its own with timeouts or leases; planned below.
- *The v1 execution loop, triggers and pollers*: one large sequential interpreter over
  node outputs, whose behaviour is a matter of its data.
- *Server modules, CRDT, expression runtime, nodes, database layer, front end*:
  requests that read and write a row, wrappers of libraries, integrations and user
  interface, with no protocol between them that TLC could explore. They are most of
  the repository's lines.

## Plan

1. The scheduler's materializer and reconciler over the table of `SchedulerTasks`:
   two passes over one definition insert a task once.
2. The task broker: offers, requests and acceptance with their timeouts; a task goes
   to one runner.
3. The publication outbox: leases of records, stepdown, the lifecycle lock.
4. Queue mode: jobs and the recovery of executions whose job is gone, composed with
   `LeaderElection`.
