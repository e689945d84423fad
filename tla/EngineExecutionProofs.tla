----------------------- MODULE EngineExecutionProofs -----------------------
(***************************************************************************)
(* Proofs about EngineExecution, for every graph, every number of workers  *)
(* and every combination of faults and redeliveries.                       *)
(***************************************************************************)
EXTENDS EngineExecution, FiniteSetTheorems, TLAPS

-----------------------------------------------------------------------------
(***************************************************************************)
(* The planning and running operators return what the tables hold.         *)
(***************************************************************************)
LEMMA NoOutputsType == NoOutputs \in Outputs
  BY DEF NoOutputs, Outputs, Values

\* A row with one slot filled is a row of outputs.
LEMMA SlotOnlyType ==
  ASSUME NEW slot, NEW value \in Values
  PROVE  SlotOnly(slot, value) \in Outputs
  BY NoOutputsType DEF SlotOnly, Outputs

\* Whatever the edge, it delivers a value.
LEMMA EdgeValueType ==
  ASSUME NEW row \in Row, NEW e
  PROVE  EdgeValue(row, e) \in Values
  BY DEF EdgeValue, IsLive, Filled, Row, Outputs, Values, NoData

\* Finitely many lists hold finitely many items.
LEMMA ItemsFinite ==
  ASSUME NEW D, IsFiniteSet(D), NEW lists \in [D -> Values]
  PROVE  Cardinality(Items(lists)) \in Nat
<1> DEFINE list(i) == {i} \X (1..AsList(lists[i]))
<1>1. ASSUME NEW i \in D PROVE IsFiniteSet(list(i))
  <2>1. AsList(lists[i]) \in Int
    BY <1>1 DEF AsList, Values, NoData, NotAList
  <2> DEFINE n == AsList(lists[i])
  <2>2. 1 \in Int /\ n \in Int
    BY <2>1
  <2> HIDE DEF n
  <2>3. IsFiniteSet(1..n)
    BY <2>2, FS_Interval
  <2>4. IsFiniteSet({i})
    BY FS_Singleton
  <2> QED BY <2>3, <2>4, FS_Product DEF n
<1>2. IsFiniteSet({list(i) : i \in D})
  <2> DEFINE S == {list(i) : i \in D}
             f == [i \in D |-> list(i)]
  <2>1. f \in Surjection(D, S)
    BY DEF Surjection
  <2> QED BY <2>1, FS_Surjection
<1>3. IsFiniteSet(UNION {list(i) : i \in D})
  BY <1>1, <1>2, FS_UNION
<1>4. Items(lists) = UNION {list(i) : i \in D}
  BY DEF Items
<1> QED BY <1>3, <1>4, FS_CardinalityType

RunResult == [ok : BOOLEAN, outputs : Outputs]

LEMMA FailedType == Failed \in RunResult
  BY NoOutputsType DEF Failed, RunResult

LEMMA SucceededType ==
  ASSUME NEW outputs \in Outputs
  PROVE  Succeeded(outputs) \in RunResult
  BY DEF Succeeded, RunResult

\* A pass of a batch step hands out a list, ends its loop, or fails.
LEMMA RunBatchStepType ==
  ASSUME NEW size \in Nat, NEW pass \in Nat, NEW original \in Values,
         NEW D, IsFiniteSet(D), NEW arrivals \in [D -> Values]
  PROVE  RunBatchStep(size, pass, original, arrivals) \in RunResult
<1> DEFINE remaining == AsList(original) - pass * size
           slice == IF remaining < size THEN remaining ELSE size
           accumulated == Cardinality(Items(arrivals))
<1>1. AsList(original) \in Int
  BY DEF AsList, Values, NoData, NotAList
<1>2. pass * size \in Int
  OBVIOUS
<1>3. remaining \in Int
  BY <1>1, <1>2
<1>4. slice \in Int
  BY <1>3
<1>5. slice > 0 => slice \in Values
  BY <1>4 DEF Values
<1>6. accumulated \in Values
  BY ItemsFinite DEF Values
<1>7. slice > 0 => Succeeded(SlotOnly(LoopSlot, slice)) \in RunResult
  BY <1>5, SlotOnlyType, SucceededType
<1>8. Succeeded(SlotOnly(DoneSlot, accumulated)) \in RunResult
  BY <1>6, SlotOnlyType, SucceededType
<1>9. Succeeded(NoOutputs) \in RunResult
  BY NoOutputsType, SucceededType
<1>10. RunBatchStep(size, pass, original, arrivals) =
         IF original = NotAList THEN Failed
         ELSE IF slice > 0 THEN Succeeded(SlotOnly(LoopSlot, slice))
         ELSE IF \E i \in DOMAIN arrivals : arrivals[i] = NotAList THEN Failed
         ELSE IF accumulated = 0 THEN Succeeded(NoOutputs)
         ELSE Succeeded(SlotOnly(DoneSlot, accumulated))
  BY DEF RunBatchStep
<1> HIDE DEF slice, accumulated
<1> QED BY <1>7, <1>8, <1>9, <1>10, FailedType

\* A graph the engine validated has a trigger, and its edges end at its nodes.
LEMMA ValidGraph ==
  ASSUME NEW g, ValidateExecutableGraph(g)
  PROVE  /\ TriggerOf(g) \in NodesOf(g)
         /\ \A e \in g.edges : e.to \in NodesOf(g)
<1>1. Cardinality(NodesOfKind(g, "trigger")) = 1 /\ EndpointsExist(g)
  BY DEF ValidateExecutableGraph, ValidateLoops
<1>2. NodesOfKind(g, "trigger") # {}
  BY <1>1, FS_EmptySet
<1>3. TriggerOf(g) \in NodesOf(g)
  BY <1>2 DEF TriggerOf, NodesOfKind
<1> QED BY <1>1, <1>3 DEF EndpointsExist

\* An edge leads from a pass of a node to a pass of one of the graph's nodes.
LEMMA TargetKeyType ==
  ASSUME NEW N, NEW e, e.to \in N, NEW class, NEW source, source[2] \in Nat
  PROVE  TargetKey(e, class, source) \in N \X Nat
  BY DEF TargetKey

\* What a settlement decides are steps of the graph.
LEMMA DecideSuccessorsType ==
  ASSUME NEW g, ValidateExecutableGraph(g), NEW loops, NEW key, key[2] \in Nat,
         NEW steps, NEW terms, NEW plan, plan = DecideSuccessors(g, loops, key, steps, terms)
  PROVE  /\ plan.toQueue \subseteq NodesOf(g) \X Nat
         /\ plan.toSkip \subseteq NodesOf(g) \X Nat
<1> DEFINE decided == EdgesDecided(g, loops, key, steps)
           candidates == {TargetKey(e, ClassifyEdge(e, loops), key) : e \in decided}
<1>1. decided \subseteq g.edges
  BY DEF EdgesDecided, Outgoing
<1>2. candidates \subseteq NodesOf(g) \X Nat
  BY <1>1, ValidGraph, TargetKeyType
<1>3. plan.toQueue \subseteq candidates /\ plan.toSkip \subseteq candidates
  BY DEF DecideSuccessors
<1> QED BY <1>2, <1>3

\* Running a step of a typed table returns a typed result.
LEMMA StepRunsType ==
  ASSUME NEW g, g.batch \in [NodesOf(g) -> Nat], NEW loops,
         NEW table, \A k \in DOMAIN table : table[k] \in Row,
         NEW k \in NodesOf(g) \X Nat, NEW executorRuns \in SUBSET RunResult,
         NEW batchErrors \in SUBSET RunResult
  PROVE  StepRuns(g, loops, table, k, executorRuns, batchErrors) \subseteq RunResult
<1> DEFINE l == CHOOSE l \in loops : l.batch = k[1]
           original == ReadOriginalItems(g, loops, table, l)
           arrivals == ReadArrivals(table, l, k[2])
<1>1. ASSUME NEW key, NEW e PROVE ReadBack(table, key, e) \in Values
  BY EdgeValueType DEF ReadBack, Values, NotAList
<1>2. original \in Values
  <2> DEFINE reads == {s \in StepReads(g, loops, table, <<l.batch, 0>>) : s.edge \in l.entries}
             read == CHOOSE s \in reads : TRUE
  <2>1. original = IF reads = {} THEN NoData
                   ELSE IF read.src.kind = "pending" THEN NotAList
                   ELSE ReadBack(table, read.src.key, read.edge)
    BY DEF ReadOriginalItems
  <2>2. ReadBack(table, read.src.key, read.edge) \in Values
    BY <1>1
  <2> HIDE DEF original, reads, read
  <2> QED BY <2>1, <2>2 DEF Values
<1>3. arrivals \in [0..(k[2] - 1) -> Values]
  BY <1>1 DEF ReadArrivals
<1>4. IsFiniteSet(0..(k[2] - 1))
  <2>1. 0 \in Int /\ k[2] - 1 \in Int
    OBVIOUS
  <2> QED BY <2>1, FS_Interval
<1>5. g.batch[k[1]] \in Nat /\ k[2] \in Nat
  OBVIOUS
<1> HIDE DEF original, arrivals
<1>6. RunBatchStep(g.batch[k[1]], k[2], original, arrivals) \in RunResult
  BY <1>2, <1>3, <1>4, <1>5, RunBatchStepType
<1>7. RunBatchNode(g, loops, table, k) \in RunResult
  BY <1>6 DEF RunBatchNode, original, arrivals
<1> QED BY <1>7 DEF StepRuns

-----------------------------------------------------------------------------
(***************************************************************************)
(* The inductive invariant.  Type correctness needs that nothing happens   *)
(* before the graph was validated and the execution claimed (Admission),   *)
(* and that what a worker holds agrees with the tables: the keys it        *)
(* carries name rows, settled ones where it plans from them, and the       *)
(* outcome it is about to announce is the one recorded (OrchOK, RunnerOK). *)
(* OneRunner and EventsTruthful need the same.                             *)
(***************************************************************************)
Begun == exec.status \in {"running", "completed", "failed"}

Admission ==
  /\ exec.status # "absent" => ValidateExecutableGraph(graph)
  /\ exec.status = "absent" => caller = "idle" /\ orchQueue = {}
  /\ ~Begun => DOMAIN rows = {} /\ events = {}

OrchOK(o) ==
  /\ o.pc # "idle" => Begun
  /\ o.pc \in {"announceTrigger", "checkFailed", "planTerminals", "plan"}
       => o.key \in SettledKeys
  /\ o.created \subseteq DOMAIN rows
  /\ o.created \ o.toQueue \subseteq SettledKeys
  /\ o.pc \in {"finish", "announceEnd"} => o.outcome # "none"
  /\ o.pc \in {"announceEnd", "sweep"} /\ o.outcome # "none" => exec.status = o.outcome

RunnerOK(r) ==
  /\ r.pc # "idle" => r.key \in DOMAIN rows
  /\ r.pc = "announce" => rows[r.key].status = IF r.run.ok THEN "completed" ELSE "failed"
  /\ ~r.run.ok => r.run.outputs = NoOutputs

WorkersOK ==
  /\ \A w \in OrchWorkers : OrchOK(orch[w])
  /\ \A w \in StepWorkers : RunnerOK(runner[w])

EventOK(e) ==
  /\ e.type \in {"started", "completed", "failed"}
  /\ e.key = NoKey \/ e.key \in DOMAIN rows

EventsOK == \A e \in events : EventOK(e)

IInv ==
  /\ TypeOK /\ Admission /\ MessagesNameRows /\ WorkersOK /\ OneRunner
  /\ EventsOK /\ EventsTruthful

LEMMA IdleOrchType == IdleOrch \in OrchState
  BY DEF IdleOrch, OrchState, OrchPcs

LEMMA IdleRunnerType == IdleRunner \in RunnerState
  BY FailedType DEF IdleRunner, RunnerState, RunnerPcs, RunResult

LEMMA InitIInv == Init => IInv
<1> SUFFICES ASSUME Init PROVE IInv
  OBVIOUS
<1> USE DEF Init
<1>1. TypeOK
  BY NoOutputsType, IdleOrchType, IdleRunnerType DEF TypeOK, RowsOK, ExecStatuses, Outputs
<1>2. Admission /\ WorkersOK
  BY DEF Admission, Begun, WorkersOK, OrchOK, RunnerOK, IdleOrch, IdleRunner, Failed
<1>3. MessagesNameRows
  BY DEF MessagesNameRows
<1>4. OneRunner
  BY DEF OneRunner, IdleRunner, Claimed, Unrecorded
<1>5. EventsOK /\ EventsTruthful
  BY DEF EventsOK, EventsTruthful
<1> QED BY <1>1, <1>2, <1>3, <1>4, <1>5 DEF IInv

-----------------------------------------------------------------------------
(***************************************************************************)
(* What every step does to the tables: a settled row stays as it is, a     *)
(* running row settles only as completed or failed, and an execution that  *)
(* began or ended stays so.  What a worker holds is stable under it.       *)
(***************************************************************************)
Advance ==
  /\ graph' = graph
  /\ DOMAIN rows \subseteq DOMAIN rows'
  /\ \A k \in SettledKeys : rows'[k] = rows[k]
  /\ \A k \in DOMAIN rows :
       rows[k].status = "running" => rows'[k].status \in {"running", "completed", "failed"}
  /\ exec.status # "absent" => exec'.status # "absent"
  /\ Begun => Begun'
  /\ exec.status \in {"completed", "failed"} => exec'.status = exec.status

LEMMA AdvanceSettled == Advance => SettledKeys \subseteq SettledKeys'
  BY DEF Advance, SettledKeys

LEMMA AdvanceOrch ==
  ASSUME Advance, NEW o \in OrchState, OrchOK(o)
  PROVE  OrchOK(o)'
<1>1. o' = o
  OBVIOUS
<1> QED BY <1>1, AdvanceSettled DEF OrchOK, Advance, OrchState

LEMMA AdvanceRunner ==
  ASSUME Advance, NEW r \in RunnerState, RunnerOK(r)
  PROVE  RunnerOK(r)'
  BY DEF RunnerOK, Advance, SettledKeys, IsSettled, SettledStatuses

LEMMA AdvanceTruth ==
  ASSUME IInv, Advance, NEW e \in events
  PROVE  TellsTruth(e)' /\ EventOK(e)'
<1>1. TellsTruth(e) /\ EventOK(e)
  BY DEF IInv, EventsTruthful, EventsOK
<1>2. CASE e.key = NoKey
  BY <1>1, <1>2 DEF TellsTruth, EventOK, Advance, Begun
<1>3. CASE e.key # NoKey
  BY <1>1, <1>3 DEF TellsTruth, EventOK, Advance, SettledKeys, IsSettled, SettledStatuses
<1> QED BY <1>2, <1>3

\* What a step of any handler has to establish, beyond what it leaves alone.
MessagesOK ==
  /\ \A k \in stepQueue' \ stepQueue : k \in DOMAIN rows'
  /\ \A m \in orchQueue' \ orchQueue :
       m = Enqueued \/ (m.key \in SettledKeys' /\ m = Settled(m.key))
  /\ \A e \in events' \ events : TellsTruth(e)' /\ EventOK(e)'

LEMMA AdvanceShared ==
  ASSUME IInv, Advance, exec.status # "absent", Begun', MessagesOK
  PROVE  Admission' /\ MessagesNameRows' /\ EventsOK' /\ EventsTruthful'
<1>1. Admission'
  BY DEF IInv, Admission, Advance, Begun
<1>2. MessagesNameRows'
  BY AdvanceSettled DEF IInv, MessagesNameRows, MessagesOK, Advance
<1>3. EventsOK' /\ EventsTruthful'
  BY AdvanceTruth DEF EventsOK, EventsTruthful, MessagesOK
<1> QED BY <1>1, <1>2, <1>3

\* A step of an orchestration worker, which leaves running rows alone.
LEMMA OrchStep ==
  ASSUME IInv, NEW w \in OrchWorkers, NEW o \in OrchState,
         orch' = [orch EXCEPT ![w] = o], OrchOK(o)',
         UNCHANGED <<runner, caller>>, exec' \in [status : ExecStatuses, trigger : Outputs],
         exec.status # "absent", Begun', Advance, RowsOK', MessagesOK,
         \A k \in DOMAIN rows : rows[k].status = "running" => rows'[k] = rows[k]
  PROVE  IInv'
<1> USE DEF IInv
<1>1. /\ orch \in [OrchWorkers -> OrchState] /\ runner \in [StepWorkers -> RunnerState]
      /\ StepKeys' = StepKeys /\ OrchState' = OrchState /\ RunnerState' = RunnerState
  BY DEF TypeOK, Advance, StepKeys, OrchState, RunnerState
<1>2. TypeOK'
  BY <1>1 DEF TypeOK, Advance
<1>3. \A v \in OrchWorkers : OrchOK(orch[v])'
  <2> TAKE v \in OrchWorkers
  <2>1. CASE v = w
    BY <2>1, <1>1
  <2>2. CASE v # w
    <3>1. orch[v] \in OrchState /\ OrchOK(orch[v])
      BY <1>1 DEF WorkersOK
    <3>2. orch'[v] = orch[v]
      BY <1>1, <2>2
    <3> QED BY <3>1, <3>2, AdvanceSettled DEF OrchOK, Advance, OrchState
  <2> QED BY <2>1, <2>2
<1>4. \A v \in StepWorkers : RunnerOK(runner[v])'
  BY <1>1 DEF WorkersOK, RunnerOK, Advance, SettledKeys, IsSettled, SettledStatuses
<1>5. OneRunner'
  BY DEF OneRunner, WorkersOK, RunnerOK, Claimed, Unrecorded, Advance
<1> QED BY <1>2, <1>3, <1>4, <1>5, AdvanceShared DEF WorkersOK

\* The special case of a step that changes nothing but its worker, and may take
\* a message.
LEMMA OrchMove ==
  ASSUME IInv, NEW w \in OrchWorkers, NEW o \in OrchState,
         orch' = [orch EXCEPT ![w] = o], OrchOK(o), Begun,
         orchQueue' \subseteq orchQueue,
         UNCHANGED <<graph, exec, caller, rows, stepQueue, runner, events>>
  PROVE  IInv'
<1>1. Advance /\ MessagesOK
  BY DEF Advance, MessagesOK, Begun
<1>2. OrchOK(o)'
  BY <1>1, AdvanceOrch
<1>3. RowsOK' /\ exec' \in [status : ExecStatuses, trigger : Outputs]
  BY DEF IInv, TypeOK, RowsOK, StepKeys
<1>4. exec.status # "absent" /\ Begun'
  BY DEF Begun
<1> QED BY <1>1, <1>2, <1>3, <1>4, OrchStep

-----------------------------------------------------------------------------
(***************************************************************************)
(* The actions of the caller and of the start handler.                     *)
(***************************************************************************)
LEMMA PersistExecutionStep == IInv /\ PersistExecution => IInv'
<1> SUFFICES ASSUME IInv, PersistExecution PROVE IInv'
  OBVIOUS
<1> USE DEF IInv, PersistExecution
<1>1. PICK payload \in TriggerPayloads : exec' = [status |-> "queued", trigger |-> payload]
  OBVIOUS
<1>2. payload \in Outputs
  BY ParametersAssumption DEF Outputs
<1>3. TypeOK'
  BY <1>1, <1>2 DEF TypeOK, RowsOK, ExecStatuses, StepKeys, OrchState, RunnerState
<1>4. Advance
  BY <1>1 DEF Advance, Begun
<1>5. WorkersOK'
  BY <1>4, AdvanceOrch, AdvanceRunner DEF WorkersOK, TypeOK
<1>6. Admission'
  BY <1>1 DEF Admission, Begun
<1>7. MessagesNameRows' /\ OneRunner'
  BY DEF MessagesNameRows, OneRunner, SettledKeys, Claimed, Unrecorded
<1>8. EventsOK' /\ EventsTruthful'
  BY <1>1 DEF EventsOK, EventsTruthful, Admission, Begun
<1> QED BY <1>3, <1>5, <1>6, <1>7, <1>8

LEMMA PublishEnqueuedStep == IInv /\ PublishEnqueued => IInv'
<1> SUFFICES ASSUME IInv, PublishEnqueued PROVE IInv'
  OBVIOUS
<1> USE DEF IInv, PublishEnqueued
<1>1. TypeOK'
  BY DEF TypeOK, RowsOK, StepKeys, OrchState, RunnerState
<1>2. Admission' /\ MessagesNameRows' /\ OneRunner'
  BY DEF Admission, Begun, MessagesNameRows, OneRunner, SettledKeys, Claimed, Unrecorded
<1>3. Advance
  BY DEF Advance, Begun
<1>4. WorkersOK' /\ EventsOK' /\ EventsTruthful'
  BY <1>3, AdvanceOrch, AdvanceRunner, AdvanceTruth
     DEF WorkersOK, TypeOK, EventsOK, EventsTruthful
<1> QED BY <1>1, <1>2, <1>4

LEMMA ClaimExecutionStep ==
  ASSUME NEW w \in OrchWorkers PROVE IInv /\ ClaimExecution(w) => IInv'
<1> SUFFICES ASSUME IInv, ClaimExecution(w) PROVE IInv'
  OBVIOUS
<1> USE DEF IInv
<1>1. orch[w] \in OrchState /\ orch = [orch EXCEPT ![w] = orch[w]] /\ OrchOK(orch[w])
  BY DEF TypeOK, WorkersOK
<1>2. exec.status # "absent" /\ orchQueue' \subseteq orchQueue /\ orch[w].pc = "idle"
  BY DEF ClaimExecution, Admission, Consume, OrchAt
<1>3. CASE exec.status # "queued"
  <2>1. Begun
    BY <1>2, <1>3 DEF Begun, TypeOK, ExecStatuses
  <2>2. UNCHANGED <<graph, exec, caller, rows, stepQueue, orch, runner, events>>
    BY <1>3 DEF ClaimExecution
  <2>3. orch' = [orch EXCEPT ![w] = orch[w]]
    BY <1>1, <2>2
  <2> QED BY <1>1, <1>2, <2>1, <2>2, <2>3, OrchMove
<1>4. CASE exec.status = "queued"
  <2>1. PICK o \in OrchState : o = [orch[w] EXCEPT !.pc = "createTrigger"]
    BY <1>1 DEF OrchState, OrchPcs
  <2>2. /\ exec' = [exec EXCEPT !.status = "running"] /\ orch' = [orch EXCEPT ![w] = o]
        /\ UNCHANGED <<graph, caller, rows, stepQueue, runner, events>>
    BY <1>1, <1>4, <2>1 DEF ClaimExecution, OrchGoto, TypeOK
  <2>3. exec' \in [status : ExecStatuses, trigger : Outputs] /\ exec'.status = "running"
    BY <2>2 DEF TypeOK, ExecStatuses
  <2>4. Advance /\ MessagesOK /\ Begun'
    BY <1>2, <1>4, <2>2, <2>3 DEF Advance, MessagesOK, Begun
  <2>5. OrchOK(o)'
    BY <1>1, <1>2, <2>1, <2>2, <2>4 DEF OrchOK, OrchState, SettledKeys
  <2>6. RowsOK'
    BY <2>2 DEF TypeOK, RowsOK, StepKeys
  <2> QED BY <1>2, <2>2, <2>3, <2>4, <2>5, <2>6, OrchStep
<1> QED BY <1>3, <1>4

LEMMA CreateTriggerStepStep ==
  ASSUME NEW w \in OrchWorkers PROVE IInv /\ CreateTriggerStep(w) => IInv'
<1> SUFFICES ASSUME IInv, CreateTriggerStep(w) PROVE IInv'
  OBVIOUS
<1> USE DEF IInv
<1>1. orch[w] \in OrchState /\ Begun /\ exec.status # "absent"
  BY DEF TypeOK, WorkersOK, OrchOK, CreateTriggerStep, OrchAt, Begun
<1>2. PICK key, created :
        /\ key = <<TriggerOf(graph), 0>> /\ created = Creatable({key})
        /\ rows' = [k \in DOMAIN rows \cup created |->
                      IF k \in DOMAIN rows THEN rows[k] ELSE NewRow("completed", exec.trigger)]
        /\ orch' = [orch EXCEPT ![w] =
                      IF created = {} THEN IdleOrch
                      ELSE [IdleOrch EXCEPT !.pc = "announceTrigger", !.key = key]]
  BY DEF CreateTriggerStep, InsertRows
<1>3. /\ events' = events \cup {ExecEvent("started")}
      /\ UNCHANGED <<graph, exec, caller, orchQueue, stepQueue, runner>>
  BY DEF CreateTriggerStep
<1>4. key \in StepKeys /\ created \subseteq {key} /\ created \cap DOMAIN rows = {}
  BY <1>1, <1>2, ValidGraph DEF Admission, StepKeys, Creatable
<1>5. NewRow("completed", exec.trigger) \in Row
  BY DEF NewRow, Row, TypeOK, StepStatuses
<1>6. RowsOK'
  BY <1>2, <1>3, <1>4, <1>5 DEF TypeOK, RowsOK, StepKeys, NewRow
<1>7. created \subseteq SettledKeys'
  BY <1>2, <1>4 DEF SettledKeys, IsSettled, SettledStatuses, NewRow
<1>8. Advance /\ MessagesOK /\ Begun'
  BY <1>1, <1>2, <1>3 DEF Advance, MessagesOK, Begun, SettledKeys, TellsTruth, EventOK, ExecEvent
<1>9. PICK o : o = IF created = {} THEN IdleOrch
                   ELSE [IdleOrch EXCEPT !.pc = "announceTrigger", !.key = key]
  OBVIOUS
<1>10. o \in OrchState
  BY <1>4, <1>9 DEF IdleOrch, OrchState, OrchPcs
<1>11. OrchOK(o)'
  BY <1>4, <1>7, <1>8, <1>9 DEF OrchOK, IdleOrch
<1>12. orch' = [orch EXCEPT ![w] = o] /\ exec' \in [status : ExecStatuses, trigger : Outputs]
  BY <1>2, <1>3, <1>9 DEF TypeOK
<1> QED BY <1>1, <1>2, <1>3, <1>6, <1>8, <1>10, <1>11, <1>12, OrchStep

LEMMA AnnounceTriggerStep ==
  ASSUME NEW w \in OrchWorkers PROVE IInv /\ AnnounceTrigger(w) => IInv'
<1> SUFFICES ASSUME IInv, AnnounceTrigger(w) PROVE IInv'
  OBVIOUS
<1> USE DEF IInv
<1>1. orch[w].key \in SettledKeys /\ Begun /\ exec.status # "absent"
  BY DEF WorkersOK, OrchOK, AnnounceTrigger, OrchAt, Begun
<1>2. /\ orchQueue' = orchQueue \cup {Settled(orch[w].key)}
      /\ orch' = [orch EXCEPT ![w] = IdleOrch]
      /\ UNCHANGED <<graph, exec, caller, rows, stepQueue, runner, events>>
  BY DEF AnnounceTrigger, OrchDone
<1>3. Advance /\ MessagesOK /\ Begun'
  BY <1>1, <1>2 DEF Advance, MessagesOK, Begun, SettledKeys, Settled
<1>4. OrchOK(IdleOrch)'
  BY DEF OrchOK, IdleOrch
<1>5. RowsOK' /\ exec' \in [status : ExecStatuses, trigger : Outputs]
  BY <1>2 DEF TypeOK, RowsOK, StepKeys
<1> QED BY <1>1, <1>2, <1>3, <1>4, <1>5, IdleOrchType, OrchStep

-----------------------------------------------------------------------------
(***************************************************************************)
(* The actions of the settled handler.                                     *)
(***************************************************************************)
LEMMA LoadSettledStep ==
  ASSUME NEW w \in OrchWorkers PROVE IInv /\ LoadSettled(w) => IInv'
<1> SUFFICES ASSUME IInv, LoadSettled(w) PROVE IInv'
  OBVIOUS
<1> USE DEF IInv
<1>1. PICK m \in orchQueue \ {Enqueued} :
        /\ orchQueue' \in Consume(orchQueue, m)
        /\ orch' = [orch EXCEPT ![w] =
                      IF AfterLoad(rows[m.key]) = "idle" THEN IdleOrch
                      ELSE [IdleOrch EXCEPT !.pc = AfterLoad(rows[m.key]), !.key = m.key]]
  BY DEF LoadSettled
<1>2. UNCHANGED <<graph, exec, caller, rows, stepQueue, runner, events>>
  BY DEF LoadSettled
<1>3. orchQueue' \subseteq orchQueue
  BY <1>1 DEF Consume
<1>4. m.key \in SettledKeys /\ m.key \in StepKeys /\ Begun
  BY DEF MessagesNameRows, SettledKeys, TypeOK, RowsOK, Admission
<1>5. AfterLoad(rows[m.key]) \in {"idle", "fail", "checkFailed", "finishTerminals"}
  BY DEF AfterLoad
<1>6. PICK o : o = IF AfterLoad(rows[m.key]) = "idle" THEN IdleOrch
                   ELSE [IdleOrch EXCEPT !.pc = AfterLoad(rows[m.key]), !.key = m.key]
  OBVIOUS
<1>7. o \in OrchState
  BY <1>4, <1>5, <1>6 DEF IdleOrch, OrchState, OrchPcs
<1>8. OrchOK(o)
  BY <1>4, <1>5, <1>6 DEF OrchOK, IdleOrch
<1>9. orch' = [orch EXCEPT ![w] = o]
  BY <1>1, <1>6
<1> QED BY <1>2, <1>3, <1>4, <1>7, <1>8, <1>9, OrchMove

LEMMA CheckFailedStep ==
  ASSUME NEW w \in OrchWorkers PROVE IInv /\ CheckFailed(w) => IInv'
<1> SUFFICES ASSUME IInv, CheckFailed(w) PROVE IInv'
  OBVIOUS
<1> USE DEF IInv
<1>1. orch[w] \in OrchState /\ OrchOK(orch[w]) /\ orch[w].pc = "checkFailed" /\ Begun
  BY DEF TypeOK, WorkersOK, OrchOK, CheckFailed, OrchAt
<1>2. PICK o : o = [orch[w] EXCEPT !.pc = IF AnyFailed THEN "fail" ELSE "planTerminals"]
  OBVIOUS
<1>3. o \in OrchState /\ OrchOK(o)
  BY <1>1, <1>2 DEF OrchState, OrchPcs, OrchOK
<1>4. orch' = [orch EXCEPT ![w] = o]
  BY <1>2 DEF CheckFailed, OrchGoto, TypeOK
<1>5. UNCHANGED <<graph, exec, caller, rows, orchQueue, stepQueue, runner, events>>
  BY DEF CheckFailed
<1> QED BY <1>1, <1>3, <1>4, <1>5, OrchMove

\* The last passes a handler reads are rows of the table.
LEMMA TermsType ==
  ASSUME IInv, NEW batchNodes
  PROVE  LoadTerminalIterations(rows, batchNodes) \in SUBSET StepKeys
  BY DEF IInv, TypeOK, RowsOK, LoadTerminalIterations

LEMMA PlanTerminalsStep ==
  ASSUME NEW w \in OrchWorkers PROVE IInv /\ PlanTerminals(w) => IInv'
<1> SUFFICES ASSUME IInv, PlanTerminals(w) PROVE IInv'
  OBVIOUS
<1> USE DEF IInv
<1>1. orch[w] \in OrchState /\ OrchOK(orch[w]) /\ orch[w].pc = "planTerminals" /\ Begun
  BY DEF TypeOK, WorkersOK, OrchOK, PlanTerminals, OrchAt
<1>2. PICK terms \in SUBSET StepKeys :
        orch' = [orch EXCEPT ![w].pc = "plan", ![w].terms = terms]
  BY TermsType DEF PlanTerminals
<1>3. PICK o : o = [orch[w] EXCEPT !.pc = "plan", !.terms = terms]
  OBVIOUS
<1>4. o \in OrchState /\ OrchOK(o)
  BY <1>1, <1>2, <1>3 DEF OrchState, OrchPcs, OrchOK
<1>5. orch' = [orch EXCEPT ![w] = o]
  BY <1>2, <1>3 DEF TypeOK
<1>6. UNCHANGED <<graph, exec, caller, rows, orchQueue, stepQueue, runner, events>>
  BY DEF PlanTerminals
<1> QED BY <1>1, <1>4, <1>5, <1>6, OrchMove

LEMMA PlanStep ==
  ASSUME NEW w \in OrchWorkers PROVE IInv /\ Plan(w) => IInv'
<1> SUFFICES ASSUME IInv, Plan(w) PROVE IInv'
  OBVIOUS
<1> USE DEF IInv
<1>1. orch[w] \in OrchState /\ orch[w].key \in SettledKeys /\ Begun
  BY DEF TypeOK, WorkersOK, OrchOK, Plan, OrchAt
<1>2. orch[w].key \in StepKeys /\ ValidateExecutableGraph(graph)
  BY <1>1 DEF SettledKeys, TypeOK, RowsOK, Admission, Begun
<1> DEFINE steps == RowSummaries(DecisionKeys(graph, Loops[graph], orch[w].key, orch[w].terms))
           decided == DecideSuccessors(graph, Loops[graph], orch[w].key, steps, orch[w].terms)
<1>3. PICK plan, pc :
        /\ plan = decided /\ pc \in {"finishTerminals", "create"}
        /\ orch' = [orch EXCEPT ![w] = [IdleOrch EXCEPT
                      !.pc = pc, !.key = orch[w].key,
                      !.toQueue = plan.toQueue, !.toSkip = plan.toSkip]]
  <2>1. PICK pc : pc = IF decided.toQueue \cup decided.toSkip = {} THEN "finishTerminals"
                       ELSE "create"
    OBVIOUS
  <2>2. orch' = [orch EXCEPT ![w] = [IdleOrch EXCEPT
                   !.pc = pc, !.key = orch[w].key,
                   !.toQueue = decided.toQueue, !.toSkip = decided.toSkip]]
    BY <2>1 DEF Plan
  <2> QED BY <2>1, <2>2
<1>4. plan.toQueue \subseteq StepKeys /\ plan.toSkip \subseteq StepKeys
  BY <1>2, <1>3, DecideSuccessorsType DEF StepKeys
<1>5. PICK o : o = [IdleOrch EXCEPT !.pc = pc, !.key = orch[w].key,
                                    !.toQueue = plan.toQueue, !.toSkip = plan.toSkip]
  OBVIOUS
<1>6. o \in OrchState /\ OrchOK(o)
  BY <1>1, <1>2, <1>3, <1>4, <1>5 DEF IdleOrch, OrchState, OrchPcs, OrchOK
<1>7. orch' = [orch EXCEPT ![w] = o]
  BY <1>3, <1>5
<1>8. UNCHANGED <<graph, exec, caller, rows, orchQueue, stepQueue, runner, events>>
  BY DEF Plan
<1> QED BY <1>1, <1>6, <1>7, <1>8, OrchMove

LEMMA CreateStepsStep ==
  ASSUME NEW w \in OrchWorkers PROVE IInv /\ CreateSteps(w) => IInv'
<1> SUFFICES ASSUME IInv, CreateSteps(w) PROVE IInv'
  OBVIOUS
<1> USE DEF IInv
<1>1. orch[w] \in OrchState /\ OrchOK(orch[w]) /\ orch[w].pc = "create" /\ Begun
  BY DEF TypeOK, WorkersOK, OrchOK, CreateSteps, OrchAt
<1>2. PICK created, pc, queued :
        /\ created = Creatable(orch[w].toQueue \cup orch[w].toSkip)
        /\ pc \in {"finishTerminals", "announce"} /\ queued \in BOOLEAN
        /\ orch' = [orch EXCEPT ![w].pc = pc, ![w].toSkip = {},
                                ![w].created = created, ![w].queued = queued]
  BY DEF CreateSteps
<1>3. rows' = [k \in DOMAIN rows \cup created |->
                 IF k \in DOMAIN rows THEN rows[k]
                 ELSE NewRow(IF k \in orch[w].toQueue THEN "queued" ELSE "skipped", NoOutputs)]
  BY <1>2 DEF CreateSteps, InsertRows
<1>4. UNCHANGED <<graph, exec, caller, orchQueue, stepQueue, runner, events>>
  BY DEF CreateSteps
<1>5. created \subseteq StepKeys /\ created \cap DOMAIN rows = {}
  BY <1>1, <1>2 DEF OrchState, Creatable
<1>6. RowsOK'
  BY <1>3, <1>4, <1>5, NoOutputsType DEF TypeOK, RowsOK, StepKeys, NewRow, Row, StepStatuses
<1>7. Advance /\ MessagesOK /\ Begun' /\ exec.status # "absent"
  BY <1>1, <1>3, <1>4 DEF Advance, MessagesOK, Begun, SettledKeys
<1>8. created \subseteq DOMAIN rows' /\ created \ orch[w].toQueue \subseteq SettledKeys'
  BY <1>3, <1>5 DEF SettledKeys, IsSettled, SettledStatuses, NewRow
<1>9. PICK o : o = [orch[w] EXCEPT !.pc = pc, !.toSkip = {}, !.created = created,
                                   !.queued = queued]
  OBVIOUS
<1>10. o \in OrchState /\ o.created = created /\ o.toQueue = orch[w].toQueue /\ o.pc = pc
  BY <1>1, <1>2, <1>5, <1>9 DEF OrchState, OrchPcs
<1>11. OrchOK(o)'
  BY <1>2, <1>7, <1>8, <1>10 DEF OrchOK
<1>12. orch' = [orch EXCEPT ![w] = o] /\ exec' \in [status : ExecStatuses, trigger : Outputs]
  BY <1>2, <1>4, <1>9 DEF TypeOK
<1>13. \A k \in DOMAIN rows : rows'[k] = rows[k]
  BY <1>3
<1> QED BY <1>4, <1>6, <1>7, <1>10, <1>11, <1>12, <1>13, OrchStep

LEMMA AnnounceCreatedStep ==
  ASSUME NEW w \in OrchWorkers PROVE IInv /\ AnnounceCreated(w) => IInv'
<1> SUFFICES ASSUME IInv, AnnounceCreated(w) PROVE IInv'
  OBVIOUS
<1> USE DEF IInv
<1>1. orch[w] \in OrchState /\ OrchOK(orch[w]) /\ orch[w].pc = "announce" /\ Begun
  BY DEF TypeOK, WorkersOK, OrchOK, AnnounceCreated, OrchAt
<1>2. PICK k \in orch[w].created, last \in {"idle", "finishTerminals"} :
        /\ \/ /\ k \in orch[w].toQueue
              /\ stepQueue' = stepQueue \cup {k} /\ UNCHANGED orchQueue
           \/ /\ k \notin orch[w].toQueue
              /\ orchQueue' = orchQueue \cup {Settled(k)} /\ UNCHANGED stepQueue
        /\ orch' = [orch EXCEPT ![w] =
                      IF orch[w].created \ {k} # {}
                      THEN [orch[w] EXCEPT !.created = orch[w].created \ {k}]
                      ELSE IF last = "idle" THEN IdleOrch
                      ELSE [IdleOrch EXCEPT !.pc = "finishTerminals", !.key = orch[w].key]]
  BY DEF AnnounceCreated
<1>3. UNCHANGED <<graph, exec, caller, rows, runner, events>>
  BY DEF AnnounceCreated
<1>4. /\ k \in DOMAIN rows
      /\ k \notin orch[w].toQueue => k \in SettledKeys
  BY <1>1, <1>2 DEF OrchOK
<1>5. Advance /\ Begun' /\ exec.status # "absent"
  BY <1>1, <1>3 DEF Advance, Begun
<1>6. MessagesOK
  BY <1>2, <1>3, <1>4 DEF MessagesOK, SettledKeys, Settled
<1>7. PICK o : o = IF orch[w].created \ {k} # {}
                   THEN [orch[w] EXCEPT !.created = orch[w].created \ {k}]
                   ELSE IF last = "idle" THEN IdleOrch
                   ELSE [IdleOrch EXCEPT !.pc = "finishTerminals", !.key = orch[w].key]
  OBVIOUS
<1>8. o \in OrchState /\ OrchOK(o)
  BY <1>1, <1>7 DEF IdleOrch, OrchState, OrchPcs, OrchOK
<1>9. OrchOK(o)'
  BY <1>5, <1>8, AdvanceOrch
<1>10. RowsOK' /\ exec' \in [status : ExecStatuses, trigger : Outputs]
  BY <1>3 DEF TypeOK, RowsOK, StepKeys
<1>11. orch' = [orch EXCEPT ![w] = o]
  BY <1>2, <1>7
<1> QED BY <1>3, <1>5, <1>6, <1>8, <1>9, <1>10, <1>11, OrchStep

LEMMA FinishTerminalsStep ==
  ASSUME NEW w \in OrchWorkers PROVE IInv /\ FinishTerminals(w) => IInv'
<1> SUFFICES ASSUME IInv, FinishTerminals(w) PROVE IInv'
  OBVIOUS
<1> USE DEF IInv
<1>1. Begun
  BY DEF WorkersOK, OrchOK, FinishTerminals, OrchAt
<1>2. PICK terms \in SUBSET StepKeys, pc \in {"idle", "count"} :
        orch' = [orch EXCEPT ![w] = IF pc = "idle" THEN IdleOrch
                                    ELSE [IdleOrch EXCEPT !.pc = "count", !.terms = terms]]
  BY TermsType DEF FinishTerminals
<1>3. PICK o : o = IF pc = "idle" THEN IdleOrch
                   ELSE [IdleOrch EXCEPT !.pc = "count", !.terms = terms]
  OBVIOUS
<1>4. o \in OrchState /\ OrchOK(o)
  BY <1>1, <1>2, <1>3 DEF IdleOrch, OrchState, OrchPcs, OrchOK
<1>5. orch' = [orch EXCEPT ![w] = o]
  BY <1>2, <1>3
<1>6. UNCHANGED <<graph, exec, caller, rows, orchQueue, stepQueue, runner, events>>
  BY DEF FinishTerminals
<1> QED BY <1>1, <1>4, <1>5, <1>6, OrchMove

LEMMA CountSettledStep ==
  ASSUME NEW w \in OrchWorkers PROVE IInv /\ CountSettled(w) => IInv'
<1> SUFFICES ASSUME IInv, CountSettled(w) PROVE IInv'
  OBVIOUS
<1> USE DEF IInv
<1>1. orch[w] \in OrchState /\ OrchOK(orch[w]) /\ orch[w].pc = "count" /\ Begun
  BY DEF TypeOK, WorkersOK, OrchOK, CountSettled, OrchAt
<1>2. PICK o : /\ o = IdleOrch \/ o = [orch[w] EXCEPT !.pc = "outcome"]
               /\ orch' = [orch EXCEPT ![w] = o]
  <2>1. CASE Cardinality(SettledKeys) < Expected(orch[w].terms)
    BY <2>1 DEF CountSettled, OrchDone
  <2>2. CASE ~(Cardinality(SettledKeys) < Expected(orch[w].terms))
    <3>1. orch' = [orch EXCEPT ![w] = [orch[w] EXCEPT !.pc = "outcome"]]
      BY <2>2 DEF CountSettled, OrchGoto, TypeOK
    <3> QED BY <3>1
  <2> QED BY <2>1, <2>2
<1>3. ASSUME o = IdleOrch PROVE o \in OrchState /\ OrchOK(o)
  BY <1>3, IdleOrchType DEF OrchOK, IdleOrch
<1>4. ASSUME o = [orch[w] EXCEPT !.pc = "outcome"] PROVE o \in OrchState /\ OrchOK(o)
  BY <1>1, <1>4 DEF OrchState, OrchPcs, OrchOK
<1>5. o \in OrchState /\ OrchOK(o)
  BY <1>2, <1>3, <1>4
<1>6. UNCHANGED <<graph, exec, caller, rows, orchQueue, stepQueue, runner, events>>
  BY DEF CountSettled
<1> QED BY <1>1, <1>2, <1>5, <1>6, OrchMove

LEMMA ReadOutcomeStep ==
  ASSUME NEW w \in OrchWorkers PROVE IInv /\ ReadOutcome(w) => IInv'
<1> SUFFICES ASSUME IInv, ReadOutcome(w) PROVE IInv'
  OBVIOUS
<1> USE DEF IInv
<1>1. Begun
  BY DEF WorkersOK, OrchOK, ReadOutcome, OrchAt
<1> DEFINE finish(outcome) == [IdleOrch EXCEPT !.pc = "finish", !.outcome = outcome]
<1>2. PICK o : /\ o = finish("failed") \/ o = finish("completed")
               /\ orch' = [orch EXCEPT ![w] = o]
  BY DEF ReadOutcome
<1>3. o \in OrchState /\ OrchOK(o)
  BY <1>1, <1>2 DEF IdleOrch, OrchState, OrchPcs, OrchOK
<1>4. UNCHANGED <<graph, exec, caller, rows, orchQueue, stepQueue, runner, events>>
  BY DEF ReadOutcome
<1> QED BY <1>1, <1>2, <1>3, <1>4, OrchMove

LEMMA FinishStep ==
  ASSUME NEW w \in OrchWorkers PROVE IInv /\ Finish(w) => IInv'
<1> SUFFICES ASSUME IInv, Finish(w) PROVE IInv'
  OBVIOUS
<1> USE DEF IInv
<1>1. /\ orch[w] \in OrchState /\ OrchOK(orch[w]) /\ orch[w].pc = "finish" /\ Begun
      /\ orch[w].outcome \in {"completed", "failed"}
  BY DEF TypeOK, WorkersOK, OrchOK, OrchState, Finish, OrchAt
<1>2. UNCHANGED <<graph, caller, rows, orchQueue, stepQueue, runner, events>>
  BY DEF Finish
<1>3. CASE exec.status # "running"
  <2>1. UNCHANGED exec /\ orch' = [orch EXCEPT ![w] = IdleOrch] /\ orchQueue' \subseteq orchQueue
    BY <1>3 DEF Finish, FinishExecution, OrchDone
  <2>2. OrchOK(IdleOrch)
    BY DEF OrchOK, IdleOrch
  <2> QED BY <1>1, <1>2, <2>1, <2>2, IdleOrchType, OrchMove
<1>4. CASE exec.status = "running"
  <2>1. PICK o : o = [orch[w] EXCEPT !.pc = "announceEnd"]
    OBVIOUS
  <2>2. exec' = [exec EXCEPT !.status = orch[w].outcome] /\ orch' = [orch EXCEPT ![w] = o]
    BY <1>4, <2>1 DEF Finish, FinishExecution, OrchGoto, TypeOK
  <2>3. exec' \in [status : ExecStatuses, trigger : Outputs] /\ exec'.status = orch[w].outcome
    BY <1>1, <2>2 DEF TypeOK, ExecStatuses
  <2>4. Advance /\ MessagesOK /\ Begun' /\ exec.status # "absent"
    BY <1>1, <1>2, <1>4, <2>3 DEF Advance, MessagesOK, Begun
  <2>5. o \in OrchState /\ o.pc = "announceEnd" /\ o.outcome = orch[w].outcome
        /\ o.created = orch[w].created /\ o.toQueue = orch[w].toQueue
    BY <1>1, <2>1 DEF OrchState, OrchPcs
  <2>6. OrchOK(o)'
    BY <1>1, <1>2, <2>3, <2>4, <2>5 DEF OrchOK, SettledKeys
  <2>7. RowsOK'
    BY <1>2 DEF TypeOK, RowsOK, StepKeys
  <2> QED BY <1>2, <2>2, <2>3, <2>4, <2>5, <2>6, <2>7, OrchStep
<1> QED BY <1>3, <1>4

LEMMA AnnounceEndStep ==
  ASSUME NEW w \in OrchWorkers PROVE IInv /\ AnnounceEnd(w) => IInv'
<1> SUFFICES ASSUME IInv, AnnounceEnd(w) PROVE IInv'
  OBVIOUS
<1> USE DEF IInv
<1>1. /\ orch[w].outcome \in {"completed", "failed"} /\ Begun
      /\ exec.status = orch[w].outcome
  BY DEF TypeOK, WorkersOK, OrchOK, OrchState, AnnounceEnd, OrchAt
<1>2. /\ events' = events \cup {ExecEvent(orch[w].outcome)}
      /\ orch' = [orch EXCEPT ![w] = IdleOrch]
      /\ UNCHANGED <<graph, exec, caller, rows, orchQueue, stepQueue, runner>>
  BY DEF AnnounceEnd, OrchDone
<1>3. Advance /\ MessagesOK /\ Begun' /\ exec.status # "absent"
  BY <1>1, <1>2 DEF Advance, MessagesOK, Begun, TellsTruth, EventOK, ExecEvent
<1>4. OrchOK(IdleOrch)'
  BY DEF OrchOK, IdleOrch
<1>5. RowsOK' /\ exec' \in [status : ExecStatuses, trigger : Outputs]
  BY <1>2 DEF TypeOK, RowsOK, StepKeys
<1> QED BY <1>1, <1>2, <1>3, <1>4, <1>5, IdleOrchType, OrchStep

LEMMA FailExecutionStep ==
  ASSUME NEW w \in OrchWorkers PROVE IInv /\ FailExecution(w) => IInv'
<1> SUFFICES ASSUME IInv, FailExecution(w) PROVE IInv'
  OBVIOUS
<1> USE DEF IInv
<1>1. Begun
  BY DEF WorkersOK, OrchOK, FailExecution, OrchAt
<1>2. UNCHANGED <<graph, caller, rows, orchQueue, stepQueue, runner, events>>
  BY DEF FailExecution
<1>3. PICK o : o = [IdleOrch EXCEPT !.pc = "sweep",
                      !.outcome = IF exec.status = "running" THEN "failed" ELSE "none"]
  OBVIOUS
<1>4. orch' = [orch EXCEPT ![w] = o]
  BY <1>3 DEF FailExecution
<1>5. /\ exec' \in [status : ExecStatuses, trigger : Outputs]
      /\ exec'.status = IF exec.status = "running" THEN "failed" ELSE exec.status
  BY DEF FailExecution, FinishExecution, TypeOK, ExecStatuses
<1>6. Advance /\ MessagesOK /\ Begun' /\ exec.status # "absent"
  BY <1>1, <1>2, <1>5 DEF Advance, MessagesOK, Begun
<1>7. o \in OrchState /\ OrchOK(o)'
  BY <1>3, <1>5, <1>6 DEF IdleOrch, OrchState, OrchPcs, OrchOK
<1>8. RowsOK'
  BY <1>2 DEF TypeOK, RowsOK, StepKeys
<1> QED BY <1>2, <1>4, <1>5, <1>6, <1>7, <1>8, OrchStep

LEMMA SweepStep ==
  ASSUME NEW w \in OrchWorkers PROVE IInv /\ Sweep(w) => IInv'
<1> SUFFICES ASSUME IInv, Sweep(w) PROVE IInv'
  OBVIOUS
<1> USE DEF IInv
<1>1. /\ orch[w].outcome \in {"none", "completed", "failed"} /\ Begun
      /\ orch[w].outcome # "none" => exec.status = orch[w].outcome
  BY DEF TypeOK, WorkersOK, OrchOK, OrchState, Sweep, OrchAt
<1>2. /\ events' = events \cup {ExecEvent(o) : o \in {orch[w].outcome} \ {"none"}}
      /\ orch' = [orch EXCEPT ![w] = IdleOrch]
      /\ UNCHANGED <<graph, exec, caller, orchQueue, stepQueue, runner>>
  BY DEF Sweep, OrchDone
<1>3. rows' = [k \in DOMAIN rows |->
                 IF rows[k].status = "queued" THEN NewRow("cancelled", NoOutputs) ELSE rows[k]]
  BY DEF Sweep, CancelQueuedSteps
<1>4. RowsOK'
  BY <1>2, <1>3, NoOutputsType DEF TypeOK, RowsOK, StepKeys, NewRow, Row, StepStatuses
<1>5. Advance /\ Begun' /\ exec.status # "absent"
  BY <1>1, <1>2, <1>3
     DEF Advance, Begun, SettledKeys, IsSettled, SettledStatuses
<1>6. MessagesOK
  BY <1>1, <1>2 DEF MessagesOK, TellsTruth, EventOK, ExecEvent
<1>7. OrchOK(IdleOrch)'
  BY DEF OrchOK, IdleOrch
<1>8. exec' \in [status : ExecStatuses, trigger : Outputs]
  BY <1>2 DEF TypeOK
<1>9. \A k \in DOMAIN rows : rows[k].status = "running" => rows'[k] = rows[k]
  BY <1>3
<1> QED BY <1>2, <1>4, <1>5, <1>6, <1>7, <1>8, <1>9, IdleOrchType, OrchStep

-----------------------------------------------------------------------------
(***************************************************************************)
(* The actions of the ready handler.                                       *)
(***************************************************************************)
\* A step of a step worker, which leaves the rows of the other workers alone.
LEMMA RunnerStep ==
  ASSUME IInv, NEW w \in StepWorkers, NEW r \in RunnerState,
         runner' = [runner EXCEPT ![w] = r], RunnerOK(r)',
         UNCHANGED <<graph, exec, caller, orch>>,
         Begun, Advance, RowsOK', MessagesOK,
         r.pc \in {"load", "run", "record"} => rows'[r.key].status = "running",
         \A v \in StepWorkers \ {w} :
           Claimed(v) => /\ rows'[runner[v].key] = rows[runner[v].key]
                         /\ r.pc # "idle" => runner[v].key # r.key
  PROVE  IInv'
<1> USE DEF IInv
<1>1. /\ orch \in [OrchWorkers -> OrchState] /\ runner \in [StepWorkers -> RunnerState]
      /\ StepKeys' = StepKeys /\ OrchState' = OrchState /\ RunnerState' = RunnerState
  BY DEF TypeOK, StepKeys, OrchState, RunnerState
<1>2. TypeOK'
  BY <1>1 DEF TypeOK
<1>3. \A v \in OrchWorkers : OrchOK(orch[v])'
  <2> TAKE v \in OrchWorkers
  <2>1. orch[v] \in OrchState /\ OrchOK(orch[v]) /\ orch'[v] = orch[v]
    BY <1>1 DEF WorkersOK
  <2> QED BY <2>1, AdvanceSettled DEF OrchOK, Advance, OrchState
<1>4. \A v \in StepWorkers : RunnerOK(runner[v])'
  <2> TAKE v \in StepWorkers
  <2>1. CASE v = w
    BY <2>1, <1>1
  <2>2. CASE v # w
    <3>1. RunnerOK(runner[v]) /\ runner'[v] = runner[v]
      BY <1>1, <2>2 DEF WorkersOK
    <3> QED BY <3>1 DEF RunnerOK, Advance, SettledKeys, IsSettled, SettledStatuses
  <2> QED BY <2>1, <2>2
<1>5. OneRunner'
  <2>1. \A v \in StepWorkers : Unrecorded(v)' => rows'[runner'[v].key].status = "running"
    BY <1>1 DEF OneRunner, Claimed, Unrecorded
  <2>2. \A u, v \in StepWorkers :
          u # v /\ Claimed(u)' /\ Claimed(v)' => runner'[u].key # runner'[v].key
    BY <1>1 DEF OneRunner, Claimed
  <2> QED BY <2>1, <2>2 DEF OneRunner
<1>6. exec.status # "absent" /\ Begun'
  BY DEF Begun
<1> QED BY <1>2, <1>3, <1>4, <1>5, <1>6, AdvanceShared DEF WorkersOK

\* The special case of a step that leaves the tables and the queues alone, and
\* may take a message or announce an event.
LEMMA RunnerMove ==
  ASSUME IInv, NEW w \in StepWorkers, NEW r \in RunnerState,
         runner' = [runner EXCEPT ![w] = r], RunnerOK(r), Begun,
         stepQueue' \subseteq stepQueue,
         UNCHANGED <<graph, exec, caller, rows, orchQueue, orch>>,
         \A e \in events' \ events : TellsTruth(e)' /\ EventOK(e)',
         r.pc # "idle" => Unrecorded(w) /\ r.pc # "announce" /\ r.key = runner[w].key
  PROVE  IInv'
<1>1. Advance /\ MessagesOK
  BY DEF Advance, MessagesOK, Begun
<1>2. RunnerOK(r)'
  BY <1>1, AdvanceRunner
<1>3. RowsOK'
  BY DEF IInv, TypeOK, RowsOK, StepKeys
<1>4. r.pc \in {"load", "run", "record"} => rows'[r.key].status = "running"
  BY DEF IInv, OneRunner
<1>5. \A v \in StepWorkers \ {w} :
        Claimed(v) => /\ rows'[runner[v].key] = rows[runner[v].key]
                      /\ r.pc # "idle" => runner[v].key # r.key
  BY DEF IInv, OneRunner, Claimed, Unrecorded
<1> QED BY <1>1, <1>2, <1>3, <1>4, <1>5, RunnerStep

LEMMA ClaimStepStep ==
  ASSUME NEW w \in StepWorkers PROVE IInv /\ ClaimStep(w) => IInv'
<1> SUFFICES ASSUME IInv, ClaimStep(w) PROVE IInv'
  OBVIOUS
<1> USE DEF IInv
<1>1. PICK k \in stepQueue :
        /\ stepQueue' \in Consume(stepQueue, k)
        /\ \/ /\ rows[k].status = "queued" /\ ~AnyFailed
              /\ SetStatus(k, "running", NoOutputs)
              /\ runner' = [runner EXCEPT ![w] = [IdleRunner EXCEPT !.pc = "load", !.key = k]]
           \/ UNCHANGED <<rows, runner>>
  BY DEF ClaimStep
<1>2. UNCHANGED <<graph, exec, caller, orchQueue, orch, events>> /\ stepQueue' \subseteq stepQueue
  BY <1>1 DEF ClaimStep, Consume
<1>3. k \in DOMAIN rows /\ k \in StepKeys /\ Begun /\ runner[w].pc = "idle"
  BY DEF MessagesNameRows, TypeOK, RowsOK, Admission, ClaimStep, RunnerAt
<1>4. CASE UNCHANGED <<rows, runner>>
  <2>1. runner[w] \in RunnerState /\ RunnerOK(runner[w]) /\ runner' = [runner EXCEPT ![w] = runner[w]]
    BY <1>4 DEF TypeOK, WorkersOK
  <2> QED BY <1>2, <1>3, <1>4, <2>1, RunnerMove
<1>5. CASE /\ rows[k].status = "queued" /\ SetStatus(k, "running", NoOutputs)
           /\ runner' = [runner EXCEPT ![w] = [IdleRunner EXCEPT !.pc = "load", !.key = k]]
  <2>1. PICK r : r = [IdleRunner EXCEPT !.pc = "load", !.key = k]
    OBVIOUS
  <2>2. r \in RunnerState /\ r.pc = "load" /\ r.key = k /\ r.run = Failed
    BY <1>3, <2>1, IdleRunnerType DEF IdleRunner, RunnerState, RunnerPcs
  <2>3. rows' = [rows EXCEPT ![k] = NewRow("running", NoOutputs)]
    BY <1>5 DEF SetStatus
  <2>4. RowsOK'
    BY <1>2, <1>3, <2>3, NoOutputsType DEF TypeOK, RowsOK, StepKeys, NewRow, Row, StepStatuses
  <2>5. Advance /\ MessagesOK
    BY <1>2, <1>3, <1>5, <2>3
       DEF Advance, MessagesOK, SettledKeys, IsSettled, SettledStatuses, Begun
  <2>6. rows'[k].status = "running" /\ k \in DOMAIN rows'
    BY <1>3, <2>3 DEF TypeOK, RowsOK, NewRow
  <2>7. RunnerOK(r)'
    BY <2>2, <2>6 DEF RunnerOK, Failed
  <2>8. \A v \in StepWorkers \ {w} :
          Claimed(v) => rows'[runner[v].key] = rows[runner[v].key] /\ runner[v].key # k
    <3> TAKE v \in StepWorkers \ {w}
    <3> HAVE Claimed(v)
    <3>1. runner[v] \in RunnerState /\ runner[v].key \in DOMAIN rows
      BY DEF TypeOK, WorkersOK, RunnerOK, Claimed
    <3>2. rows[runner[v].key].status # "queued"
      BY <3>1 DEF OneRunner, WorkersOK, RunnerOK, Claimed, Unrecorded, RunnerState, RunnerPcs
    <3> QED BY <1>5, <2>3, <3>1, <3>2
  <2>9. runner' = [runner EXCEPT ![w] = r] /\ UNCHANGED <<graph, exec, caller, orch>>
    BY <1>2, <1>5, <2>1
  <2>10. r.pc \in {"load", "run", "record"} => rows'[r.key].status = "running"
    BY <2>2, <2>6
  <2>11. \A v \in StepWorkers \ {w} :
           Claimed(v) => /\ rows'[runner[v].key] = rows[runner[v].key]
                         /\ r.pc # "idle" => runner[v].key # r.key
    BY <2>2, <2>8
  <2> HIDE DEF IInv
  <2> QED BY <1>3, <2>2, <2>4, <2>5, <2>7, <2>9, <2>10, <2>11, RunnerStep
<1> QED BY <1>1, <1>4, <1>5

LEMMA LoadExecutionStep ==
  ASSUME NEW w \in StepWorkers PROVE IInv /\ LoadExecution(w) => IInv'
<1> SUFFICES ASSUME IInv, LoadExecution(w) PROVE IInv'
  OBVIOUS
<1> USE DEF IInv
<1>1. /\ runner[w] \in RunnerState /\ RunnerOK(runner[w]) /\ runner[w].pc = "load"
      /\ Unrecorded(w) /\ Begun
  BY DEF TypeOK, WorkersOK, RunnerOK, LoadExecution, RunnerAt, Unrecorded, Admission
<1>2. PICK r : /\ r = IdleRunner \/ r = [runner[w] EXCEPT !.pc = "run"]
               /\ runner' = [runner EXCEPT ![w] = r]
  <2>1. \/ runner' = [runner EXCEPT ![w] = IdleRunner]
        \/ runner' = [runner EXCEPT ![w] = [runner[w] EXCEPT !.pc = "run"]]
    BY DEF LoadExecution, RunnerDone, TypeOK
  <2> QED BY <2>1
<1>3. ASSUME r = IdleRunner PROVE r \in RunnerState /\ RunnerOK(r) /\ r.pc = "idle"
  BY <1>3, IdleRunnerType DEF RunnerOK, IdleRunner, Failed
<1>4. ASSUME r = [runner[w] EXCEPT !.pc = "run"]
      PROVE  r \in RunnerState /\ RunnerOK(r) /\ r.pc = "run" /\ r.key = runner[w].key
  BY <1>1, <1>4 DEF RunnerOK, RunnerState, RunnerPcs
<1>5. UNCHANGED <<graph, exec, caller, rows, orchQueue, stepQueue, orch, events>>
  BY DEF LoadExecution
<1> QED BY <1>1, <1>2, <1>3, <1>4, <1>5, RunnerMove

\* What a run may come to is a typed result, and a failed one has no outputs.
LEMMA RunsOK ==
  ASSUME IInv, Begun, NEW k \in StepKeys
  PROVE  \A run \in StepRuns(graph, Loops[graph], rows, k, ExecutorRuns, BatchErrors) :
           run \in RunResult /\ (~run.ok => run.outputs = NoOutputs)
<1> USE DEF IInv
<1>1. ExecutorRuns \in SUBSET RunResult /\ BatchErrors \in SUBSET RunResult
  BY SucceededType, FailedType, ParametersAssumption DEF ExecutorRuns, BatchErrors, Outputs
<1>2. /\ graph.batch \in [NodesOf(graph) -> Nat] /\ k \in NodesOf(graph) \X Nat
      /\ \A j \in DOMAIN rows : rows[j] \in Row
  BY ParametersAssumption DEF TypeOK, RowsOK, IsGraph, StepKeys
<1>3. StepRuns(graph, Loops[graph], rows, k, ExecutorRuns, BatchErrors) \subseteq RunResult
  BY <1>1, <1>2, StepRunsType
<1>4. \A run \in ExecutorRuns \cup BatchErrors : ~run.ok => run.outputs = NoOutputs
  BY DEF ExecutorRuns, BatchErrors, Succeeded, Failed
<1>5. ASSUME NEW size, NEW pass, NEW original, NEW arrivals
      PROVE  LET run == RunBatchStep(size, pass, original, arrivals)
             IN  ~run.ok => run.outputs = NoOutputs
  BY DEF RunBatchStep, Succeeded, Failed
<1>6. LET run == RunBatchNode(graph, Loops[graph], rows, k)
      IN  ~run.ok => run.outputs = NoOutputs
  BY <1>5 DEF RunBatchNode
<1> QED BY <1>3, <1>4, <1>6 DEF StepRuns

LEMMA RunStepStep ==
  ASSUME NEW w \in StepWorkers PROVE IInv /\ RunStep(w) => IInv'
<1> SUFFICES ASSUME IInv, RunStep(w) PROVE IInv'
  OBVIOUS
<1> USE DEF IInv
<1> DEFINE k == runner[w].key
<1>1. /\ runner[w] \in RunnerState /\ RunnerOK(runner[w]) /\ runner[w].pc = "run"
      /\ Unrecorded(w) /\ Begun /\ k \in DOMAIN rows /\ k \in StepKeys
      /\ rows[k].status = "running"
  BY DEF TypeOK, RowsOK, WorkersOK, RunnerOK, OneRunner, RunStep, RunnerAt, Unrecorded, Admission
<1>2. PICK run \in RunResult :
        /\ ~run.ok => run.outputs = NoOutputs
        /\ \/ runner' = [runner EXCEPT ![w] = IdleRunner]
           \/ runner' = [runner EXCEPT ![w].pc = "record", ![w].run = run]
  BY <1>1, RunsOK, FailedType DEF RunStep, RunnerDone, Failed
<1>3. /\ events' = events \cup {StepEvent("started", k)}
      /\ UNCHANGED <<graph, exec, caller, rows, orchQueue, stepQueue, orch>>
  BY DEF RunStep
<1>4. \A e \in events' \ events : TellsTruth(e)' /\ EventOK(e)'
  BY <1>1, <1>3 DEF TellsTruth, EventOK, StepEvent, StepKeys, NoKey
<1>5. PICK r : /\ r = IdleRunner \/ r = [runner[w] EXCEPT !.pc = "record", !.run = run]
               /\ runner' = [runner EXCEPT ![w] = r]
  BY <1>2 DEF TypeOK
<1>6. ASSUME r = IdleRunner PROVE r \in RunnerState /\ RunnerOK(r) /\ r.pc = "idle"
  BY <1>6, IdleRunnerType DEF RunnerOK, IdleRunner, Failed
<1>7. ASSUME r = [runner[w] EXCEPT !.pc = "record", !.run = run]
      PROVE  r \in RunnerState /\ RunnerOK(r) /\ r.pc = "record" /\ r.key = runner[w].key
  BY <1>1, <1>2, <1>7 DEF RunnerOK, RunnerState, RunnerPcs, RunResult
<1> QED BY <1>1, <1>3, <1>4, <1>5, <1>6, <1>7, RunnerMove

LEMMA RecordStepStep ==
  ASSUME NEW w \in StepWorkers PROVE IInv /\ RecordStep(w) => IInv'
<1> SUFFICES ASSUME IInv, RecordStep(w) PROVE IInv'
  OBVIOUS
<1> USE DEF IInv
<1>1. PICK k, run : k = runner[w].key /\ run = runner[w].run
  OBVIOUS
<1>2. /\ runner[w] \in RunnerState /\ RunnerOK(runner[w]) /\ runner[w].pc = "record"
      /\ Claimed(w) /\ Begun /\ k \in DOMAIN rows /\ k \in StepKeys
      /\ rows[k].status = "running" /\ run \in RunResult /\ (~run.ok => run.outputs = NoOutputs)
  BY <1>1 DEF TypeOK, RowsOK, WorkersOK, RunnerOK, OneRunner, RecordStep, RunnerAt, Claimed,
              Unrecorded, Admission, RunnerState, RunResult
<1>3. /\ rows' = [rows EXCEPT ![k] =
                    NewRow(IF run.ok THEN "completed" ELSE "failed", run.outputs)]
      /\ runner' = [runner EXCEPT ![w].pc = "announce"]
      /\ UNCHANGED <<graph, exec, caller, orchQueue, stepQueue, orch, events>>
  BY <1>1, <1>2 DEF RecordStep, SetStatus
<1>4. PICK r : r = [runner[w] EXCEPT !.pc = "announce"]
  OBVIOUS
<1>5. r \in RunnerState /\ r.pc = "announce" /\ r.key = k /\ r.run = run
  BY <1>1, <1>2, <1>4 DEF RunnerState, RunnerPcs
<1>6. runner' = [runner EXCEPT ![w] = r]
  BY <1>3, <1>4 DEF TypeOK
<1>7. RowsOK'
  <2>1. /\ DOMAIN rows' = DOMAIN rows /\ rows' = [j \in DOMAIN rows |-> rows'[j]]
        /\ \A j \in DOMAIN rows : j # k => rows'[j] = rows[j]
        /\ rows'[k] = NewRow(IF run.ok THEN "completed" ELSE "failed", run.outputs)
    BY <1>2, <1>3 DEF TypeOK, RowsOK
  <2>2. rows'[k] \in Row /\ (rows'[k].status # "completed" => rows'[k].outputs = NoOutputs)
    BY <1>2, <2>1 DEF NewRow, Row, StepStatuses, RunResult
  <2>3. StepKeys' = StepKeys
    BY <1>3 DEF StepKeys
  <2>4. \A j \in DOMAIN rows :
          j \in StepKeys /\ rows[j] \in Row
          /\ (rows[j].status # "completed" => rows[j].outputs = NoOutputs)
    BY DEF TypeOK, RowsOK
  <2> HIDE DEF IInv
  <2> QED BY <2>1, <2>2, <2>3, <2>4 DEF RowsOK
<1>8. Advance /\ MessagesOK
  BY <1>2, <1>3 DEF Advance, MessagesOK, SettledKeys, IsSettled, SettledStatuses, Begun, NewRow
<1>9. rows'[k].status = IF run.ok THEN "completed" ELSE "failed"
  BY <1>2, <1>3 DEF TypeOK, RowsOK, NewRow
<1>10. RunnerOK(r)'
  BY <1>2, <1>5, <1>8, <1>9 DEF RunnerOK, Advance
<1>11. \A v \in StepWorkers \ {w} :
         Claimed(v) => rows'[runner[v].key] = rows[runner[v].key] /\ runner[v].key # k
  BY <1>1, <1>2, <1>3 DEF OneRunner, WorkersOK, RunnerOK, Claimed
<1> QED BY <1>2, <1>3, <1>5, <1>6, <1>7, <1>8, <1>10, <1>11, RunnerStep

LEMMA AnnounceStepStep ==
  ASSUME NEW w \in StepWorkers PROVE IInv /\ AnnounceStep(w) => IInv'
<1> SUFFICES ASSUME IInv, AnnounceStep(w) PROVE IInv'
  OBVIOUS
<1> USE DEF IInv
<1>1. PICK k, status : /\ k = runner[w].key
                       /\ status = IF runner[w].run.ok THEN "completed" ELSE "failed"
  OBVIOUS
<1>2. k \in DOMAIN rows /\ k \in StepKeys /\ rows[k].status = status /\ Begun
  BY <1>1 DEF TypeOK, RowsOK, WorkersOK, RunnerOK, AnnounceStep, RunnerAt, Admission
<1>3. status \in {"completed", "failed"} /\ k \in SettledKeys
  BY <1>1, <1>2 DEF SettledKeys, IsSettled, SettledStatuses
<1>4. /\ events' = events \cup {StepEvent(status, k)}
      /\ orchQueue' = orchQueue \cup {Settled(k)}
      /\ runner' = [runner EXCEPT ![w] = IdleRunner]
      /\ UNCHANGED <<graph, exec, caller, rows, stepQueue, orch>>
  BY <1>1 DEF AnnounceStep, RunnerDone
<1>5. \A e \in events' \ events : TellsTruth(e)' /\ EventOK(e)'
  BY <1>2, <1>3, <1>4 DEF TellsTruth, EventOK, StepEvent, StepKeys, NoKey
<1>6. Advance /\ MessagesOK
  BY <1>2, <1>3, <1>4, <1>5 DEF Advance, MessagesOK, SettledKeys, Settled, Begun
<1>7. RunnerOK(IdleRunner)'
  BY DEF RunnerOK, IdleRunner, Failed
<1>8. RowsOK'
  BY <1>4 DEF TypeOK, RowsOK, StepKeys
<1>9. IdleRunner.pc = "idle"
  BY DEF IdleRunner
<1>10. \A v \in StepWorkers : rows'[runner[v].key] = rows[runner[v].key]
  BY <1>4
<1> QED BY <1>2, <1>4, <1>6, <1>7, <1>8, <1>9, <1>10, IdleRunnerType, RunnerStep

-----------------------------------------------------------------------------
(***************************************************************************)
(* The faults.                                                             *)
(***************************************************************************)
LEMMA OrchThrowsStep ==
  ASSUME NEW w \in OrchWorkers PROVE IInv /\ OrchThrows(w) => IInv'
<1> SUFFICES ASSUME IInv, OrchThrows(w) PROVE IInv'
  OBVIOUS
<1>1. Begun
  BY DEF IInv, WorkersOK, OrchOK, OrchThrows, OrchAt
<1>2. OrchOK(IdleOrch)
  BY DEF OrchOK, IdleOrch
<1> QED BY <1>1, <1>2, IdleOrchType, OrchMove DEF OrchThrows, OrchDone

LEMMA RunnerThrowsStep ==
  ASSUME NEW w \in StepWorkers PROVE IInv /\ RunnerThrows(w) => IInv'
<1> SUFFICES ASSUME IInv, RunnerThrows(w) PROVE IInv'
  OBVIOUS
<1>1. Begun
  BY DEF IInv, WorkersOK, RunnerOK, Admission, RunnerThrows, RunnerAt
<1>2. RunnerOK(IdleRunner) /\ IdleRunner.pc = "idle"
  BY DEF RunnerOK, IdleRunner, Failed
<1> QED BY <1>1, <1>2, IdleRunnerType, RunnerMove DEF RunnerThrows, RunnerDone

LEMMA CrashStep == IInv /\ Crash => IInv'
<1> SUFFICES ASSUME IInv, Crash PROVE IInv'
  OBVIOUS
<1> USE DEF IInv
<1>1. /\ orchQueue' = {} /\ stepQueue' = {} /\ caller' = "done"
      /\ orch' = [w \in OrchWorkers |-> IdleOrch]
      /\ runner' = [w \in StepWorkers |-> IdleRunner]
      /\ UNCHANGED <<graph, exec, rows, events>>
  BY DEF Crash
<1>2. StepKeys' = StepKeys /\ OrchState' = OrchState /\ RunnerState' = RunnerState
  BY <1>1 DEF StepKeys, OrchState, RunnerState
<1>3. TypeOK'
  BY <1>1, <1>2, IdleOrchType, IdleRunnerType DEF TypeOK, RowsOK
<1>4. Admission' /\ MessagesNameRows'
  BY <1>1 DEF Admission, Begun, Crash, MessagesNameRows
<1>5. WorkersOK' /\ OneRunner'
  BY <1>1 DEF WorkersOK, OrchOK, RunnerOK, IdleOrch, IdleRunner, Failed, OneRunner, Claimed,
              Unrecorded
<1>6. EventsOK' /\ EventsTruthful'
  BY <1>1 DEF EventsOK, EventOK, EventsTruthful, TellsTruth
<1> QED BY <1>3, <1>4, <1>5, <1>6

-----------------------------------------------------------------------------
(***************************************************************************)
(* The theorems.                                                           *)
(***************************************************************************)
LEMMA NextIInv == IInv /\ [Next]_vars => IInv'
<1> SUFFICES ASSUME IInv, [Next]_vars PROVE IInv'
  OBVIOUS
<1>1. CASE PersistExecution
  BY <1>1, PersistExecutionStep
<1>2. CASE PublishEnqueued
  BY <1>2, PublishEnqueuedStep
<1>3. ASSUME NEW w \in OrchWorkers, StartHandler(w) PROVE IInv'
  BY <1>3, ClaimExecutionStep, CreateTriggerStepStep, AnnounceTriggerStep DEF StartHandler
<1>4. ASSUME NEW w \in OrchWorkers, SettledHandler(w) PROVE IInv'
  BY <1>4, LoadSettledStep, CheckFailedStep, PlanTerminalsStep, PlanStep, CreateStepsStep,
     AnnounceCreatedStep, FinishTerminalsStep, CountSettledStep, ReadOutcomeStep, FinishStep,
     AnnounceEndStep, FailExecutionStep, SweepStep DEF SettledHandler
<1>5. ASSUME NEW w \in StepWorkers, ReadyHandler(w) PROVE IInv'
  BY <1>5, ClaimStepStep, LoadExecutionStep, RunStepStep, RecordStepStep, AnnounceStepStep
     DEF ReadyHandler
<1>6. ASSUME NEW w \in OrchWorkers, OrchThrows(w) PROVE IInv'
  BY <1>6, OrchThrowsStep
<1>7. ASSUME NEW w \in StepWorkers, RunnerThrows(w) PROVE IInv'
  BY <1>7, RunnerThrowsStep
<1>8. CASE Crash
  BY <1>8, CrashStep
<1>9. CASE UNCHANGED vars
  BY <1>9 DEF vars, IInv, TypeOK, RowsOK, StepKeys, OrchState, RunnerState, Admission, Begun,
              MessagesNameRows, SettledKeys, WorkersOK, OrchOK, RunnerOK, OneRunner, Claimed,
              Unrecorded, EventsOK, EventOK, EventsTruthful, TellsTruth
<1> QED BY <1>1, <1>2, <1>3, <1>4, <1>5, <1>6, <1>7, <1>8, <1>9 DEF Next

\* The invariant holds of every behaviour.
LEMMA Invariance == Spec => []IInv
  BY InitIInv, NextIInv, PTL DEF Spec

\* The tables, the queues and the workers are always of their types, and only a
\* completed step has outputs.
THEOREM TypeCorrect == Spec => []TypeOK
<1>1. IInv => TypeOK
  BY DEF IInv
<1> QED BY <1>1, Invariance, PTL

\* Every message names a row a consumer can load, a settled one if the message
\* announces a settlement (announceCreatedSteps, StepReadyHandler.handle).
THEOREM MessagesAlwaysNameRows == Spec => []MessagesNameRows
<1>1. IInv => MessagesNameRows
  BY DEF IInv
<1> QED BY <1>1, Invariance, PTL

\* The claim's compare-and-set keeps two workers off one step, whatever is
\* delivered twice, thrown away or lost (claimStep).
THEOREM OneRunnerAtATime == Spec => []OneRunner
<1>1. IInv => OneRunner
  BY DEF IInv
<1> QED BY <1>1, Invariance, PTL

\* No lifecycle event says of a step or of the execution what its row does not
\* (StepReadyHandler, StepSettledHandler and ExecutionStartHandler).
THEOREM EventsAlwaysTruthful == Spec => []EventsTruthful
<1>1. IInv => EventsTruthful
  BY DEF IInv
<1> QED BY <1>1, Invariance, PTL

\* Every step leaves the table as it is, or is one of the six that write it.
LEMMA TableWriters ==
  ASSUME [Next]_vars
  PROVE  \/ UNCHANGED rows
         \/ \E w \in OrchWorkers : CreateTriggerStep(w) \/ CreateSteps(w) \/ Sweep(w)
         \/ \E w \in StepWorkers : ClaimStep(w) \/ RecordStep(w)
<1>1. ASSUME NEW w \in OrchWorkers, StartHandler(w) PROVE UNCHANGED rows \/ CreateTriggerStep(w)
  BY <1>1 DEF StartHandler, ClaimExecution, AnnounceTrigger
<1>2. ASSUME NEW w \in OrchWorkers, SettledHandler(w)
      PROVE  UNCHANGED rows \/ CreateSteps(w) \/ Sweep(w)
  BY <1>2 DEF SettledHandler, LoadSettled, CheckFailed, PlanTerminals, Plan, AnnounceCreated,
              FinishTerminals, CountSettled, ReadOutcome, Finish, AnnounceEnd, FailExecution
<1>3. ASSUME NEW w \in StepWorkers, ReadyHandler(w)
      PROVE  UNCHANGED rows \/ ClaimStep(w) \/ RecordStep(w)
  BY <1>3 DEF ReadyHandler, LoadExecution, RunStep, AnnounceStep
<1>4. ASSUME NEW w, OrchThrows(w) \/ RunnerThrows(w) PROVE UNCHANGED rows
  BY <1>4 DEF OrchThrows, RunnerThrows
<1>5. PersistExecution \/ PublishEnqueued \/ Crash \/ UNCHANGED vars => UNCHANGED rows
  BY DEF PersistExecution, PublishEnqueued, Crash, vars
<1> QED BY <1>1, <1>2, <1>3, <1>4, <1>5 DEF Next

\* A settled step keeps its fate and its outputs for good, so whoever plans from
\* them later decides the same (settlement.ts, rule 1).
THEOREM SettledStaysSettled == Spec => SettledImmutable
<1> DEFINE Immutable == \A k \in SettledKeys : k \in DOMAIN rows' /\ rows'[k] = rows[k]
<1>1. ASSUME [Next]_vars PROVE Immutable
  <2>1. CASE UNCHANGED rows
    BY <2>1 DEF SettledKeys
  <2>2. ASSUME NEW w \in OrchWorkers, CreateTriggerStep(w) \/ CreateSteps(w) PROVE Immutable
    BY <2>2 DEF CreateTriggerStep, CreateSteps, InsertRows, SettledKeys
  <2>3. ASSUME NEW w \in OrchWorkers, Sweep(w) PROVE Immutable
    BY <2>3 DEF Sweep, CancelQueuedSteps, SettledKeys, IsSettled, SettledStatuses
  <2>4. ASSUME NEW w \in StepWorkers, ClaimStep(w) \/ RecordStep(w) PROVE Immutable
    BY <2>4 DEF ClaimStep, RecordStep, SetStatus, SettledKeys, IsSettled, SettledStatuses
  <2> QED BY <1>1, <2>1, <2>2, <2>3, <2>4, TableWriters
<1>2. [Next]_vars => [Immutable]_vars
  BY <1>1
<1> QED BY <1>2, PTL DEF Spec, SettledImmutable

\* Once a step failed nothing new is planned and nothing starts, however late
\* the handlers that are still at work notice (createSteps, claimStep).
THEOREM FailureStopsWork == Spec => FailFast
<1> DEFINE Stops == AnyFailed => /\ DOMAIN rows' = DOMAIN rows
                                 /\ \A k \in DOMAIN rows :
                                      rows'[k].status = "running" => rows[k].status = "running"
<1>1. ASSUME IInv, [Next]_vars PROVE Stops
  <2> SUFFICES ASSUME AnyFailed
               PROVE  /\ DOMAIN rows' = DOMAIN rows
                      /\ \A k \in DOMAIN rows :
                           rows'[k].status = "running" => rows[k].status = "running"
    OBVIOUS
  <2>1. CASE UNCHANGED rows
    BY <2>1
  <2>2. ASSUME NEW w \in OrchWorkers, CreateTriggerStep(w) \/ CreateSteps(w) PROVE Stops
    BY <2>2 DEF CreateTriggerStep, CreateSteps, InsertRows, Creatable
  <2>3. ASSUME NEW w \in OrchWorkers, Sweep(w) PROVE Stops
    BY <2>3 DEF Sweep, CancelQueuedSteps, NewRow
  <2>4. ASSUME NEW w \in StepWorkers, ClaimStep(w) PROVE Stops
    BY <2>4 DEF ClaimStep
  <2>5. ASSUME NEW w \in StepWorkers, RecordStep(w) PROVE Stops
    BY <2>5 DEF RecordStep, SetStatus, NewRow
  <2> QED BY <1>1, <2>1, <2>2, <2>3, <2>4, <2>5, TableWriters
<1>2. IInv /\ [Next]_vars => [Stops]_vars
  BY <1>1
<1> QED BY <1>2, Invariance, PTL DEF Spec, FailFast

-----------------------------------------------------------------------------
(***************************************************************************)
(* The refinement. The proofs of the abstract engine are used through an   *)
(* instance, whose operators are the ones EngineSettlement and             *)
(* EngineGraph define: each instance has its own copy of them, so these    *)
(* lemmas say that the copies are equal.                                   *)
(***************************************************************************)
Data == INSTANCE EngineDataflowProofs

LEMMA LinkFinite ==
  \A S : /\ Data!IsFiniteSet(S) = IsFiniteSet(S)
         /\ Dataflow!IsFiniteSet(S) = IsFiniteSet(S)
  BY DEF Data!IsFiniteSet, Dataflow!IsFiniteSet, IsFiniteSet

LEMMA LinkCard ==
  \A S : /\ Data!Cardinality(S) = Cardinality(S)
         /\ Dataflow!Cardinality(S) = Cardinality(S)
  BY LinkFinite DEF Data!Cardinality, Dataflow!Cardinality, Cardinality, Data!IsFiniteSet,
     Dataflow!IsFiniteSet, IsFiniteSet

LEMMA LinkNodes == \A g : Data!NodesOf(g) = NodesOf(g) /\ Dataflow!NodesOf(g) = NodesOf(g)
  BY DEF Data!NodesOf, Dataflow!NodesOf, NodesOf

LEMMA LinkTrigger ==
  \A g : /\ Data!TriggerOf(g) = TriggerOf(g)
         /\ Dataflow!TriggerOf(g) = TriggerOf(g)
  BY LinkNodes DEF Data!TriggerOf, Dataflow!TriggerOf, TriggerOf

LEMMA LinkKinds ==
  \A g, k : /\ Data!NodesOfKind(g, k) = NodesOfKind(g, k)
            /\ Dataflow!NodesOfKind(g, k) = NodesOfKind(g, k)
  BY LinkNodes DEF Data!NodesOfKind, Dataflow!NodesOfKind, NodesOfKind

LEMMA LinkDescendants ==
  \A g, n : /\ Data!Descendants(g, n) = Descendants(g, n)
            /\ Dataflow!Descendants(g, n) = Descendants(g, n)
  BY LinkCard DEF Data!Descendants, Dataflow!Descendants, Descendants, Data!Successors,
     Dataflow!Successors, Successors, Data!NodesOf, Dataflow!NodesOf, NodesOf

LEMMA LinkLoops ==
  \A g : /\ Data!DeriveLoops(g) = DeriveLoops(g)
         /\ Dataflow!DeriveLoops(g) = DeriveLoops(g)
  BY LinkDescendants DEF Data!DeriveLoops, Dataflow!DeriveLoops, DeriveLoops, Data!LoopAt,
     Dataflow!LoopAt, LoopAt, Data!Component, Dataflow!Component, Component

LEMMA LinkReachable ==
  \A g : /\ Data!ReachableNodes(g) = ReachableNodes(g)
         /\ Dataflow!ReachableNodes(g) = ReachableNodes(g)
  BY LinkDescendants, LinkTrigger DEF Data!ReachableNodes, Dataflow!ReachableNodes,
     ReachableNodes

LEMMA LinkRules ==
  \A g : /\ Data!ValidateLoops(g) = ValidateLoops(g)
         /\ Dataflow!ValidateLoops(g) = ValidateLoops(g)
  BY LinkCard, LinkLoops, LinkDescendants, LinkNodes, LinkKinds DEF Data!ValidateLoops,
     Dataflow!ValidateLoops, ValidateLoops, Data!EndpointsExist, Dataflow!EndpointsExist,
     EndpointsExist, Data!ForwardEdgesAcyclic, Dataflow!ForwardEdgesAcyclic,
     ForwardEdgesAcyclic, Data!BatchNodesLoop, Dataflow!BatchNodesLoop, BatchNodesLoop,
     Data!LoopsAreHeaded, Dataflow!LoopsAreHeaded, LoopsAreHeaded, Data!ReturnsAreSingle,
     Dataflow!ReturnsAreSingle, ReturnsAreSingle, Data!BatchSlotsOK,
     Dataflow!BatchSlotsOK, BatchSlotsOK, Data!LoopBoundaryOK, Dataflow!LoopBoundaryOK,
     LoopBoundaryOK

LEMMA LinkValid ==
  \A g : /\ Data!ValidateExecutableGraph(g) = ValidateExecutableGraph(g)
         /\ Dataflow!ValidateExecutableGraph(g) = ValidateExecutableGraph(g)
  BY LinkCard, LinkRules, LinkReachable, LinkKinds DEF Data!ValidateExecutableGraph,
     Dataflow!ValidateExecutableGraph, ValidateExecutableGraph, Data!ReachableClosed,
     Dataflow!ReachableClosed, ReachableClosed, Data!SlotIndicesOK,
     Dataflow!SlotIndicesOK, SlotIndicesOK, Data!OneEdgePerInputSlot,
     Dataflow!OneEdgePerInputSlot, OneEdgePerInputSlot, Data!MaxSlotIndex,
     Dataflow!MaxSlotIndex, MaxSlotIndex

LEMMA LinkSettled ==
  \A row : /\ Data!IsSettled(row) = IsSettled(row)
           /\ Dataflow!IsSettled(row) = IsSettled(row)
  BY DEF Data!IsSettled, Dataflow!IsSettled, IsSettled, Data!SettledStatuses,
     Dataflow!SettledStatuses, SettledStatuses

LEMMA LinkTerminal ==
  \A row : /\ Data!IsTerminalStep(row) = IsTerminalStep(row)
           /\ Dataflow!IsTerminalStep(row) = IsTerminalStep(row)
  BY LinkSettled DEF Data!IsTerminalStep, Dataflow!IsTerminalStep, IsTerminalStep,
     Data!Filled, Dataflow!Filled, Filled, Data!LoopSlot, Dataflow!LoopSlot, LoopSlot,
     Data!NoData, Dataflow!NoData, NoData

LEMMA LinkLive ==
  \A row, e : /\ Data!IsLive(row, e) = IsLive(row, e)
              /\ Dataflow!IsLive(row, e) = IsLive(row, e)
  BY DEF Data!IsLive, Dataflow!IsLive, IsLive, Data!Filled, Dataflow!Filled, Filled,
     Data!NoData, Dataflow!NoData, NoData

LEMMA LinkTerms ==
  \A t, n : /\ Data!LoadTerminalIterations(t, n) = LoadTerminalIterations(t, n)
            /\ Dataflow!LoadTerminalIterations(t, n) = LoadTerminalIterations(t, n)
  BY LinkTerminal DEF Data!LoadTerminalIterations, Dataflow!LoadTerminalIterations,
     LoadTerminalIterations, Data!IsLatestPass, Dataflow!IsLatestPass, IsLatestPass

LEMMA LinkClass ==
  \A e, l : /\ Data!ClassifyEdge(e, l) = ClassifyEdge(e, l)
            /\ Dataflow!ClassifyEdge(e, l) = ClassifyEdge(e, l)
  BY DEF Data!ClassifyEdge, Dataflow!ClassifyEdge, ClassifyEdge, Data!LoopsWith,
     Dataflow!LoopsWith, LoopsWith

LEMMA LinkTarget ==
  \A e, c, s : /\ Data!TargetKey(e, c, s) = TargetKey(e, c, s)
               /\ Dataflow!TargetKey(e, c, s) = TargetKey(e, c, s)
  BY DEF Data!TargetKey, Dataflow!TargetKey, TargetKey

LEMMA LinkSource ==
  \A e, c, k, terms : /\ Data!SourceRow(e, c, k, terms) = SourceRow(e, c, k, terms)
                      /\ Dataflow!SourceRow(e, c, k, terms) = SourceRow(e, c, k, terms)
  BY DEF Data!SourceRow, Dataflow!SourceRow, SourceRow

LEMMA LinkSources ==
  \A g, l, k, terms : /\ Data!SourcesOf(g, l, k, terms) = SourcesOf(g, l, k, terms)
                      /\ Dataflow!SourcesOf(g, l, k, terms) = SourcesOf(g, l, k, terms)
  BY LinkClass, LinkSource DEF Data!SourcesOf, Dataflow!SourcesOf, SourcesOf,
     Data!Incoming, Dataflow!Incoming, Incoming

LEMMA LinkPast ==
  \A l, k, t : /\ Data!IsPastLoopEnd(l, k, t) = IsPastLoopEnd(l, k, t)
               /\ Dataflow!IsPastLoopEnd(l, k, t) = IsPastLoopEnd(l, k, t)
  BY LinkTerminal DEF Data!IsPastLoopEnd, Dataflow!IsPastLoopEnd, IsPastLoopEnd,
     Data!LoopsWith, Dataflow!LoopsWith, LoopsWith

LEMMA LinkUnsettled ==
  \A s, t : /\ Data!SourceUnsettled(s, t) = SourceUnsettled(s, t)
            /\ Dataflow!SourceUnsettled(s, t) = SourceUnsettled(s, t)
  BY LinkSettled DEF Data!SourceUnsettled, Dataflow!SourceUnsettled, SourceUnsettled

LEMMA LinkFate ==
  \A g, l, k, t, terms : /\ Data!DecideNodeFate(g, l, k, t, terms) = DecideNodeFate(g, l, k, t, terms)
                         /\ Dataflow!DecideNodeFate(g, l, k, t, terms) = DecideNodeFate(g, l, k, t, terms)
  BY LinkSources, LinkPast, LinkUnsettled, LinkLive DEF Data!DecideNodeFate,
     Dataflow!DecideNodeFate, DecideNodeFate

LEMMA LinkDecided ==
  \A g, l, k, t : /\ Data!EdgesDecided(g, l, k, t) = EdgesDecided(g, l, k, t)
                  /\ Dataflow!EdgesDecided(g, l, k, t) = EdgesDecided(g, l, k, t)
  BY LinkTerminal, LinkClass DEF Data!EdgesDecided, Dataflow!EdgesDecided, EdgesDecided,
     Data!Outgoing, Dataflow!Outgoing, Outgoing

LEMMA LinkPlan ==
  \A g, l, k, t, terms : /\ Data!DecideSuccessors(g, l, k, t, terms) = DecideSuccessors(g, l, k, t, terms)
                         /\ Dataflow!DecideSuccessors(g, l, k, t, terms) = DecideSuccessors(g, l, k, t, terms)
  BY LinkDecided, LinkFate, LinkClass, LinkTarget DEF Data!DecideSuccessors,
     Dataflow!DecideSuccessors, DecideSuccessors

LEMMA LinkKeys ==
  \A g, l, k, terms : Data!DecisionKeys(g, l, k, terms) = DecisionKeys(g, l, k, terms)
  BY LinkSources, LinkClass, LinkTarget DEF Data!DecisionKeys, DecisionKeys,
     Data!Outgoing, Outgoing, Data!LoopsWith, LoopsWith

LEMMA LinkCount ==
  \A l, r, terms : Data!CountExpectedSettledSteps(l, r, terms) = CountExpectedSettledSteps(l, r, terms)
  BY DEF Data!CountExpectedSettledSteps, CountExpectedSettledSteps, Data!ReachableLoops, ReachableLoops,
     Data!MapThenSumSet, MapThenSumSet, Data!MapThenFoldSet, MapThenFoldSet, Data!StillRunning,
     StillRunning, Data!Cardinality, Cardinality, Data!IsFiniteSet, IsFiniteSet

LEMMA LinkValues ==
  /\ Data!NoData = NoData /\ Data!NotAList = NotAList /\ Data!NoOutputs = NoOutputs
  /\ Data!Failed = Failed /\ Data!LoopSlot = LoopSlot /\ Data!DoneSlot = DoneSlot
  /\ Dataflow!NoData = NoData /\ Dataflow!NotAList = NotAList /\ Dataflow!NoOutputs = NoOutputs
  /\ Dataflow!Failed = Failed /\ Dataflow!LoopSlot = LoopSlot /\ Dataflow!DoneSlot = DoneSlot
  BY DEF Data!NoData, NoData, Data!NotAList, NotAList, Data!NoOutputs, NoOutputs, Data!Failed, Failed,
     Data!LoopSlot, LoopSlot, Data!DoneSlot, DoneSlot, Dataflow!NoData, Dataflow!NotAList,
     Dataflow!NoOutputs, Dataflow!Failed, Dataflow!LoopSlot, Dataflow!DoneSlot

LEMMA LinkSuccess ==
  \A outputs : /\ Data!Succeeded(outputs) = Succeeded(outputs)
               /\ Dataflow!Succeeded(outputs) = Succeeded(outputs)
  BY DEF Data!Succeeded, Dataflow!Succeeded, Succeeded

LEMMA LinkSlotOnly ==
  \A slot, v : /\ Data!SlotOnly(slot, v) = SlotOnly(slot, v)
               /\ Dataflow!SlotOnly(slot, v) = SlotOnly(slot, v)
  BY LinkValues DEF Data!SlotOnly, Dataflow!SlotOnly, SlotOnly

LEMMA LinkList == \A v : Data!AsList(v) = AsList(v) /\ Dataflow!AsList(v) = AsList(v)
  BY LinkValues DEF Data!AsList, Dataflow!AsList, AsList

LEMMA LinkItems ==
  \A lists : /\ Data!Items(lists) = Items(lists)
             /\ Dataflow!Items(lists) = Items(lists)
  BY LinkList DEF Data!Items, Dataflow!Items, Items

LEMMA LinkBatchStep ==
  \A n, i, o, a : /\ Data!RunBatchStep(n, i, o, a) = RunBatchStep(n, i, o, a)
                  /\ Dataflow!RunBatchStep(n, i, o, a) = RunBatchStep(n, i, o, a)
  BY LinkCard, LinkItems, LinkValues, LinkSuccess, LinkSlotOnly, LinkList DEF
     Data!RunBatchStep, Dataflow!RunBatchStep, RunBatchStep

LEMMA LinkExits ==
  \A g, l, s : /\ Data!ExitSourcesInto(g, l, s) = ExitSourcesInto(g, l, s)
               /\ Dataflow!ExitSourcesInto(g, l, s) = ExitSourcesInto(g, l, s)
  BY LinkClass DEF Data!ExitSourcesInto, Dataflow!ExitSourcesInto, ExitSourcesInto

LEMMA LinkReads ==
  \A g, l, t, k : /\ Data!StepReads(g, l, t, k) = StepReads(g, l, t, k)
                  /\ Dataflow!StepReads(g, l, t, k) = StepReads(g, l, t, k)
  BY LinkSources, LinkTerms, LinkExits DEF Data!StepReads, Dataflow!StepReads, StepReads

LEMMA LinkBack ==
  \A t, k, e : /\ Data!ReadBack(t, k, e) = ReadBack(t, k, e)
               /\ Dataflow!ReadBack(t, k, e) = ReadBack(t, k, e)
  BY LinkLive, LinkValues DEF Data!ReadBack, Dataflow!ReadBack, ReadBack, Data!EdgeValue,
     Dataflow!EdgeValue, EdgeValue

LEMMA LinkOriginal ==
  \A g, l, t, h : /\ Data!ReadOriginalItems(g, l, t, h) = ReadOriginalItems(g, l, t, h)
                  /\ Dataflow!ReadOriginalItems(g, l, t, h) = ReadOriginalItems(g, l, t, h)
<1> TAKE g, l, t, h
<1> DEFINE from(reads) == {s \in reads : s.edge \in h.entries}
<1> DEFINE k == <<h.batch, 0>>
<1> DEFINE a == from(StepReads(g, l, t, k))
<1> DEFINE b == from(Data!StepReads(g, l, t, k))
<1> DEFINE c == from(Dataflow!StepReads(g, l, t, k))
<1> DEFINE x == CHOOSE s \in a : TRUE
<1> DEFINE y == CHOOSE s \in b : TRUE
<1> DEFINE z == CHOOSE s \in c : TRUE
<1>1. ReadOriginalItems(g, l, t, h) =
        IF a = {} THEN NoData ELSE IF x.src.kind = "pending" THEN NotAList
        ELSE ReadBack(t, x.src.key, x.edge)
  BY DEF ReadOriginalItems
<1>2. Data!ReadOriginalItems(g, l, t, h) =
        IF b = {} THEN Data!NoData ELSE IF y.src.kind = "pending" THEN Data!NotAList
        ELSE Data!ReadBack(t, y.src.key, y.edge)
  BY DEF Data!ReadOriginalItems
<1>3. Dataflow!ReadOriginalItems(g, l, t, h) =
        IF c = {} THEN Dataflow!NoData ELSE IF z.src.kind = "pending" THEN Dataflow!NotAList
        ELSE Dataflow!ReadBack(t, z.src.key, z.edge)
  BY DEF Dataflow!ReadOriginalItems
<1>4. a = b /\ a = c
  BY LinkReads
<1> HIDE DEF a, b, c
<1>5. x = y /\ x = z
  BY <1>4, Zenon
<1> HIDE DEF x, y, z
<1>6. QED BY <1>1, <1>2, <1>3, <1>4, <1>5, LinkBack, LinkValues

LEMMA LinkArrivals ==
  \A t, l, i : /\ Data!ReadArrivals(t, l, i) = ReadArrivals(t, l, i)
               /\ Dataflow!ReadArrivals(t, l, i) = ReadArrivals(t, l, i)
  BY LinkBack DEF Data!ReadArrivals, Dataflow!ReadArrivals, ReadArrivals

LEMMA LinkRuns ==
  \A g, l, t, k, runs, errors : /\ Data!StepRuns(g, l, t, k, runs, errors) = StepRuns(g, l, t, k, runs, errors)
                                /\ Dataflow!StepRuns(g, l, t, k, runs, errors) = StepRuns(g, l, t, k, runs, errors)
  BY LinkBatchStep, LinkOriginal, LinkArrivals DEF Data!StepRuns, Dataflow!StepRuns,
     StepRuns, Data!RunBatchNode, Dataflow!RunBatchNode, RunBatchNode

LEMMA LinkReadable ==
  \A g, l, t, k : /\ Data!InputsReadable(g, l, t, k) = InputsReadable(g, l, t, k)
                  /\ Dataflow!InputsReadable(g, l, t, k) = InputsReadable(g, l, t, k)
  BY LinkReads, LinkUnsettled DEF Data!InputsReadable, Dataflow!InputsReadable,
     InputsReadable

-----------------------------------------------------------------------------
(***************************************************************************)
(* What the workers hold between two of their steps. A handler reads part  *)
(* of the table, awaits, and writes: PlanInv says that what it read is     *)
(* still true of the whole table when it writes - the last passes it saw   *)
(* are last passes, a step it planned and that has no row yet is still     *)
(* planned the same, what it counted as done is done - and that what a     *)
(* step worker is about to record is what the step may still come to.      *)
(***************************************************************************)
DataStep == [Data!Next]_<<graph, exec, rows>>

\* What an orchestration worker has read is still true of the whole table.
PlanOK(o) ==
  /\ o.pc \in {"plan", "create"} => o.key \in SettledKeys
  /\ o.pc \in {"plan", "count"} => o.terms \subseteq Data!TermsOf(graph, rows)
  /\ o.pc = "create" =>
       \A k \in (o.toQueue \cup o.toSkip) \ DOMAIN rows :
         IF k \in o.toQueue THEN k \in Data!PlanAt(graph, rows, o.key).toQueue
                            ELSE k \in Data!PlanAt(graph, rows, o.key).toSkip
  /\ o.pc = "count" => Expected(o.terms) # StillRunning
  /\ o.pc = "outcome" => Data!Done(graph, rows)
  /\ o.pc = "finish" => IF o.outcome = "failed" THEN AnyFailed
                                                ELSE Data!Done(graph, rows) /\ ~AnyFailed
  /\ o.pc = "fail" => AnyFailed
  /\ o.pc = "sweep" => exec.status = "failed"

\* What a step worker is about to record is what the step may still come to.
RunOK(r) ==
  r.pc = "record" =>
    r.run \in StepRuns(graph, Loops[graph], rows, r.key, ExecutorRuns, BatchErrors)

PlanInv ==
  /\ Data!DataInv
  /\ \A w \in OrchWorkers : PlanOK(orch[w])
  /\ \A w \in StepWorkers : RunOK(runner[w])

\* What the abstract engine assumes of its constants, the engine assumes too.
LEMMA LinkAssumptions == Data!DataflowAssumption /\ Data!OutputSlotsAssumption
  BY ParametersAssumption, OutputSlotsAssumption, LinkFinite, LinkNodes, LinkValues
     DEF Data!DataflowAssumption, Data!OutputSlotsAssumption, Data!IsGraph, IsGraph, Data!Values, Values,
         Data!NodeKinds, NodeKinds

\* Once the execution is admitted its graph is one the planning rules are proved for.
LEMMA Admitted ==
  ASSUME IInv, Data!DataInv, exec.status # "absent"
  PROVE  /\ Data!Executable(graph) /\ Data!GoodTable(graph, rows)
         /\ Loops[graph] = Data!DeriveLoops(graph)
         /\ Reachable[graph] = Data!ReachableNodes(graph)
<1>1. graph \in Graphs /\ ValidateExecutableGraph(graph)
  BY DEF IInv, TypeOK, Admission
<1>2. Data!IsGraph(graph)
  BY <1>1, LinkAssumptions DEF Data!DataflowAssumption
<1>3. Data!Executable(graph)
  BY <1>1, <1>2, LinkValid DEF Data!Executable
<1>4. QED BY <1>1, <1>3, LinkLoops, LinkReachable DEF Data!DataInv, Loops, Reachable

\* The tables start as the abstract engine's.
LEMMA InitMaps == Init => Data!Init
  BY LinkValues DEF Init, Data!Init, Data!NewRow

\* Nobody holds anything at first.
LEMMA InitPlanInv == Init => PlanInv
<1> SUFFICES ASSUME Init PROVE PlanInv
  OBVIOUS
<1>1. Data!DataInv
  BY InitMaps, Data!InitInv, LinkAssumptions
<1>2. QED BY <1>1 DEF Init, PlanInv, PlanOK, RunOK, IdleOrch, IdleRunner

\* A step of the abstract engine leaves what a worker holds true.
LEMMA StepKeeps ==
  ASSUME IInv, PlanInv, DataStep
  PROVE  /\ Data!DataInv' /\ graph' = graph
         /\ Data!Continues(graph, rows, rows')
         /\ Data!TableOK(graph, rows')
BY LinkAssumptions, Data!NextKeeps DEF DataStep, Data!dataVars, PlanInv

\* A failure stays in the table.
LEMMA FailureKept ==
  ASSUME Data!Continues(graph, rows, rows'), AnyFailed
  PROVE  AnyFailed'
BY LinkSettled DEF Data!Continues, AnyFailed, IsSettled, SettledStatuses

\* What an orchestration worker holds survives another worker's step: rows are only added
\* and settled, and a plan for a step stays the plan until the key has its row.
LEMMA PlanKept ==
  ASSUME IInv, PlanInv, DataStep, NEW o, o.pc # "idle" => exec.status # "absent", PlanOK(o)
  PROVE  PlanOK(o)'
<1>1. /\ Data!DataInv' /\ graph' = graph /\ Data!Continues(graph, rows, rows') /\ Data!DataInv
  BY StepKeeps DEF PlanInv
<1>2. CASE o.pc = "idle"
  BY <1>2 DEF PlanOK
<1>3. CASE o.pc # "idle"
  <2>1. /\ Data!Executable(graph) /\ Data!GoodTable(graph, rows) /\ Data!GoodTable(graph, rows')
    BY <1>1, <1>3, Admitted DEF Data!DataInv
  <2>2. SettledKeys \subseteq SettledKeys' /\ DOMAIN rows \subseteq DOMAIN rows'
    BY <1>1, LinkSettled DEF Data!Continues, SettledKeys
  <2>3. o.pc \in {"plan", "create"} => o.key \in SettledKeys'
    BY <2>2 DEF PlanOK
  <2>4. o.pc \in {"plan", "count"} => o.terms \subseteq Data!TermsOf(graph, rows')
    BY <1>1 DEF PlanOK, Data!Continues
  <2>5. ASSUME o.pc = "create", NEW k \in (o.toQueue \cup o.toSkip) \ DOMAIN rows'
        PROVE  IF k \in o.toQueue THEN k \in Data!PlanAt(graph, rows', o.key).toQueue
                                  ELSE k \in Data!PlanAt(graph, rows', o.key).toSkip
    <3> DEFINE plan == Data!PlanAt(graph, rows, o.key)
    <3> DEFINE later == Data!PlanAt(graph, rows', o.key)
    <3>1. IF k \in o.toQueue THEN k \in plan.toQueue ELSE k \in plan.toSkip
      BY <2>2, <2>5 DEF PlanOK
    <3>2. o.key \in DOMAIN rows /\ Data!IsSettled(rows[o.key])
      BY <2>5, LinkSettled DEF PlanOK, SettledKeys
    <3>3. k \in plan.toQueue \cup plan.toSkip /\ plan.toQueue \cap plan.toSkip = {}
      BY <3>1, Data!PlanSplits, LinkAssumptions
    <3>4. IF k \in plan.toQueue THEN k \in later.toQueue ELSE k \in later.toSkip
      <4>1. k \notin DOMAIN rows'
        BY <2>5
      <4>2. QED BY <1>1, <2>1, <3>2, <3>3, <4>1, Data!PlanStays, LinkAssumptions
    <3> HIDE DEF plan, later
    <3>5. QED BY <3>1, <3>3, <3>4 DEF later
  <2>6. Expected(o.terms)' = Expected(o.terms)
    BY <1>1 DEF Expected
  <2>7. Data!Done(graph, rows) => rows' = rows
    BY <1>1, Data!DoneStays, LinkAssumptions DEF DataStep, Data!dataVars
  <2>8. Data!Done(graph, rows) => Data!Done(graph, rows') /\ (~AnyFailed => ~AnyFailed')
    BY <2>7 DEF AnyFailed
  <2>9. AnyFailed => AnyFailed'
    BY <1>1, FailureKept
  <2>10. exec.status = "failed" => exec'.status = "failed"
    BY Data!FailedStays, LinkAssumptions DEF DataStep, Data!dataVars
  <2>11. QED BY <1>1, <2>3, <2>4, <2>5, <2>6, <2>8, <2>9, <2>10 DEF PlanOK
<1>4. QED BY <1>2, <1>3

\* So does the outcome a step worker is about to record.
LEMMA RunKept ==
  ASSUME IInv, PlanInv, DataStep, NEW r, r.pc = "record" => r.key \in DOMAIN rows, RunOK(r)
  PROVE  RunOK(r)'
<1>1. SUFFICES ASSUME r.pc = "record"
               PROVE  r.run \in StepRuns(graph', Loops[graph'], rows', r.key, ExecutorRuns, BatchErrors)
  BY DEF RunOK
<1>2. /\ graph' = graph /\ Data!Continues(graph, rows, rows') /\ Data!TableOK(graph, rows') /\ Data!DataInv
  BY StepKeeps DEF PlanInv
<1>3. exec.status # "absent"
  BY <1>1, <1>2 DEF Data!DataInv, Data!ExecOK
<1>4. /\ Data!Executable(graph) /\ Data!GoodTable(graph, rows) /\ Loops[graph] = Data!DeriveLoops(graph)
  BY <1>2, <1>3, Admitted
<1>5. Data!StepRuns(graph, Data!DeriveLoops(graph), rows', r.key, ExecutorRuns, BatchErrors) =
      Data!StepRuns(graph, Data!DeriveLoops(graph), rows, r.key, ExecutorRuns, BatchErrors)
  BY <1>1, <1>2, <1>4, Data!StepRunsStay, LinkAssumptions
<1>6. QED BY <1>1, <1>2, <1>4, <1>5, LinkRuns DEF RunOK

-----------------------------------------------------------------------------
(***************************************************************************)
(* Every step of the engine is one of the abstract engine's, or leaves     *)
(* the tables as they are.                                                 *)
(***************************************************************************)
\* An execution runs as long as a step of it can be decided or begin.
LEMMA Running ==
  ASSUME IInv, PlanInv, ~AnyFailed, Begun, ~Data!Done(graph, rows)
  PROVE  exec.status = "running"
<1>1. exec.status # "failed"
  BY DEF PlanInv, Data!DataInv, Data!ExecOK, AnyFailed
<1>2. exec.status # "completed"
  BY LinkSettled DEF PlanInv, Data!DataInv, Data!ExecOK, Data!Done
<1>3. QED BY <1>1, <1>2 DEF Begun

\* Persisting the execution admits it.
LEMMA PersistExecutionMaps ==
  ASSUME PersistExecution
  PROVE  DataStep
BY LinkValid DEF PersistExecution, DataStep, Data!Next, Data!Admit

\* Claiming the execution begins it, or changes nothing when it was claimed before.
LEMMA ClaimExecutionMaps ==
  ASSUME NEW w \in OrchWorkers, ClaimExecution(w)
  PROVE  DataStep
BY DEF ClaimExecution, DataStep, Data!Next, Data!Progress, Data!Begin

\* The start handler's insert records the trigger, or nothing when its row is there.
LEMMA CreateTriggerStepMaps ==
  ASSUME IInv, PlanInv, NEW w \in OrchWorkers, CreateTriggerStep(w)
  PROVE  DataStep
<1> DEFINE key == <<TriggerOf(graph), 0>>
<1> DEFINE created == Creatable({key})
<1>1. /\ orch[w].pc = "createTrigger" /\ UNCHANGED <<graph, exec>>
      /\ InsertRows([k \in created |-> NewRow("completed", exec.trigger)])
  BY DEF CreateTriggerStep, OrchAt
<1>2. rows = [k \in DOMAIN rows |-> rows[k]] /\ Begun
  BY <1>1 DEF IInv, TypeOK, RowsOK, WorkersOK, OrchOK
<1>3. CASE created = {}
  <2>1. DOMAIN [k \in created |-> NewRow("completed", exec.trigger)] = {}
    BY <1>3
  <2>2. rows' = [k \in DOMAIN rows |-> rows[k]]
    BY <1>1, <2>1 DEF InsertRows
  <2>3. QED BY <1>1, <1>2, <2>2 DEF DataStep
<1>4. CASE created # {}
  <2>1. ~AnyFailed /\ created = {key} /\ key \notin DOMAIN rows
    BY <1>4 DEF Creatable
  <2>2. DOMAIN rows = {}
    BY <2>1, LinkTrigger DEF PlanInv, Data!DataInv
  <2>3. exec.status = "running"
    BY <1>2, <2>1, <2>2, Running DEF Data!Done
  <2>4. rows' = [k \in {key} |-> NewRow("completed", exec.trigger)]
    <3> HIDE DEF key
    <3>1. DOMAIN [k \in created |-> NewRow("completed", exec.trigger)] = {key}
      BY <2>1
    <3>2. QED BY <1>1, <2>1, <2>2, <3>1 DEF InsertRows
  <2>5. Data!RecordTrigger
    BY <1>1, <2>2, <2>3, <2>4, LinkTrigger DEF Data!RecordTrigger, Data!NewRow, NewRow
  <2>6. QED BY <2>5 DEF DataStep, Data!Next, Data!Progress
<1>5. QED BY <1>3, <1>4

\* A batch insert decides some of what its step's settlement decides: the keys of the
\* plan that have no row yet, each with the fate the whole table gives it now.
LEMMA CreateStepsMaps ==
  ASSUME IInv, PlanInv, NEW w \in OrchWorkers, CreateSteps(w)
  PROVE  DataStep
<1> DEFINE o == orch[w]
<1> DEFINE created == Creatable(o.toQueue \cup o.toSkip)
<1> DEFINE status(k) == IF k \in o.toQueue THEN "queued" ELSE "skipped"
<1> DEFINE inserted == [k \in created |-> NewRow(status(k), NoOutputs)]
<1> DEFINE plan == Data!PlanAt(graph, rows, o.key)
<1>1. o.pc = "create" /\ UNCHANGED <<graph, exec>> /\ InsertRows(inserted)
  BY DEF CreateSteps, OrchAt
<1>2. /\ rows = [k \in DOMAIN rows |-> rows[k]] /\ Begun /\ exec.status # "absent"
      /\ o.key \in DOMAIN rows /\ Data!IsSettled(rows[o.key])
  BY <1>1, LinkSettled DEF IInv, TypeOK, RowsOK, WorkersOK, OrchOK, PlanInv, PlanOK, SettledKeys, Begun
<1>3. rows' = [k \in DOMAIN rows \cup created |->
                 IF k \in DOMAIN rows THEN rows[k] ELSE NewRow(status(k), NoOutputs)]
  <2> HIDE DEF created
  <2>1. DOMAIN inserted = created /\ \A k \in created : inserted[k] = NewRow(status(k), NoOutputs)
    OBVIOUS
  <2> HIDE DEF inserted, status
  <2>2. QED BY <1>1, <2>1 DEF InsertRows
<1>4. CASE created = {}
  <2>1. rows' = [k \in DOMAIN rows |-> rows[k]]
    BY <1>3, <1>4
  <2>2. QED BY <1>1, <1>2, <2>1 DEF DataStep
<1>5. CASE created # {}
  <2>1. ~AnyFailed /\ created \subseteq (o.toQueue \cup o.toSkip) \ DOMAIN rows
    BY <1>5 DEF Creatable
  <2>2. \A k \in created : IF k \in o.toQueue THEN k \in plan.toQueue ELSE k \in plan.toSkip
    BY <1>1, <2>1 DEF PlanInv, PlanOK
  <2>3. plan.toQueue \cap plan.toSkip = {}
    BY Data!PlanSplits, LinkAssumptions
  <2> HIDE DEF o, created, inserted
  <2>4. \A s : Data!PlanOf(s) = Data!PlanAt(graph, rows, s)
    BY Data!Links, LinkAssumptions DEF PlanInv
  <2>5. exec.status = "running"
    <3>1. ~Data!Done(graph, rows)
      BY <1>2, <1>5, <2>2 DEF Data!Done, Data!NothingLeft
    <3>2. QED BY <1>2, <2>1, <3>1, Running
  <2> HIDE DEF plan
  <2>6. created \in (SUBSET (plan.toQueue \cup plan.toSkip)) \ {{}}
    BY <1>5, <2>2
  <2>7. \A k \in created : status(k) = IF k \in plan.toQueue THEN "queued" ELSE "skipped"
    BY <2>2, <2>3
  <2> HIDE DEF status
  <2>8. rows' = [k \in DOMAIN rows \cup created |->
                   IF k \in DOMAIN rows THEN rows[k]
                   ELSE Data!NewRow(IF k \in plan.toQueue THEN "queued" ELSE "skipped", Data!NoOutputs)]
    BY <1>3, <2>7, LinkValues DEF NewRow, Data!NewRow
  <2>9. ~Data!AnyFailed
    BY <2>1 DEF AnyFailed, Data!AnyFailed
  <2>10. Data!Decide
    BY <1>1, <1>2, <2>4, <2>5, <2>6, <2>8, <2>9 DEF Data!Decide, plan
  <2>11. QED BY <2>10 DEF DataStep, Data!Next, Data!Progress
<1>6. QED BY <1>4, <1>5

\* The finish handler completes an execution of which nothing is left, or fails it.
LEMMA FinishMaps ==
  ASSUME IInv, PlanInv, NEW w \in OrchWorkers, Finish(w)
  PROVE  DataStep
<1>1. orch[w].pc = "finish" /\ UNCHANGED <<graph, rows>> /\ FinishExecution(orch[w].outcome)
  BY DEF Finish, OrchAt
<1>2. CASE exec.status # "running"
  BY <1>1, <1>2 DEF FinishExecution, DataStep
<1>3. CASE exec.status = "running"
  <2>1. orch[w].outcome \in {"completed", "failed"}
    BY <1>1 DEF IInv, WorkersOK, OrchOK, TypeOK, OrchState
  <2>2. exec' = [exec EXCEPT !.status = orch[w].outcome]
    BY <1>1, <1>3 DEF FinishExecution
  <2>3. CASE orch[w].outcome = "failed"
    <3>1. Data!Fail
      BY <1>1, <1>3, <2>2, <2>3 DEF PlanInv, PlanOK, AnyFailed, Data!Fail, Data!AnyFailed
    <3>2. QED BY <3>1 DEF DataStep, Data!Next, Data!Progress
  <2>4. CASE orch[w].outcome = "completed"
    <3>1. Data!Done(graph, rows) /\ ~AnyFailed
      BY <1>1, <2>4 DEF PlanInv, PlanOK
    <3>2. Data!NothingDecidable
      BY <3>1, Data!Links, LinkAssumptions DEF PlanInv, Data!Done
    <3>3. Data!Complete
      BY <1>1, <1>3, <2>2, <2>4, <3>1, <3>2
         DEF Data!Complete, Data!Done, Data!AllSettled, Data!AnyFailed, AnyFailed
    <3>4. QED BY <3>3 DEF DataStep, Data!Next, Data!Progress
  <2>5. QED BY <2>1, <2>3, <2>4
<1>4. QED BY <1>2, <1>3

\* An execution is failed only when a step of it did.
LEMMA FailExecutionMaps ==
  ASSUME PlanInv, NEW w \in OrchWorkers, FailExecution(w)
  PROVE  DataStep
<1>1. AnyFailed /\ UNCHANGED <<graph, rows>> /\ FinishExecution("failed")
  BY DEF FailExecution, OrchAt, PlanInv, PlanOK
<1>2. CASE exec.status = "running"
  <2>1. Data!Fail
    BY <1>1, <1>2 DEF FinishExecution, AnyFailed, Data!Fail, Data!AnyFailed
  <2>2. QED BY <2>1 DEF DataStep, Data!Next, Data!Progress
<1>3. CASE exec.status # "running"
  BY <1>1, <1>3 DEF FinishExecution, DataStep
<1>4. QED BY <1>2, <1>3

\* The sweep finds the execution failed.
LEMMA SweepMaps ==
  ASSUME PlanInv, NEW w \in OrchWorkers, Sweep(w)
  PROVE  DataStep
<1>1. exec.status = "failed" /\ UNCHANGED <<graph, exec>> /\ CancelQueuedSteps
  BY DEF Sweep, OrchAt, PlanInv, PlanOK
<1>2. Data!CancelQueued
  BY <1>1, LinkValues DEF CancelQueuedSteps, Data!CancelQueued, NewRow, Data!NewRow
<1>3. QED BY <1>2 DEF DataStep, Data!Next

\* A claimed step begins while the execution runs.
LEMMA ClaimStepMaps ==
  ASSUME IInv, PlanInv, NEW w \in StepWorkers, ClaimStep(w)
  PROVE  DataStep
<1>1. UNCHANGED <<graph, exec>>
  BY DEF ClaimStep
<1>2. PICK k \in stepQueue : \/ UNCHANGED rows
                             \/ /\ rows[k].status = "queued" /\ ~AnyFailed
                                /\ SetStatus(k, "running", NoOutputs)
  BY DEF ClaimStep
<1>3. CASE UNCHANGED rows
  BY <1>1, <1>3 DEF DataStep
<1>4. CASE rows[k].status = "queued" /\ ~AnyFailed /\ SetStatus(k, "running", NoOutputs)
  <2>1. k \in DOMAIN rows
    BY DEF IInv, MessagesNameRows
  <2>2. exec.status = "running"
    <3>1. ~Data!Done(graph, rows)
      BY <1>4, <2>1 DEF Data!Done, Data!IsSettled, Data!SettledStatuses
    <3>2. Begun
      BY <2>1 DEF IInv, Admission
    <3>3. QED BY <1>4, <3>1, <3>2, Running
  <2>3. Data!BeginStep
    BY <1>1, <1>4, <2>1, <2>2, LinkValues
       DEF SetStatus, NewRow, AnyFailed, Data!BeginStep, Data!NewRow, Data!AnyFailed
  <2>4. QED BY <2>3 DEF DataStep, Data!Next, Data!Progress
<1>5. QED BY <1>2, <1>3, <1>4

\* Both specifications let a run come to the same.
LEMMA LinkExecutors ==
  Data!ExecutorRuns = ExecutorRuns /\ Data!BatchErrors = BatchErrors
BY LinkSuccess, LinkValues DEF Data!ExecutorRuns, ExecutorRuns, Data!BatchErrors, BatchErrors

\* What a worker records is what the step may come to, from inputs it could read.
LEMMA RecordStepMaps ==
  ASSUME IInv, PlanInv, NEW w \in StepWorkers, RecordStep(w)
  PROVE  DataStep
<1> DEFINE k == runner[w].key
<1> DEFINE run == runner[w].run
<1>1. runner[w].pc = "record" /\ UNCHANGED <<graph, exec>>
  BY DEF RecordStep, RunnerAt
<1>2. CASE rows[k].status # "running"
  BY <1>1, <1>2 DEF RecordStep, DataStep
<1>3. CASE rows[k].status = "running"
  <2>1. rows' = [rows EXCEPT ![k] = NewRow(IF run.ok THEN "completed" ELSE "failed", run.outputs)]
    BY <1>3 DEF RecordStep, SetStatus
  <2>2. k \in DOMAIN rows
    BY <1>1 DEF IInv, WorkersOK, RunnerOK
  <2>3. run \in StepRuns(graph, Loops[graph], rows, k, ExecutorRuns, BatchErrors)
    BY <1>1 DEF PlanInv, RunOK
  <2>4. Loops[graph] = Data!DeriveLoops(graph) /\ Data!loops = Data!DeriveLoops(graph)
    <3>1. exec.status # "absent"
      BY <2>2 DEF PlanInv, Data!DataInv, Data!ExecOK
    <3>2. QED BY <3>1, Admitted, Data!Links, LinkAssumptions DEF PlanInv
  <2>5. run \in Data!StepRuns(graph, Data!loops, rows, k, Data!ExecutorRuns, Data!BatchErrors)
    BY <2>3, <2>4, LinkRuns, LinkExecutors
  <2>6. Data!InputsReadable(graph, Data!loops, rows, k)
    BY <1>3, <2>2, Data!RunningStepsRead, LinkAssumptions DEF PlanInv, Data!RunningStepsCanRead
  <2> HIDE DEF k, run
  <2>7. Data!SettleStep
    BY <1>1, <1>3, <2>1, <2>2, <2>5, <2>6 DEF Data!SettleStep, NewRow, Data!NewRow
  <2>8. QED BY <2>7 DEF DataStep, Data!Next, Data!Progress
<1>4. QED BY <1>2, <1>3

\* Every step of the engine is a step of the abstract one, or leaves the tables alone.
LEMMA NextMaps ==
  ASSUME IInv, PlanInv, [Next]_vars
  PROVE  DataStep
<1>1. CASE UNCHANGED vars
  BY <1>1 DEF vars, DataStep
<1>2. CASE PersistExecution
  BY <1>2, PersistExecutionMaps
<1>3. CASE PublishEnqueued \/ Crash
  BY <1>3 DEF PublishEnqueued, Crash, DataStep
<1>4. ASSUME NEW w \in OrchWorkers, StartHandler(w) \/ SettledHandler(w) \/ OrchThrows(w)
      PROVE  DataStep
  <2>1. CASE ClaimExecution(w)
    BY <2>1, ClaimExecutionMaps
  <2>2. CASE CreateTriggerStep(w)
    BY <2>2, CreateTriggerStepMaps
  <2>3. CASE CreateSteps(w)
    BY <2>3, CreateStepsMaps
  <2>4. CASE Finish(w)
    BY <2>4, FinishMaps
  <2>5. CASE FailExecution(w)
    BY <2>5, FailExecutionMaps
  <2>6. CASE Sweep(w)
    BY <2>6, SweepMaps
  <2>7. CASE \/ AnnounceTrigger(w) \/ LoadSettled(w) \/ CheckFailed(w) \/ PlanTerminals(w) \/ Plan(w)
             \/ AnnounceCreated(w) \/ FinishTerminals(w) \/ CountSettled(w) \/ ReadOutcome(w)
             \/ AnnounceEnd(w) \/ OrchThrows(w)
    <3>1. UNCHANGED <<graph, exec, rows>>
      BY <2>7 DEF AnnounceTrigger, LoadSettled, CheckFailed, PlanTerminals, Plan, AnnounceCreated,
         FinishTerminals, CountSettled, ReadOutcome, AnnounceEnd, OrchThrows
    <3>2. QED BY <3>1 DEF DataStep
  <2>8. QED BY <1>4, <2>1, <2>2, <2>3, <2>4, <2>5, <2>6, <2>7 DEF StartHandler, SettledHandler
<1>5. ASSUME NEW w \in StepWorkers, ReadyHandler(w) \/ RunnerThrows(w)
      PROVE  DataStep
  <2>1. CASE ClaimStep(w)
    BY <2>1, ClaimStepMaps
  <2>2. CASE RecordStep(w)
    BY <2>2, RecordStepMaps
  <2>3. CASE LoadExecution(w) \/ RunStep(w) \/ AnnounceStep(w) \/ RunnerThrows(w)
    <3>1. UNCHANGED <<graph, exec, rows>>
      BY <2>3 DEF LoadExecution, RunStep, AnnounceStep, RunnerThrows
    <3>2. QED BY <3>1 DEF DataStep
  <2>4. QED BY <1>5, <2>1, <2>2, <2>3 DEF ReadyHandler
<1>6. QED BY <1>1, <1>2, <1>3, <1>4, <1>5 DEF Next

-----------------------------------------------------------------------------
(***************************************************************************)
(* Every step keeps what the workers hold true.                            *)
(***************************************************************************)
\* What a step worker holds survives a step in which it takes no part, ...
LEMMA OneRunnerKept ==
  ASSUME IInv, PlanInv, DataStep, NEW v \in StepWorkers, runner'[v] = runner[v]
  PROVE  RunOK(runner[v])'
<1>1. PICK r : r = runner[v]
  OBVIOUS
<1>2. RunOK(r) /\ (r.pc = "record" => r.key \in DOMAIN rows)
  BY <1>1 DEF PlanInv, IInv, WorkersOK, RunnerOK
<1>3. RunOK(r)'
  BY <1>2, RunKept
<1>4. runner'[v] = r
  BY <1>1
<1>5. QED BY <1>3, <1>4 DEF RunOK

\* ... and so does what an orchestration worker holds.
LEMMA OneOrchKept ==
  ASSUME IInv, PlanInv, DataStep, NEW v \in OrchWorkers, orch'[v] = orch[v]
  PROVE  PlanOK(orch[v])'
<1>1. PICK o : o = orch[v]
  OBVIOUS
<1>2. PlanOK(o) /\ (o.pc # "idle" => exec.status # "absent")
  BY <1>1 DEF PlanInv, IInv, WorkersOK, OrchOK, Begun
<1>3. PlanOK(o)'
  BY <1>2, PlanKept
<1>4. orch'[v] = o
  BY <1>1
<1>5. QED BY <1>3, <1>4 DEF PlanOK

\* An orchestration worker's step need only establish what that worker holds next.
LEMMA OrchTurn ==
  ASSUME IInv, PlanInv, DataStep, NEW w \in OrchWorkers, NEW o, orch' = [orch EXCEPT ![w] = o],
         PlanOK(o)', UNCHANGED runner
  PROVE  PlanInv'
<1>1. Data!DataInv'
  BY StepKeeps
<1>2. ASSUME NEW v \in OrchWorkers PROVE PlanOK(orch[v])'
  <2>1. orch \in [OrchWorkers -> OrchState]
    BY DEF IInv, TypeOK
  <2>2. CASE v = w
    <3>1. orch'[v] = o
      BY <2>1, <2>2
    <3>2. QED BY <3>1 DEF PlanOK
  <2>3. CASE v # w
    <3>1. orch'[v] = orch[v]
      BY <2>1, <2>3
    <3>2. QED BY <3>1, OneOrchKept
  <2>4. QED BY <2>2, <2>3
<1>3. ASSUME NEW v \in StepWorkers PROVE RunOK(runner[v])'
  BY OneRunnerKept
<1>4. QED BY <1>1, <1>2, <1>3 DEF PlanInv

\* A worker that goes where nothing is held takes no promise on.
NothingHeld(o) ==
  o.pc \notin {"plan", "create", "count", "outcome", "finish", "fail", "sweep"}

LEMMA OrchFree ==
  ASSUME IInv, PlanInv, DataStep, NEW w \in OrchWorkers, NEW o, orch' = [orch EXCEPT ![w] = o],
         NothingHeld(o), UNCHANGED runner
  PROVE  PlanInv'
<1>1. PlanOK(o)'
  BY DEF NothingHeld, PlanOK
<1>2. QED BY <1>1, OrchTurn

\* A worker that only read need only have read what it holds.
LEMMA OrchReads ==
  ASSUME IInv, PlanInv, NEW w \in OrchWorkers, NEW o, orch' = [orch EXCEPT ![w] = o],
         PlanOK(o), UNCHANGED <<graph, exec, rows, runner>>
  PROVE  PlanInv'
<1>1. PlanOK(o)'
  BY DEF PlanOK, SettledKeys, Expected, AnyFailed
<1>2. DataStep
  BY DEF DataStep
<1>3. QED BY <1>1, <1>2, OrchTurn

\* A step worker's step need only establish what that worker holds next.
LEMMA RunnerTurn ==
  ASSUME IInv, PlanInv, DataStep, NEW w \in StepWorkers, NEW r, runner' = [runner EXCEPT ![w] = r],
         RunOK(r)', UNCHANGED orch
  PROVE  PlanInv'
<1>1. Data!DataInv'
  BY StepKeeps
<1>2. ASSUME NEW v \in StepWorkers PROVE RunOK(runner[v])'
  <2>1. runner \in [StepWorkers -> RunnerState]
    BY DEF IInv, TypeOK
  <2>2. CASE v = w
    <3>1. runner'[v] = r
      BY <2>1, <2>2
    <3>2. QED BY <3>1 DEF RunOK
  <2>3. CASE v # w
    <3>1. runner'[v] = runner[v]
      BY <2>1, <2>3
    <3>2. QED BY <3>1, OneRunnerKept
  <2>4. QED BY <2>2, <2>3
<1>3. ASSUME NEW v \in OrchWorkers PROVE PlanOK(orch[v])'
  BY OneOrchKept
<1>4. QED BY <1>1, <1>2, <1>3 DEF PlanInv

\* A step of neither kind of worker.
LEMMA NoTurn ==
  ASSUME IInv, PlanInv, DataStep, UNCHANGED <<orch, runner>>
  PROVE  PlanInv'
<1>1. Data!DataInv'
  BY StepKeeps
<1>2. \A v \in OrchWorkers : PlanOK(orch[v])'
  BY OneOrchKept
<1>3. \A v \in StepWorkers : RunOK(runner[v])'
  BY OneRunnerKept
<1>4. QED BY <1>1, <1>2, <1>3 DEF PlanInv

\* A settled step that failed leads to the failure's branch, any other holds nothing yet.
LEMMA LoadSettledKeeps ==
  ASSUME IInv, PlanInv, NEW w \in OrchWorkers, LoadSettled(w)
  PROVE  PlanInv'
<1>1. PICK m \in orchQueue \ {Enqueued} :
        orch' = [orch EXCEPT ![w] = IF AfterLoad(rows[m.key]) = "idle" THEN IdleOrch
                                    ELSE [IdleOrch EXCEPT !.pc = AfterLoad(rows[m.key]), !.key = m.key]]
  BY DEF LoadSettled
<1>2. PICK o : o = IF AfterLoad(rows[m.key]) = "idle" THEN IdleOrch
                   ELSE [IdleOrch EXCEPT !.pc = AfterLoad(rows[m.key]), !.key = m.key]
  OBVIOUS
<1>3. UNCHANGED <<graph, exec, rows, runner>>
  BY DEF LoadSettled
<1>4. m.key \in DOMAIN rows
  BY DEF IInv, MessagesNameRows, SettledKeys
<1>5. o.pc \in {"idle", "fail", "checkFailed", "finishTerminals"} /\ (o.pc = "fail" => AnyFailed)
  BY <1>2, <1>4 DEF AfterLoad, IdleOrch, AnyFailed
<1>6. PlanOK(o)
  BY <1>5 DEF PlanOK
<1>7. QED BY <1>1, <1>2, <1>3, <1>6, OrchReads

\* A failure found elsewhere leads there too.
LEMMA CheckFailedKeeps ==
  ASSUME IInv, PlanInv, NEW w \in OrchWorkers, CheckFailed(w)
  PROVE  PlanInv'
<1>1. PICK o : o = [orch[w] EXCEPT !.pc = IF AnyFailed THEN "fail" ELSE "planTerminals"]
  OBVIOUS
<1>2. orch[w] \in OrchState /\ orch' = [orch EXCEPT ![w] = o] /\ UNCHANGED <<graph, exec, rows, runner>>
  BY <1>1 DEF CheckFailed, OrchGoto, IInv, TypeOK
<1>3. o.pc = IF AnyFailed THEN "fail" ELSE "planTerminals"
  BY <1>1, <1>2 DEF OrchState
<1>4. PlanOK(o)
  BY <1>3 DEF PlanOK
<1>5. QED BY <1>2, <1>4, OrchReads

\* The last passes of some loops are among those of all of them.
LEMMA PartOfTerms ==
  ASSUME NEW batches, batches \subseteq {l.batch : l \in DeriveLoops(graph)}
  PROVE  LoadTerminalIterations(rows, batches) \subseteq Data!TermsOf(graph, rows)
BY LinkTerms, LinkLoops DEF Data!TermsOf, LoadTerminalIterations

\* A worker at work is at work on an admitted execution.
LEMMA Working ==
  ASSUME IInv, PlanInv, NEW w \in OrchWorkers, orch[w].pc # "idle"
  PROVE  /\ exec.status # "absent" /\ graph \in Graphs /\ Loops[graph] = DeriveLoops(graph)
         /\ Data!Executable(graph) /\ Data!GoodTable(graph, rows)
         /\ Loops[graph] = Data!DeriveLoops(graph) /\ Reachable[graph] = Data!ReachableNodes(graph)
<1>1. exec.status # "absent" /\ graph \in Graphs
  BY DEF IInv, TypeOK, WorkersOK, OrchOK, Begun
<1>2. Data!DataInv
  BY DEF PlanInv
<1>3. QED BY <1>1, <1>2, Admitted DEF Loops

\* The loops a candidate leaves are loops of the graph.
LEMMA PlanTerminalsKeeps ==
  ASSUME IInv, PlanInv, NEW w \in OrchWorkers, PlanTerminals(w)
  PROVE  PlanInv'
<1> DEFINE sources == ExitSourcesInto(graph, Loops[graph], Successors(graph, {orch[w].key[1]}))
<1>1. PICK o : o = [orch[w] EXCEPT !.pc = "plan", !.terms = LoadTerminalIterations(rows, sources)]
  OBVIOUS
<1>2. /\ orch[w] \in OrchState /\ orch \in [OrchWorkers -> OrchState]
      /\ orch[w].pc = "planTerminals" /\ UNCHANGED <<graph, exec, rows, runner>>
  BY DEF PlanTerminals, OrchAt, IInv, TypeOK
<1>3. orch' = [orch EXCEPT ![w] = o]
  <2> HIDE DEF sources
  <2>1. orch' = [orch EXCEPT ![w].pc = "plan", ![w].terms = LoadTerminalIterations(rows, sources)]
    BY DEF PlanTerminals, sources
  <2>2. QED BY <1>1, <1>2, <2>1
<1>4. orch[w].key \in SettledKeys
  BY <1>2 DEF IInv, WorkersOK, OrchOK
<1>5. sources \subseteq {l.batch : l \in DeriveLoops(graph)}
  <2>1. ASSUME NEW e \in graph.edges, ClassifyEdge(e, DeriveLoops(graph)) = "exit"
        PROVE  \E l \in DeriveLoops(graph) : e.from = l.batch
    <3>1. Data!Executable(graph)
      BY <1>2, Working
    <3>2. Data!ClassifyEdge(e, Data!DeriveLoops(graph)) = "exit"
      BY <2>1, LinkClass, LinkLoops
    <3>3. \E l \in Data!DeriveLoops(graph) : e.from = l.batch
      BY <3>1, <3>2, Data!EdgeClasses, LinkAssumptions
    <3>4. QED BY <3>3, LinkLoops
  <2>2. Loops[graph] = DeriveLoops(graph)
    BY <1>2, Working
  <2>3. QED BY <2>1, <2>2 DEF ExitSourcesInto
<1>6. LoadTerminalIterations(rows, sources) \subseteq Data!TermsOf(graph, rows)
  BY <1>5, PartOfTerms
<1> HIDE DEF sources
<1>7. o.pc = "plan" /\ o.key = orch[w].key /\ o.terms = LoadTerminalIterations(rows, sources)
  BY <1>1, <1>2 DEF OrchState
<1>8. PlanOK(o)
  BY <1>4, <1>6, <1>7 DEF PlanOK
<1>9. QED BY <1>2, <1>3, <1>8, OrchReads

\* A plan from the rows the decision reads is what the whole table decides.
LEMMA PlanKeeps ==
  ASSUME IInv, PlanInv, NEW w \in OrchWorkers, Plan(w)
  PROVE  PlanInv'
<1> DEFINE key == orch[w].key
<1> DEFINE terms == orch[w].terms
<1> DEFINE steps == RowSummaries(DecisionKeys(graph, Loops[graph], key, terms))
<1> DEFINE plan == DecideSuccessors(graph, Loops[graph], key, steps, terms)
<1> DEFINE whole == Data!PlanAt(graph, rows, key)
<1> DEFINE pc == IF plan.toQueue \cup plan.toSkip = {} THEN "finishTerminals" ELSE "create"
<1>1. PICK o : o = [IdleOrch EXCEPT !.pc = pc, !.key = key, !.toQueue = plan.toQueue, !.toSkip = plan.toSkip]
  OBVIOUS
<1>2. orch[w].pc = "plan" /\ UNCHANGED <<graph, exec, rows, runner>>
  BY DEF Plan, OrchAt
<1>3. orch' = [orch EXCEPT ![w] = o]
  BY <1>1 DEF Plan
<1>4. key \in SettledKeys /\ terms \subseteq Data!TermsOf(graph, rows)
  BY <1>2 DEF PlanInv, PlanOK
<1>5. plan.toQueue \subseteq whole.toQueue /\ plan.toSkip \subseteq whole.toSkip
  <2> DEFINE part == [k \in Data!DecisionKeys(graph, Data!DeriveLoops(graph), key, terms) \cap DOMAIN rows |-> rows[k]]
  <2> DEFINE same == Data!DecideSuccessors(graph, Data!DeriveLoops(graph), key, part, terms)
  <2>1. /\ Data!Executable(graph) /\ Data!GoodTable(graph, rows)
        /\ Loops[graph] = Data!DeriveLoops(graph)
    BY <1>2, Working
  <2>2. key \in DOMAIN rows /\ Data!IsSettled(rows[key])
    BY <1>4, LinkSettled DEF SettledKeys
  <2>3. part = steps
    BY <2>1, LinkKeys DEF RowSummaries
  <2>4. same = plan
    <3> HIDE DEF part, steps, key, terms
    <3>1. QED BY <2>1, <2>3, LinkPlan
  <2>5. same.toQueue \subseteq whole.toQueue /\ same.toSkip \subseteq whole.toSkip
    BY <1>4, <2>1, <2>2, Data!PlanFromPart, LinkAssumptions
  <2> HIDE DEF same, plan
  <2>6. QED BY <2>4, <2>5
<1> HIDE DEF key, plan, whole, pc
<1>6. o.pc = pc /\ o.key = key /\ o.toQueue = plan.toQueue /\ o.toSkip = plan.toSkip
  BY <1>1 DEF IdleOrch
<1>7. PlanOK(o)
  <2>1. pc \in {"finishTerminals", "create"}
    BY DEF pc
  <2>2. QED BY <1>4, <1>5, <1>6, <2>1 DEF PlanOK, whole
<1>8. QED BY <1>2, <1>3, <1>7, OrchReads

\* A loop that still runs ends the check, so a count starts from last passes.
LEMMA FinishTerminalsKeeps ==
  ASSUME IInv, PlanInv, NEW w \in OrchWorkers, FinishTerminals(w)
  PROVE  PlanInv'
<1> DEFINE heads == {l.batch : l \in ReachableLoops(Loops[graph], Reachable[graph])}
<1> DEFINE terms == LoadTerminalIterations(rows, heads)
<1>1. PICK o : o = IF Expected(terms) = StillRunning THEN IdleOrch
                   ELSE [IdleOrch EXCEPT !.pc = "count", !.terms = terms]
  OBVIOUS
<1>2. /\ orch[w].pc = "finishTerminals" /\ UNCHANGED <<graph, exec, rows, runner>>
      /\ orch' = [orch EXCEPT ![w] = o]
  BY <1>1 DEF FinishTerminals, OrchAt
<1>3. terms \subseteq Data!TermsOf(graph, rows)
  <2>1. Loops[graph] = DeriveLoops(graph)
    BY <1>2, Working
  <2>2. heads \subseteq {l.batch : l \in DeriveLoops(graph)}
    BY <2>1 DEF ReachableLoops
  <2>3. QED BY <2>2, PartOfTerms
<1> HIDE DEF terms
<1>4. o = IdleOrch \/ (o.pc = "count" /\ o.terms = terms /\ Expected(terms) # StillRunning)
  BY <1>1 DEF IdleOrch
<1>5. PlanOK(o)
  BY <1>3, <1>4 DEF PlanOK, IdleOrch
<1>6. QED BY <1>2, <1>5, OrchReads

\* A count that reaches what is owed leaves nothing to decide or to run.
LEMMA CountSettledKeeps ==
  ASSUME IInv, PlanInv, NEW w \in OrchWorkers, CountSettled(w)
  PROVE  PlanInv'
<1> DEFINE terms == orch[w].terms
<1> DEFINE few == Cardinality(SettledKeys) < Expected(terms)
<1>1. PICK o : o = IF few THEN IdleOrch ELSE [orch[w] EXCEPT !.pc = "outcome"]
  OBVIOUS
<1>2. /\ orch[w] \in OrchState /\ orch[w].pc = "count" /\ UNCHANGED <<graph, exec, rows, runner>>
      /\ orch' = [orch EXCEPT ![w] = o]
  BY <1>1 DEF CountSettled, OrchAt, OrchDone, OrchGoto, IInv, TypeOK
<1>3. ~few => Data!Done(graph, rows)
  <2>1. /\ Data!Executable(graph) /\ Data!GoodTable(graph, rows)
        /\ Loops[graph] = Data!DeriveLoops(graph) /\ Reachable[graph] = Data!ReachableNodes(graph)
    BY <1>2, Working
  <2>2. terms \subseteq Data!TermsOf(graph, rows) /\ Expected(terms) # StillRunning
    BY <1>2 DEF PlanInv, PlanOK
  <2> HIDE DEF terms
  <2>3. Data!CountExpectedSettledSteps(Data!DeriveLoops(graph), Data!ReachableNodes(graph), terms) = Expected(terms)
    BY <2>1, LinkCount DEF Expected
  <2>4. Data!Cardinality({k \in DOMAIN rows : Data!IsSettled(rows[k])}) = Cardinality(SettledKeys)
    <3>1. {k \in DOMAIN rows : Data!IsSettled(rows[k])} = SettledKeys
      BY LinkSettled DEF SettledKeys
    <3>2. QED BY <3>1, LinkCard
  <2>5. Data!StillRunning = StillRunning
    BY DEF Data!StillRunning, StillRunning
  <2>6. ASSUME ~few PROVE Data!Done(graph, rows)
    <3> DEFINE owed == Data!CountExpectedSettledSteps(Data!DeriveLoops(graph), Data!ReachableNodes(graph), terms)
    <3> DEFINE have == Data!Cardinality({k \in DOMAIN rows : Data!IsSettled(rows[k])})
    <3>1. owed # Data!StillRunning
      BY <2>2, <2>3, <2>5
    <3>2. ~(have < owed)
      BY <2>3, <2>4, <2>6
    <3>3. QED BY <2>1, <2>2, <3>1, <3>2, Data!CountReached, LinkAssumptions
  <2>7. QED BY <2>6
<1>4. o = IdleOrch \/ (o.pc = "outcome" /\ Data!Done(graph, rows))
  BY <1>1, <1>2, <1>3 DEF OrchState
<1>5. PlanOK(o)
  BY <1>4 DEF PlanOK, IdleOrch
<1>6. QED BY <1>2, <1>5, OrchReads

\* The outcome is read when nothing more can fail.
LEMMA ReadOutcomeKeeps ==
  ASSUME IInv, PlanInv, NEW w \in OrchWorkers, ReadOutcome(w)
  PROVE  PlanInv'
<1>1. PICK o : o = [IdleOrch EXCEPT !.pc = "finish", !.outcome = IF AnyFailed THEN "failed" ELSE "completed"]
  OBVIOUS
<1>2. /\ orch[w].pc = "outcome" /\ UNCHANGED <<graph, exec, rows, runner>>
      /\ orch' = [orch EXCEPT ![w] = o]
  BY <1>1 DEF ReadOutcome, OrchAt
<1>3. Data!Done(graph, rows)
  BY <1>2 DEF PlanInv, PlanOK
<1>4. o.pc = "finish" /\ o.outcome = IF AnyFailed THEN "failed" ELSE "completed"
  BY <1>1 DEF IdleOrch
<1>5. PlanOK(o)
  BY <1>3, <1>4 DEF PlanOK
<1>6. QED BY <1>2, <1>5, OrchReads

\* Whoever writes the failure, the execution is failed before the sweep.
LEMMA FailExecutionKeeps ==
  ASSUME IInv, PlanInv, DataStep, NEW w \in OrchWorkers, FailExecution(w)
  PROVE  PlanInv'
<1>1. PICK o : o = [IdleOrch EXCEPT !.pc = "sweep", !.outcome = IF exec.status = "running" THEN "failed" ELSE "none"]
  OBVIOUS
<1>2. /\ orch[w].pc = "fail" /\ UNCHANGED <<rows, runner>> /\ FinishExecution("failed")
      /\ orch' = [orch EXCEPT ![w] = o]
  BY <1>1 DEF FailExecution, OrchAt
<1>3. exec'.status = "failed"
  <2>1. AnyFailed /\ Begun /\ exec \in [status : ExecStatuses, trigger : Outputs]
    BY <1>2 DEF PlanInv, PlanOK, IInv, WorkersOK, OrchOK, TypeOK
  <2>2. exec.status # "completed"
    BY <2>1 DEF PlanInv, Data!DataInv, Data!ExecOK, AnyFailed
  <2>3. QED BY <1>2, <2>1, <2>2 DEF FinishExecution, Begun
<1>4. o.pc = "sweep"
  BY <1>1 DEF IdleOrch
<1>5. PlanOK(o)'
  BY <1>3, <1>4 DEF PlanOK
<1>6. QED BY <1>2, <1>5, OrchTurn

\* The other steps of an orchestration worker leave it holding nothing.
LEMMA OrchFrees ==
  ASSUME IInv, PlanInv, DataStep, NEW w \in OrchWorkers,
         \/ ClaimExecution(w) \/ CreateTriggerStep(w) \/ AnnounceTrigger(w) \/ CreateSteps(w)
         \/ AnnounceCreated(w) \/ Finish(w) \/ AnnounceEnd(w) \/ Sweep(w) \/ OrchThrows(w)
  PROVE  PlanInv'
<1>1. orch[w] \in OrchState /\ orch \in [OrchWorkers -> OrchState] /\ NothingHeld(IdleOrch)
  BY DEF IInv, TypeOK, NothingHeld, IdleOrch
<1>2. UNCHANGED runner
  BY DEF ClaimExecution, CreateTriggerStep, AnnounceTrigger, CreateSteps, AnnounceCreated, Finish,
         AnnounceEnd, Sweep, OrchThrows
<1>3. ASSUME AnnounceTrigger(w) \/ AnnounceEnd(w) \/ Sweep(w) \/ OrchThrows(w)
      PROVE  PlanInv'
  <2>1. PICK o : o = IdleOrch
    OBVIOUS
  <2>2. orch' = [orch EXCEPT ![w] = o]
    BY <1>3, <2>1 DEF AnnounceTrigger, AnnounceEnd, Sweep, OrchThrows, OrchDone
  <2>3. QED BY <1>1, <1>2, <2>1, <2>2, OrchFree
<1>4. ASSUME ClaimExecution(w) PROVE PlanInv'
  <2>1. CASE UNCHANGED orch
    BY <1>2, <2>1, NoTurn
  <2>2. CASE OrchGoto(w, "createTrigger")
    <3>1. PICK o : o = [orch[w] EXCEPT !.pc = "createTrigger"]
      OBVIOUS
    <3>2. orch' = [orch EXCEPT ![w] = o] /\ o.pc = "createTrigger"
      BY <1>1, <2>2, <3>1 DEF OrchGoto, OrchState
    <3>3. NothingHeld(o)
      BY <3>2 DEF NothingHeld
    <3>4. QED BY <1>2, <3>2, <3>3, OrchFree
  <2>3. QED BY <1>4, <2>1, <2>2 DEF ClaimExecution
<1>5. ASSUME CreateTriggerStep(w) PROVE PlanInv'
  <2> DEFINE key == <<TriggerOf(graph), 0>>
  <2>1. PICK o : o = IF Creatable({key}) = {} THEN IdleOrch
                     ELSE [IdleOrch EXCEPT !.pc = "announceTrigger", !.key = key]
    OBVIOUS
  <2>2. orch' = [orch EXCEPT ![w] = o]
    BY <1>5, <2>1 DEF CreateTriggerStep
  <2>3. NothingHeld(o)
    BY <2>1 DEF NothingHeld, IdleOrch
  <2>4. QED BY <1>2, <2>2, <2>3, OrchFree
<1>6. ASSUME CreateSteps(w) PROVE PlanInv'
  <2> DEFINE created == Creatable(orch[w].toQueue \cup orch[w].toSkip)
  <2> DEFINE pc == IF created = {} THEN "finishTerminals" ELSE "announce"
  <2> DEFINE queued == created \cap orch[w].toQueue # {}
  <2>1. PICK o : o = [orch[w] EXCEPT !.pc = pc, !.toSkip = {}, !.created = created, !.queued = queued]
    OBVIOUS
  <2>2. orch' = [orch EXCEPT ![w].pc = pc, ![w].toSkip = {}, ![w].created = created, ![w].queued = queued]
    BY <1>6 DEF CreateSteps
  <2>3. pc \in {"finishTerminals", "announce"}
    OBVIOUS
  <2> HIDE DEF created, pc, queued
  <2>4. orch' = [orch EXCEPT ![w] = o]
    BY <1>1, <2>1, <2>2
  <2>5. o.pc = pc
    BY <1>1, <2>1 DEF OrchState
  <2>6. NothingHeld(o)
    BY <2>3, <2>5 DEF NothingHeld
  <2>7. QED BY <1>2, <2>4, <2>6, OrchFree
<1>7. ASSUME AnnounceCreated(w) PROVE PlanInv'
  <2>1. PICK k \in orch[w].created :
          LET left == orch[w].created \ {k}
              last == IF orch[w].queued THEN IdleOrch
                      ELSE [IdleOrch EXCEPT !.pc = "finishTerminals", !.key = orch[w].key]
          IN  orch' = [orch EXCEPT ![w] = IF left = {} THEN last ELSE [@ EXCEPT !.created = left]]
    BY <1>7 DEF AnnounceCreated
  <2> DEFINE left == orch[w].created \ {k}
  <2> DEFINE last == IF orch[w].queued THEN IdleOrch
                     ELSE [IdleOrch EXCEPT !.pc = "finishTerminals", !.key = orch[w].key]
  <2>2. PICK o : o = IF left = {} THEN last ELSE [orch[w] EXCEPT !.created = left]
    OBVIOUS
  <2>3. orch' = [orch EXCEPT ![w] = o]
    BY <2>1, <2>2
  <2>4. orch[w].pc = "announce"
    BY <1>7 DEF AnnounceCreated, OrchAt
  <2>5. last.pc \in {"idle", "finishTerminals"}
    BY DEF IdleOrch
  <2> HIDE DEF left, last
  <2>6. o.pc \in {"idle", "finishTerminals", "announce"}
    BY <1>1, <2>2, <2>4, <2>5 DEF OrchState
  <2>7. NothingHeld(o)
    BY <2>6 DEF NothingHeld
  <2>8. QED BY <1>2, <2>3, <2>7, OrchFree
<1>8. ASSUME Finish(w) PROVE PlanInv'
  <2>1. PICK o : o = IF exec.status = "running" THEN [orch[w] EXCEPT !.pc = "announceEnd"] ELSE IdleOrch
    OBVIOUS
  <2>2. orch' = [orch EXCEPT ![w] = o]
    BY <1>1, <1>8, <2>1 DEF Finish, OrchGoto, OrchDone
  <2>3. o.pc \in {"idle", "announceEnd"}
    BY <1>1, <2>1 DEF OrchState, IdleOrch
  <2>4. NothingHeld(o)
    BY <2>3 DEF NothingHeld
  <2>5. QED BY <1>2, <2>2, <2>4, OrchFree
<1>9. QED BY <1>3, <1>4, <1>5, <1>6, <1>7, <1>8

\* A step worker that has no outcome in hand holds nothing.
LEMMA RunnerFree ==
  ASSUME IInv, PlanInv, DataStep, NEW w \in StepWorkers, NEW r, runner' = [runner EXCEPT ![w] = r],
         r.pc # "record", UNCHANGED orch
  PROVE  PlanInv'
<1>1. RunOK(r)'
  BY DEF RunOK
<1>2. QED BY <1>1, RunnerTurn

\* Running a step gives one of the outcomes it may come to.
LEMMA RunStepKeeps ==
  ASSUME IInv, PlanInv, DataStep, NEW w \in StepWorkers, RunStep(w)
  PROVE  PlanInv'
<1> DEFINE k == runner[w].key
<1> DEFINE runs == StepRuns(graph, Loops[graph], rows, k, ExecutorRuns, BatchErrors)
<1>1. runner[w] \in RunnerState /\ runner \in [StepWorkers -> RunnerState]
      /\ UNCHANGED <<graph, exec, rows, orch>>
  BY DEF RunStep, IInv, TypeOK
<1>2. CASE RunnerDone(w)
  <2>1. PICK r : r = IdleRunner
    OBVIOUS
  <2>2. runner' = [runner EXCEPT ![w] = r] /\ r.pc # "record"
    BY <1>2, <2>1 DEF RunnerDone, IdleRunner
  <2>3. QED BY <1>1, <2>2, RunnerFree
<1>3. ASSUME NEW run \in runs, runner' = [runner EXCEPT ![w].pc = "record", ![w].run = run]
      PROVE  PlanInv'
  <2>1. PICK r : r = [runner[w] EXCEPT !.pc = "record", !.run = run]
    OBVIOUS
  <2> HIDE DEF runs
  <2>2. runner' = [runner EXCEPT ![w] = r]
    BY <1>1, <1>3, <2>1
  <2>3. r.pc = "record" /\ r.key = k /\ r.run = run
    BY <1>1, <2>1 DEF RunnerState
  <2>4. RunOK(r)
    BY <1>3, <2>3 DEF RunOK, runs
  <2>5. RunOK(r)'
    BY <1>1, <2>4 DEF RunOK
  <2>6. QED BY <1>1, <2>2, <2>5, RunnerTurn
<1>4. QED BY <1>2, <1>3 DEF RunStep

\* The other steps of a step worker.
LEMMA RunnerFrees ==
  ASSUME IInv, PlanInv, DataStep, NEW w \in StepWorkers,
         ClaimStep(w) \/ LoadExecution(w) \/ RecordStep(w) \/ AnnounceStep(w) \/ RunnerThrows(w)
  PROVE  PlanInv'
<1>1. runner[w] \in RunnerState /\ UNCHANGED orch
  BY DEF IInv, TypeOK, ClaimStep, LoadExecution, RecordStep, AnnounceStep, RunnerThrows
<1>2. CASE UNCHANGED runner
  BY <1>1, <1>2, NoTurn
<1>3. ASSUME NEW r, runner' = [runner EXCEPT ![w] = r], r.pc # "record"
      PROVE  PlanInv'
  BY <1>1, <1>3, RunnerFree
<1>4. IdleRunner.pc # "record"
  BY DEF IdleRunner
<1>5. CASE RunnerDone(w)
  BY <1>3, <1>4, <1>5 DEF RunnerDone
<1>6. ASSUME NEW k, runner' = [runner EXCEPT ![w] = [IdleRunner EXCEPT !.pc = "load", !.key = k]]
      PROVE  PlanInv'
  <2>1. [IdleRunner EXCEPT !.pc = "load", !.key = k].pc # "record"
    BY DEF IdleRunner
  <2>2. QED BY <1>3, <1>6, <2>1
<1>7. ASSUME NEW pc \in {"run", "announce"}, runner' = [runner EXCEPT ![w].pc = pc]
      PROVE  PlanInv'
  <2>1. [runner[w] EXCEPT !.pc = pc].pc # "record"
    BY <1>1 DEF RunnerState
  <2>2. runner' = [runner EXCEPT ![w] = [runner[w] EXCEPT !.pc = pc]]
    BY <1>7
  <2>3. QED BY <1>3, <2>1, <2>2
<1>8. \/ UNCHANGED runner \/ RunnerDone(w)
      \/ \E k : runner' = [runner EXCEPT ![w] = [IdleRunner EXCEPT !.pc = "load", !.key = k]]
      \/ \E pc \in {"run", "announce"} : runner' = [runner EXCEPT ![w].pc = pc]
  BY DEF ClaimStep, LoadExecution, RecordStep, AnnounceStep, RunnerThrows
<1>9. QED BY <1>2, <1>5, <1>6, <1>7, <1>8

\* Every step keeps what the workers hold true.
LEMMA NextPlanInv == IInv /\ PlanInv /\ [Next]_vars => PlanInv'
<1> SUFFICES ASSUME IInv, PlanInv, [Next]_vars PROVE PlanInv'
  OBVIOUS
<1>1. DataStep
  BY NextMaps
<1>2. ASSUME PersistExecution \/ PublishEnqueued \/ UNCHANGED vars PROVE PlanInv'
  <2>1. UNCHANGED <<orch, runner>>
    BY <1>2 DEF PersistExecution, PublishEnqueued, vars
  <2>2. QED BY <1>1, <2>1, NoTurn
<1>3. ASSUME Crash PROVE PlanInv'
  <2>1. Data!DataInv'
    BY <1>1, StepKeeps
  <2>2. /\ \A w \in OrchWorkers : orch'[w] = IdleOrch
        /\ \A w \in StepWorkers : runner'[w] = IdleRunner
    BY <1>3 DEF Crash
  <2>3. QED BY <2>1, <2>2 DEF PlanInv, PlanOK, RunOK, IdleOrch, IdleRunner
<1>4. ASSUME NEW w \in OrchWorkers, StartHandler(w) \/ SettledHandler(w) \/ OrchThrows(w) PROVE PlanInv'
  BY <1>1, <1>4, OrchFrees, LoadSettledKeeps, CheckFailedKeeps, PlanTerminalsKeeps, PlanKeeps,
     FinishTerminalsKeeps, CountSettledKeeps, ReadOutcomeKeeps, FailExecutionKeeps
     DEF StartHandler, SettledHandler
<1>5. ASSUME NEW w \in StepWorkers, ReadyHandler(w) \/ RunnerThrows(w) PROVE PlanInv'
  BY <1>1, <1>5, RunnerFrees, RunStepKeeps DEF ReadyHandler
<1>6. QED BY <1>2, <1>3, <1>4, <1>5 DEF Next

-----------------------------------------------------------------------------
(***************************************************************************)
(* The theorems on the tables.                                             *)
(***************************************************************************)
\* The refinement names the abstract engine once, its proofs another time: both are one.
LEMMA LinkInit == Data!Init <=> Dataflow!Init
  BY LinkValues DEF Data!Init, Dataflow!Init, Data!NewRow, Dataflow!NewRow

LEMMA LinkExecutorRuns ==
  Data!ExecutorRuns = Dataflow!ExecutorRuns /\ Data!BatchErrors = Dataflow!BatchErrors
BY LinkSuccess, LinkValues DEF Data!ExecutorRuns, Dataflow!ExecutorRuns, Data!BatchErrors, Dataflow!BatchErrors

LEMMA LinkTables ==
  /\ Data!loops = Dataflow!loops /\ Data!Terminals = Dataflow!Terminals
  /\ \A s : Data!PlanOf(s) = Dataflow!PlanOf(s)
  /\ Data!NothingDecidable <=> Dataflow!NothingDecidable
  /\ Data!AnyFailed <=> Dataflow!AnyFailed
  /\ Data!AllSettled <=> Dataflow!AllSettled
<1>1. Data!loops = Dataflow!loops
  BY LinkLoops DEF Data!loops, Dataflow!loops, Data!Loops, Dataflow!Loops
<1>2. Data!Terminals = Dataflow!Terminals
  BY <1>1, LinkTerms DEF Data!Terminals, Dataflow!Terminals
<1>3. \A s : Data!PlanOf(s) = Dataflow!PlanOf(s)
  BY <1>1, <1>2, LinkPlan DEF Data!PlanOf, Dataflow!PlanOf
<1>4. Data!NothingDecidable <=> Dataflow!NothingDecidable
  BY <1>3, LinkSettled DEF Data!NothingDecidable, Dataflow!NothingDecidable
<1>5. QED BY <1>1, <1>2, <1>3, <1>4, LinkSettled
          DEF Data!AnyFailed, Dataflow!AnyFailed, Data!AllSettled, Dataflow!AllSettled

LEMMA LinkNext == Data!Next <=> Dataflow!Next
<1>1. \A status, outputs : Data!NewRow(status, outputs) = Dataflow!NewRow(status, outputs)
  BY DEF Data!NewRow, Dataflow!NewRow
<1>2. Data!NoOutputs = Dataflow!NoOutputs
  BY LinkValues
<1>3. Data!Admit <=> Dataflow!Admit
  BY LinkValid DEF Data!Admit, Dataflow!Admit
<1>4. Data!RecordTrigger <=> Dataflow!RecordTrigger
  BY <1>1, LinkTrigger DEF Data!RecordTrigger, Dataflow!RecordTrigger
<1>5. Data!Decide <=> Dataflow!Decide
  <2> DEFINE decidable(s) == (SUBSET (Data!PlanOf(s).toQueue \cup Data!PlanOf(s).toSkip)) \ {{}}
  <2> DEFINE table(s, decided) ==
               [k \in DOMAIN rows \cup decided |->
                  IF k \in DOMAIN rows THEN rows[k]
                  ELSE Data!NewRow(IF k \in Data!PlanOf(s).toQueue THEN "queued" ELSE "skipped", Data!NoOutputs)]
  <2>1. \A s, decided :
          table(s, decided) =
            [k \in DOMAIN rows \cup decided |->
               IF k \in DOMAIN rows THEN rows[k]
               ELSE Dataflow!NewRow(IF k \in Dataflow!PlanOf(s).toQueue THEN "queued" ELSE "skipped", Dataflow!NoOutputs)]
    BY <1>1, <1>2, LinkTables
  <2>2. \A s : decidable(s) = (SUBSET (Dataflow!PlanOf(s).toQueue \cup Dataflow!PlanOf(s).toSkip)) \ {{}}
    BY LinkTables
  <2>3. Data!Decide <=>
          /\ exec.status = "running" /\ ~Data!AnyFailed /\ UNCHANGED <<graph, exec>>
          /\ \E s \in DOMAIN rows : Data!IsSettled(rows[s]) /\ \E decided \in decidable(s) : rows' = table(s, decided)
    BY DEF Data!Decide
  <2> HIDE DEF decidable, table
  <2>4. Dataflow!Decide <=>
          /\ exec.status = "running" /\ ~Dataflow!AnyFailed /\ UNCHANGED <<graph, exec>>
          /\ \E s \in DOMAIN rows : Dataflow!IsSettled(rows[s]) /\ \E decided \in decidable(s) : rows' = table(s, decided)
    BY <2>1, <2>2 DEF Dataflow!Decide
  <2>5. QED BY <2>3, <2>4, LinkTables, LinkSettled
<1>6. Data!BeginStep <=> Dataflow!BeginStep
  BY <1>1, <1>2, LinkTables DEF Data!BeginStep, Dataflow!BeginStep
<1>7. Data!SettleStep <=> Dataflow!SettleStep
  <2>1. \A k : /\ Data!InputsReadable(graph, Data!loops, rows, k) <=> Dataflow!InputsReadable(graph, Dataflow!loops, rows, k)
               /\ Data!StepRuns(graph, Data!loops, rows, k, Data!ExecutorRuns, Data!BatchErrors) =
                  Dataflow!StepRuns(graph, Dataflow!loops, rows, k, Dataflow!ExecutorRuns, Dataflow!BatchErrors)
    BY LinkReadable, LinkRuns, LinkTables, LinkExecutorRuns
  <2>2. QED BY <1>1, <2>1 DEF Data!SettleStep, Dataflow!SettleStep
<1>8. Data!Complete <=> Dataflow!Complete
  BY LinkTables DEF Data!Complete, Dataflow!Complete
<1>9. (Data!Fail <=> Dataflow!Fail) /\ (Data!Begin <=> Dataflow!Begin)
  BY LinkTables DEF Data!Fail, Dataflow!Fail, Data!Begin, Dataflow!Begin
<1>10. Data!CancelQueued <=> Dataflow!CancelQueued
  BY <1>1, <1>2 DEF Data!CancelQueued, Dataflow!CancelQueued
<1>11. QED BY <1>3, <1>4, <1>5, <1>6, <1>7, <1>8, <1>9, <1>10
           DEF Data!Next, Dataflow!Next, Data!Progress, Dataflow!Progress

\* However handlers interleave, whatever is delivered twice, thrown away or lost, the tables
\* go through steps of the abstract engine: a plan from a partial and stale read is one the
\* whole table justifies, and an execution completes only when nothing is left of it
\* (planSuccessors, finishExecutionIfDone).
THEOREM EngineImplementsDataflow == Spec => ImplementsDataflow
<1>1. Init => Dataflow!Init
  BY InitMaps, LinkInit
<1>2. Init => PlanInv
  BY InitPlanInv
<1>3. IInv /\ PlanInv /\ [Next]_vars => PlanInv'
  BY NextPlanInv
<1>4. IInv /\ PlanInv /\ [Next]_vars => [Dataflow!Next]_(Dataflow!dataVars)
  BY NextMaps, LinkNext DEF DataStep, Dataflow!dataVars
<1>5. QED BY <1>1, <1>2, <1>3, <1>4, Invariance, PTL DEF Spec, ImplementsDataflow, Dataflow!Spec

\* What the planning rules are meant to give then holds of the engine itself: fates stay
\* justified, passes go in order and hand out every item, a running step can read its
\* inputs, the count is exact and a completed execution is complete.
THEOREM EngineKeepsDataflow ==
  Spec => [](/\ Data!FatesJustified /\ Data!PassesInOrder /\ Data!EveryItemHandedOut
             /\ Data!RunningStepsCanRead /\ Data!CountIsExact /\ Data!CompletedIsComplete)
<1>1. Init => PlanInv
  BY InitPlanInv
<1>2. IInv /\ PlanInv /\ [Next]_vars => PlanInv'
  BY NextPlanInv
<1>3. PlanInv => /\ Data!FatesJustified /\ Data!PassesInOrder /\ Data!EveryItemHandedOut
                 /\ Data!RunningStepsCanRead /\ Data!CountIsExact /\ Data!CompletedIsComplete
  BY LinkAssumptions, Data!FatesAreJustified, Data!PassesAreInOrder, Data!EveryItemIsHandedOut,
     Data!RunningStepsRead, Data!TheCountIsExact, Data!CompletedIsWhole DEF PlanInv
<1>4. QED BY <1>1, <1>2, <1>3, Invariance, PTL DEF Spec

-----------------------------------------------------------------------------
(***************************************************************************)
(* No work is lost.  Short of faults, whatever is left to do is in         *)
(* somebody's hands: a message not yet consumed, or a handler at a place   *)
(* from which it leads on.  WorkHeld says whose, for each kind of work.    *)
(***************************************************************************)
\* Steps fail, but no store call throws and nothing crashes; and every step has an executor.
StepsMayFail == Faults \subseteq {"fail"}
AllHaveExecutors == \A g \in Graphs : \A n \in NodesOf(g) : g.kind[n] = "trigger" \/ HasExecutor(g, n)

Underway == exec.status = "running" /\ ~AnyFailed

DecidedBy(s) == Data!DecidedBy(graph, rows, s)

\* A settlement that a handler still has to tell, or has been told and not planned from.
Tells(o, s) ==
  \/ o.pc \in {"announceTrigger", "checkFailed", "planTerminals"} /\ o.key = s
  \/ o.pc = "announce" /\ s \in o.created \ o.toQueue

\* A handler that is about to plan k from the settlement of s, or to create it.
Plans(o, s, k) ==
  \/ /\ o.pc = "plan" /\ o.key = s
     /\ SourcesOf(graph, Loops[graph], k, o.terms) = Data!ReadsOf(graph, rows, k)
  \/ o.pc = "create" /\ o.key = s /\ k \in o.toQueue \cup o.toSkip

Queues(o, k) == o.pc = "announce" /\ k \in o.created \cap o.toQueue

Fails(o) == o.pc \in {"fail", "sweep"}

\* A handler that comes to ask whether the execution is done.
Ends(o) ==
  \/ o.pc \in {"announceTrigger", "checkFailed", "planTerminals", "plan", "create",
               "finishTerminals", "count", "outcome", "finish"}
  \/ o.pc = "announce" /\ ~o.queued

Announces(r, s) == r.pc = "announce" /\ r.key = s

Unread(s) ==
  \/ Settled(s) \in orchQueue
  \/ \E w \in StepWorkers : Announces(runner[w], s)
  \/ \E w \in OrchWorkers : Tells(orch[w], s)

StartHeld ==
  /\ exec.status = "queued" => caller = "persisted" \/ Enqueued \in orchQueue
  /\ exec.status = "running" /\ DOMAIN rows = {} => \E w \in OrchWorkers : orch[w].pc = "createTrigger"

RunningHeld ==
  exec.status = "running" =>
    \A k \in DOMAIN rows :
      rows[k].status = "running" => \E w \in StepWorkers : runner[w].key = k /\ Unrecorded(w)

QueuedHeld ==
  ~AnyFailed =>
    \A k \in DOMAIN rows :
      rows[k].status = "queued" => k \in stepQueue \/ \E w \in OrchWorkers : Queues(orch[w], k)

FailureHeld ==
  AnyFailed =>
    \/ exec.status = "failed" /\ \A k \in DOMAIN rows : rows[k].status # "queued"
    \/ \E m \in orchQueue \ {Enqueued} : rows[m.key].status = "failed"
    \/ \E w \in StepWorkers : runner[w].pc = "announce" /\ ~runner[w].run.ok
    \/ \E w \in OrchWorkers : Fails(orch[w])

DecisionHeld ==
  Underway =>
    \A s \in SettledKeys : \A k \in DecidedBy(s) :
      \E r \in SettledKeys : /\ k \in DecidedBy(r)
                             /\ Unread(r) \/ \E w \in OrchWorkers : Plans(orch[w], r, k)

EndHeld ==
  Underway /\ Data!Done(graph, rows) =>
    \/ \E m \in orchQueue : m # Enqueued
    \/ \E w \in StepWorkers : runner[w].pc = "announce"
    \/ \E w \in OrchWorkers : Ends(orch[w])

WorkHeld == StartHeld /\ RunningHeld /\ QueuedHeld /\ FailureHeld /\ DecisionHeld /\ EndHeld

\* When nothing is in flight and all work is held, nothing is left to do.
LEMMA HeldNotLost ==
  ASSUME IInv, PlanInv, WorkHeld
  PROVE  NoWorkLost
<1>1. SUFFICES ASSUME Idle
               PROVE  /\ exec.status \in {"completed", "failed"}
                      /\ \A k \in DOMAIN rows : rows[k].status # "queued"
  BY DEF NoWorkLost
<1>2. /\ caller = "done" /\ orchQueue = {} /\ stepQueue = {}
      /\ \A w \in OrchWorkers : orch[w].pc = "idle"
      /\ \A w \in StepWorkers : runner[w].pc = "idle"
  BY <1>1 DEF Idle, OrchAt, RunnerAt
<1>3. exec.status # "absent" /\ exec.status # "queued"
  BY <1>2 DEF IInv, Admission, WorkHeld, StartHeld
<1>4. exec.status \in {"running", "completed", "failed"}
  BY <1>3 DEF IInv, TypeOK, ExecStatuses
<1>5. CASE AnyFailed
  BY <1>2, <1>5 DEF WorkHeld, FailureHeld, Fails
<1>6. CASE ~AnyFailed
  <2>1. \A k \in DOMAIN rows : rows[k].status # "queued"
    BY <1>2, <1>6 DEF WorkHeld, QueuedHeld, Queues
  <2>2. CASE exec.status # "running"
    BY <1>4, <2>1, <2>2
  <2>3. CASE exec.status = "running"
    <3>1. DOMAIN rows # {}
      BY <1>2, <2>3 DEF WorkHeld, StartHeld
    <3>2. \A k \in DOMAIN rows : IsSettled(rows[k])
      <4>1. \A k \in DOMAIN rows : rows[k].status # "running"
        BY <1>2, <2>3 DEF WorkHeld, RunningHeld, Unrecorded
      <4>2. QED BY <2>1, <4>1 DEF IInv, TypeOK, RowsOK, Row, StepStatuses, IsSettled, SettledStatuses
    <3>3. \A s \in SettledKeys : DecidedBy(s) = {}
      BY <1>2, <1>6, <2>3 DEF WorkHeld, DecisionHeld, Underway, Unread, Announces, Tells, Plans
    <3>4. Data!Done(graph, rows)
      <4>1. Data!NothingLeft(graph, rows)
        BY <3>3, LinkSettled DEF Data!NothingLeft, Data!DecidedBy, DecidedBy, SettledKeys
      <4>2. QED BY <3>1, <3>2, <4>1, LinkSettled DEF Data!Done
    <3>5. FALSE
      BY <1>2, <1>6, <2>3, <3>4 DEF WorkHeld, EndHeld, Underway, Ends
    <3>6. QED BY <3>5
  <2>4. QED BY <2>2, <2>3
<1>7. QED BY <1>5, <1>6

LEMMA InitHeld == Init => WorkHeld
BY DEF Init, WorkHeld, StartHeld, RunningHeld, QueuedHeld, FailureHeld, DecisionHeld, EndHeld, Underway, AnyFailed

\* An execution that runs after a step of which it had begun before ran already.
LEMMA RanBefore ==
  ASSUME DataStep, Begun, exec'.status = "running"
  PROVE  exec.status = "running"
BY DEF DataStep, Begun, Data!Next, Data!Progress, Data!Admit, Data!Begin, Data!RecordTrigger, Data!Fail,
       Data!BeginStep, Data!SettleStep, Data!Decide, Data!Complete, Data!CancelQueued

\* A planned step reads the same rows in the next table, so a plan that knew its sources
\* still does.
LEMMA PlansKept ==
  ASSUME IInv, PlanInv, DataStep, NEW r \in SettledKeys, NEW k \in DecidedBy(r), NEW o, Plans(o, r, k)
  PROVE  Plans(o, r, k)'
<1>1. /\ Data!DataInv' /\ graph' = graph /\ Data!Continues(graph, rows, rows') /\ Data!DataInv
      /\ Data!TableOK(graph, rows')
  BY StepKeeps DEF PlanInv
<1>2. exec.status # "absent"
  BY DEF SettledKeys, IInv, Admission, Begun
<1>3. Data!Executable(graph) /\ Data!GoodTable(graph, rows)
  BY <1>1, <1>2, Admitted
<1>4. r \in DOMAIN rows /\ Data!IsSettled(rows[r])
  BY LinkSettled DEF SettledKeys
<1>5. \A x \in Data!ReadsOf(graph, rows, k) : Data!Decided(rows, x)
  BY <1>3, Data!PlanFacts, LinkAssumptions DEF DecidedBy, Data!DecidedBy
<1>6. k[2] \in Nat
  BY <1>3, <1>4, Data!NewKeyPlace, LinkAssumptions DEF DecidedBy, Data!DecidedBy
<1>7. DOMAIN rows' \subseteq Data!NodesOf(graph) \X Nat
  BY <1>1 DEF Data!TableOK
<1>8. Data!ReadsOf(graph, rows', k) = Data!ReadsOf(graph, rows, k)
  BY <1>1, <1>3, <1>5, <1>6, <1>7, Data!ReadsStay, LinkAssumptions
<1>9. QED BY <1>1, <1>8 DEF Plans

Answers(r, k) == Unread(r) \/ \E w \in OrchWorkers : Plans(orch[w], r, k)

\* What is decidable stays held when each settlement that is new is unread, and each
\* that was held still is.
LEMMA DecisionKept ==
  ASSUME IInv, PlanInv, DecisionHeld, DataStep,
         \A r \in SettledKeys : \A k \in DecidedBy(r) :
           Underway /\ k \notin DOMAIN rows' /\ Answers(r, k) => Answers(r, k)',
         \A r \in SettledKeys' \ SettledKeys : Unread(r)'
  PROVE  DecisionHeld'
<1>1. SUFFICES ASSUME Underway', NEW s \in SettledKeys', NEW k \in DecidedBy(s)'
               PROVE  \E r \in SettledKeys' : k \in DecidedBy(r)' /\ Answers(r, k)'
  BY DEF DecisionHeld, Answers
<1>2. /\ Data!DataInv' /\ graph' = graph /\ Data!Continues(graph, rows, rows') /\ Data!DataInv
  BY StepKeeps DEF PlanInv
<1>3. \A r : DecidedBy(r)' = Data!DecidedBy(graph, rows', r)
  BY <1>2 DEF DecidedBy
<1>4. Data!Executable(graph) /\ Data!GoodTable(graph, rows) /\ Data!GoodTable(graph, rows')
  <2>1. Data!GoodTable(graph, rows) /\ Data!GoodTable(graph, rows')
    BY <1>2 DEF Data!DataInv
  <2>2. exec'.status = "running"
    BY <1>1 DEF Underway
  <2>3. Data!ValidateExecutableGraph(graph) /\ graph \in Graphs
    BY <1>2, <2>2 DEF Data!DataInv, Data!ExecOK
  <2>4. Data!IsGraph(graph)
    BY <2>3, LinkAssumptions DEF Data!DataflowAssumption
  <2>5. QED BY <2>1, <2>3, <2>4 DEF Data!Executable
<1>5. s \in DOMAIN rows' /\ Data!IsSettled(rows'[s])
  BY LinkSettled DEF SettledKeys
<1>6. \/ s \in DOMAIN rows /\ Data!IsSettled(rows[s]) /\ k \in Data!DecidedBy(graph, rows, s)
      \/ \E r \in DOMAIN rows' : /\ Data!IsSettled(rows'[r]) /\ k \in Data!DecidedBy(graph, rows', r)
                                 /\ ~(r \in DOMAIN rows /\ Data!IsSettled(rows[r]))
  BY <1>2, <1>3, <1>4, <1>5, Data!LatestDecides, LinkAssumptions
<1>7. CASE s \in DOMAIN rows /\ Data!IsSettled(rows[s]) /\ k \in Data!DecidedBy(graph, rows, s)
  <2>1. s \in SettledKeys /\ k \in DecidedBy(s)
    BY <1>7, LinkSettled DEF SettledKeys, DecidedBy
  <2>2. Underway
    <3>1. Begun
      BY <2>1 DEF IInv, Admission, SettledKeys
    <3>2. exec.status = "running"
      BY <1>1, <3>1, RanBefore DEF Underway
    <3>3. QED BY <1>1, <1>2, <3>2, FailureKept DEF Underway
  <2>3. PICK r \in SettledKeys : k \in DecidedBy(r) /\ Answers(r, k)
    BY <2>1, <2>2 DEF DecisionHeld, Answers
  <2>4. r \in DOMAIN rows /\ Data!IsSettled(rows[r]) /\ r \in SettledKeys'
    BY <1>2, LinkSettled DEF SettledKeys, Data!Continues
  <2>5. k \notin DOMAIN rows'
    <3>1. k \in Data!PlanAt(graph, rows', s).toQueue \cup Data!PlanAt(graph, rows', s).toSkip
      BY <1>3 DEF Data!DecidedBy
    <3>2. QED BY <3>1, Data!PlanSplits, LinkAssumptions
  <2>6. k \in DecidedBy(r)'
    <3>1. k \in Data!PlanAt(graph, rows, r).toQueue \cup Data!PlanAt(graph, rows, r).toSkip
      BY <2>3 DEF DecidedBy, Data!DecidedBy
    <3>2. k \in Data!PlanAt(graph, rows', r).toQueue \cup Data!PlanAt(graph, rows', r).toSkip
      BY <1>2, <1>4, <2>4, <2>5, <3>1, Data!PlanStays, LinkAssumptions
    <3>3. QED BY <1>3, <3>2 DEF Data!DecidedBy
  <2>7. Answers(r, k)'
    BY <2>2, <2>3, <2>5
  <2>8. QED BY <2>4, <2>6, <2>7
<1>8. CASE \E r \in DOMAIN rows' : /\ Data!IsSettled(rows'[r]) /\ k \in Data!DecidedBy(graph, rows', r)
                                   /\ ~(r \in DOMAIN rows /\ Data!IsSettled(rows[r]))
  <2>1. PICK r \in DOMAIN rows' : /\ Data!IsSettled(rows'[r]) /\ k \in Data!DecidedBy(graph, rows', r)
                                  /\ ~(r \in DOMAIN rows /\ Data!IsSettled(rows[r]))
    BY <1>8
  <2>2. r \in SettledKeys' /\ r \notin SettledKeys
    BY <2>1, LinkSettled DEF SettledKeys
  <2>3. QED BY <1>3, <2>1, <2>2 DEF Answers
<1>9. QED BY <1>6, <1>7, <1>8

\* A step that changes no table leaves each kind of work held when its worker hands on
\* what it held: to a message, or to itself at the place it goes to.
LEMMA OrchHandsOn ==
  ASSUME IInv, PlanInv, WorkHeld, NEW w \in OrchWorkers, NEW o, orch' = [orch EXCEPT ![w] = o],
         UNCHANGED <<graph, exec, caller, rows, runner>>,
         orch[w].pc = "createTrigger" => DOMAIN rows # {},
         exec.status = "queued" /\ Enqueued \in orchQueue => Enqueued \in orchQueue',
         stepQueue \subseteq stepQueue',
         \A k : Queues(orch[w], k) => k \in stepQueue' \/ Queues(o, k),
         AnyFailed => /\ Fails(orch[w]) => Fails(o)
                      /\ \A m \in (orchQueue \ orchQueue') \ {Enqueued} :
                           rows[m.key].status = "failed" => Fails(o),
         Underway => \A r \in SettledKeys :
           /\ Settled(r) \in orchQueue => Settled(r) \in orchQueue' \/ Tells(o, r)
           /\ \A k \in DecidedBy(r) : Tells(orch[w], r) \/ Plans(orch[w], r, k) =>
                Settled(r) \in orchQueue' \/ Tells(o, r) \/ Plans(o, r, k),
         Underway /\ Data!Done(graph, rows) =>
           \/ Ends(o) \/ \E m \in orchQueue' : m # Enqueued
           \/ ~Ends(orch[w]) /\ \A m \in orchQueue : m # Enqueued => m \in orchQueue'
  PROVE  WorkHeld'
<1>1. orch \in [OrchWorkers -> OrchState]
  BY DEF IInv, TypeOK
<1>2. orch'[w] = o /\ \A v \in OrchWorkers \ {w} : orch'[v] = orch[v]
  BY <1>1
<1>3. /\ Underway' <=> Underway
      /\ AnyFailed' <=> AnyFailed
      /\ SettledKeys' = SettledKeys
      /\ \A v : Unrecorded(v)' <=> Unrecorded(v)
  BY DEF Underway, AnyFailed, SettledKeys, Unrecorded
<1>4. StartHeld'
  BY <1>2 DEF WorkHeld, StartHeld
<1>5. RunningHeld'
  BY <1>3 DEF WorkHeld, RunningHeld
<1>6. QueuedHeld'
  <2>1. \A k : (\E v \in OrchWorkers : Queues(orch[v], k)) =>
           k \in stepQueue' \/ \E v \in OrchWorkers : Queues(orch[v], k)'
    BY <1>2 DEF Queues
  <2>2. QED BY <1>3, <2>1 DEF WorkHeld, QueuedHeld
<1>7. FailureHeld'
  <2>1. SUFFICES ASSUME AnyFailed PROVE FailureHeld'
    BY <1>3 DEF FailureHeld
  <2>2. \A v \in OrchWorkers : Fails(orch[v]) => \E u \in OrchWorkers : Fails(orch[u])'
    BY <1>2, <2>1 DEF Fails
  <2>3. ASSUME NEW m \in orchQueue \ {Enqueued}, rows[m.key].status = "failed"
        PROVE  FailureHeld'
    <3>1. CASE m \in orchQueue'
      BY <2>3, <3>1 DEF FailureHeld
    <3>2. CASE m \notin orchQueue'
      BY <1>2, <2>1, <2>3, <3>2 DEF FailureHeld, Fails
    <3>3. QED BY <3>1, <3>2
  <2>4. QED BY <1>3, <2>1, <2>2, <2>3 DEF WorkHeld, FailureHeld
<1>8. DecisionHeld'
  <2>1. DataStep
    BY DEF DataStep
  <2>2. ASSUME NEW r \in SettledKeys, NEW k \in DecidedBy(r), Underway, Answers(r, k)
        PROVE  Answers(r, k)'
    <3>1. \A p : Plans(p, r, k)' <=> Plans(p, r, k)
      BY DEF Plans
    <3>2. CASE Settled(r) \in orchQueue' \/ Tells(o, r) \/ Plans(o, r, k)
      BY <1>2, <3>1, <3>2 DEF Answers, Unread, Tells, Plans
    <3>3. CASE ~(Settled(r) \in orchQueue' \/ Tells(o, r) \/ Plans(o, r, k))
      <4>1. ~Tells(orch[w], r) /\ ~Plans(orch[w], r, k) /\ Settled(r) \notin orchQueue
        BY <2>2, <3>3
      <4>2. \/ \E v \in StepWorkers : Announces(runner[v], r)
            \/ \E v \in OrchWorkers \ {w} : Tells(orch[v], r) \/ Plans(orch[v], r, k)
        BY <2>2, <4>1 DEF Answers, Unread
      <4>3. ASSUME NEW v \in OrchWorkers \ {w}, Tells(orch[v], r) \/ Plans(orch[v], r, k)
            PROVE  Answers(r, k)'
        BY <1>2, <4>3 DEF Answers, Unread, Tells, Plans
      <4>4. QED BY <4>2, <4>3 DEF Answers, Unread, Announces
    <3>4. QED BY <3>2, <3>3
  <2>3. QED BY <1>3, <2>1, <2>2, DecisionKept DEF WorkHeld
<1>9. EndHeld'
  <2>1. SUFFICES ASSUME Underway, Data!Done(graph, rows) PROVE EndHeld'
    BY <1>3 DEF EndHeld
  <2>2. CASE Ends(o) \/ \E m \in orchQueue' : m # Enqueued
    BY <1>2, <2>2 DEF EndHeld, Ends
  <2>3. CASE ~Ends(orch[w]) /\ \A m \in orchQueue : m # Enqueued => m \in orchQueue'
    BY <1>2, <2>1, <2>3 DEF WorkHeld, EndHeld, Ends
  <2>4. QED BY <2>1, <2>2, <2>3
<1>10. QED BY <1>4, <1>5, <1>6, <1>7, <1>8, <1>9 DEF WorkHeld

\* While the execution is under way a settled step completed or was skipped.
LEMMA SettledWell ==
  ASSUME PlanInv, Underway, NEW k \in SettledKeys
  PROVE  rows[k].status \in {"completed", "skipped"}
BY DEF PlanInv, Data!DataInv, Data!ExecOK, Underway, AnyFailed, SettledKeys, IsSettled, SettledStatuses

\* The trigger's settlement goes into its message.
LEMMA AnnounceTriggerHands ==
  ASSUME IInv, PlanInv, WorkHeld, NEW w \in OrchWorkers, AnnounceTrigger(w)
  PROVE  WorkHeld'
<1>1. PICK o : o = IdleOrch
  OBVIOUS
<1>2. /\ orch[w].pc = "announceTrigger" /\ orch' = [orch EXCEPT ![w] = o]
      /\ orchQueue' = orchQueue \cup {Settled(orch[w].key)} /\ stepQueue' = stepQueue
      /\ UNCHANGED <<graph, exec, caller, rows, runner>>
  BY <1>1 DEF AnnounceTrigger, OrchAt, OrchDone
<1>3. Settled(orch[w].key) # Enqueued
  BY DEF Settled, Enqueued
<1>4. \A r : Tells(orch[w], r) => r = orch[w].key
  BY <1>2 DEF Tells
<1>5. \A r, k : ~Plans(orch[w], r, k)
  BY <1>2 DEF Plans
<1>6. \A k : ~Queues(orch[w], k)
  BY <1>2 DEF Queues
<1>7. ~Fails(orch[w])
  BY <1>2 DEF Fails
<1>8. QED BY <1>2, <1>3, <1>4, <1>5, <1>6, <1>7, OrchHandsOn

\* A consumer of a settlement holds what its message did: a failure on the way to ending the
\* execution, any other settlement on the way to planning from it.
LEMMA LoadSettledHands ==
  ASSUME IInv, PlanInv, WorkHeld, NEW w \in OrchWorkers, LoadSettled(w)
  PROVE  WorkHeld'
<1>1. PICK m \in orchQueue \ {Enqueued} :
        /\ orchQueue' \in Consume(orchQueue, m)
        /\ orch' = [orch EXCEPT ![w] = IF AfterLoad(rows[m.key]) = "idle" THEN IdleOrch
                                       ELSE [IdleOrch EXCEPT !.pc = AfterLoad(rows[m.key]), !.key = m.key]]
  BY DEF LoadSettled
<1>2. PICK o : o = IF AfterLoad(rows[m.key]) = "idle" THEN IdleOrch
                   ELSE [IdleOrch EXCEPT !.pc = AfterLoad(rows[m.key]), !.key = m.key]
  OBVIOUS
<1>3. UNCHANGED <<graph, exec, caller, rows, stepQueue, runner>> /\ orch[w].pc = "idle"
  BY DEF LoadSettled, OrchAt
<1>4. m.key \in SettledKeys /\ m = Settled(m.key)
  BY DEF IInv, MessagesNameRows
<1>5. \A n \in orchQueue : n # m => n \in orchQueue'
  BY <1>1 DEF Consume
<1>6. rows[m.key].status = "failed" => Fails(o)
  BY <1>2 DEF AfterLoad, Fails, IdleOrch
<1>7. Underway => o.pc = "checkFailed" /\ o.key = m.key
  <2>1. SUFFICES ASSUME Underway PROVE o.pc = "checkFailed" /\ o.key = m.key
    OBVIOUS
  <2>2. rows[m.key].status \in {"completed", "skipped"} /\ exec.status = "running"
    BY <1>4, <2>1, SettledWell DEF Underway
  <2>3. AfterLoad(rows[m.key]) = "checkFailed"
    BY <2>2 DEF AfterLoad
  <2>4. QED BY <1>2, <2>3 DEF IdleOrch
<1>8. ~Fails(orch[w]) /\ \A k : ~Queues(orch[w], k)
  BY <1>3 DEF Fails, Queues
<1>9. \A r, k : ~Tells(orch[w], r) /\ ~Plans(orch[w], r, k)
  BY <1>3 DEF Tells, Plans
<1>10. \A r : Settled(r) = m => r = m.key
  BY DEF Settled
<1>11. Underway => Tells(o, m.key) /\ Ends(o)
  BY <1>7 DEF Tells, Ends
<1>12. QED BY <1>1, <1>2, <1>3, <1>5, <1>6, <1>8, <1>9, <1>10, <1>11, OrchHandsOn

\* A handler that finds no failure goes on to plan; one that finds a failure ends the execution.
LEMMA CheckFailedHands ==
  ASSUME IInv, PlanInv, WorkHeld, NEW w \in OrchWorkers, CheckFailed(w)
  PROVE  WorkHeld'
<1>1. PICK o : o = [orch[w] EXCEPT !.pc = IF AnyFailed THEN "fail" ELSE "planTerminals"]
  OBVIOUS
<1>2. /\ orch[w] \in OrchState /\ orch[w].pc = "checkFailed" /\ orch' = [orch EXCEPT ![w] = o]
      /\ UNCHANGED <<graph, exec, caller, rows, orchQueue, stepQueue, runner>>
  BY <1>1 DEF CheckFailed, OrchAt, OrchGoto, IInv, TypeOK
<1>3. o.pc = (IF AnyFailed THEN "fail" ELSE "planTerminals") /\ o.key = orch[w].key
  BY <1>1, <1>2 DEF OrchState
<1>4. ~Fails(orch[w]) /\ \A k : ~Queues(orch[w], k)
  BY <1>2 DEF Fails, Queues
<1>5. ASSUME Underway
      PROVE  Ends(o) /\ \A r, k : (Tells(orch[w], r) => Tells(o, r)) /\ ~Plans(orch[w], r, k)
  BY <1>2, <1>3, <1>5 DEF Underway, Ends, Tells, Plans
<1>6. QED BY <1>2, <1>4, <1>5, OrchHandsOn

\* The last passes a planner loads are all it needs for whatever it has to plan.
LEMMA PlanTerminalsHands ==
  ASSUME IInv, PlanInv, WorkHeld, NEW w \in OrchWorkers, PlanTerminals(w)
  PROVE  WorkHeld'
<1> DEFINE candidates == Successors(graph, {orch[w].key[1]})
<1> DEFINE terms == LoadTerminalIterations(rows, ExitSourcesInto(graph, Loops[graph], candidates))
<1>1. PICK o : o = [orch[w] EXCEPT !.pc = "plan", !.terms = terms]
  OBVIOUS
<1>2. /\ orch[w] \in OrchState /\ orch \in [OrchWorkers -> OrchState] /\ orch[w].pc = "planTerminals"
      /\ UNCHANGED <<graph, exec, caller, rows, orchQueue, stepQueue, runner>>
  BY DEF PlanTerminals, OrchAt, IInv, TypeOK
<1>3. orch' = [orch EXCEPT ![w] = o]
  <2> HIDE DEF terms
  <2>1. orch' = [orch EXCEPT ![w].pc = "plan", ![w].terms = terms]
    BY DEF PlanTerminals, terms
  <2>2. QED BY <1>1, <1>2, <2>1
<1> HIDE DEF terms
<1>4. o.pc = "plan" /\ o.key = orch[w].key /\ o.terms = terms
  BY <1>1, <1>2 DEF OrchState
<1>5. /\ Data!Executable(graph) /\ Loops[graph] = DeriveLoops(graph) /\ Loops[graph] = Data!DeriveLoops(graph)
  BY <1>2, Working
<1>6. ASSUME NEW r, NEW k \in DecidedBy(r), r = orch[w].key
      PROVE  Plans(o, r, k)
  <2>1. k[1] \in Data!Successors(graph, {r[1]})
    BY <1>5, Data!DecidedSuccessor, LinkAssumptions DEF DecidedBy
  <2>2. terms = Data!LoadTerminalIterations(rows,
                  Data!ExitSourcesInto(graph, Data!DeriveLoops(graph), Data!Successors(graph, {r[1]})))
    BY <1>5, <1>6, LinkTerms, LinkExits DEF terms, Successors, Data!Successors
  <2>3. Data!SourcesOf(graph, Data!DeriveLoops(graph), k, terms) = Data!ReadsOf(graph, rows, k)
    BY <1>5, <2>1, <2>2, Data!TermsEnough, LinkAssumptions
  <2>4. SourcesOf(graph, Loops[graph], k, o.terms) = Data!ReadsOf(graph, rows, k)
    BY <1>4, <1>5, <2>3, LinkSources
  <2>5. QED BY <1>4, <1>6, <2>4 DEF Plans
<1>7. \A r : (Tells(orch[w], r) => r = orch[w].key) /\ \A k : ~Plans(orch[w], r, k)
  BY <1>2 DEF Tells, Plans
<1>8. ~Fails(orch[w]) /\ \A k : ~Queues(orch[w], k)
  BY <1>2 DEF Fails, Queues
<1>9. Ends(o)
  BY <1>4 DEF Ends
<1>10. QED BY <1>2, <1>3, <1>6, <1>7, <1>8, <1>9, OrchHandsOn

\* A planner plans whatever it knows all the sources of.
LEMMA PlanHands ==
  ASSUME IInv, PlanInv, WorkHeld, NEW w \in OrchWorkers, Plan(w)
  PROVE  WorkHeld'
<1> DEFINE key == orch[w].key
<1> DEFINE terms == orch[w].terms
<1> DEFINE steps == RowSummaries(DecisionKeys(graph, Loops[graph], key, terms))
<1> DEFINE plan == DecideSuccessors(graph, Loops[graph], key, steps, terms)
<1> DEFINE pc == IF plan.toQueue \cup plan.toSkip = {} THEN "finishTerminals" ELSE "create"
<1>1. PICK o : o = [IdleOrch EXCEPT !.pc = pc, !.key = key, !.toQueue = plan.toQueue, !.toSkip = plan.toSkip]
  OBVIOUS
<1>2. orch[w].pc = "plan" /\ UNCHANGED <<graph, exec, caller, rows, orchQueue, stepQueue, runner>>
  BY DEF Plan, OrchAt
<1>3. orch' = [orch EXCEPT ![w] = o]
  BY <1>1 DEF Plan
<1>4. /\ Data!Executable(graph) /\ Data!GoodTable(graph, rows) /\ Loops[graph] = Data!DeriveLoops(graph)
  BY <1>2, Working
<1>5. key \in DOMAIN rows /\ Data!IsSettled(rows[key])
  BY <1>2, LinkSettled DEF PlanInv, PlanOK, SettledKeys
<1>6. ASSUME NEW k \in DecidedBy(key), Plans(orch[w], key, k)
      PROVE  k \in plan.toQueue \cup plan.toSkip
  <2> DEFINE part == [j \in Data!DecisionKeys(graph, Data!DeriveLoops(graph), key, terms) \cap DOMAIN rows |-> rows[j]]
  <2> DEFINE same == Data!DecideSuccessors(graph, Data!DeriveLoops(graph), key, part, terms)
  <2>1. steps = part
    BY <1>4, LinkKeys DEF RowSummaries
  <2>2. plan = same
    BY <1>4, <2>1, LinkPlan
  <2>3. Data!SourcesOf(graph, Data!DeriveLoops(graph), k, terms) = Data!ReadsOf(graph, rows, k)
    BY <1>2, <1>4, <1>6, LinkSources DEF Plans
  <2>4. k \in Data!DecidedBy(graph, rows, key)
    BY DEF DecidedBy
  <2> HIDE DEF key, terms, plan
  <2>5. k \in same.toQueue \cup same.toSkip
    <3>1. PICK p : p = part
      OBVIOUS
    <3>2. k \in Data!DecideSuccessors(graph, Data!DeriveLoops(graph), key, p, terms).toQueue
                \cup Data!DecideSuccessors(graph, Data!DeriveLoops(graph), key, p, terms).toSkip
      BY <1>4, <1>5, <2>3, <2>4, <3>1, Data!PlanFromEnough, LinkAssumptions
    <3>3. QED BY <3>1, <3>2
  <2> HIDE DEF same
  <2>6. QED BY <2>2, <2>5
<1> HIDE DEF plan
<1>7. /\ o.key = key /\ o.toQueue = plan.toQueue /\ o.toSkip = plan.toSkip /\ o.pc = pc
  BY <1>1 DEF IdleOrch
<1>8. ASSUME NEW r, NEW k \in DecidedBy(r), Plans(orch[w], r, k)
      PROVE  Plans(o, r, k)
  <2>1. r = key
    BY <1>2, <1>8 DEF Plans
  <2>2. k \in plan.toQueue \cup plan.toSkip
    BY <1>6, <1>8, <2>1
  <2>3. o.pc = "create"
    BY <1>7, <2>2
  <2>4. QED BY <1>7, <2>1, <2>2, <2>3 DEF Plans
<1>9. ~Fails(orch[w]) /\ (\A k : ~Queues(orch[w], k)) /\ \A r : ~Tells(orch[w], r)
  BY <1>2 DEF Fails, Queues, Tells
<1>10. Ends(o)
  BY <1>7 DEF Ends
<1>11. QED BY <1>2, <1>3, <1>8, <1>9, <1>10, OrchHandsOn

\* Each created row goes into a message, and a handler that queued none of them asks
\* whether the execution is done.
LEMMA AnnounceCreatedHands ==
  ASSUME IInv, PlanInv, WorkHeld, NEW w \in OrchWorkers, AnnounceCreated(w)
  PROVE  WorkHeld'
<1> DEFINE now == orch[w]
<1> DEFINE last == IF now.queued THEN IdleOrch ELSE [IdleOrch EXCEPT !.pc = "finishTerminals", !.key = now.key]
<1>1. PICK k \in now.created :
        /\ \/ k \in now.toQueue /\ stepQueue' = stepQueue \cup {k} /\ UNCHANGED orchQueue
           \/ k \notin now.toQueue /\ orchQueue' = orchQueue \cup {Settled(k)} /\ UNCHANGED stepQueue
        /\ orch' = [orch EXCEPT ![w] = IF now.created \ {k} = {} THEN last ELSE [@ EXCEPT !.created = now.created \ {k}]]
  BY DEF AnnounceCreated
<1>2. /\ now \in OrchState /\ now.pc = "announce" /\ UNCHANGED <<graph, exec, caller, rows, runner>>
  BY DEF AnnounceCreated, OrchAt, IInv, TypeOK
<1>3. PICK o : o = IF now.created \ {k} = {} THEN last ELSE [now EXCEPT !.created = now.created \ {k}]
  OBVIOUS
<1>4. orch' = [orch EXCEPT ![w] = o]
  BY <1>1, <1>3
<1>5. CASE now.created \ {k} = {}
  <2>1. now.created = {k} /\ o = last
    BY <1>3, <1>5
  <2>2. /\ \A j : Queues(now, j) => j \in stepQueue'
        /\ \A r : Tells(now, r) => Settled(r) \in orchQueue'
    BY <1>1, <1>2, <2>1 DEF Queues, Tells
  <2>3. Ends(o) \/ ~Ends(now)
    BY <1>2, <2>1 DEF Ends, IdleOrch
  <2>4. ~Fails(now) /\ \A r, j : ~Plans(now, r, j)
    BY <1>2 DEF Fails, Plans
  <2>5. orchQueue \subseteq orchQueue' /\ stepQueue \subseteq stepQueue'
    BY <1>1
  <2> HIDE DEF now, last
  <2>6. QED BY <1>2, <1>4, <2>2, <2>3, <2>4, <2>5, OrchHandsOn DEF now
<1>6. CASE now.created \ {k} # {}
  <2>1. /\ o.pc = "announce" /\ o.created = now.created \ {k} /\ o.toQueue = now.toQueue
        /\ o.queued = now.queued
    BY <1>2, <1>3, <1>6 DEF OrchState
  <2>2. /\ \A j : Queues(now, j) => j \in stepQueue' \/ Queues(o, j)
        /\ \A r : Tells(now, r) => Settled(r) \in orchQueue' \/ Tells(o, r)
    BY <1>1, <1>2, <2>1 DEF Queues, Tells
  <2>3. Ends(o) \/ ~Ends(now)
    BY <1>2, <2>1 DEF Ends
  <2>4. ~Fails(now) /\ \A r, j : ~Plans(now, r, j)
    BY <1>2 DEF Fails, Plans
  <2>5. orchQueue \subseteq orchQueue' /\ stepQueue \subseteq stepQueue'
    BY <1>1
  <2> HIDE DEF now, last
  <2>6. QED BY <1>2, <1>4, <2>2, <2>3, <2>4, <2>5, OrchHandsOn DEF now
<1>7. QED BY <1>5, <1>6

\* When nothing is left of the execution, the last passes that were read say so, and the
\* settled rows reach what they expect.
LEMMA DoneTold ==
  ASSUME IInv, PlanInv, exec.status # "absent", Data!Done(graph, rows),
         NEW terms \in SUBSET Data!TermsOf(graph, rows)
  PROVE  /\ (\A l \in ReachableLoops(Loops[graph], Reachable[graph]) : \A k \in Data!TermsOf(graph, rows) :
               k[1] = l.batch => k \in terms) => Expected(terms) # StillRunning
         /\ Expected(terms) # StillRunning => ~(Cardinality(SettledKeys) < Expected(terms))
<1>1. /\ Data!Executable(graph) /\ Data!GoodTable(graph, rows)
      /\ Loops[graph] = Data!DeriveLoops(graph) /\ Reachable[graph] = Data!ReachableNodes(graph)
  BY Admitted DEF PlanInv
<1>2. <<Data!TriggerOf(graph), 0>> \in DOMAIN rows
  BY DEF PlanInv, Data!DataInv, Data!Done
<1>3. Data!Counted(graph) = ReachableLoops(Loops[graph], Reachable[graph])
  BY <1>1 DEF Data!Counted, Data!ReachableLoops, ReachableLoops
<1>4. /\ Data!CountExpectedSettledSteps(Data!DeriveLoops(graph), Data!ReachableNodes(graph), terms) = Expected(terms)
      /\ Data!StillRunning = StillRunning
  BY <1>1, LinkCount DEF Expected, Data!StillRunning, StillRunning
<1>5. Data!Cardinality({k \in DOMAIN rows : Data!IsSettled(rows[k])}) = Cardinality(SettledKeys)
  BY LinkSettled, LinkCard DEF SettledKeys
<1>6. QED BY <1>1, <1>2, <1>3, <1>4, <1>5, Data!CountTold, LinkAssumptions

LEMMA FinishTerminalsHands ==
  ASSUME IInv, PlanInv, WorkHeld, NEW w \in OrchWorkers, FinishTerminals(w)
  PROVE  WorkHeld'
<1> DEFINE heads == {l.batch : l \in ReachableLoops(Loops[graph], Reachable[graph])}
<1> DEFINE terms == LoadTerminalIterations(rows, heads)
<1>1. PICK o : o = IF Expected(terms) = StillRunning THEN IdleOrch ELSE [IdleOrch EXCEPT !.pc = "count", !.terms = terms]
  OBVIOUS
<1>2. /\ orch[w].pc = "finishTerminals" /\ orch' = [orch EXCEPT ![w] = o]
      /\ UNCHANGED <<graph, exec, caller, rows, orchQueue, stepQueue, runner>>
  BY <1>1 DEF FinishTerminals, OrchAt
<1>3. ASSUME Data!Done(graph, rows) PROVE Ends(o)
  <2>1. Loops[graph] = DeriveLoops(graph) /\ exec.status # "absent"
    BY <1>2, Working
  <2>2. heads \subseteq {l.batch : l \in DeriveLoops(graph)}
    BY <2>1 DEF ReachableLoops
  <2>3. terms \subseteq Data!TermsOf(graph, rows)
    BY <2>2, PartOfTerms
  <2>4. \A l \in ReachableLoops(Loops[graph], Reachable[graph]) : \A k \in Data!TermsOf(graph, rows) :
          k[1] = l.batch => k \in terms
    BY LinkTerms DEF Data!TermsOf, LoadTerminalIterations
  <2> HIDE DEF terms
  <2>5. Expected(terms) # StillRunning
    BY <1>3, <2>1, <2>3, <2>4, DoneTold
  <2>6. QED BY <1>1, <2>5 DEF Ends, IdleOrch
<1>4. ~Fails(orch[w]) /\ (\A k : ~Queues(orch[w], k)) /\ \A r : ~Tells(orch[w], r) /\ \A k : ~Plans(orch[w], r, k)
  BY <1>2 DEF Fails, Queues, Tells, Plans
<1>5. QED BY <1>2, <1>3, <1>4, OrchHandsOn

LEMMA CountSettledHands ==
  ASSUME IInv, PlanInv, WorkHeld, NEW w \in OrchWorkers, CountSettled(w)
  PROVE  WorkHeld'
<1> DEFINE short == Cardinality(SettledKeys) < Expected(orch[w].terms)
<1>1. PICK o : o = IF short THEN IdleOrch ELSE [orch[w] EXCEPT !.pc = "outcome"]
  OBVIOUS
<1>2. /\ orch[w] \in OrchState /\ orch[w].pc = "count"
      /\ UNCHANGED <<graph, exec, caller, rows, orchQueue, stepQueue, runner>>
  BY DEF CountSettled, OrchAt, IInv, TypeOK
<1>3. orch' = [orch EXCEPT ![w] = o]
  BY <1>1 DEF CountSettled, OrchDone, OrchGoto
<1>4. ASSUME Data!Done(graph, rows) PROVE Ends(o)
  <2>1. exec.status # "absent"
    BY <1>2, Working
  <2>2. orch[w].terms \subseteq Data!TermsOf(graph, rows) /\ Expected(orch[w].terms) # StillRunning
    BY <1>2 DEF PlanInv, PlanOK
  <2>3. ~short
    BY <1>4, <2>1, <2>2, DoneTold
  <2> HIDE DEF short
  <2>4. QED BY <1>1, <1>2, <2>3 DEF Ends, OrchState
<1>5. ~Fails(orch[w]) /\ (\A k : ~Queues(orch[w], k)) /\ \A r : ~Tells(orch[w], r) /\ \A k : ~Plans(orch[w], r, k)
  BY <1>2 DEF Fails, Queues, Tells, Plans
<1>6. QED BY <1>2, <1>3, <1>4, <1>5, OrchHandsOn

LEMMA ReadOutcomeHands ==
  ASSUME IInv, PlanInv, WorkHeld, NEW w \in OrchWorkers, ReadOutcome(w)
  PROVE  WorkHeld'
<1>1. PICK o : o = [IdleOrch EXCEPT !.pc = "finish", !.outcome = IF AnyFailed THEN "failed" ELSE "completed"]
  OBVIOUS
<1>2. /\ orch[w].pc = "outcome" /\ orch' = [orch EXCEPT ![w] = o]
      /\ UNCHANGED <<graph, exec, caller, rows, orchQueue, stepQueue, runner>>
  BY <1>1 DEF ReadOutcome, OrchAt
<1>3. Ends(o)
  BY <1>1 DEF Ends, IdleOrch
<1>4. ~Fails(orch[w]) /\ (\A k : ~Queues(orch[w], k)) /\ \A r : ~Tells(orch[w], r) /\ \A k : ~Plans(orch[w], r, k)
  BY <1>2 DEF Fails, Queues, Tells, Plans
<1>5. QED BY <1>2, <1>3, <1>4, OrchHandsOn

\* Announcing the end leaves nothing to do.
LEMMA AnnounceEndHands ==
  ASSUME IInv, PlanInv, WorkHeld, NEW w \in OrchWorkers, AnnounceEnd(w)
  PROVE  WorkHeld'
<1>1. PICK o : o = IdleOrch
  OBVIOUS
<1>2. /\ orch[w].pc = "announceEnd" /\ orch' = [orch EXCEPT ![w] = o]
      /\ UNCHANGED <<graph, exec, caller, rows, orchQueue, stepQueue, runner>>
  BY <1>1 DEF AnnounceEnd, OrchAt, OrchDone
<1>3. /\ ~Fails(orch[w]) /\ ~Ends(orch[w]) /\ \A k : ~Queues(orch[w], k)
      /\ \A r : ~Tells(orch[w], r) /\ \A k : ~Plans(orch[w], r, k)
  BY <1>2 DEF Fails, Queues, Tells, Plans, Ends
<1>4. QED BY <1>2, <1>3, OrchHandsOn

\* As long as there is no row only the start has to be held.
LEMMA NoRowsHeld ==
  ASSUME StartHeld', DOMAIN rows' = {}
  PROVE  WorkHeld'
BY DEF WorkHeld, RunningHeld, QueuedHeld, FailureHeld, DecisionHeld, EndHeld, AnyFailed, SettledKeys, Data!Done

LEMMA PersistExecutionHands ==
  ASSUME IInv, PersistExecution
  PROVE  WorkHeld'
<1>1. DOMAIN rows' = {}
  BY DEF PersistExecution, IInv, Admission, Begun
<1>2. exec'.status = "queued" /\ caller' = "persisted"
  BY DEF PersistExecution
<1>3. StartHeld'
  BY <1>2 DEF StartHeld
<1>4. QED BY <1>1, <1>3, NoRowsHeld

LEMMA PublishEnqueuedHands ==
  ASSUME WorkHeld, PublishEnqueued
  PROVE  WorkHeld'
<1>1. /\ UNCHANGED <<graph, exec, rows, stepQueue, orch, runner>>
      /\ orchQueue' = orchQueue \cup {Enqueued}
  BY DEF PublishEnqueued
<1>2. StartHeld'
  BY <1>1 DEF WorkHeld, StartHeld
<1>3. RunningHeld' /\ QueuedHeld'
  BY <1>1 DEF WorkHeld, RunningHeld, QueuedHeld, AnyFailed, Unrecorded, Queues
<1>4. FailureHeld'
  BY <1>1 DEF WorkHeld, FailureHeld, AnyFailed, Fails
<1>5. DecisionHeld'
  <2>1. \A r : Unread(r) => Unread(r)'
    BY <1>1 DEF Unread, Tells, Announces
  <2>2. \A o, r, k : Plans(o, r, k) => Plans(o, r, k)'
    BY <1>1 DEF Plans
  <2>3. \A v \in OrchWorkers : \A r, k : Plans(orch[v], r, k) => Plans(orch[v], r, k)'
    BY <1>1 DEF Plans
  <2>4. \A s : DecidedBy(s)' = DecidedBy(s)
    BY <1>1 DEF DecidedBy
  <2>5. SettledKeys' = SettledKeys /\ (Underway' <=> Underway)
    BY <1>1 DEF SettledKeys, Underway, AnyFailed
  <2>6. QED BY <2>1, <2>3, <2>4, <2>5 DEF WorkHeld, DecisionHeld
<1>6. EndHeld'
  BY <1>1 DEF WorkHeld, EndHeld, Underway, AnyFailed, Ends
<1>7. QED BY <1>2, <1>3, <1>4, <1>5, <1>6 DEF WorkHeld

\* A second delivery of the start finds the execution taken.
LEMMA ClaimExecutionHands ==
  ASSUME IInv, PlanInv, WorkHeld, NEW w \in OrchWorkers, ClaimExecution(w)
  PROVE  WorkHeld'
<1>1. /\ orch[w].pc = "idle" /\ orchQueue' \in Consume(orchQueue, Enqueued)
      /\ UNCHANGED <<graph, caller, rows, stepQueue, runner>>
      /\ orch \in [OrchWorkers -> OrchState]
  BY DEF ClaimExecution, OrchAt, IInv, TypeOK
<1>2. CASE exec.status = "queued"
  <2>1. exec'.status = "running" /\ orch'[w].pc = "createTrigger"
    BY <1>1, <1>2 DEF ClaimExecution, OrchGoto, IInv, TypeOK, OrchState
  <2>2. DOMAIN rows' = {}
    BY <1>1, <1>2 DEF IInv, Admission, Begun
  <2>3. StartHeld'
    BY <2>1 DEF StartHeld
  <2>4. QED BY <2>2, <2>3, NoRowsHeld
<1>3. CASE exec.status # "queued"
  <2>1. PICK o : o = orch[w]
    OBVIOUS
  <2>2. orch' = [orch EXCEPT ![w] = o] /\ UNCHANGED exec
    BY <1>1, <1>3, <2>1 DEF ClaimExecution
  <2>3. \A m \in orchQueue : m # Enqueued => m \in orchQueue'
    BY <1>1 DEF Consume
  <2>4. \A r : Settled(r) # Enqueued
    BY DEF Settled, Enqueued
  <2>5. QED BY <1>1, <1>3, <2>1, <2>2, <2>3, <2>4, OrchHandsOn DEF Queues, Fails, Tells, Plans, Ends
<1>4. QED BY <1>2, <1>3

\* The trigger's row is announced next; if it was there before, the start has been made.
LEMMA CreateTriggerStepHands ==
  ASSUME IInv, PlanInv, WorkHeld, NEW w \in OrchWorkers, CreateTriggerStep(w), DataStep
  PROVE  WorkHeld'
<1> DEFINE key == <<TriggerOf(graph), 0>>
<1> DEFINE created == Creatable({key})
<1>1. PICK o : o = IF created = {} THEN IdleOrch ELSE [IdleOrch EXCEPT !.pc = "announceTrigger", !.key = key]
  OBVIOUS
<1>2. /\ orch[w].pc = "createTrigger" /\ orch \in [OrchWorkers -> OrchState]
      /\ orch' = [orch EXCEPT ![w] = o]
      /\ rows' = [k \in DOMAIN rows \cup created |-> IF k \in DOMAIN rows THEN rows[k]
                                                   ELSE NewRow("completed", exec.trigger)]
      /\ UNCHANGED <<graph, exec, caller, orchQueue, stepQueue, runner>>
  BY <1>1 DEF CreateTriggerStep, OrchAt, InsertRows, IInv, TypeOK
<1>3. Begun
  BY <1>2 DEF IInv, WorkersOK, OrchOK
<1>4. CASE DOMAIN rows # {}
  <2>1. key \in DOMAIN rows
    BY <1>4, LinkTrigger DEF PlanInv, Data!DataInv
  <2>2. created = {}
    BY <2>1 DEF Creatable
  <2>3. rows' = rows
    BY <1>2, <2>2 DEF IInv, TypeOK, RowsOK
  <2>4. o = IdleOrch
    BY <1>1, <2>2
  <2>5. /\ ~Fails(orch[w]) /\ ~Ends(orch[w]) /\ \A k : ~Queues(orch[w], k)
        /\ \A r : ~Tells(orch[w], r) /\ \A k : ~Plans(orch[w], r, k)
    BY <1>2 DEF Fails, Queues, Tells, Plans, Ends
  <2>6. QED BY <1>2, <1>4, <2>3, <2>4, <2>5, OrchHandsOn
<1>5. CASE DOMAIN rows = {}
  <2>1. created = {key}
    BY <1>5 DEF Creatable, AnyFailed
  <2>2. DOMAIN rows' = {key} /\ rows'[key] = NewRow("completed", exec.trigger)
    BY <1>2, <1>5, <2>1
  <2>3. o.pc = "announceTrigger" /\ o.key = key /\ orch'[w] = o
    BY <1>1, <1>2, <2>1 DEF IdleOrch
  <2>4. StartHeld'
    BY <1>2, <1>3, <2>2 DEF StartHeld, Begun
  <2> HIDE DEF key, created
  <2>5. RunningHeld' /\ QueuedHeld' /\ FailureHeld'
    BY <2>2 DEF RunningHeld, QueuedHeld, FailureHeld, AnyFailed, NewRow
  <2>6. DecisionHeld'
    <3>1. SettledKeys = {} /\ SettledKeys' \subseteq {o.key}
      BY <1>5, <2>2, <2>3 DEF SettledKeys
    <3>2. ASSUME NEW r \in SettledKeys' \ SettledKeys PROVE Unread(r)'
      <4>1. orch'[w].pc = "announceTrigger" /\ orch'[w].key = r
        BY <2>3, <3>1, <3>2
      <4>2. QED BY <4>1 DEF Unread, Tells
    <3>3. QED BY <3>1, <3>2, DecisionKept DEF WorkHeld
  <2>7. EndHeld'
    BY <2>3 DEF EndHeld, Ends
  <2>8. QED BY <2>4, <2>5, <2>6, <2>7 DEF WorkHeld
<1>6. QED BY <1>4, <1>5

\* A batch insert leaves the rows it creates to its own handler to announce.
LEMMA CreateStepsHands ==
  ASSUME IInv, PlanInv, WorkHeld, NEW w \in OrchWorkers, CreateSteps(w), DataStep
  PROVE  WorkHeld'
<1> DEFINE now == orch[w]
<1> DEFINE created == Creatable(now.toQueue \cup now.toSkip)
<1>1. PICK o : o = [now EXCEPT !.pc = IF created = {} THEN "finishTerminals" ELSE "announce",
                               !.toSkip = {}, !.created = created, !.queued = created \cap now.toQueue # {}]
  OBVIOUS
<1>2. /\ now.pc = "create" /\ now \in OrchState /\ orch \in [OrchWorkers -> OrchState]
      /\ rows' = [k \in DOMAIN rows \cup created |->
                    IF k \in DOMAIN rows THEN rows[k]
                    ELSE NewRow(IF k \in now.toQueue THEN "queued" ELSE "skipped", NoOutputs)]
      /\ UNCHANGED <<graph, exec, caller, orchQueue, stepQueue, runner>>
  BY DEF CreateSteps, OrchAt, InsertRows, IInv, TypeOK
<1>3. orch' = [orch EXCEPT ![w] = o]
  <2> HIDE DEF created
  <2>1. orch' = [orch EXCEPT ![w].pc = IF created = {} THEN "finishTerminals" ELSE "announce",
                             ![w].toSkip = {}, ![w].created = created,
                             ![w].queued = created \cap now.toQueue # {}]
    BY DEF CreateSteps, created
  <2>2. QED BY <1>1, <1>2, <2>1
<1> HIDE DEF created
<1>4. /\ o.pc = (IF created = {} THEN "finishTerminals" ELSE "announce") /\ o.created = created
      /\ o.toQueue = now.toQueue /\ o.queued = (created \cap now.toQueue # {})
  BY <1>1, <1>2 DEF OrchState
<1>5. /\ ~Fails(now) /\ \A k : ~Queues(now, k)
      /\ \A r : ~Tells(now, r) /\ \A k : Plans(now, r, k) => k \in now.toQueue \cup now.toSkip
  BY <1>2 DEF Fails, Queues, Tells, Plans
<1>6. ASSUME Underway, NEW k \in now.toQueue \cup now.toSkip, k \notin DOMAIN rows
      PROVE  k \in created
  BY <1>6 DEF created, Creatable, Underway
<1>7. ASSUME NEW r, NEW k \in DecidedBy(r) PROVE k \notin DOMAIN rows
  BY Data!PlanSplits, LinkAssumptions DEF DecidedBy, Data!DecidedBy
<1>8. Begun
  BY <1>2 DEF IInv, WorkersOK, OrchOK
<1>9. CASE created = {}
  <2>1. rows' = rows
    BY <1>2, <1>9 DEF IInv, TypeOK, RowsOK
  <2>2. Ends(o)
    BY <1>4, <1>9 DEF Ends
  <2>3. Underway => \A r : \A k \in DecidedBy(r) : ~Plans(now, r, k)
    BY <1>5, <1>6, <1>7, <1>9
  <2> HIDE DEF now
  <2>4. QED BY <1>2, <1>3, <1>5, <2>1, <2>2, <2>3, OrchHandsOn DEF now
<1>10. CASE created # {}
  <2>1. ~AnyFailed /\ created \cap DOMAIN rows = {} /\ created \subseteq now.toQueue \cup now.toSkip
    BY <1>10 DEF created, Creatable
  <2>2. /\ DOMAIN rows' = DOMAIN rows \cup created
        /\ \A k \in DOMAIN rows : rows'[k] = rows[k]
        /\ \A k \in created : rows'[k].status = IF k \in now.toQueue THEN "queued" ELSE "skipped"
    BY <1>2, <2>1 DEF NewRow
  <2>3. orch'[w] = o /\ (\A v \in OrchWorkers \ {w} : orch'[v] = orch[v]) /\ o.pc = "announce"
    BY <1>2, <1>3, <1>4, <1>10
  <2> HIDE DEF now
  <2>4. ~AnyFailed'
    BY <2>1, <2>2 DEF AnyFailed
  <2>5. StartHeld'
    BY <1>2, <1>8, <1>10, <2>2 DEF StartHeld, Begun
  <2>6. RunningHeld'
    <3>1. \A k \in DOMAIN rows' : rows'[k].status = "running" => k \in DOMAIN rows /\ rows[k].status = "running"
      BY <2>2
    <3>2. QED BY <1>2, <3>1 DEF WorkHeld, RunningHeld, Unrecorded
  <2>7. QueuedHeld'
    <3>1. SUFFICES ASSUME NEW k \in DOMAIN rows', rows'[k].status = "queued"
                   PROVE  k \in stepQueue \/ \E v \in OrchWorkers : Queues(orch'[v], k)
      BY <1>2 DEF QueuedHeld, Queues
    <3>2. CASE k \in created
      BY <1>4, <2>2, <2>3, <3>1, <3>2 DEF Queues
    <3>3. CASE k \notin created
      <4>1. k \in stepQueue \/ \E v \in OrchWorkers : Queues(orch[v], k)
        BY <2>1, <2>2, <3>1, <3>3 DEF WorkHeld, QueuedHeld
      <4>2. QED BY <1>5, <2>3, <4>1 DEF now
    <3>4. QED BY <3>2, <3>3
  <2>8. FailureHeld'
    BY <2>4 DEF FailureHeld
  <2>9. DecisionHeld'
    <3>1. ASSUME NEW r \in SettledKeys, NEW k \in DecidedBy(r), Underway, k \notin DOMAIN rows', Answers(r, k)
          PROVE  Answers(r, k)'
      <4>1. ~Tells(now, r) /\ ~Plans(now, r, k)
        BY <1>5, <1>6, <1>7, <2>2, <3>1
      <4>2. CASE Settled(r) \in orchQueue \/ \E v \in StepWorkers : Announces(runner[v], r)
        BY <1>2, <4>2 DEF Answers, Unread, Announces
      <4>3. ASSUME NEW v \in OrchWorkers \ {w}, Tells(orch[v], r) PROVE Answers(r, k)'
        BY <2>3, <4>3 DEF Answers, Unread, Tells
      <4>4. ASSUME NEW v \in OrchWorkers \ {w}, Plans(orch[v], r, k) PROVE Answers(r, k)'
        <5>1. PICK p : p = orch[v]
          OBVIOUS
        <5>2. Plans(p, r, k)'
          BY <4>4, <5>1, PlansKept
        <5>3. orch'[v] = p
          BY <2>3, <5>1
        <5>4. QED BY <5>2, <5>3 DEF Answers, Plans
      <4>5. QED BY <3>1, <4>1, <4>2, <4>3, <4>4 DEF Answers, Unread, now
    <3>2. ASSUME NEW r \in SettledKeys' \ SettledKeys PROVE Unread(r)'
      <4>1. r \in created \ now.toQueue
        BY <2>2, <3>2 DEF SettledKeys, IsSettled, SettledStatuses
      <4>2. Tells(o, r)
        BY <1>4, <2>3, <4>1 DEF Tells
      <4>3. QED BY <2>3, <4>2 DEF Unread, Tells
    <3>3. QED BY <3>1, <3>2, DecisionKept DEF WorkHeld
  <2>10. EndHeld'
    <3>1. SUFFICES ASSUME Data!Done(graph, rows)' PROVE Ends(o)
      BY <2>3 DEF EndHeld, Ends
    <3>2. \A k \in DOMAIN rows' : IsSettled(rows'[k])
      BY <3>1, LinkSettled DEF Data!Done
    <3>3. created \cap now.toQueue = {}
      BY <2>2, <3>2 DEF IsSettled, SettledStatuses
    <3>4. QED BY <1>4, <2>3, <3>3 DEF Ends
  <2>11. QED BY <2>5, <2>6, <2>7, <2>8, <2>9, <2>10 DEF WorkHeld
<1>11. QED BY <1>9, <1>10

\* Once the execution has ended only a failure and the steps still queued have to be held.
LEMMA EndedHeld ==
  ASSUME IInv, WorkHeld, NEW w \in OrchWorkers, NEW o, orch' = [orch EXCEPT ![w] = o],
         UNCHANGED <<graph, rows, orchQueue, stepQueue, runner>>, exec'.status \in {"completed", "failed"},
         exec.status = "failed" => exec'.status = "failed",
         Fails(orch[w]) => Fails(o), \A k : ~Queues(orch[w], k)
  PROVE  WorkHeld'
<1>1. orch \in [OrchWorkers -> OrchState]
  BY DEF IInv, TypeOK
<1>2. orch'[w] = o /\ \A v \in OrchWorkers \ {w} : orch'[v] = orch[v]
  BY <1>1
<1>3. StartHeld' /\ RunningHeld' /\ DecisionHeld' /\ EndHeld'
  BY DEF StartHeld, RunningHeld, DecisionHeld, EndHeld, Underway
<1>4. QueuedHeld'
  BY <1>2 DEF WorkHeld, QueuedHeld, AnyFailed, Queues
<1>5. FailureHeld'
  BY <1>2 DEF WorkHeld, FailureHeld, AnyFailed, Fails
<1>6. QED BY <1>3, <1>4, <1>5 DEF WorkHeld

LEMMA FinishHands ==
  ASSUME IInv, PlanInv, WorkHeld, NEW w \in OrchWorkers, Finish(w)
  PROVE  WorkHeld'
<1>1. /\ orch[w] \in OrchState /\ orch[w].pc = "finish" /\ Begun
      /\ orch[w].outcome \in {"completed", "failed"}
      /\ UNCHANGED <<graph, caller, rows, orchQueue, stepQueue, runner>>
  BY DEF Finish, OrchAt, IInv, TypeOK, WorkersOK, OrchOK, OrchState
<1>2. /\ ~Fails(orch[w]) /\ \A k : ~Queues(orch[w], k)
      /\ \A r : ~Tells(orch[w], r) /\ \A k : ~Plans(orch[w], r, k)
  BY <1>1 DEF Fails, Queues, Tells, Plans
<1>3. exec.status # "absent" /\ exec \in [status : ExecStatuses, trigger : Outputs]
  BY <1>1 DEF Begun, IInv, TypeOK
<1>4. CASE exec.status = "running"
  <2>1. exec'.status = orch[w].outcome
    BY <1>3, <1>4 DEF Finish, FinishExecution
  <2>2. PICK o : o = [orch[w] EXCEPT !.pc = "announceEnd"]
    OBVIOUS
  <2>3. orch' = [orch EXCEPT ![w] = o]
    BY <1>4, <2>2 DEF Finish, OrchGoto
  <2>4. QED BY <1>1, <1>2, <1>4, <2>1, <2>3, EndedHeld
<1>5. CASE exec.status # "running"
  <2>1. PICK o : o = IdleOrch
    OBVIOUS
  <2>2. orch' = [orch EXCEPT ![w] = o] /\ exec' = exec
    BY <1>5, <2>1 DEF Finish, FinishExecution, OrchDone
  <2>3. QED BY <1>1, <1>2, <1>5, <2>2, EndedHeld DEF Begun
<1>6. QED BY <1>4, <1>5

LEMMA FailExecutionHands ==
  ASSUME IInv, PlanInv, WorkHeld, NEW w \in OrchWorkers, FailExecution(w)
  PROVE  WorkHeld'
<1>1. PICK o : o = [IdleOrch EXCEPT !.pc = "sweep", !.outcome = IF exec.status = "running" THEN "failed" ELSE "none"]
  OBVIOUS
<1>2. /\ orch[w].pc = "fail" /\ Begun /\ orch' = [orch EXCEPT ![w] = o]
      /\ UNCHANGED <<graph, rows, orchQueue, stepQueue, runner>>
  BY <1>1 DEF FailExecution, OrchAt, IInv, WorkersOK, OrchOK
<1>3. /\ exec'.status \in {"completed", "failed"}
      /\ exec.status = "failed" => exec'.status = "failed"
  BY <1>2 DEF FailExecution, FinishExecution, Begun, IInv, TypeOK
<1>4. Fails(o) /\ \A k : ~Queues(orch[w], k)
  BY <1>1, <1>2 DEF Fails, Queues, IdleOrch
<1>5. QED BY <1>2, <1>3, <1>4, EndedHeld

\* The sweep leaves no step of a failed execution queued.
LEMMA SweepHands ==
  ASSUME IInv, PlanInv, WorkHeld, NEW w \in OrchWorkers, Sweep(w)
  PROVE  WorkHeld'
<1>1. exec'.status = "failed"
  BY DEF Sweep, OrchAt, PlanInv, PlanOK
<1>2. \A k \in DOMAIN rows' : rows'[k].status # "queued"
  BY DEF Sweep, CancelQueuedSteps, NewRow
<1>3. StartHeld' /\ RunningHeld' /\ DecisionHeld' /\ EndHeld'
  BY <1>1 DEF StartHeld, RunningHeld, DecisionHeld, EndHeld, Underway
<1>4. QueuedHeld' /\ FailureHeld'
  BY <1>1, <1>2 DEF QueuedHeld, FailureHeld
<1>5. QED BY <1>3, <1>4 DEF WorkHeld

\* A step worker that writes no row hands on the outcome it announces, and lets go of a step
\* it has not recorded only once the execution has ended.
LEMMA RunnerHandsOn ==
  ASSUME IInv, PlanInv, WorkHeld, NEW w \in StepWorkers, NEW r, runner' = [runner EXCEPT ![w] = r],
         UNCHANGED <<graph, exec, caller, rows, orch>>, orchQueue \subseteq orchQueue',
         \A k \in stepQueue : rows[k].status = "queued" /\ ~AnyFailed => k \in stepQueue',
         exec.status = "running" /\ Unrecorded(w) =>
           r.pc \in {"load", "run", "record"} /\ r.key = runner[w].key,
         runner[w].pc = "announce" => Settled(runner[w].key) \in orchQueue'
  PROVE  WorkHeld'
<1>1. runner \in [StepWorkers -> RunnerState]
  BY DEF IInv, TypeOK
<1>2. runner'[w] = r /\ \A v \in StepWorkers \ {w} : runner'[v] = runner[v]
  BY <1>1
<1>3. /\ Underway' <=> Underway
      /\ AnyFailed' <=> AnyFailed
      /\ SettledKeys' = SettledKeys
  BY DEF Underway, AnyFailed, SettledKeys
<1>4. StartHeld'
  BY DEF WorkHeld, StartHeld
<1>5. RunningHeld'
  <2>1. SUFFICES ASSUME exec.status = "running", NEW k \in DOMAIN rows, rows[k].status = "running"
                 PROVE  \E v \in StepWorkers : runner'[v].key = k /\ runner'[v].pc \in {"load", "run", "record"}
    BY DEF RunningHeld, Unrecorded
  <2>2. PICK v \in StepWorkers : runner[v].key = k /\ Unrecorded(v)
    BY <2>1 DEF WorkHeld, RunningHeld
  <2>3. QED BY <1>2, <2>1, <2>2 DEF Unrecorded
<1>6. QueuedHeld'
  BY <1>3 DEF WorkHeld, QueuedHeld, Queues
<1>7. FailureHeld'
  <2>1. SUFFICES ASSUME AnyFailed PROVE FailureHeld'
    BY <1>3 DEF FailureHeld
  <2>2. ASSUME runner[w].pc = "announce", ~runner[w].run.ok
        PROVE  \E m \in orchQueue' \ {Enqueued} : rows[m.key].status = "failed"
    <3>1. rows[runner[w].key].status = "failed"
      BY <2>2 DEF IInv, WorkersOK, RunnerOK
    <3>2. Settled(runner[w].key) # Enqueued /\ Settled(runner[w].key).key = runner[w].key
      BY DEF Settled, Enqueued
    <3>3. QED BY <2>2, <3>1, <3>2
  <2>3. QED BY <1>2, <1>3, <2>1, <2>2 DEF WorkHeld, FailureHeld, Fails
<1>8. DecisionHeld'
  <2>1. DataStep
    BY DEF DataStep
  <2>2. ASSUME NEW s \in SettledKeys, NEW k \in DecidedBy(s), Answers(s, k)
        PROVE  Answers(s, k)'
    <3>1. ASSUME NEW v \in StepWorkers, Announces(runner[v], s)
          PROVE  Settled(s) \in orchQueue' \/ Announces(runner'[v], s)
      BY <1>2, <3>1 DEF Announces
    <3>2. ASSUME NEW v \in OrchWorkers, Plans(orch[v], s, k) PROVE Plans(orch[v], s, k)'
      BY <3>2 DEF Plans
    <3>3. ASSUME NEW v \in OrchWorkers, Tells(orch[v], s) PROVE Tells(orch[v], s)'
      BY <3>3 DEF Tells
    <3>4. QED BY <2>2, <3>1, <3>2, <3>3 DEF Answers, Unread, Announces
  <2>3. QED BY <1>3, <2>1, <2>2, DecisionKept DEF WorkHeld
<1>9. EndHeld'
  <2>1. SUFFICES ASSUME Underway, Data!Done(graph, rows) PROVE EndHeld'
    BY <1>3 DEF EndHeld
  <2>2. Settled(runner[w].key) # Enqueued
    BY DEF Settled, Enqueued
  <2>3. QED BY <1>2, <2>1, <2>2 DEF WorkHeld, EndHeld, Ends
<1>10. QED BY <1>4, <1>5, <1>6, <1>7, <1>8, <1>9 DEF WorkHeld

\* A step worker that writes a row holds that row, running or just settled.
LEMMA RowWritten ==
  ASSUME IInv, PlanInv, WorkHeld, DataStep, NEW w \in StepWorkers, NEW r, runner' = [runner EXCEPT ![w] = r],
         NEW k \in DOMAIN rows, r.key = k, NEW row, rows' = [rows EXCEPT ![k] = row],
         ~IsSettled(rows[k]), row.status # "queued", runner[w].pc # "announce",
         Unrecorded(w) => runner[w].key = k,
         row.status = "running" => r.pc \in {"load", "run", "record"},
         IsSettled(row) <=> r.pc = "announce", row.status = "failed" => ~r.run.ok,
         UNCHANGED <<graph, exec, caller, orchQueue, orch>>,
         \A j \in stepQueue : j # k => j \in stepQueue'
  PROVE  WorkHeld'
<1>1. runner \in [StepWorkers -> RunnerState] /\ rows = [j \in DOMAIN rows |-> rows[j]]
  BY DEF IInv, TypeOK, RowsOK
<1>2. runner'[w] = r /\ \A v \in StepWorkers \ {w} : runner'[v] = runner[v]
  BY <1>1
<1>3. DOMAIN rows' = DOMAIN rows /\ rows'[k] = row /\ \A j \in DOMAIN rows : j # k => rows'[j] = rows[j]
  BY <1>1
<1>4. AnyFailed => AnyFailed'
  BY StepKeeps, FailureKept
<1>5. StartHeld'
  BY <1>3 DEF WorkHeld, StartHeld
<1>6. RunningHeld'
  <2>1. SUFFICES ASSUME exec.status = "running", NEW j \in DOMAIN rows, rows'[j].status = "running"
                 PROVE  \E v \in StepWorkers : runner'[v].key = j /\ runner'[v].pc \in {"load", "run", "record"}
    BY <1>3 DEF RunningHeld, Unrecorded
  <2>2. CASE j = k
    BY <1>2, <1>3, <2>1, <2>2
  <2>3. CASE j # k
    <3>1. PICK v \in StepWorkers : runner[v].key = j /\ Unrecorded(v)
      BY <1>3, <2>1, <2>3 DEF WorkHeld, RunningHeld
    <3>2. QED BY <1>2, <2>3, <3>1 DEF Unrecorded
  <2>4. QED BY <2>2, <2>3
<1>7. QueuedHeld'
  BY <1>3, <1>4 DEF WorkHeld, QueuedHeld, Queues
<1>8. FailureHeld'
  <2>1. CASE row.status = "failed"
    <3>1. r.pc = "announce" /\ ~r.run.ok
      BY <2>1 DEF IsSettled, SettledStatuses
    <3>2. QED BY <1>2, <3>1 DEF FailureHeld
  <2>2. CASE row.status # "failed"
    <3>1. AnyFailed' => AnyFailed
      BY <1>3, <2>2 DEF AnyFailed
    <3>2. \A m \in orchQueue \ {Enqueued} : m.key \in DOMAIN rows /\ m.key # k
      BY DEF IInv, MessagesNameRows, SettledKeys
    <3>3. QED BY <1>2, <1>3, <3>1, <3>2 DEF WorkHeld, FailureHeld, Fails
  <2>3. QED BY <2>1, <2>2
<1>9. DecisionHeld'
  <2>1. ASSUME NEW s \in SettledKeys, NEW d \in DecidedBy(s), Answers(s, d)
        PROVE  Answers(s, d)'
    <3>1. ASSUME NEW v \in StepWorkers, Announces(runner[v], s) PROVE Announces(runner[v], s)'
      BY <1>2, <3>1 DEF Announces
    <3>2. ASSUME NEW v \in OrchWorkers, Plans(orch[v], s, d) PROVE Plans(orch[v], s, d)'
      <4>1. PICK p : p = orch[v]
        OBVIOUS
      <4>2. Plans(p, s, d)'
        BY <3>2, <4>1, PlansKept
      <4>3. orch'[v] = p
        BY <4>1
      <4>4. QED BY <4>2, <4>3 DEF Plans
    <3>3. ASSUME NEW v \in OrchWorkers, Tells(orch[v], s) PROVE Tells(orch[v], s)'
      BY <3>3 DEF Tells
    <3>4. QED BY <2>1, <3>1, <3>2, <3>3 DEF Answers, Unread
  <2>2. ASSUME NEW s \in SettledKeys' \ SettledKeys PROVE Unread(s)'
    <3>1. s = k /\ IsSettled(row)
      BY <1>3, <2>2 DEF SettledKeys
    <3>2. QED BY <1>2, <3>1 DEF Unread, Announces
  <2>3. QED BY <2>1, <2>2, DecisionKept DEF WorkHeld
<1>10. EndHeld'
  <2>1. CASE r.pc = "announce"
    BY <1>2, <2>1 DEF EndHeld
  <2>2. CASE r.pc # "announce"
    <3>1. ~Data!Done(graph, rows)'
      BY <1>3, <2>2, LinkSettled DEF Data!Done
    <3>2. QED BY <3>1 DEF EndHeld
  <2>3. QED BY <2>1, <2>2
<1>11. QED BY <1>5, <1>6, <1>7, <1>8, <1>9, <1>10 DEF WorkHeld

LEMMA ClaimStepHands ==
  ASSUME IInv, PlanInv, WorkHeld, NEW w \in StepWorkers, ClaimStep(w), DataStep
  PROVE  WorkHeld'
<1>1. PICK k \in stepQueue :
        /\ stepQueue' \in Consume(stepQueue, k)
        /\ \/ /\ rows[k].status = "queued" /\ ~AnyFailed
              /\ SetStatus(k, "running", NoOutputs)
              /\ runner' = [runner EXCEPT ![w] = [IdleRunner EXCEPT !.pc = "load", !.key = k]]
           \/ /\ rows[k].status # "queued" \/ AnyFailed
              /\ UNCHANGED <<rows, runner>>
  BY DEF ClaimStep
<1>2. /\ runner[w].pc = "idle" /\ UNCHANGED <<graph, exec, caller, orchQueue, orch>>
      /\ \A j \in stepQueue : j # k => j \in stepQueue'
      /\ runner \in [StepWorkers -> RunnerState]
  BY <1>1 DEF ClaimStep, RunnerAt, Consume, IInv, TypeOK
<1>3. CASE /\ rows[k].status = "queued" /\ SetStatus(k, "running", NoOutputs)
           /\ runner' = [runner EXCEPT ![w] = [IdleRunner EXCEPT !.pc = "load", !.key = k]]
  <2>1. PICK r, row : /\ r = [IdleRunner EXCEPT !.pc = "load", !.key = k]
                      /\ row = NewRow("running", NoOutputs)
    OBVIOUS
  <2>2. r.pc = "load" /\ r.key = k /\ row.status = "running" /\ ~IsSettled(row)
    BY <2>1 DEF IdleRunner, NewRow, IsSettled, SettledStatuses
  <2>3. k \in DOMAIN rows /\ ~IsSettled(rows[k])
    BY <1>3 DEF IInv, MessagesNameRows, IsSettled, SettledStatuses
  <2>4. rows' = [rows EXCEPT ![k] = row] /\ runner' = [runner EXCEPT ![w] = r]
    BY <1>3, <2>1 DEF SetStatus
  <2>5. QED BY <1>2, <2>2, <2>3, <2>4, RowWritten DEF Unrecorded
<1>4. CASE (rows[k].status # "queued" \/ AnyFailed) /\ UNCHANGED <<rows, runner>>
  <2>1. PICK r : r = runner[w]
    OBVIOUS
  <2>2. runner' = [runner EXCEPT ![w] = r]
    BY <1>2, <1>4, <2>1
  <2>3. QED BY <1>2, <1>4, <2>2, RunnerHandsOn DEF Unrecorded
<1>5. QED BY <1>1, <1>3, <1>4

\* A step that was claimed is not the trigger, so it has its executor.
LEMMA LoadExecutionHands ==
  ASSUME AllHaveExecutors, IInv, PlanInv, WorkHeld, NEW w \in StepWorkers, LoadExecution(w)
  PROVE  WorkHeld'
<1> DEFINE k == runner[w].key
<1>1. /\ runner[w].pc = "load" /\ runner \in [StepWorkers -> RunnerState]
      /\ UNCHANGED <<graph, exec, caller, rows, orchQueue, stepQueue, orch>>
  BY DEF LoadExecution, RunnerAt, IInv, TypeOK
<1>2. k \in DOMAIN rows /\ rows[k].status = "running"
  BY <1>1 DEF IInv, WorkersOK, RunnerOK, OneRunner, Unrecorded
<1>3. HasExecutor(graph, k[1])
  <2>1. ~Data!IsSettled(rows[k])
    BY <1>2 DEF Data!IsSettled, Data!SettledStatuses
  <2>2. Data!Executable(graph) /\ k[1] # Data!TriggerOf(graph) /\ k \in Data!NodesOf(graph) \X Nat
    BY <1>2, <2>1, Data!UnsettledStep, LinkAssumptions DEF PlanInv
  <2>3. graph.kind[k[1]] # "trigger"
    BY <2>2, Data!TriggerFacts, LinkAssumptions
  <2>4. graph \in Graphs /\ k[1] \in NodesOf(graph)
    BY <2>2, LinkNodes DEF IInv, TypeOK
  <2>5. QED BY <2>3, <2>4 DEF AllHaveExecutors
<1>4. CASE runner' = [runner EXCEPT ![w].pc = "run"]
  <2>1. PICK r : r = [runner[w] EXCEPT !.pc = "run"]
    OBVIOUS
  <2>2. runner' = [runner EXCEPT ![w] = r] /\ r.pc = "run" /\ r.key = runner[w].key
    BY <1>1, <1>4, <2>1 DEF RunnerState
  <2>3. QED BY <1>1, <2>2, RunnerHandsOn
<1>5. CASE exec.status # "running" /\ RunnerDone(w)
  <2>1. PICK r : r = IdleRunner
    OBVIOUS
  <2>2. runner' = [runner EXCEPT ![w] = r]
    BY <1>5, <2>1 DEF RunnerDone
  <2>3. QED BY <1>1, <1>5, <2>2, RunnerHandsOn
<1>6. QED BY <1>3, <1>4, <1>5 DEF LoadExecution

\* A running step can read its inputs, so it is run.
LEMMA RunStepHands ==
  ASSUME IInv, PlanInv, WorkHeld, NEW w \in StepWorkers, RunStep(w)
  PROVE  WorkHeld'
<1> DEFINE k == runner[w].key
<1>1. /\ runner[w].pc = "run" /\ runner[w] \in RunnerState /\ runner \in [StepWorkers -> RunnerState]
      /\ UNCHANGED <<graph, exec, caller, rows, orchQueue, stepQueue, orch>>
  BY DEF RunStep, RunnerAt, IInv, TypeOK
<1>2. k \in DOMAIN rows /\ rows[k].status = "running"
  BY <1>1 DEF IInv, WorkersOK, RunnerOK, OneRunner, Unrecorded
<1>3. InputsReadable(graph, Loops[graph], rows, k)
  <2>1. Data!InputsReadable(graph, Data!loops, rows, k)
    BY <1>2, Data!RunningStepsRead, LinkAssumptions DEF PlanInv, Data!RunningStepsCanRead
  <2>2. exec.status # "absent"
    BY <1>2 DEF IInv, Admission, Begun
  <2>3. Loops[graph] = Data!DeriveLoops(graph) /\ Data!loops = Data!DeriveLoops(graph)
    BY <2>2, Admitted, Data!Links, LinkAssumptions DEF PlanInv
  <2>4. QED BY <2>1, <2>3, LinkReadable
<1>4. PICK run : runner' = [runner EXCEPT ![w].pc = "record", ![w].run = run]
  BY <1>3 DEF RunStep
<1>5. PICK r : r = [runner[w] EXCEPT !.pc = "record", !.run = run]
  OBVIOUS
<1>6. runner' = [runner EXCEPT ![w] = r] /\ r.pc = "record" /\ r.key = runner[w].key
  BY <1>1, <1>4, <1>5 DEF RunnerState
<1>7. QED BY <1>1, <1>6, RunnerHandsOn

\* The row a worker records is still running, so its outcome is its own to announce.
LEMMA RecordStepHands ==
  ASSUME IInv, PlanInv, WorkHeld, NEW w \in StepWorkers, RecordStep(w), DataStep
  PROVE  WorkHeld'
<1>1. PICK k, run : k = runner[w].key /\ run = runner[w].run
  OBVIOUS
<1>2. /\ runner[w].pc = "record" /\ runner[w] \in RunnerState /\ runner \in [StepWorkers -> RunnerState]
      /\ UNCHANGED <<graph, exec, caller, orchQueue, stepQueue, orch>>
  BY DEF RecordStep, RunnerAt, IInv, TypeOK
<1>3. k \in DOMAIN rows /\ rows[k].status = "running"
  BY <1>1, <1>2 DEF IInv, WorkersOK, RunnerOK, OneRunner, Unrecorded
<1>4. PICK r, row : /\ r = [runner[w] EXCEPT !.pc = "announce"]
                    /\ row = NewRow(IF run.ok THEN "completed" ELSE "failed", run.outputs)
  OBVIOUS
<1>5. rows' = [rows EXCEPT ![k] = row] /\ runner' = [runner EXCEPT ![w] = r]
  BY <1>1, <1>2, <1>3, <1>4 DEF RecordStep, SetStatus
<1>6. r.pc = "announce" /\ r.key = k /\ r.run = run
  BY <1>1, <1>2, <1>4 DEF RunnerState
<1>7. /\ row.status \in {"completed", "failed"} /\ IsSettled(row) /\ ~IsSettled(rows[k])
      /\ row.status = "failed" => ~run.ok
  BY <1>3, <1>4 DEF NewRow, IsSettled, SettledStatuses
<1>8. QED BY <1>1, <1>2, <1>3, <1>5, <1>6, <1>7, RowWritten

\* The outcome goes into its message.
LEMMA AnnounceStepHands ==
  ASSUME IInv, PlanInv, WorkHeld, NEW w \in StepWorkers, AnnounceStep(w)
  PROVE  WorkHeld'
<1>1. /\ runner[w].pc = "announce" /\ orchQueue' = orchQueue \cup {Settled(runner[w].key)}
      /\ UNCHANGED <<graph, exec, caller, rows, stepQueue, orch>>
  BY DEF AnnounceStep, RunnerAt
<1>2. PICK r : r = IdleRunner
  OBVIOUS
<1>3. runner' = [runner EXCEPT ![w] = r]
  BY <1>2 DEF AnnounceStep, RunnerDone
<1>4. QED BY <1>1, <1>3, RunnerHandsOn DEF Unrecorded

\* Every step keeps the work that is left in somebody's hands.
LEMMA NextHeld ==
  ASSUME StepsMayFail, AllHaveExecutors, IInv, PlanInv, WorkHeld, [Next]_vars
  PROVE  WorkHeld'
<1>1. DataStep
  BY NextMaps
<1>2. ASSUME UNCHANGED vars PROVE WorkHeld'
  <2>1. SettledKeys' = SettledKeys /\ (Underway' <=> Underway) /\ (AnyFailed' <=> AnyFailed)
    BY <1>2 DEF vars, SettledKeys, Underway, AnyFailed
  <2>2. StartHeld' /\ RunningHeld' /\ QueuedHeld' /\ FailureHeld' /\ EndHeld'
    BY <1>2, <2>1 DEF vars, WorkHeld, StartHeld, RunningHeld, QueuedHeld, FailureHeld, EndHeld, Unrecorded,
       Queues, Fails, Ends
  <2>3. ASSUME NEW r \in SettledKeys, NEW k \in DecidedBy(r), Answers(r, k) PROVE Answers(r, k)'
    BY <1>2, <2>3 DEF vars, Answers, Unread, Tells, Announces, Plans
  <2>4. DecisionHeld'
    BY <1>1, <2>1, <2>3, DecisionKept DEF WorkHeld
  <2>5. QED BY <2>2, <2>4 DEF WorkHeld
<1>3. ASSUME PersistExecution \/ PublishEnqueued PROVE WorkHeld'
  BY <1>3, PersistExecutionHands, PublishEnqueuedHands
<1>4. ASSUME NEW w \in OrchWorkers, StartHandler(w) PROVE WorkHeld'
  BY <1>1, <1>4, ClaimExecutionHands, CreateTriggerStepHands, AnnounceTriggerHands DEF StartHandler
<1>5. ASSUME NEW w \in OrchWorkers, SettledHandler(w) PROVE WorkHeld'
  BY <1>1, <1>5, LoadSettledHands, CheckFailedHands, PlanTerminalsHands, PlanHands, CreateStepsHands,
     AnnounceCreatedHands, FinishTerminalsHands, CountSettledHands, ReadOutcomeHands, FinishHands,
     AnnounceEndHands, FailExecutionHands, SweepHands DEF SettledHandler
<1>6. ASSUME NEW w \in StepWorkers, ReadyHandler(w) PROVE WorkHeld'
  BY <1>1, <1>6, ClaimStepHands, LoadExecutionHands, RunStepHands, RecordStepHands, AnnounceStepHands
     DEF ReadyHandler
<1>7. ASSUME Next PROVE PersistExecution \/ PublishEnqueued
                        \/ (\E w \in OrchWorkers : StartHandler(w) \/ SettledHandler(w))
                        \/ \E w \in StepWorkers : ReadyHandler(w)
  BY <1>7 DEF Next, StepsMayFail, OrchThrows, RunnerThrows, Crash
<1>8. QED BY <1>2, <1>3, <1>4, <1>5, <1>6, <1>7

\* Whatever the interleaving and the redeliveries, no work is lost between the handlers:
\* where no store call throws and nothing crashes, and every step has an executor, nothing
\* is in flight only once the execution has ended and no step of it still waits (claimStep,
\* createSteps, announceCreatedSteps, finishExecutionIfDone, failExecution).
THEOREM NoWorkEverLost ==
  ASSUME StepsMayFail, AllHaveExecutors
  PROVE  Spec => []NoWorkLost
<1>1. Init => PlanInv /\ WorkHeld
  BY InitPlanInv, InitHeld
<1>2. IInv /\ PlanInv /\ [Next]_vars => PlanInv'
  BY NextPlanInv
<1>3. IInv /\ PlanInv /\ WorkHeld /\ [Next]_vars => WorkHeld'
  BY NextHeld
<1>4. IInv /\ PlanInv /\ WorkHeld => NoWorkLost
  BY HeldNotLost
<1>5. QED BY <1>1, <1>2, <1>3, <1>4, Invariance, PTL DEF Spec
=============================================================================
