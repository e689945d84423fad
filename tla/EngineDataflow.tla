--------------------------- MODULE EngineDataflow ---------------------------
(***************************************************************************)
(* What the execution engine promises about one execution, without queues, *)
(* workers or partial reads: every step's fate is decided from the whole   *)
(* table of step rows as it stands, and the execution ends once nothing is *)
(* left to decide or to run.  EngineExecution implements it.               *)
(***************************************************************************)
EXTENDS EngineSettlement

CONSTANTS
  Graphs,             \* the graphs a caller may ask to run
  TriggerPayloads,    \* the trigger outputs a caller may supply
  ExecutorOutputs,    \* the outputs an executor may return
  Faults              \* "fail" when an executor may fail a step, "throw" when the store may

ASSUME DataflowAssumption ==
  /\ \A g \in Graphs : IsGraph(g)
  /\ TriggerPayloads \subseteq [OutputSlots -> Values]
  /\ ExecutorOutputs \subseteq [OutputSlots -> Values]
  /\ Faults \subseteq {"fail", "throw", "crash"}

VARIABLES graph, exec, rows

dataVars == <<graph, exec, rows>>

Loops == [g \in Graphs |-> DeriveLoops(g)]

loops == Loops[graph]

NewRow(status, outputs) == [status |-> status, outputs |-> outputs]

AnyFailed == \E k \in DOMAIN rows : rows[k].status = "failed"

AllSettled == \A k \in DOMAIN rows : IsSettled(rows[k])

\* The last pass of every loop that ended.
Terminals == LoadTerminalIterations(rows, {l.batch : l \in loops})

\* What the settlement of s decides, read from the whole table.
PlanOf(s) == DecideSuccessors(graph, loops, s, rows, Terminals)

NothingDecidable ==
  \A s \in DOMAIN rows :
    IsSettled(rows[s]) => LET plan == PlanOf(s) IN plan.toQueue \cup plan.toSkip = {}

Init ==
  /\ graph \in Graphs
  /\ exec = [status |-> "absent", trigger |-> NoOutputs]
  /\ rows = [k \in {} |-> NewRow("queued", NoOutputs)]

-----------------------------------------------------------------------------
Admit ==
  /\ exec.status = "absent"
  /\ ValidateExecutableGraph(graph)
  /\ \E payload \in TriggerPayloads :
       exec' = [status |-> "queued", trigger |-> payload]
  /\ UNCHANGED <<graph, rows>>

Begin ==
  /\ exec.status = "queued"
  /\ exec' = [exec EXCEPT !.status = "running"]
  /\ UNCHANGED <<graph, rows>>

RecordTrigger ==
  /\ exec.status = "running"
  /\ DOMAIN rows = {}
  /\ rows' = [k \in {<<TriggerOf(graph), 0>>} |-> NewRow("completed", exec.trigger)]
  /\ UNCHANGED <<graph, exec>>

\* Some of what a settled step decides: queued steps and skipped ones.
Decide ==
  /\ exec.status = "running"
  /\ ~AnyFailed
  /\ \E s \in DOMAIN rows :
       /\ IsSettled(rows[s])
       /\ LET plan == PlanOf(s)
              fate(k) == IF k \in plan.toQueue THEN "queued" ELSE "skipped"
          IN  \E decided \in (SUBSET (plan.toQueue \cup plan.toSkip)) \ {{}} :
                rows' = [k \in DOMAIN rows \cup decided |->
                           IF k \in DOMAIN rows THEN rows[k] ELSE NewRow(fate(k), NoOutputs)]
  /\ UNCHANGED <<graph, exec>>

\* No step starts once one has failed.
BeginStep ==
  /\ exec.status = "running"
  /\ ~AnyFailed
  /\ \E k \in DOMAIN rows :
       /\ rows[k].status = "queued"
       /\ rows' = [rows EXCEPT ![k] = NewRow("running", NoOutputs)]
  /\ UNCHANGED <<graph, exec>>

ExecutorRuns ==
  {Succeeded(o) : o \in ExecutorOutputs} \cup (IF "fail" \in Faults THEN {Failed} ELSE {})

\* A batch step reads its loop inside the handler's try, so an error of the store
\* there fails the step.
BatchErrors == IF "throw" \in Faults THEN {Failed} ELSE {}

SettleStep ==
  /\ \E k \in DOMAIN rows :
       /\ rows[k].status = "running"
       /\ InputsReadable(graph, loops, rows, k)
       /\ \E run \in StepRuns(graph, loops, rows, k, ExecutorRuns, BatchErrors) :
            rows' = [rows EXCEPT ![k] =
                       NewRow(IF run.ok THEN "completed" ELSE "failed", run.outputs)]
  /\ UNCHANGED <<graph, exec>>

\* It completes once all its steps settled and there is nothing to decide.
Complete ==
  /\ exec.status = "running"
  /\ DOMAIN rows # {}
  /\ AllSettled /\ ~AnyFailed /\ NothingDecidable
  /\ exec' = [exec EXCEPT !.status = "completed"]
  /\ UNCHANGED <<graph, rows>>

Fail ==
  /\ exec.status = "running"
  /\ AnyFailed
  /\ exec' = [exec EXCEPT !.status = "failed"]
  /\ UNCHANGED <<graph, rows>>

\* A failed execution gives up what it has not started.
CancelQueued ==
  /\ exec.status = "failed"
  /\ rows' = [k \in DOMAIN rows |->
                IF rows[k].status = "queued" THEN NewRow("cancelled", NoOutputs) ELSE rows[k]]
  /\ UNCHANGED <<graph, exec>>

Progress ==
  \/ Begin \/ RecordTrigger \/ Fail \/ BeginStep \/ SettleStep \/ Decide \/ Complete

Next == Admit \/ Progress \/ CancelQueued

Spec == Init /\ [][Next]_dataVars

\* An execution goes on as long as it can; a caller owes nothing.
FairSpec == Spec /\ WF_dataVars(Progress)

-----------------------------------------------------------------------------
(***************************************************************************)
(* Properties of the table of step rows.                                   *)
(***************************************************************************)
Reachable == ReachableNodes(graph)

\* A fate stays right: whatever settles later, each step that was queued still
\* has all its sources settled and a live one among them, and each step that was
\* skipped has none (settlement.ts: "any planner, at any time, recomputes the
\* same decisions").
FatesJustified ==
  \A k \in DOMAIN rows :
    k[1] # TriggerOf(graph) =>
      LET reads == StepReads(graph, loops, rows, k)
          live == {s \in reads : IsLive(rows[s.src.key], s.edge)}
      IN  /\ reads # {}
          /\ \A s \in reads : ~SourceUnsettled(s, rows)
          /\ IF rows[k].status = "skipped" THEN live = {} ELSE live # {}

\* Passes are strictly sequential: a batch node's pass i + 1 exists only after
\* every step of pass i settled, and a body step only for a pass that handed out
\* items (loop-ledger.ts, "pass i + 1 is planned only once pass i has settled").
PassesInOrder ==
  \A l \in loops : \A k \in DOMAIN rows :
    /\ k[1] = l.batch /\ k[2] > 0 =>
         \A m \in l.members :
           /\ <<m, k[2] - 1>> \in DOMAIN rows
           /\ IsSettled(rows[<<m, k[2] - 1>>])
    /\ k[1] \in l.members \ {l.batch} =>
         /\ <<l.batch, k[2]>> \in DOMAIN rows
         /\ Filled(rows[<<l.batch, k[2]>>], LoopSlot)

\* A loop that ended by running out, rather than by a pass its body returned
\* nothing to, handed every item of its list to the body exactly once, a batch
\* at a time (batch-step.ts).
EveryItemHandedOut ==
  \A l \in loops : \A k \in DOMAIN rows :
    k[1] = l.batch /\ rows[k].status = "completed" /\ IsTerminalStep(rows[k]) =>
      LET handed == [i \in 0..(k[2] - 1) |-> rows[<<l.batch, i>>].outputs[LoopSlot]]
      IN  /\ Cardinality(Items(handed)) = AsList(ReadOriginalItems(graph, loops, rows, l))
          /\ \A i \in DOMAIN handed : handed[i] \in 1..graph.batch[l.batch]

\* The completion count is exact: with every step settled and none failed, the
\* number of settled rows reaches what is owed just when no settled step has a
\* successor left to decide (step-settled-handler.ts: "the count comparison
\* cannot pass early").
CountIsExact ==
  exec.status = "running" /\ DOMAIN rows # {} /\ AllSettled /\ ~AnyFailed =>
    LET owed == CountExpectedSettledSteps(loops, Reachable, Terminals)
    IN  NothingDecidable <=> owed # StillRunning /\ Cardinality(DOMAIN rows) >= owed

\* A completed execution has run or skipped every node the trigger reaches, and
\* no step of it failed or was cancelled.
CompletedIsComplete ==
  exec.status = "completed" =>
    /\ \A k \in DOMAIN rows : rows[k].status \in {"completed", "skipped"}
    /\ \A n \in Reachable : LoopsWith(loops, n) = {} => <<n, 0>> \in DOMAIN rows
    /\ \A l \in loops : l.batch \in Reachable =>
         \E k \in Terminals : k[1] = l.batch

\* A step that runs finds everything it reads: one settled source per input slot
\* (step-ready-handler.ts, gatherInputs: otherwise it throws and the step stays
\* "running" for good).
RunningStepsCanRead ==
  \A k \in DOMAIN rows :
    rows[k].status = "running" => InputsReadable(graph, loops, rows, k)

\* Every execution the engine admits ends, whatever the shape of its graph
\* (validate-executable-graph.ts rejects "graphs that can never run").
AdmittedExecutionsEnd ==
  exec.status = "queued" ~> exec.status \in {"completed", "failed"}
=============================================================================
