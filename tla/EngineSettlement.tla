-------------------------- MODULE EngineSettlement --------------------------
(***************************************************************************)
(* The engine's planning rules, as pure operators over a graph, its loops  *)
(* and a set of step rows (packages/@n8n/engine/src/execution: settlement, *)
(* iteration-mapping, loop-ledger, completion and batch-step).             *)
(*                                                                         *)
(* A step key is <<node, iteration>>.  A table of rows is a function from  *)
(* the keys that have a row to records [status, outputs]; outputs gives    *)
(* each output slot a value.  A value is NoData (JSON null, or a slot the  *)
(* row does not list), NotAList, or the number of items of a list.         *)
(***************************************************************************)
EXTENDS EngineGraph, FiniteSetsExt

CONSTANT OutputSlots            \* the output slot indices the graphs use

ASSUME OutputSlotsAssumption == OutputSlots \subseteq Nat /\ {0, 1} \subseteq OutputSlots

\* A graph as it is sent: two finite lists, the slots and sizes as the schema has them.
IsGraph(g) ==
  /\ g = [kind |-> g.kind, batch |-> g.batch, edges |-> g.edges]
  /\ IsFiniteSet(NodesOf(g)) /\ IsFiniteSet(g.edges)
  /\ g.kind \in [NodesOf(g) -> NodeKinds]
  /\ g.batch \in [NodesOf(g) -> Nat]
  /\ \A e \in g.edges : e.out \in OutputSlots /\ e.in \in Nat /\ e.back \in BOOLEAN

NoData   == -1
NotAList == -2
Values   == {NoData, NotAList} \cup Nat

StepStatuses    == {"queued", "running", "completed", "failed", "skipped", "cancelled"}
SettledStatuses == {"completed", "failed", "skipped", "cancelled"}

IsSettled(row) == row.status \in SettledStatuses

NoOutputs == [s \in OutputSlots |-> NoData]

\* Whether an output slot counts as filled.  Only a completed row has outputs.
Filled(row, slot) == slot \in OutputSlots /\ row.outputs[slot] # NoData

DoneSlot == 0
LoopSlot == 1

-----------------------------------------------------------------------------
(***************************************************************************)
(* Which rows an edge connects.                                            *)
(***************************************************************************)
ClassifyEdge(e, loops) ==
  LET source == LoopsWith(loops, e.from)
      target == LoopsWith(loops, e.to)
  IN  CASE e.back                              -> "back"
        [] ~e.back /\ source # {} /\ source = target -> "intra"
        [] ~e.back /\ source # {} /\ source # target -> "exit"
        [] ~e.back /\ source = {} /\ target # {}     -> "entry"
        [] OTHER                               -> "plain"

\* Mutated: the node after a loop takes the number of the pass that ended it.
TargetKeyOfExitPass(e, class, source) ==
  <<e.to, CASE class = "back" -> source[2] + 1 [] class = "entry" -> 0 [] OTHER -> source[2]>>

TargetKey(e, class, source) ==
  <<e.to, CASE class = "back"             -> source[2] + 1
            [] class \in {"exit", "entry"} -> 0
            [] OTHER                       -> source[2]>>

\* Mutated: a loop that has not ended yet is no source of the node after it.
SourceRowOfEndedLoops(e, class, target, terms) ==
  LET row(i) == [kind |-> "row", key |-> <<e.from, i>>]
      ended == {k \in terms : k[1] = e.from}
      none == [kind |-> "none", key |-> target]
  IN  CASE class = "back"  -> IF target[2] = 0 THEN none ELSE row(target[2] - 1)
        [] class = "entry" -> IF target[2] > 0 THEN none ELSE row(0)
        [] class = "exit"  -> IF target[2] > 0 \/ ended = {} THEN none
                              ELSE [kind |-> "row", key |-> CHOOSE k \in ended : TRUE]
        [] OTHER           -> row(target[2])

\* The source row of an edge, given the target key and the keys of the steps
\* known to have ended a loop.
SourceRow(e, class, target, terms) ==
  LET row(i) == [kind |-> "row", key |-> <<e.from, i>>]
      absent(kind) == [kind |-> kind, key |-> target]
      ended == {k \in terms : k[1] = e.from}
  IN  CASE class = "back"  -> IF target[2] = 0 THEN absent("none") ELSE row(target[2] - 1)
        [] class = "entry" -> IF target[2] > 0 THEN absent("none") ELSE row(0)
        [] class = "exit"  -> IF target[2] > 0 THEN absent("none")
                              ELSE IF ended = {} THEN absent("pending")
                              ELSE [kind |-> "row", key |-> CHOOSE k \in ended : TRUE]
        [] OTHER           -> row(target[2])

\* The sources of one key: each incoming edge that connects something to it.
SourcesOf(g, loops, key, terms) ==
  {s \in {[edge |-> e, src |-> SourceRow(e, ClassifyEdge(e, loops), key, terms)]
            : e \in Incoming(g, key[1])} : s.src.kind # "none"}

-----------------------------------------------------------------------------
(***************************************************************************)
(* The loop ledger.                                                        *)
(***************************************************************************)
\* Mutated: a pass ends its loop only by filling the done slot.
IsTerminalStepByDone(row) == IsSettled(row) /\ Filled(row, DoneSlot)

IsTerminalStep(row) == IsSettled(row) /\ ~Filled(row, LoopSlot)

ExitSourcesInto(g, loops, targets) ==
  {e.from : e \in {d \in g.edges : d.to \in targets /\ ClassifyEdge(d, loops) = "exit"}}

\* Whether k is the latest pass of its node that has a row.
IsLatestPass(rows, k) == \A j \in DOMAIN rows : j[1] = k[1] => j[2] <= k[2]

\* The last pass of each loop asked about, leaving out those not ended.  Passes
\* are written in order, so only the latest can be the last one.
LoadTerminalIterations(rows, batchNodes) ==
  {k \in DOMAIN rows :
     k[1] \in batchNodes /\ IsLatestPass(rows, k) /\ IsTerminalStep(rows[k])}

-----------------------------------------------------------------------------
(***************************************************************************)
(* Settlement: the fates of a settled step's direct successors.            *)
(***************************************************************************)
IsLive(row, e) == row.status = "completed" /\ Filled(row, e.out)

\* A body step of a loop whose batch step at that pass ended it.
IsPastLoopEnd(loops, key, steps) ==
  \E l \in LoopsWith(loops, key[1]) :
    /\ key[1] # l.batch
    /\ <<l.batch, key[2]>> \in DOMAIN steps
    /\ IsTerminalStep(steps[<<l.batch, key[2]>>])

\* A source that has not settled, or sits in a loop that has not ended.
SourceUnsettled(s, steps) ==
  \/ s.src.kind = "pending"
  \/ s.src.key \notin DOMAIN steps
  \/ ~IsSettled(steps[s.src.key])

DecideNodeFate(g, loops, key, steps, terms) ==
  LET sources == SourcesOf(g, loops, key, terms)
  IN  IF IsPastLoopEnd(loops, key, steps) \/ sources = {} THEN "outside"
      ELSE IF \E s \in sources : SourceUnsettled(s, steps) THEN "undecidable"
      ELSE IF \E s \in sources : IsLive(steps[s.src.key], s.edge) THEN "queued"
      ELSE "skipped"

\* Mutated: the pass that ends a loop decides nothing.
EdgesDecidedInLoop(g, loops, settled, steps) ==
  {e \in Outgoing(g, settled[1]) :
     (\E l \in loops : l.batch = settled[1]) =>
       ~IsTerminalStep(steps[settled]) /\ ClassifyEdge(e, loops) # "exit"}

\* While its loop runs a batch step decides the body, and the nodes after the
\* loop once it ended it.  Any other step decides every successor.
EdgesDecided(g, loops, settled, steps) ==
  LET heads == \E l \in loops : l.batch = settled[1]
      decides(e) == IF IsTerminalStep(steps[settled])
                    THEN ClassifyEdge(e, loops) = "exit"
                    ELSE ClassifyEdge(e, loops) # "exit"
  IN  {e \in Outgoing(g, settled[1]) : heads => decides(e)}

DecideSuccessors(g, loops, settled, steps, terms) ==
  LET candidates == {TargetKey(e, ClassifyEdge(e, loops), settled)
                       : e \in EdgesDecided(g, loops, settled, steps)} \ DOMAIN steps
      withFate(fate) == {k \in candidates : DecideNodeFate(g, loops, k, steps, terms) = fate}
  IN  [toQueue |-> withFate("queued"), toSkip |-> withFate("skipped")]

\* Every key DecideSuccessors reads, so that one query loads them.
DecisionKeys(g, loops, settled, terms) ==
  LET targets == {TargetKey(e, ClassifyEdge(e, loops), settled) : e \in Outgoing(g, settled[1])}
      sources(k) == {s.src.key : s \in {t \in SourcesOf(g, loops, k, terms) : t.src.kind = "row"}}
      heads(k) == {<<l.batch, k[2]>> : l \in LoopsWith(loops, k[1])}
  IN  {settled} \cup targets \cup UNION {sources(k) \cup heads(k) : k \in targets}

-----------------------------------------------------------------------------
(***************************************************************************)
(* Completion: how many settled steps a finished execution owes.  -1 while *)
(* a reachable loop still runs.                                            *)
(***************************************************************************)
StillRunning == -1

ReachableLoops(loops, reachable) == {l \in loops : l.batch \in reachable}

\* Mutated: every member of a loop is owed a step for the pass that ended it.
CountExpectedWholePasses(loops, reachable, terms) ==
  LET counted == ReachableLoops(loops, reachable)
      members == UNION {l.members : l \in counted}
      terminal(l) == (CHOOSE k \in terms : k[1] = l.batch)[2]
      owed(l) == (terminal(l) + 1) * Cardinality(l.members)
  IN  IF \E l \in counted : \A k \in terms : k[1] # l.batch THEN StillRunning
      ELSE MapThenSumSet(owed, counted) + Cardinality(reachable \ members)

CountExpectedSettledSteps(loops, reachable, terms) ==
  LET counted == ReachableLoops(loops, reachable)
      members == UNION {l.members : l \in counted}
      terminal(l) == (CHOOSE k \in terms : k[1] = l.batch)[2]
      owed(l) == terminal(l) + 1 + terminal(l) * (Cardinality(l.members) - 1)
  IN  IF \E l \in counted : \A k \in terms : k[1] # l.batch THEN StillRunning
      ELSE MapThenSumSet(owed, counted) + Cardinality(reachable \ members)

-----------------------------------------------------------------------------
(***************************************************************************)
(* One pass of a batch node.  A failure is the run [ok |-> FALSE].         *)
(***************************************************************************)
Succeeded(outputs) == [ok |-> TRUE, outputs |-> outputs]
Failed == [ok |-> FALSE, outputs |-> NoOutputs]

AsList(value) == IF value = NoData THEN 0 ELSE value

SlotOnly(slot, value) == [NoOutputs EXCEPT ![slot] = value]

\* What one edge delivers from its source row: NoData for a dead edge.
EdgeValue(row, e) == IF IsLive(row, e) THEN row.outputs[e.out] ELSE NoData

\* The items of several lists, each named by its list and its place there.
Items(lists) == UNION {{i} \X (1..AsList(lists[i])) : i \in DOMAIN lists}

\* Mutated: the last item of the list is never handed out.
RunBatchStepShort(size, pass, original, arrivals) ==
  LET remaining == AsList(original) - 1 - pass * size
      slice == IF remaining < size THEN remaining ELSE size
      accumulated == Cardinality(Items(arrivals))
  IN  IF original = NotAList THEN Failed
      ELSE IF slice > 0 THEN Succeeded(SlotOnly(LoopSlot, slice))
      ELSE IF \E i \in DOMAIN arrivals : arrivals[i] = NotAList THEN Failed
      ELSE IF accumulated = 0 THEN Succeeded(NoOutputs)
      ELSE Succeeded(SlotOnly(DoneSlot, accumulated))

RunBatchStep(size, pass, original, arrivals) ==
  LET remaining == AsList(original) - pass * size
      slice == IF remaining < size THEN remaining ELSE size
      accumulated == Cardinality(Items(arrivals))
  IN  IF original = NotAList THEN Failed
      ELSE IF slice > 0 THEN Succeeded(SlotOnly(LoopSlot, slice))
      ELSE IF \E i \in DOMAIN arrivals : arrivals[i] = NotAList THEN Failed
      ELSE IF accumulated = 0 THEN Succeeded(NoOutputs)
      ELSE Succeeded(SlotOnly(DoneSlot, accumulated))

-----------------------------------------------------------------------------
(***************************************************************************)
(* What a step reads back from the table before it runs.                   *)
(***************************************************************************)
\* One source per incoming edge that applies, an earlier loop at its last pass.
StepReads(g, loops, rows, k) ==
  SourcesOf(g, loops, k,
            LoadTerminalIterations(rows, ExitSourcesInto(g, loops, {k[1]})))

\* gatherInputs throws unless each slot has one source and it has settled.
InputsReadable(g, loops, rows, k) ==
  LET reads == StepReads(g, loops, rows, k)
  IN  /\ reads # {}
      /\ \A s \in reads : ~SourceUnsettled(s, rows)
      /\ \A s, t \in reads : s.edge.in = t.edge.in => s = t

\* A row it cannot find fails a batch step, as a value that is no list does.
ReadBack(rows, key, e) ==
  IF key \in DOMAIN rows THEN EdgeValue(rows[key], e) ELSE NotAList

\* The list the loop works through, as it arrived from outside the loop.
ReadOriginalItems(g, loops, rows, l) ==
  LET reads == {s \in StepReads(g, loops, rows, <<l.batch, 0>>) : s.edge \in l.entries}
      read == CHOOSE s \in reads : TRUE
  IN  IF reads = {} THEN NoData
      ELSE IF read.src.kind = "pending" THEN NotAList
      ELSE ReadBack(rows, read.src.key, read.edge)

\* What the loop body returned on each pass before this one.
ReadArrivals(rows, l, pass) ==
  LET e == CHOOSE e \in l.backs : TRUE
  IN  [i \in 0..(pass - 1) |-> ReadBack(rows, <<e.from, i>>, e)]

RunBatchNode(g, loops, rows, k) ==
  LET l == CHOOSE l \in loops : l.batch = k[1]
  IN  RunBatchStep(g.batch[k[1]], k[2],
                   ReadOriginalItems(g, loops, rows, l), ReadArrivals(rows, l, k[2]))

\* What running a step may come to, given what its executor may, and what an error
\* of the store may while a batch step reads its loop.  The engine runs a batch
\* step itself; no other type but v1-node has an executor.
HasExecutor(g, n) == g.kind[n] \in {"v1-node", "batch"}

StepRuns(g, loops, rows, k, executorRuns, batchErrors) ==
  CASE g.kind[k[1]] = "batch"   -> {RunBatchNode(g, loops, rows, k)} \cup batchErrors
    [] g.kind[k[1]] = "v1-node" -> executorRuns
    [] OTHER                    -> {}
=============================================================================
