------------------------- MODULE MCEngineDataflow -------------------------
(***************************************************************************)
(* EngineDataflow on sample graphs, and on every executable graph of at    *)
(* most five edges (four without a loop) over a trigger, two ordinary      *)
(* nodes and a third, which may be a batch node.                           *)
(***************************************************************************)
EXTENDS EngineDataflow, EngineSampleGraphs

Slots == {0, 1}

Slot(n, slot) == [s \in Slots |-> IF s = slot THEN n ELSE NoData]
Both(n) == [s \in Slots |-> n]

\* Two items, an empty list, and no list at all.
Payloads == {Both(2), Slot(0, 0), Slot(NotAList, 0)}
NodeOutputs == {NoOutputs, Slot(1, 0)}

SampleGraphs == {Chain, Diamond, Loop, LoopAndBranch, WideLoop, TwoLoops, SelfLoop}

SmallNodes == {"t", "a", "b", "l"}

InputSlot(from, to) ==
  IF to = "l" \/ from = "t" THEN 0 ELSE IF from = "l" THEN 2 ELSE 1

OutSlots(from) == IF from \in {"t", "l"} THEN {0, 1} ELSE {0}

SmallEdges ==
  UNION {UNION {{Forward(from, out, to, InputSlot(from, to)) : out \in OutSlots(from)}
                  : to \in SmallNodes \ {"t", from}} : from \in SmallNodes}
    \cup UNION {{Return(from, out, "l") : out \in OutSlots(from)} : from \in {"a", "b", "l"}}

SmallGraphs(batches, size) ==
  {Graph(SmallNodes, batches, 1, {}, edges)
     : edges \in UNION {kSubset(n, SmallEdges) : n \in 1..size}}

\* The engine starts no other.
ExecutableGraphs ==
  {g \in SmallGraphs({"l"}, 5) \cup SmallGraphs({}, 4) : ValidateExecutableGraph(g)}

CheckedGraphs == SampleGraphs \cup ExecutableGraphs
=============================================================================
