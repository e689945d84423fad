---------------------------- MODULE EngineGraph ----------------------------
(***************************************************************************)
(* Workflow graphs of the execution engine (packages/@n8n/engine):         *)
(* reachability, the loops a graph's back-edges close, and the rules a     *)
(* graph must meet before an execution is created for it.                  *)
(*                                                                         *)
(* A graph is a record                                                     *)
(*   kind  : a function from node ids to step types,                       *)
(*   batch : the batch size of each node (0 where the config holds none),  *)
(*   edges : a set of records [from, to, out, in, back].                   *)
(* Node names and configurations are left out.  Edges form a set, so two   *)
(* edges that agree on every field are one.                                *)
(***************************************************************************)
EXTENDS Integers, FiniteSets

NodeKinds == {"trigger", "v1-node", "wait", "subworkflow", "batch"}

\* Bound on a slot index, MAX_SLOT_INDEX in the code.
MaxSlotIndex == 100

NodesOf(g) == DOMAIN g.kind

NodesOfKind(g, kind) == {n \in NodesOf(g) : g.kind[n] = kind}

TriggerOf(g) == CHOOSE n \in NodesOf(g) : g.kind[n] = "trigger"

Outgoing(g, n) == {e \in g.edges : e.from = n}

Incoming(g, n) == {e \in g.edges : e.to = n}

Successors(g, S) == {e.to : e \in {d \in g.edges : d.from \in S}}

\* Every node at the end of a non-empty path from n, level by level.
Descendants(g, n) ==
  LET level[k \in Nat] ==
        IF k = 0 THEN Successors(g, {n})
        ELSE level[k - 1] \cup Successors(g, level[k - 1])
  IN  level[Cardinality(NodesOf(g))]

ReachableNodes(g) == {TriggerOf(g)} \cup Descendants(g, TriggerOf(g))

\* The strongly connected component of n.
Component(g, n) == {n} \cup {m \in Descendants(g, n) : n \in Descendants(g, m)}

-----------------------------------------------------------------------------
(***************************************************************************)
(* Loops: one per back-edge target, its members the target's component.    *)
(***************************************************************************)
LoopAt(g, batchNode) ==
  LET members == Component(g, batchNode)
  IN  [ batch   |-> batchNode,
        members |-> members,
        backs   |-> {e \in g.edges : e.back /\ e.to = batchNode},
        entries |-> {e \in g.edges : ~e.back /\ e.to = batchNode /\ e.from \notin members},
        exits   |-> {e \in g.edges : ~e.back /\ e.from \in members /\ e.to \notin members} ]

DeriveLoops(g) == {LoopAt(g, e.to) : e \in {d \in g.edges : d.back}}

LoopsWith(loops, n) == {l \in loops : n \in l.members}

-----------------------------------------------------------------------------
(***************************************************************************)
(* The rules of validateLoops, one operator each.                          *)
(***************************************************************************)
EndpointsExist(g) == \A e \in g.edges : {e.from, e.to} \subseteq NodesOf(g)

\* Rule 1: without the back-edges the graph is acyclic.
ForwardEdgesAcyclic(g) ==
  LET h == [g EXCEPT !.edges = {e \in g.edges : ~e.back}]
  IN  \A n \in NodesOf(g) : n \notin Descendants(h, n)

\* Rule 3, the "none" case: every batch node heads a loop.
BatchNodesLoop(g) ==
  NodesOfKind(g, "batch") \subseteq {l.batch : l \in DeriveLoops(g)}

\* Rule 2's target, and the loops the engine can run at all.
LoopsAreHeaded(g) ==
  \A l \in DeriveLoops(g) :
    /\ g.kind[l.batch] = "batch"
    /\ g.batch[l.batch] >= 1
    /\ \A m \in l.members : g.kind[m] # "trigger"
    /\ \A m \in l.members \ {l.batch} : g.kind[m] # "batch"

\* Rules 2 and 3: a single return, on slot 0, from inside the loop.
ReturnsAreSingle(g) ==
  \A l \in DeriveLoops(g) :
    /\ \A e \in l.backs : e.in = 0 /\ e.from \in l.members
    /\ Cardinality(l.backs) <= 1

\* Rule 4: the batch node's own slots; and a single entry edge.
BatchSlotsOK(g) ==
  \A l \in DeriveLoops(g) :
    /\ \A e \in g.edges : e.to = l.batch /\ ~e.back => e.in = 0
    /\ \A e \in g.edges : e.from = l.batch => e.out \in {0, 1}
    /\ Cardinality(l.entries) <= 1

\* Rule 5: the batch node is the loop's only boundary, its done slot the exit.
LoopBoundaryOK(g) ==
  \A l \in DeriveLoops(g) :
    /\ \A e \in l.exits : e.from = l.batch /\ e.out = 0
    /\ \A e \in g.edges : e.from = l.batch /\ e.out = 0 => e.to \notin l.members
    /\ \A e \in g.edges :
         ~e.back /\ e.to \in l.members \ {l.batch} => e.from \in l.members

ValidateLoops(g) ==
  /\ EndpointsExist(g)
  /\ ForwardEdgesAcyclic(g)
  /\ BatchNodesLoop(g)
  /\ LoopsAreHeaded(g)
  /\ ReturnsAreSingle(g)
  /\ BatchSlotsOK(g)
  /\ LoopBoundaryOK(g)

ReachableClosed(g) ==
  \A e \in g.edges : e.to \in ReachableNodes(g) => e.from \in ReachableNodes(g)

SlotIndicesOK(g) == \A e \in g.edges : {e.out, e.in} \subseteq 0..MaxSlotIndex

\* Mutated: two edges may feed one input slot.
OneEdgePerInputSlotUnchecked(g) == TRUE

OneEdgePerInputSlot(g) ==
  \A d, e \in g.edges : ~d.back /\ ~e.back /\ d.to = e.to /\ d.in = e.in => d = e

\* validateExecutableGraph: the graphs the engine creates executions for.
ValidateExecutableGraph(g) ==
  /\ Cardinality(NodesOfKind(g, "trigger")) = 1
  /\ ValidateLoops(g)
  /\ ReachableClosed(g)
  /\ SlotIndicesOK(g)
  /\ OneEdgePerInputSlot(g)
=============================================================================
