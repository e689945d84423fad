------------------------ MODULE EngineDataflowProofs ------------------------
(***************************************************************************)
(* Proofs about EngineDataflow, for every validated graph and whatever     *)
(* executors return: what the planning rules decide, pass by pass and      *)
(* table by table, and the safety properties of the specification.         *)
(***************************************************************************)
EXTENDS EngineDataflow, FiniteSetTheorems, TLAPS

-----------------------------------------------------------------------------
(***************************************************************************)
(* Recursive definitions over the numbers have values: what the searches in*)
(* graphs rest on.                                                         *)
(***************************************************************************)
\* Every nonempty set of numbers has a least one.
LEMMA LeastNumber ==
  ASSUME NEW S \in SUBSET Nat, S # {}
  PROVE  \E j \in S : \A k \in S : j <= k
<1>1. PICK j \in S : \A k \in S : <<k, j>> \notin OpToRel(<, Nat)
  BY NatLessThanWellFounded, WFMin
<1>2. \A k \in S : ~(k < j)
  BY <1>1 DEF OpToRel
<1>3. j \in Nat /\ \A k \in S : k \in Nat
  OBVIOUS
<1>4. QED BY <1>2, <1>3

\* The first n + 1 values of a recursive definition.
Prefix(T, base, step, n, f) ==
  /\ f \in [0..n -> T]
  /\ f[0] = base
  /\ \A k \in 0..(n - 1) : f[k + 1] = step[f[k]]

\* The first values of a recursive definition exist, however many are asked for.
LEMMA PrefixesExist ==
  ASSUME NEW T, NEW base \in T, NEW step \in [T -> T]
  PROVE  \A n \in Nat : \E f : Prefix(T, base, step, n, f)
<1> DEFINE bad == {n \in Nat : ~\E f : Prefix(T, base, step, n, f)}
<1>1. SUFFICES ASSUME bad # {} PROVE FALSE
  OBVIOUS
<1>2. PICK n \in bad : \A k \in bad : n <= k
  BY <1>1, LeastNumber
<1>3. CASE n = 0
  <2>1. Prefix(T, base, step, 0, [k \in 0..0 |-> base])
    BY DEF Prefix
  <2>2. QED BY <1>3, <2>1
<1>4. CASE n # 0
  <2>1. n \in Nat /\ n - 1 \in Nat /\ n - 1 \notin bad
    BY <1>2, <1>4
  <2>2. PICK f : Prefix(T, base, step, n - 1, f)
    BY <2>1
  <2> DEFINE g == [k \in 0..n |-> IF k = n THEN step[f[n - 1]] ELSE f[k]]
  <2>3. f \in [0..(n - 1) -> T] /\ f[0] = base /\ \A k \in 0..(n - 2) : f[k + 1] = step[f[k]]
    BY <2>1, <2>2 DEF Prefix
  <2>4. \A k \in 0..n : (k = n \/ k \in 0..(n - 1)) /\ (k # n => g[k] = f[k])
    BY <2>1
  <2>5. g \in [0..n -> T] /\ g[0] = base
    BY <2>1, <2>3, <2>4
  <2>6. ASSUME NEW k \in 0..(n - 1) PROVE g[k + 1] = step[g[k]]
    <3>1. CASE k = n - 1
      BY <2>1, <3>1
    <3>2. CASE k # n - 1
      <4>1. k \in 0..(n - 2) /\ k + 1 \in 0..n /\ k + 1 # n /\ k \in 0..n /\ k # n
        BY <2>1, <3>2
      <4>2. QED BY <2>3, <2>4, <4>1
    <3>3. QED BY <3>1, <3>2
  <2>7. Prefix(T, base, step, n, g)
    BY <2>5, <2>6 DEF Prefix
  <2>8. QED BY <2>7
<1>5. QED BY <1>3, <1>4

\* Two lists of the first values of one recursive definition agree as far as both go.
LEMMA PrefixesAgree ==
  ASSUME NEW T, NEW base \in T, NEW step \in [T -> T], NEW m \in Nat, NEW n \in Nat, m <= n,
         NEW f, NEW g, Prefix(T, base, step, m, f), Prefix(T, base, step, n, g)
  PROVE  \A k \in 0..m : f[k] = g[k]
<1> DEFINE bad == {k \in 0..m : f[k] # g[k]}
<1>1. SUFFICES ASSUME bad # {} PROVE FALSE
  OBVIOUS
<1>0. bad \in SUBSET Nat
  OBVIOUS
<1>2. PICK k \in bad : \A j \in bad : k <= j
  BY <1>0, <1>1, LeastNumber
<1>3. k # 0
  BY DEF Prefix
<1>4. k \in Nat /\ k - 1 \in 0..(m - 1) /\ k - 1 \in 0..m /\ k - 1 \in 0..(n - 1) /\ k - 1 \notin bad
  BY <1>2, <1>3
<1>5. f[k - 1] = g[k - 1]
  BY <1>4
<1>6. f[(k - 1) + 1] = g[(k - 1) + 1]
  BY <1>4, <1>5 DEF Prefix
<1>7. QED BY <1>4, <1>6

\* What a recursive function over the natural numbers is defined by exists.
LEMMA RecursionExists ==
  ASSUME NEW T, NEW base \in T, NEW step \in [T -> T]
  PROVE  \E f \in [Nat -> T] : f[0] = base /\ \A k \in Nat : f[k + 1] = step[f[k]]
<1> DEFINE upTo(n) == CHOOSE f : Prefix(T, base, step, n, f)
<1> DEFINE all == [n \in Nat |-> upTo(n)[n]]
<1>1. \A n \in Nat : Prefix(T, base, step, n, upTo(n))
  BY PrefixesExist
<1> HIDE DEF upTo
<1>2. all \in [Nat -> T] /\ all[0] = base
  BY <1>1 DEF Prefix
<1>3. ASSUME NEW k \in Nat PROVE all[k + 1] = step[all[k]]
  <2>1. k + 1 \in Nat /\ k <= k + 1 /\ k \in 0..k /\ k \in 0..((k + 1) - 1)
    OBVIOUS
  <2>2. upTo(k)[k] = upTo(k + 1)[k]
    BY <1>1, <2>1, PrefixesAgree
  <2>3. upTo(k + 1)[k + 1] = step[upTo(k + 1)[k]]
    BY <1>1, <2>1 DEF Prefix
  <2>4. QED BY <2>1, <2>2, <2>3
<1>4. QED BY <1>2, <1>3
-----------------------------------------------------------------------------
(***************************************************************************)
(* Descendants of a node, as the graph queries compute them.               *)
(***************************************************************************)
\* A set of nodes that no edge of g leaves.
Closed(g, S) == \A e \in g.edges : e.from \in S => e.to \in S

\* The nodes of a graph are finite, and its edges are between them.
Sound(g) == IsFiniteSet(NodesOf(g)) /\ EndpointsExist(g)

\* The search of descendants goes by stages, one more step of edges at each, and as
\* many stages as there are nodes are its result.
LEMMA DescendantsStages ==
  ASSUME NEW g, Sound(g), NEW n
  PROVE  \E f \in [Nat -> SUBSET NodesOf(g)] :
           /\ f[0] = Successors(g, {n})
           /\ \A k \in Nat : f[k + 1] = f[k] \cup Successors(g, f[k])
           /\ Descendants(g, n) = f[Cardinality(NodesOf(g))]
<1> DEFINE step == [S \in SUBSET NodesOf(g) |-> S \cup Successors(g, S)]
<1> DEFINE Rec(f) == f = [k \in Nat |-> IF k = 0 THEN Successors(g, {n})
                                        ELSE f[k - 1] \cup Successors(g, f[k - 1])]
<1>1. \A S : Successors(g, S) \in SUBSET NodesOf(g)
  BY DEF Successors, Sound, EndpointsExist
<1>2. step \in [SUBSET NodesOf(g) -> SUBSET NodesOf(g)]
  BY <1>1
<1>20. \A S \in SUBSET NodesOf(g) : step[S] = S \cup Successors(g, S)
  OBVIOUS
<1> DEFINE base == Successors(g, {n})
<1> DEFINE T == SUBSET NodesOf(g)
<1>21. base \in T /\ step \in [T -> T]
  BY <1>1, <1>2
<1> HIDE DEF step, base, T
<1>22. \E f \in [Nat -> T] : f[0] = base /\ \A k \in Nat : f[k + 1] = step[f[k]]
  BY <1>21, RecursionExists
<1>3. PICK f \in [Nat -> SUBSET NodesOf(g)] :
        f[0] = Successors(g, {n}) /\ \A k \in Nat : f[k + 1] = step[f[k]]
  BY <1>22 DEF base, T
<1>4. \A k \in Nat : f[k + 1] = f[k] \cup Successors(g, f[k])
  BY <1>3, <1>20
<1>5. Rec(f)
  <2>1. ASSUME NEW k \in Nat, k # 0
        PROVE  f[k] = f[k - 1] \cup Successors(g, f[k - 1])
    <3>1. k - 1 \in Nat /\ (k - 1) + 1 = k
      BY <2>1
    <3>2. QED BY <1>4, <3>1
  <2>2. QED BY <1>3, <2>1
<1> DEFINE level == CHOOSE lv : Rec(lv)
<1>6. Rec(level)
  BY <1>5
<1>7. Descendants(g, n) = level[Cardinality(NodesOf(g))]
  BY DEF Descendants
<1> HIDE DEF level
<1>8. level[0] = Successors(g, {n}) /\ \A k \in Nat : level[k + 1] = level[k] \cup Successors(g, level[k])
  <2>1. ASSUME NEW k \in Nat PROVE level[k + 1] = level[k] \cup Successors(g, level[k])
    <3>1. k + 1 \in Nat /\ k + 1 # 0 /\ (k + 1) - 1 = k
      OBVIOUS
    <3>2. QED BY <1>6, <3>1
  <2>2. level[0] = Successors(g, {n})
    BY <1>6
  <2>3. QED BY <2>1, <2>2
<1> DEFINE bad == {k \in Nat : level[k] # f[k]}
<1>9. bad = {}
  <2>1. SUFFICES ASSUME bad # {} PROVE FALSE
    OBVIOUS
  <2>2. PICK k \in bad : \A j \in bad : k <= j
    BY <2>1, LeastNumber
  <2>3. k # 0
    BY <1>3, <1>8
  <2>4. k - 1 \in Nat /\ k - 1 \notin bad /\ (k - 1) + 1 = k
    BY <2>2, <2>3
  <2>5. level[k - 1] = f[k - 1]
    BY <2>4
  <2>6. level[k] = f[k]
    BY <1>4, <1>8, <2>4, <2>5
  <2>7. QED BY <2>6
<1>10. Cardinality(NodesOf(g)) \in Nat
  BY FS_CardinalityType DEF Sound
<1>11. level[Cardinality(NodesOf(g))] = f[Cardinality(NodesOf(g))]
  BY <1>9, <1>10
<1>12. QED BY <1>3, <1>4, <1>7, <1>11

\* Descendants(g, n) is the least closed set that holds the successors of n.
LEMMA DescendantsLeast ==
  ASSUME NEW g, Sound(g), NEW n, NEW S, Closed(g, S), Successors(g, {n}) \subseteq S
  PROVE  Descendants(g, n) \subseteq S
<1>1. PICK f \in [Nat -> SUBSET NodesOf(g)] :
        /\ f[0] = Successors(g, {n})
        /\ \A k \in Nat : f[k + 1] = f[k] \cup Successors(g, f[k])
        /\ Descendants(g, n) = f[Cardinality(NodesOf(g))]
  BY DescendantsStages
<1> DEFINE bad == {k \in Nat : ~(f[k] \subseteq S)}
<1>2. bad = {}
  <2>1. SUFFICES ASSUME bad # {} PROVE FALSE
    OBVIOUS
  <2>2. PICK k \in bad : \A j \in bad : k <= j
    BY <2>1, LeastNumber
  <2>3. k # 0
    BY <1>1
  <2>4. k - 1 \in Nat /\ k - 1 \notin bad /\ (k - 1) + 1 = k
    BY <2>2, <2>3
  <2>5. f[k - 1] \subseteq S
    BY <2>4
  <2>6. f[k] = f[k - 1] \cup Successors(g, f[k - 1])
    BY <1>1, <2>4
  <2>7. Successors(g, f[k - 1]) \subseteq S
    BY <2>5 DEF Successors, Closed
  <2>8. QED BY <2>2, <2>5, <2>6, <2>7
<1>3. Cardinality(NodesOf(g)) \in Nat
  BY FS_CardinalityType DEF Sound
<1>4. QED BY <1>1, <1>2, <1>3

\* The descendants of a node are nodes, hold its successors, and no edge leaves them.
LEMMA DescendantsClosed ==
  ASSUME NEW g, Sound(g), NEW n
  PROVE  /\ Closed(g, Descendants(g, n))
         /\ Successors(g, {n}) \subseteq Descendants(g, n)
         /\ Descendants(g, n) \subseteq NodesOf(g)
<1>1. PICK f \in [Nat -> SUBSET NodesOf(g)] :
        /\ f[0] = Successors(g, {n})
        /\ \A k \in Nat : f[k + 1] = f[k] \cup Successors(g, f[k])
        /\ Descendants(g, n) = f[Cardinality(NodesOf(g))]
  BY DescendantsStages
<1>2. /\ \A k \in Nat : f[k] \subseteq NodesOf(g) /\ IsFiniteSet(f[k]) /\ Cardinality(f[k]) \in Nat
                         /\ Cardinality(f[k]) <= Cardinality(NodesOf(g))
      /\ Cardinality(NodesOf(g)) \in Nat
  BY <1>1, FS_Subset, FS_CardinalityType DEF Sound
\* The stages grow until one is closed, at the latest at the number of nodes.
<1> DEFINE bad == {k \in Nat : ~Closed(g, f[k]) /\ ~(Cardinality(f[k]) >= k + 1)}
<1>3. bad = {}
  <2>1. SUFFICES ASSUME bad # {} PROVE FALSE
    OBVIOUS
  <2>2. PICK k \in bad : \A j \in bad : k <= j
    BY <2>1, LeastNumber
  <2>3. CASE k = 0
    <3>1. f[0] # {}
      BY <2>2, <2>3 DEF Closed
    <3>2. Cardinality(f[0]) # 0
      BY <1>2, <3>1, FS_EmptySet
    <3>3. QED BY <1>2, <2>2, <2>3, <3>2
  <2>4. CASE k # 0
    <3>1. k - 1 \in Nat /\ k - 1 \notin bad /\ (k - 1) + 1 = k
      BY <2>2, <2>4
    <3>2. f[k] = f[k - 1] \cup Successors(g, f[k - 1])
      BY <1>1, <3>1
    <3>3. CASE Closed(g, f[k - 1])
      <4>1. f[k] = f[k - 1]
        BY <3>2, <3>3 DEF Closed, Successors
      <4>2. QED BY <2>2, <3>3, <4>1
    <3>4. CASE Cardinality(f[k - 1]) >= (k - 1) + 1 /\ f[k] # f[k - 1]
      <4>1. f[k - 1] \in SUBSET f[k]
        BY <3>2
      <4>2. /\ Cardinality(f[k - 1]) <= Cardinality(f[k])
            /\ Cardinality(f[k]) # Cardinality(f[k - 1])
        BY <1>2, <2>2, <3>4, <4>1, FS_Subset
      <4>3. QED BY <1>2, <2>2, <3>1, <3>4, <4>2
    <3>5. CASE f[k] = f[k - 1]
      <4>1. Closed(g, f[k - 1])
        BY <3>2, <3>5 DEF Closed, Successors
      <4>2. QED BY <3>3, <4>1
    <3>6. QED BY <3>1, <3>3, <3>4, <3>5
  <2>5. QED BY <2>3, <2>4
<1> DEFINE c == Cardinality(NodesOf(g))
<1>4. Closed(g, f[c])
  <2>1. c \notin bad
    BY <1>3
  <2>2. ~(Cardinality(f[c]) >= c + 1)
    BY <1>2
  <2>3. QED BY <1>2, <2>1, <2>2
<1> HIDE DEF bad
<1> DEFINE lost == {k \in Nat : ~(Successors(g, {n}) \subseteq f[k])}
<1>5. lost = {}
  <2>1. SUFFICES ASSUME lost # {} PROVE FALSE
    OBVIOUS
  <2>2. PICK k \in lost : \A j \in lost : k <= j
    BY <2>1, LeastNumber
  <2>3. k # 0
    BY <1>1
  <2>4. k - 1 \in Nat /\ (k - 1) + 1 = k /\ k - 1 \notin lost
    <3>1. k - 1 \in Nat /\ (k - 1) + 1 = k /\ ~(k <= k - 1)
      BY <2>3
    <3>2. QED BY <2>2, <3>1
  <2>5. f[k] = f[k - 1] \cup Successors(g, f[k - 1])
    BY <1>1, <2>4
  <2>6. QED BY <2>2, <2>4, <2>5
<1>6. c \notin lost /\ f[c] \subseteq NodesOf(g)
  BY <1>2, <1>5
<1>7. QED BY <1>1, <1>2, <1>4, <1>6

\* What can be reached from what n reaches is reached from n.
LEMMA DescendantsTransitive ==
  ASSUME NEW g, Sound(g), NEW n, NEW m, m \in Descendants(g, n)
  PROVE  Descendants(g, m) \subseteq Descendants(g, n)
<1>1. Successors(g, {m}) \subseteq Descendants(g, n)
  BY DescendantsClosed DEF Successors, Closed
<1>2. QED BY <1>1, DescendantsClosed, DescendantsLeast

\* The target of an edge descends from its source, and so does what descends from it.
LEMMA EdgeDescends ==
  ASSUME NEW g, Sound(g), NEW e \in g.edges
  PROVE  e.to \in Descendants(g, e.from) /\ Descendants(g, e.to) \subseteq Descendants(g, e.from)
<1>1. e.to \in Descendants(g, e.from)
  BY DescendantsClosed DEF Successors
<1>2. QED BY <1>1, DescendantsTransitive
-----------------------------------------------------------------------------
(***************************************************************************)
(* Validated graphs have no cycle of forward edges: nodes have ranks.      *)
(***************************************************************************)
\* A graph the engine creates executions for.
Executable(g) == IsGraph(g) /\ ValidateExecutableGraph(g)

ForwardGraph(g) == [g EXCEPT !.edges = {e \in g.edges : ~e.back}]

\* How many nodes n reaches without back-edges: forward edges lead down.
Rank(g, n) == Cardinality(Descendants(ForwardGraph(g), n))

\* A validated graph has edges between its nodes only, and without its back edges no
\* node descends from itself.
LEMMA ExecutableSound ==
  ASSUME NEW g, Executable(g)
  PROVE  /\ Sound(g)
         /\ Sound(ForwardGraph(g))
         /\ ForwardGraph(g).edges = {e \in g.edges : ~e.back}
         /\ \A n : n \notin Descendants(ForwardGraph(g), n)
         /\ \A e \in g.edges : e.from \in NodesOf(g) /\ e.to \in NodesOf(g)
<1>1. g = [kind |-> g.kind, batch |-> g.batch, edges |-> g.edges]
  BY DEF Executable, IsGraph
<1>2. /\ ForwardGraph(g).edges = {e \in g.edges : ~e.back}
      /\ ForwardGraph(g).kind = g.kind
  BY <1>1 DEF ForwardGraph
<1>3. Sound(g) /\ \A e \in g.edges : e.from \in NodesOf(g) /\ e.to \in NodesOf(g)
  BY DEF Executable, IsGraph, ValidateExecutableGraph, ValidateLoops, Sound, EndpointsExist
<1>4. Sound(ForwardGraph(g)) /\ NodesOf(ForwardGraph(g)) = NodesOf(g)
  BY <1>2, <1>3 DEF Sound, EndpointsExist, NodesOf
<1>5. \A n \in NodesOf(g) : n \notin Descendants(ForwardGraph(g), n)
  BY DEF Executable, ValidateExecutableGraph, ValidateLoops, ForwardEdgesAcyclic, ForwardGraph
<1>6. \A n : n \in Descendants(ForwardGraph(g), n) => n \in NodesOf(g)
  BY <1>4, DescendantsClosed
<1>7. QED BY <1>2, <1>3, <1>4, <1>5, <1>6

\* A rank is a number no larger than the number of nodes.
LEMMA RankBounded ==
  ASSUME NEW g, Executable(g), NEW n
  PROVE  /\ Rank(g, n) \in Nat /\ Cardinality(NodesOf(g)) \in Nat
         /\ Rank(g, n) <= Cardinality(NodesOf(g))
<1>1. Descendants(ForwardGraph(g), n) \in SUBSET NodesOf(ForwardGraph(g))
  BY ExecutableSound, DescendantsClosed
<1>2. NodesOf(ForwardGraph(g)) = NodesOf(g)
  <2>1. g = [kind |-> g.kind, batch |-> g.batch, edges |-> g.edges]
    BY DEF Executable, IsGraph
  <2>2. QED BY <2>1 DEF ForwardGraph, NodesOf
<1>3. IsFiniteSet(NodesOf(g))
  BY DEF Executable, IsGraph
<1>4. QED BY <1>1, <1>2, <1>3, FS_Subset, FS_CardinalityType DEF Rank

\* Along a forward edge of a validated graph the rank falls.
LEMMA ForwardEdgesDescend ==
  ASSUME NEW g, Executable(g), NEW e \in g.edges, ~e.back
  PROVE  Rank(g, e.to) < Rank(g, e.from)
<1> DEFINE h == ForwardGraph(g)
<1>1. Sound(h) /\ e \in h.edges /\ e.to \notin Descendants(h, e.to)
  BY ExecutableSound
<1> HIDE DEF h
<1>2. e.to \in Descendants(h, e.from) /\ Descendants(h, e.to) \in SUBSET Descendants(h, e.from)
  BY <1>1, EdgeDescends
<1>3. IsFiniteSet(Descendants(h, e.from))
  BY <1>1, DescendantsClosed, FS_Subset DEF Sound
<1>4. /\ Cardinality(Descendants(h, e.to)) <= Cardinality(Descendants(h, e.from))
      /\ Cardinality(Descendants(h, e.to)) # Cardinality(Descendants(h, e.from))
  BY <1>1, <1>2, <1>3, FS_Subset
<1>5. Rank(g, e.to) \in Nat /\ Rank(g, e.from) \in Nat
  BY RankBounded
<1>6. QED BY <1>4, <1>5 DEF Rank, h

\* Every nonempty set of nodes has one no forward edge enters from the set,
\* and one no forward edge leaves into the set.
LEMMA ForwardFirst ==
  ASSUME NEW g, Executable(g), NEW S, S # {}
  PROVE  \E m \in S : \A e \in g.edges : ~e.back /\ e.to = m => e.from \notin S
<1> DEFINE c == Cardinality(NodesOf(g))
<1> DEFINE depths == {c - Rank(g, n) : n \in S}
<1>1. depths \in SUBSET Nat /\ depths # {}
  BY RankBounded
<1>2. PICK d \in depths : \A k \in depths : d <= k
  BY <1>1, LeastNumber
<1>3. PICK m \in S : d = c - Rank(g, m)
  BY <1>2
<1>4. ASSUME NEW e \in g.edges, ~e.back, e.to = m, e.from \in S PROVE FALSE
  <2>1. c - Rank(g, m) <= c - Rank(g, e.from)
    BY <1>2, <1>3, <1>4
  <2>2. Rank(g, m) < Rank(g, e.from)
    BY <1>4, ForwardEdgesDescend
  <2>3. Rank(g, m) \in Nat /\ Rank(g, e.from) \in Nat /\ c \in Nat
    BY RankBounded
  <2>4. QED BY <2>1, <2>2, <2>3
<1>5. QED BY <1>4

-----------------------------------------------------------------------------
(***************************************************************************)
(* The loops of a validated graph.                                         *)
(***************************************************************************)
\* A derived loop is the component of its batch node, with its edges sorted by where
\* they come from and go to.
LEMMA LoopShape ==
  ASSUME NEW g, Executable(g), NEW l \in DeriveLoops(g)
  PROVE  /\ l = LoopAt(g, l.batch)
         /\ \E e \in g.edges : e.back /\ e.to = l.batch
         /\ l.members = Component(g, l.batch) /\ l.batch \in l.members
         /\ l.members \subseteq NodesOf(g)
         /\ l.backs = {e \in g.edges : e.back /\ e.to = l.batch}
         /\ l.entries = {e \in g.edges : ~e.back /\ e.to = l.batch /\ e.from \notin l.members}
         /\ l.exits = {e \in g.edges : ~e.back /\ e.from \in l.members /\ e.to \notin l.members}
<1>1. PICK d \in g.edges : d.back /\ l = LoopAt(g, d.to)
  BY DEF DeriveLoops
<1>2. l.batch = d.to
  BY <1>1 DEF LoopAt
<1>3. /\ l.members = Component(g, l.batch) /\ l.batch \in l.members
      /\ l.backs = {e \in g.edges : e.back /\ e.to = l.batch}
      /\ l.entries = {e \in g.edges : ~e.back /\ e.to = l.batch /\ e.from \notin l.members}
      /\ l.exits = {e \in g.edges : ~e.back /\ e.from \in l.members /\ e.to \notin l.members}
  BY <1>1, <1>2 DEF LoopAt, Component
<1>4. l.members \subseteq NodesOf(g)
  <2>1. d.to \in NodesOf(g) /\ Sound(g)
    BY ExecutableSound
  <2>2. Descendants(g, d.to) \subseteq NodesOf(g)
    BY <2>1, DescendantsClosed
  <2>3. QED BY <1>2, <1>3, <2>1, <2>2 DEF Component
<1>5. QED BY <1>1, <1>2, <1>3, <1>4

\* Two members of a loop reach each other.
LEMMA MembersMeet ==
  ASSUME NEW g, Executable(g), NEW l \in DeriveLoops(g), NEW m \in l.members
  PROVE  /\ m # l.batch => m \in Descendants(g, l.batch) /\ l.batch \in Descendants(g, m)
         /\ Descendants(g, m) = Descendants(g, l.batch)
<1>1. l.members = Component(g, l.batch) /\ Sound(g)
  BY LoopShape, ExecutableSound
<1>2. m # l.batch => m \in Descendants(g, l.batch) /\ l.batch \in Descendants(g, m)
  BY <1>1 DEF Component
<1>3. CASE m # l.batch
  <2>1. /\ Descendants(g, m) \subseteq Descendants(g, l.batch)
        /\ Descendants(g, l.batch) \subseteq Descendants(g, m)
    BY <1>1, <1>2, <1>3, DescendantsTransitive
  <2>2. QED BY <1>2, <2>1
<1>4. QED BY <1>2, <1>3

\* Whatever descends from a batch node that descends from it is in the batch node's loop.
LEMMA MemberIf ==
  ASSUME NEW g, Executable(g), NEW l \in DeriveLoops(g), NEW m,
         m \in Descendants(g, l.batch), l.batch \in Descendants(g, m)
  PROVE  m \in l.members
BY LoopShape DEF Component

\* A loop of a validated graph has one batch node, with a batch size, and no trigger.
LEMMA HeadKind ==
  ASSUME NEW g, Executable(g), NEW l \in DeriveLoops(g)
  PROVE  /\ g.kind[l.batch] = "batch" /\ g.batch[l.batch] >= 1 /\ g.batch[l.batch] \in Nat
         /\ \A m \in l.members : g.kind[m] # "trigger"
         /\ \A m \in l.members \ {l.batch} : g.kind[m] # "batch"
BY LoopShape DEF Executable, IsGraph, ValidateExecutableGraph, ValidateLoops, LoopsAreHeaded

\* Loops that share a node are one.
LEMMA LoopsApart ==
  ASSUME NEW g, Executable(g), NEW l \in DeriveLoops(g), NEW k \in DeriveLoops(g),
         NEW n \in l.members, n \in k.members
  PROVE  l = k
<1>1. Sound(g)
  BY ExecutableSound
<1>2. Descendants(g, l.batch) = Descendants(g, k.batch)
  BY MembersMeet
<1>4. l.batch \in k.members
  <2>1. CASE l.batch = k.batch
    BY <2>1, LoopShape
  <2>2. CASE l.batch # k.batch
    <3>1. n # l.batch \/ n # k.batch
      BY <2>2
    <3>2. l.batch \in Descendants(g, k.batch) /\ k.batch \in Descendants(g, l.batch)
      <4>1. CASE n = l.batch
        BY <3>1, <4>1, <1>2, MembersMeet
      <4>2. CASE n = k.batch
        BY <3>1, <4>2, <1>2, MembersMeet
      <4>3. CASE n # l.batch /\ n # k.batch
        <5>1. l.batch \in Descendants(g, n) /\ k.batch \in Descendants(g, n)
          BY <4>3, MembersMeet
        <5>2. Descendants(g, n) = Descendants(g, l.batch)
          BY MembersMeet
        <5>3. QED BY <5>1, <5>2, <1>2
      <4>4. QED BY <4>1, <4>2, <4>3
    <3>3. QED BY <3>2, MemberIf
  <2>3. QED BY <2>1, <2>2
<1>5. l.batch = k.batch
  BY <1>4, HeadKind
<1>6. QED BY <1>5, LoopShape

\* A node of a validated graph is in one loop at most.
LEMMA LoopsWithOne ==
  ASSUME NEW g, Executable(g), NEW l \in DeriveLoops(g), NEW n
  PROVE  n \in l.members => LoopsWith(DeriveLoops(g), n) = {l}
BY LoopsApart DEF LoopsWith

\* The back-edges of a loop: one, from a member to the head.
LEMMA BackEdges ==
  ASSUME NEW g, Executable(g), NEW l \in DeriveLoops(g)
  PROVE  \E r \in g.edges :
           /\ l.backs = {r} /\ r.back /\ r.to = l.batch /\ r.from \in l.members
           /\ \A e \in g.edges : e.back /\ (e.from \in l.members \/ e.to \in l.members) => e = r
<1>1. PICK r \in g.edges : r.back /\ r.to = l.batch
  BY LoopShape
<1>2. r \in l.backs /\ l.backs \in SUBSET g.edges /\ IsFiniteSet(g.edges)
  BY <1>1, LoopShape DEF Executable, IsGraph
<1>3. IsFiniteSet(l.backs) /\ Cardinality(l.backs) \in Nat /\ Cardinality(l.backs) <= 1
  BY <1>2, FS_Subset, FS_CardinalityType DEF Executable, ValidateExecutableGraph, ValidateLoops,
    ReturnsAreSingle
<1>4. Cardinality(l.backs) # 0
  BY <1>2, <1>3, FS_EmptySet
<1>5. Cardinality(l.backs) = 1
  BY <1>3, <1>4
<1>6. l.backs = {r}
  BY <1>2, <1>3, <1>5, FS_Singleton
<1>7. \A k \in DeriveLoops(g) : \A e \in k.backs : e.from \in k.members
  BY DEF Executable, ValidateExecutableGraph, ValidateLoops, ReturnsAreSingle
<1>8. ASSUME NEW e \in g.edges, e.back, e.from \in l.members \/ e.to \in l.members PROVE e = r
  <2> DEFINE k == LoopAt(g, e.to)
  <2>1. k \in DeriveLoops(g) /\ k.batch = e.to
    BY <1>8 DEF DeriveLoops, LoopAt
  <2> HIDE DEF k
  <2>2. e \in k.backs /\ e.to \in k.members
    BY <1>8, <2>1, LoopShape
  <2>3. e.from \in k.members
    BY <1>7, <2>1, <2>2
  <2>4. k = l
    BY <1>8, <2>1, <2>2, <2>3, LoopsApart
  <2>5. QED BY <1>6, <2>2, <2>4
<1>9. QED BY <1>1, <1>2, <1>6, <1>7, <1>8

\* What holds of the head, and is handed on along forward edges inside the
\* loop, holds of every member.
LEMMA LoopForward ==
  ASSUME NEW g, Executable(g), NEW l \in DeriveLoops(g), NEW S, l.batch \in S,
         \A e \in g.edges : ~e.back /\ e.from \in S /\ e.from \in l.members /\ e.to \in l.members => e.to \in S
  PROVE  l.members \subseteq S
<1> DEFINE C == {n \in Descendants(g, l.batch) \cup {l.batch} : n \in l.members => n \in S}
<1>1. Sound(g)
  BY ExecutableSound
<1>2. Closed(g, C)
  <2>1. SUFFICES ASSUME NEW e \in g.edges, e.from \in C PROVE e.to \in C
    BY DEF Closed
  <2>2. e.to \in Descendants(g, l.batch)
    BY <1>1, <2>1, EdgeDescends, DescendantsTransitive
  <2>3. ASSUME e.to \in l.members PROVE e.to \in S
    <3>1. e.from \in l.members
      <4>1. e.to = l.batch \/ l.batch \in Descendants(g, e.to)
        BY <2>3, MembersMeet
      <4>2. l.batch \in Descendants(g, e.from)
        BY <1>1, <4>1, EdgeDescends
      <4>3. e.from = l.batch \/ e.from \in Descendants(g, l.batch)
        BY <2>1
      <4>4. QED BY <4>2, <4>3, MemberIf, LoopShape
    <3>2. e.from \in S
      BY <2>1, <3>1
    <3>3. CASE e.back
      BY <2>3, <3>3, BackEdges
    <3>4. CASE ~e.back
      BY <2>3, <3>1, <3>2, <3>4
    <3>5. QED BY <3>3, <3>4
  <2>4. QED BY <2>2, <2>3
<1>3. Successors(g, {l.batch}) \subseteq C
  BY <1>2, LoopShape DEF Successors, Closed
<1>4. Descendants(g, l.batch) \subseteq C
  BY <1>1, <1>2, <1>3, DescendantsLeast
<1>5. QED BY <1>4, MembersMeet
\* The forward edges at a loop: inside it, out of its head's done slot, and
\* into its head from outside.
LEMMA LoopEdges ==
  ASSUME NEW g, Executable(g), NEW l \in DeriveLoops(g), NEW e \in g.edges
  PROVE  /\ ~e.back /\ e.from \in l.members /\ e.to \notin l.members => e.from = l.batch /\ e.out = 0
         /\ ~e.back /\ e.to \in l.members => (e.to = l.batch <=> e.from \notin l.members)
         /\ e.from = l.batch => (e.out = 0 <=> e.to \notin l.members) /\ e.out \in {0, 1}
<1>1. /\ \A d \in l.exits : d.from = l.batch /\ d.out = 0
      /\ \A d \in g.edges : d.from = l.batch /\ d.out = 0 => d.to \notin l.members
      /\ \A d \in g.edges : ~d.back /\ d.to \in l.members \ {l.batch} => d.from \in l.members
  BY DEF Executable, ValidateExecutableGraph, ValidateLoops, LoopBoundaryOK
<1>2. \A d \in g.edges : d.from = l.batch => d.out \in {0, 1}
  BY DEF Executable, ValidateExecutableGraph, ValidateLoops, BatchSlotsOK
<1>3. ASSUME ~e.back, e.from \in l.members, e.to \notin l.members PROVE e \in l.exits
  BY <1>3, LoopShape
<1>4. ASSUME ~e.back, e.from \in l.members, e.to = l.batch PROVE FALSE
  <2> DEFINE S == {m \in l.members : m = l.batch \/ Rank(g, m) < Rank(g, l.batch)}
  <2>1. l.batch \in S
    BY LoopShape
  <2>2. ASSUME NEW d \in g.edges, ~d.back, d.from \in S, d.to \in l.members PROVE d.to \in S
    <3>1. Rank(g, d.to) < Rank(g, d.from)
      BY <2>2, ForwardEdgesDescend
    <3>2. Rank(g, d.to) \in Nat /\ Rank(g, d.from) \in Nat /\ Rank(g, l.batch) \in Nat
      BY RankBounded
    <3>3. QED BY <2>2, <3>1, <3>2
  <2>3. l.members \subseteq S
    <3> HIDE DEF S
    <3>1. QED BY <2>1, <2>2, LoopForward
  <2>4. Rank(g, l.batch) < Rank(g, e.from)
    BY <1>4, ForwardEdgesDescend
  <2>5. Rank(g, e.from) \in Nat /\ Rank(g, l.batch) \in Nat
    BY RankBounded
  <2>6. QED BY <1>4, <2>3, <2>4, <2>5
<1>5. CASE e.back /\ e.from = l.batch
  BY <1>1, <1>2, <1>5, BackEdges, LoopShape
<1>6. CASE ~e.back
  BY <1>1, <1>2, <1>3, <1>4, <1>6, LoopShape
<1>7. CASE e.back /\ e.from # l.batch
  BY <1>7
<1>8. QED BY <1>5, <1>6, <1>7

\* What holds of the member that returns, and is handed back along the edges
\* inside the loop, holds of every member.
LEMMA LoopBackward ==
  ASSUME NEW g, Executable(g), NEW l \in DeriveLoops(g), NEW S, S \subseteq l.members,
         \A e \in l.backs : e.from \in S,
         \A e \in g.edges : ~e.back /\ e.to \in S \ {l.batch} => e.from \in S
  PROVE  S = l.members
<1>1. PICK r \in g.edges : /\ l.backs = {r} /\ r.back /\ r.to = l.batch /\ r.from \in l.members
                           /\ \A e \in g.edges : e.back /\ (e.from \in l.members \/ e.to \in l.members) => e = r
  BY BackEdges
<1>2. Sound(g)
  BY ExecutableSound
<1>3. l.batch \in S
  <2>1. SUFFICES ASSUME l.batch \notin S PROVE FALSE
    OBVIOUS
  <2>2. PICK m \in S : \A e \in g.edges : ~e.back /\ e.to = m => e.from \notin S
    BY <1>1, ForwardFirst
  <2>3. m \in l.members /\ m # l.batch /\ m \in Descendants(g, l.batch)
    BY <2>1, MembersMeet
  <2>4. PICK e \in g.edges : e.to = m
    <3> DEFINE C == {n \in NodesOf(g) : n # m}
    <3>1. SUFFICES ASSUME \A e \in g.edges : e.to # m PROVE FALSE
      OBVIOUS
    <3>2. Closed(g, C) /\ Successors(g, {l.batch}) \subseteq C
      BY <3>1, ExecutableSound DEF Closed, Successors
    <3>3. Descendants(g, l.batch) \subseteq C
      BY <1>2, <3>2, DescendantsLeast
    <3>4. QED BY <2>3, <3>3
  <2>5. ~e.back
    BY <1>1, <2>3, <2>4
  <2>6. e.from \in S
    BY <2>1, <2>4, <2>5
  <2>7. QED BY <2>2, <2>4, <2>5, <2>6
<1>4. SUFFICES ASSUME NEW m \in l.members, m \notin S PROVE FALSE
  OBVIOUS
<1>5. m # l.batch /\ l.batch \in Descendants(g, m)
  BY <1>3, <1>4, MembersMeet
<1> DEFINE C == {n \in Descendants(g, m) : n \notin S}
<1>6. ASSUME NEW e \in g.edges, e.from \in C \cup {m} PROVE e.to \in C
  <2>1. e.to \in Descendants(g, m)
    BY <1>2, <1>6, EdgeDescends, DescendantsTransitive
  <2>2. ASSUME e.to \in S PROVE FALSE
    <3>1. e.to \in l.members
      BY <2>2
    <3>2. e.from \notin S
      BY <1>4, <1>6
    <3>3. e.from \in l.members
      <4>1. e.to = l.batch \/ l.batch \in Descendants(g, e.to)
        BY <3>1, MembersMeet
      <4>2. l.batch \in Descendants(g, e.from)
        BY <1>2, <4>1, EdgeDescends
      <4>3. e.from = m \/ e.from \in Descendants(g, m)
        BY <1>6
      <4>4. e.from \in Descendants(g, l.batch)
        BY <4>3, <1>5, MembersMeet
      <4>5. QED BY <4>2, <4>4, MemberIf
    <3>4. CASE e.back
      BY <1>1, <3>1, <3>2, <3>4
    <3>5. CASE ~e.back /\ e.to # l.batch
      BY <2>2, <3>2, <3>5
    <3>6. CASE ~e.back /\ e.to = l.batch
      BY <3>1, <3>3, <3>6, LoopEdges
    <3>7. QED BY <3>4, <3>5, <3>6
  <2>3. QED BY <2>1, <2>2
<1>7. Closed(g, C) /\ Successors(g, {m}) \subseteq C
  BY <1>6 DEF Closed, Successors
<1>8. Descendants(g, m) \subseteq C
  BY <1>2, <1>7, DescendantsLeast
<1>9. QED BY <1>3, <1>5, <1>8
InLoop(g, n) == \E l \in DeriveLoops(g) : n \in l.members

\* What an edge's class says of its ends.
LEMMA EdgeClasses ==
  ASSUME NEW g, Executable(g), NEW e \in g.edges
  PROVE  LET class == ClassifyEdge(e, DeriveLoops(g)) IN
         /\ class \in {"back", "intra", "exit", "entry", "plain"}
         /\ class = "back" <=> e.back
         /\ class = "back" => \E l \in DeriveLoops(g) :
              l.backs = {e} /\ e.to = l.batch /\ e.from \in l.members
         /\ class = "intra" => \E l \in DeriveLoops(g) :
              e.from \in l.members /\ e.to \in l.members \ {l.batch}
         /\ class = "exit" => \E l \in DeriveLoops(g) :
              e.from = l.batch /\ e.to \notin l.members /\ e.out = 0
         /\ class = "entry" => ~InLoop(g, e.from) /\ InLoop(g, e.to)
         /\ class \in {"entry", "exit"} => \A l \in DeriveLoops(g) : e.to \in l.members => e.to = l.batch
         /\ class = "plain" => ~InLoop(g, e.from) /\ ~InLoop(g, e.to)
<1> DEFINE loops2 == DeriveLoops(g)
<1> DEFINE source == LoopsWith(loops2, e.from)
<1> DEFINE target == LoopsWith(loops2, e.to)
<1>1. e.back \in BOOLEAN
  BY DEF Executable, IsGraph
<1>2. /\ source = {} <=> ~InLoop(g, e.from)
      /\ target = {} <=> ~InLoop(g, e.to)
      /\ \A l \in loops2 : (e.from \in l.members <=> source = {l}) /\ (e.to \in l.members <=> target = {l})
  BY LoopsWithOne DEF InLoop, LoopsWith
<1>3. CASE e.back
  <2>1. ClassifyEdge(e, loops2) = "back"
    BY <1>3 DEF ClassifyEdge
  <2> DEFINE k == LoopAt(g, e.to)
  <2>2. k \in loops2 /\ k.batch = e.to
    BY <1>3 DEF DeriveLoops, LoopAt
  <2> HIDE DEF k
  <2>3. e \in k.backs
    BY <1>3, <2>2, LoopShape
  <2>4. k.backs = {e} /\ e.from \in k.members
    BY <2>2, <2>3, BackEdges
  <2>5. QED BY <1>3, <2>1, <2>2, <2>4
<1>4. CASE ~e.back /\ source # {} /\ source = target
  <2>1. ClassifyEdge(e, loops2) = "intra"
    BY <1>4 DEF ClassifyEdge
  <2>2. PICK l \in loops2 : e.from \in l.members /\ e.to \in l.members
    BY <1>4, <1>2 DEF InLoop
  <2>3. e.to # l.batch
    BY <1>4, <2>2, LoopEdges
  <2>4. QED BY <1>4, <2>1, <2>2, <2>3
<1>5. CASE ~e.back /\ source # {} /\ source # target
  <2>1. ClassifyEdge(e, loops2) = "exit"
    BY <1>5 DEF ClassifyEdge
  <2>2. PICK l \in loops2 : e.from \in l.members
    BY <1>5, <1>2 DEF InLoop
  <2>3. e.to \notin l.members
    BY <1>2, <1>5, <2>2
  <2>4. e.from = l.batch /\ e.out = 0
    BY <1>5, <2>2, <2>3, LoopEdges
  <2>5. ASSUME NEW k \in loops2, e.to \in k.members PROVE e.to = k.batch
    <3>1. e.from \notin k.members
      BY <1>2, <2>2, <2>3, <2>5
    <3>2. QED BY <1>5, <2>5, <3>1, LoopEdges
  <2>6. QED BY <1>5, <2>1, <2>2, <2>3, <2>4, <2>5
<1>6. CASE ~e.back /\ source = {} /\ target # {}
  <2>1. ClassifyEdge(e, loops2) = "entry"
    BY <1>6 DEF ClassifyEdge
  <2>2. ~InLoop(g, e.from) /\ InLoop(g, e.to)
    BY <1>2, <1>6
  <2>3. ASSUME NEW k \in loops2, e.to \in k.members PROVE e.to = k.batch
    BY <1>6, <2>2, <2>3, LoopEdges DEF InLoop
  <2>4. QED BY <1>6, <2>1, <2>2, <2>3
<1>7. CASE ~e.back /\ source = {} /\ target = {}
  <2>1. ClassifyEdge(e, loops2) = "plain"
    BY <1>7 DEF ClassifyEdge
  <2>2. QED BY <1>2, <1>7, <2>1
<1>8. QED BY <1>1, <1>3, <1>4, <1>5, <1>6, <1>7

-----------------------------------------------------------------------------
\* A validated graph has one trigger, outside every loop.
LEMMA TriggerFacts ==
  ASSUME NEW g, Executable(g)
  PROVE  /\ TriggerOf(g) \in NodesOf(g) /\ g.kind[TriggerOf(g)] = "trigger"
         /\ \A n \in NodesOf(g) : g.kind[n] = "trigger" => n = TriggerOf(g)
         /\ ~InLoop(g, TriggerOf(g))
<1>1. Cardinality(NodesOfKind(g, "trigger")) = 1 /\ IsFiniteSet(NodesOf(g))
  BY DEF Executable, IsGraph, ValidateExecutableGraph
<1>2. NodesOfKind(g, "trigger") \in SUBSET NodesOf(g)
  BY DEF NodesOfKind
<1>3. PICK n : NodesOfKind(g, "trigger") = {n}
  BY <1>1, <1>2, FS_Subset, FS_Singleton
<1>4. n \in NodesOf(g) /\ g.kind[n] = "trigger" /\ \A m \in NodesOf(g) : g.kind[m] = "trigger" => m = n
  BY <1>3 DEF NodesOfKind
<1>5. TriggerOf(g) = n
  BY <1>4 DEF TriggerOf
<1>6. ~InLoop(g, n)
  BY <1>4, HeadKind DEF InLoop
<1>7. QED BY <1>4, <1>5, <1>6

\* An edge of a validated graph joins two nodes that are reachable, or two that are not.
LEMMA ReachableEdges ==
  ASSUME NEW g, Executable(g), NEW e \in g.edges
  PROVE  e.from \in ReachableNodes(g) <=> e.to \in ReachableNodes(g)
<1>1. e.from \in ReachableNodes(g) => e.to \in ReachableNodes(g)
  BY ExecutableSound, DescendantsClosed, EdgeDescends DEF ReachableNodes, Closed
<1>2. e.to \in ReachableNodes(g) => e.from \in ReachableNodes(g)
  BY DEF Executable, ValidateExecutableGraph, ReachableClosed
<1>3. QED BY <1>1, <1>2

\* Members of a loop are reachable together.
LEMMA ReachableMembers ==
  ASSUME NEW g, Executable(g), NEW l \in DeriveLoops(g), NEW m \in l.members
  PROVE  m \in ReachableNodes(g) <=> l.batch \in ReachableNodes(g)
<1> DEFINE S == {n \in l.members : n \in ReachableNodes(g) <=> l.batch \in ReachableNodes(g)}
<1>1. l.members \subseteq S
  <2>1. l.batch \in S
    BY LoopShape
  <2>2. \A e \in g.edges : ~e.back /\ e.from \in S /\ e.from \in l.members /\ e.to \in l.members => e.to \in S
    BY ReachableEdges
  <2> HIDE DEF S
  <2>3. QED BY <2>1, <2>2, LoopForward
<1>2. QED BY <1>1

\* Whatever holds of the trigger and is handed on by every edge holds of every
\* reachable node.
LEMMA ReachableLeast ==
  ASSUME NEW g, Executable(g), NEW S, TriggerOf(g) \in S, Closed(g, S)
  PROVE  ReachableNodes(g) \subseteq S
BY ExecutableSound, DescendantsLeast DEF ReachableNodes, Successors, Closed

\* A reachable node but the trigger has an edge into it; no edge enters the trigger.
LEMMA ReachableEntered ==
  ASSUME NEW g, Executable(g), NEW n \in ReachableNodes(g), n # TriggerOf(g)
  PROVE  \E e \in g.edges : e.to = n
<1>1. SUFFICES ASSUME \A e \in g.edges : e.to # n PROVE FALSE
  OBVIOUS
<1> DEFINE S == {m \in ReachableNodes(g) : m # n}
<1>2. TriggerOf(g) \in S /\ Closed(g, S)
  BY <1>1, ReachableEdges DEF Closed, ReachableNodes
<1> HIDE DEF S
<1>3. ReachableNodes(g) \subseteq S
  BY <1>2, ReachableLeast
<1>4. QED BY <1>3 DEF S

\* The head of a reachable loop has an edge into it from outside.
LEMMA HeadEntered ==
  ASSUME NEW g, Executable(g), NEW l \in DeriveLoops(g), l.batch \in ReachableNodes(g)
  PROVE  \E e \in g.edges : ~e.back /\ e.to = l.batch /\ e.from \notin l.members
<1>1. SUFFICES ASSUME \A e \in g.edges : ~e.back /\ e.to = l.batch => e.from \in l.members PROVE FALSE
  OBVIOUS
<1> DEFINE S == {m \in ReachableNodes(g) : m \notin l.members}
<1>2. TriggerOf(g) \in S
  BY TriggerFacts DEF ReachableNodes, InLoop
<1>3. Closed(g, S)
  <2>1. SUFFICES ASSUME NEW e \in g.edges, e.from \in S PROVE e.to \in S
    BY DEF Closed
  <2>2. e.to \in ReachableNodes(g)
    BY <2>1, ReachableEdges
  <2>3. ASSUME e.to \in l.members PROVE FALSE
    <3>1. CASE e.back
      BY <2>1, <2>3, <3>1, BackEdges
    <3>2. CASE ~e.back
      BY <1>1, <2>1, <2>3, <3>2, LoopEdges
    <3>3. QED BY <3>1, <3>2
  <2>4. QED BY <2>2, <2>3
<1> HIDE DEF S
<1>4. ReachableNodes(g) \subseteq S
  BY <1>2, <1>3, ReachableLeast
<1>5. QED BY <1>4, LoopShape DEF S

\* No edge of a validated graph enters its trigger.
LEMMA TriggerNotEntered ==
  ASSUME NEW g, Executable(g), NEW e \in g.edges
  PROVE  e.to # TriggerOf(g)
<1>1. SUFFICES ASSUME e.to = TriggerOf(g) PROVE FALSE
  OBVIOUS
<1> DEFINE t == TriggerOf(g)
<1> DEFINE h == ForwardGraph(g)
<1>2. /\ Sound(g) /\ Sound(h) /\ h.edges = {d \in g.edges : ~d.back} /\ t \notin Descendants(h, t)
      /\ \A d \in g.edges : d.back \in BOOLEAN
  BY ExecutableSound DEF Executable, IsGraph
<1> HIDE DEF h
<1>3. ~e.back
  BY <1>1, EdgeClasses, LoopShape, TriggerFacts DEF InLoop
<1>4. e.from \in ReachableNodes(g)
  BY <1>1, ReachableEdges DEF ReachableNodes
<1> DEFINE S == {m \in ReachableNodes(g) : t \notin Descendants(h, m)}
<1>5. t \in S
  BY <1>2 DEF ReachableNodes
<1>6. Closed(g, S)
  <2>1. SUFFICES ASSUME NEW d \in g.edges, d.from \in S, t \in Descendants(h, d.to) PROVE FALSE
    BY ReachableEdges DEF Closed
  <2>2. CASE ~d.back
    BY <1>2, <2>1, <2>2, EdgeDescends
  <2>3. CASE d.back
    <3>1. PICK l \in DeriveLoops(g) : d.to = l.batch
      BY <2>3, EdgeClasses
    <3>2. t \in Descendants(g, l.batch)
      <4>1. Closed(h, Descendants(g, l.batch)) /\ Successors(h, {l.batch}) \subseteq Descendants(g, l.batch)
        BY <1>2, DescendantsClosed DEF Closed, Successors
      <4>2. QED BY <1>2, <2>1, <3>1, <4>1, DescendantsLeast
    <3>3. l.batch \in ReachableNodes(g) /\ l.batch # t
      BY <2>1, <3>1, ReachableEdges, LoopShape, TriggerFacts DEF InLoop
    <3>4. l.batch \in Descendants(g, t)
      BY <3>3 DEF ReachableNodes
    <3>5. t \in l.members
      BY <3>2, <3>4, MemberIf
    <3>6. QED BY <3>5, TriggerFacts DEF InLoop
  <2>4. QED BY <1>2, <2>2, <2>3
<1>7. ReachableNodes(g) \subseteq S
  <2> HIDE DEF S
  <2>1. QED BY <1>5, <1>6, ReachableLeast
<1>8. t \in Descendants(h, e.from)
  <2>1. e \in h.edges
    BY <1>2, <1>3
  <2>2. QED BY <1>1, <1>2, <2>1, EdgeDescends
<1>9. QED BY <1>4, <1>7, <1>8
-----------------------------------------------------------------------------
(***************************************************************************)
(* Which rows a step reads, and that what is read stays.                   *)
(***************************************************************************)
\* The last passes of the loops that ended, in a table of rows.
TermsOf(g, table) == LoadTerminalIterations(table, {l.batch : l \in DeriveLoops(g)})

ReadsOf(g, table, k) == SourcesOf(g, DeriveLoops(g), k, TermsOf(g, table))

SourceAt(g, e, k, terms) == SourceRow(e, ClassifyEdge(e, DeriveLoops(g)), k, terms)

\* One last pass of a loop at most.
OnePerLoop(terms) == \A j, k \in terms : j[1] = k[1] => j = k

\* A table has one terminal batch step for each batch node at most.
LEMMA TermsOnePerLoop ==
  ASSUME NEW g, NEW N, NEW table, DOMAIN table \subseteq N \X Nat
  PROVE  OnePerLoop(TermsOf(g, table))
<1>1. SUFFICES ASSUME NEW j \in TermsOf(g, table), NEW k \in TermsOf(g, table), j[1] = k[1]
               PROVE  j = k
  BY DEF OnePerLoop
<1>2. /\ j \in N \X Nat /\ k \in N \X Nat /\ j[2] <= k[2] /\ k[2] <= j[2]
  BY <1>1 DEF TermsOf, LoadTerminalIterations, IsLatestPass
<1>3. j[2] = k[2]
  BY <1>2
<1>4. QED BY <1>1, <1>2, <1>3

\* Which row an edge reads for a step, by the class of the edge: the previous pass
\* along a back edge, pass 0 into a loop, the terminal batch step out of one.
LEMMA SourceCases ==
  ASSUME NEW g, Executable(g), NEW e \in g.edges, NEW k, k[2] \in Nat, NEW terms
  PROVE  LET class == ClassifyEdge(e, DeriveLoops(g))
             src == SourceAt(g, e, k, terms)
             row(i) == [kind |-> "row", key |-> <<e.from, i>>]
         IN  /\ src.kind \in {"none", "pending", "row"}
             /\ src.kind = "pending" => class = "exit" /\ k[2] = 0 /\ \A t \in terms : t[1] # e.from
             /\ class = "back" => IF k[2] = 0 THEN src.kind = "none" ELSE src = row(k[2] - 1)
             /\ class = "entry" => IF k[2] > 0 THEN src.kind = "none" ELSE src = row(0)
             /\ class = "exit" /\ k[2] > 0 => src.kind = "none"
             /\ class = "exit" /\ k[2] = 0 =>
                  \/ src.kind = "pending"
                  \/ \E t \in terms : t[1] = e.from /\ src = [kind |-> "row", key |-> t]
             /\ class \in {"intra", "plain"} => src = row(k[2])
<1> DEFINE class == ClassifyEdge(e, DeriveLoops(g))
<1> DEFINE ended == {t \in terms : t[1] = e.from}
<1>1. class \in {"back", "intra", "exit", "entry", "plain"}
  BY EdgeClasses
<1> HIDE DEF class
<1>2. SourceAt(g, e, k, terms) =
        CASE class = "back" -> IF k[2] = 0 THEN [kind |-> "none", key |-> k]
                               ELSE [kind |-> "row", key |-> <<e.from, k[2] - 1>>]
          [] class = "entry" -> IF k[2] > 0 THEN [kind |-> "none", key |-> k]
                                ELSE [kind |-> "row", key |-> <<e.from, 0>>]
          [] class = "exit" -> IF k[2] > 0 THEN [kind |-> "none", key |-> k]
                               ELSE IF ended = {} THEN [kind |-> "pending", key |-> k]
                               ELSE [kind |-> "row", key |-> CHOOSE t \in ended : TRUE]
          [] OTHER -> [kind |-> "row", key |-> <<e.from, k[2]>>]
  BY DEF SourceAt, SourceRow, class
<1>3. CASE class = "back"
  BY <1>2, <1>3 DEF class
<1>4. CASE class = "entry"
  BY <1>2, <1>4 DEF class
<1>5. CASE class = "exit"
  <2>1. CASE k[2] > 0
    <3>1. k[2] # 0
      BY <2>1
    <3>2. SourceAt(g, e, k, terms) = [kind |-> "none", key |-> k]
      BY <1>2, <1>5, <2>1
    <3>3. QED BY <1>5, <2>1, <3>1, <3>2 DEF class
  <2>2. CASE k[2] = 0 /\ ended = {}
    BY <1>2, <1>5, <2>2 DEF class
  <2>3. CASE k[2] = 0 /\ ended # {}
    <3> DEFINE t == CHOOSE t \in ended : TRUE
    <3>1. t \in ended
      BY <2>3
    <3>2. SourceAt(g, e, k, terms) = [kind |-> "row", key |-> t]
      BY <1>2, <1>5, <2>3
    <3> HIDE DEF t
    <3>3. QED BY <1>5, <2>3, <3>1, <3>2 DEF class
  <2>4. QED BY <2>1, <2>2, <2>3
<1>6. CASE class \in {"intra", "plain"}
  <2>1. class # "back" /\ class # "entry" /\ class # "exit"
    BY <1>6
  <2>2. SourceAt(g, e, k, terms) = [kind |-> "row", key |-> <<e.from, k[2]>>]
    BY <1>2, <2>1
  <2>3. QED BY <1>6, <2>1, <2>2 DEF class
<1>7. QED BY <1>1, <1>3, <1>4, <1>5, <1>6 DEF class

\* A step reads its sources as the whole ledger has them: the loops it asks
\* about are the ones it has an exit from.
LEMMA StepReadsAll ==
  ASSUME NEW g, Executable(g), NEW table, NEW k, k[2] \in Nat
  PROVE  StepReads(g, DeriveLoops(g), table, k) = ReadsOf(g, table, k)
<1> DEFINE L == DeriveLoops(g)
<1> DEFINE some == LoadTerminalIterations(table, ExitSourcesInto(g, L, {k[1]}))
<1> DEFINE all == TermsOf(g, table)
<1>1. ASSUME NEW e \in Incoming(g, k[1])
      PROVE  SourceRow(e, ClassifyEdge(e, L), k, some) = SourceRow(e, ClassifyEdge(e, L), k, all)
  <2>1. e \in g.edges /\ e.to = k[1]
    BY DEF Incoming
  <2>2. CASE ClassifyEdge(e, L) = "exit"
    <3>1. e.from \in ExitSourcesInto(g, L, {k[1]})
      BY <2>1, <2>2 DEF ExitSourcesInto
    <3>2. e.from \in {l.batch : l \in L}
      BY <2>1, <2>2, EdgeClasses
    <3>3. {t \in some : t[1] = e.from} = {t \in all : t[1] = e.from}
      BY <3>1, <3>2 DEF LoadTerminalIterations, TermsOf
    <3> HIDE DEF some, all
    <3>4. QED BY <2>2, <3>3 DEF SourceRow
  <2>3. CASE ClassifyEdge(e, L) # "exit"
    BY <2>3 DEF SourceRow
  <2>4. QED BY <2>2, <2>3
<1> HIDE DEF some, all
<1>2. SourcesOf(g, L, k, some) = SourcesOf(g, L, k, all)
  BY <1>1 DEF SourcesOf
<1>3. QED BY <1>2 DEF StepReads, ReadsOf, some, all

\* What a step reads, edge by edge.
LEMMA ReadsAre ==
  ASSUME NEW g, NEW table, NEW k, NEW s
  PROVE  s \in ReadsOf(g, table, k) <=>
           \E e \in g.edges : /\ e.to = k[1]
                              /\ s = [edge |-> e, src |-> SourceAt(g, e, k, TermsOf(g, table))]
                              /\ s.src.kind # "none"
BY DEF ReadsOf, SourcesOf, SourceAt, Incoming

-----------------------------------------------------------------------------
Decided(table, s) == ~SourceUnsettled(s, table)

\* Nothing a later table changes can be seen by a step whose sources settled.
Continues(g, table, next) ==
  /\ DOMAIN table \subseteq DOMAIN next
  /\ \A k \in DOMAIN table : IsSettled(table[k]) => next[k] = table[k]
  /\ TermsOf(g, table) \subseteq TermsOf(g, next)

\* When the rows a step reads are all decided, it reads the same rows in every later
\* table.
LEMMA ReadsStay ==
  ASSUME NEW g, Executable(g), NEW table, NEW next, Continues(g, table, next),
         NEW N, DOMAIN next \subseteq N \X Nat, NEW k, k[2] \in Nat,
         \A s \in ReadsOf(g, table, k) : Decided(table, s)
  PROVE  /\ ReadsOf(g, next, k) = ReadsOf(g, table, k)
         /\ \A s \in ReadsOf(g, table, k) :
              Decided(next, s) /\ s.src.key \in DOMAIN table /\ next[s.src.key] = table[s.src.key]
<1> DEFINE L == DeriveLoops(g)
<1> DEFINE now == TermsOf(g, table)
<1> DEFINE later == TermsOf(g, next)
<1>1. OnePerLoop(later) /\ now \subseteq later
  BY TermsOnePerLoop DEF Continues
<1>2. ASSUME NEW e \in g.edges, e.to = k[1] PROVE SourceAt(g, e, k, now) = SourceAt(g, e, k, later)
  <2>1. CASE ClassifyEdge(e, L) = "exit" /\ k[2] = 0
    <3> DEFINE s == [edge |-> e, src |-> SourceAt(g, e, k, now)]
    <3>1. s.src.kind # "pending"
      <4>1. ASSUME s.src.kind = "pending" PROVE FALSE
        <5>1. s \in ReadsOf(g, table, k)
          BY <1>2, <4>1, ReadsAre
        <5>2. QED BY <4>1, <5>1 DEF Decided, SourceUnsettled
      <4>2. QED BY <4>1
    <3>2. PICK t \in now : t[1] = e.from /\ SourceAt(g, e, k, now) = [kind |-> "row", key |-> t]
      BY <2>1, <3>1, SourceCases
    <3>3. t \in later
      BY <1>1
    <3>4. SourceAt(g, e, k, later).kind # "pending"
      BY <3>2, <3>3, SourceCases
    <3>5. PICK u \in later : u[1] = e.from /\ SourceAt(g, e, k, later) = [kind |-> "row", key |-> u]
      BY <2>1, <3>4, SourceCases
    <3>6. u = t
      BY <1>1, <3>2, <3>3, <3>5 DEF OnePerLoop
    <3>7. QED BY <3>2, <3>5, <3>6
  <2>2. CASE ~(ClassifyEdge(e, L) = "exit" /\ k[2] = 0)
    BY <2>2 DEF SourceAt, SourceRow
  <2>3. QED BY <2>1, <2>2
<1> HIDE DEF now, later
<1>3. ReadsOf(g, next, k) = ReadsOf(g, table, k)
  <2>1. \A s : s \in ReadsOf(g, next, k) <=> s \in ReadsOf(g, table, k)
    BY <1>2, ReadsAre DEF now, later
  <2>2. QED BY <2>1
<1>4. QED BY <1>3 DEF Continues, Decided, SourceUnsettled
-----------------------------------------------------------------------------
(***************************************************************************)
(* What a settlement decides, and the invariant of the table of rows.      *)
(***************************************************************************)
Outputs == [OutputSlots -> Values]

TableOK(g, t) ==
  /\ t = [k \in DOMAIN t |-> t[k]] /\ IsFiniteSet(DOMAIN t)
  /\ DOMAIN t \subseteq NodesOf(g) \X Nat
  /\ \A k \in DOMAIN t : /\ t[k] \in [status : StepStatuses, outputs : Outputs]
                         /\ t[k].status # "completed" => t[k].outputs = NoOutputs

KeysOK(g, t) ==
  \A k \in DOMAIN t :
    /\ k[1] \in ReachableNodes(g)
    /\ k[1] = TriggerOf(g) => k[2] = 0 /\ t[k].status = "completed"
    /\ ~InLoop(g, k[1]) => k[2] = 0

LoopOK(t, l) ==
  \A k \in DOMAIN t :
    /\ k[1] \in l.members => \A i \in 0..k[2] : <<l.batch, i>> \in DOMAIN t
    /\ k[1] = l.batch /\ k[2] > 0 =>
         /\ Filled(t[<<l.batch, k[2] - 1>>], LoopSlot)
         /\ \A m \in l.members : <<m, k[2] - 1>> \in DOMAIN t /\ IsSettled(t[<<m, k[2] - 1>>])
    /\ k[1] \in l.members \ {l.batch} => Filled(t[<<l.batch, k[2]>>], LoopSlot)

LoopsOK(g, t) == \A l \in DeriveLoops(g) : LoopOK(t, l)

\* The fate of a row is the one its sources call for.
Justified(g, t, k) ==
  LET reads == ReadsOf(g, t, k)
      live == {s \in reads : IsLive(t[s.src.key], s.edge)}
  IN  /\ reads # {}
      /\ \A s \in reads : Decided(t, s)
      /\ IF t[k].status = "skipped" THEN live = {} ELSE live # {}

FatesOK(g, t) == \A k \in DOMAIN t : k[1] # TriggerOf(g) => Justified(g, t, k)

GoodTable(g, t) == TableOK(g, t) /\ KeysOK(g, t) /\ LoopsOK(g, t) /\ FatesOK(g, t)

\* Only a completed row fills a slot.
LEMMA FilledSettled ==
  ASSUME NEW g, NEW t, TableOK(g, t), NEW k \in DOMAIN t, NEW slot, Filled(t[k], slot)
  PROVE  t[k].status = "completed" /\ IsSettled(t[k])
BY DEF TableOK, Filled, NoOutputs, IsSettled, SettledStatuses

\* A terminal batch step is the settled, latest row of its batch node, without a slice.
LEMMA TerminalUnfilled ==
  ASSUME NEW g, NEW t, NEW k, k \in TermsOf(g, t)
  PROVE  /\ k \in DOMAIN t /\ IsSettled(t[k]) /\ ~Filled(t[k], LoopSlot)
         /\ \A j \in DOMAIN t : j[1] = k[1] => j[2] <= k[2]
         /\ \E l \in DeriveLoops(g) : k[1] = l.batch
BY DEF TermsOf, LoadTerminalIterations, IsTerminalStep, IsLatestPass

-----------------------------------------------------------------------------
PlanAt(g, t, s) == DecideSuccessors(g, DeriveLoops(g), s, t, TermsOf(g, t))

\* What a decision rests on.
LEMMA PlanFacts ==
  ASSUME NEW g, Executable(g), NEW t, NEW s, NEW k \in PlanAt(g, t, s).toQueue \cup PlanAt(g, t, s).toSkip
  PROVE  /\ k \notin DOMAIN t
         /\ \E e \in g.edges :
              /\ e.from = s[1] /\ k = TargetKey(e, ClassifyEdge(e, DeriveLoops(g)), s)
              /\ \A l \in DeriveLoops(g) : l.batch = s[1] =>
                   (IsTerminalStep(t[s]) <=> ClassifyEdge(e, DeriveLoops(g)) = "exit")
         /\ ~IsPastLoopEnd(DeriveLoops(g), k, t)
         /\ ReadsOf(g, t, k) # {}
         /\ \A r \in ReadsOf(g, t, k) : Decided(t, r)
         /\ k \in PlanAt(g, t, s).toQueue <=>
              \E r \in ReadsOf(g, t, k) : IsLive(t[r.src.key], r.edge)
<1> DEFINE L == DeriveLoops(g)
<1> DEFINE cands == {TargetKey(e, ClassifyEdge(e, L), s) : e \in EdgesDecided(g, L, s, t)} \ DOMAIN t
<1> DEFINE fate(j) == DecideNodeFate(g, L, j, t, TermsOf(g, t))
<1>1. /\ PlanAt(g, t, s).toQueue = {j \in cands : fate(j) = "queued"}
      /\ PlanAt(g, t, s).toSkip = {j \in cands : fate(j) = "skipped"}
  BY DEF PlanAt, DecideSuccessors
<1>2. k \in cands /\ (k \in PlanAt(g, t, s).toQueue <=> fate(k) = "queued") /\ fate(k) \in {"queued", "skipped"}
  BY <1>1
<1>3. PICK e \in EdgesDecided(g, L, s, t) : k = TargetKey(e, ClassifyEdge(e, L), s)
  BY <1>2
<1>4. /\ e \in g.edges /\ e.from = s[1]
      /\ \A l \in L : l.batch = s[1] => (IsTerminalStep(t[s]) <=> ClassifyEdge(e, L) = "exit")
  BY <1>3 DEF EdgesDecided, Outgoing
<1> HIDE DEF cands
<1>5. fate(k) = IF IsPastLoopEnd(L, k, t) \/ ReadsOf(g, t, k) = {} THEN "outside"
                ELSE IF \E r \in ReadsOf(g, t, k) : SourceUnsettled(r, t) THEN "undecidable"
                ELSE IF \E r \in ReadsOf(g, t, k) : IsLive(t[r.src.key], r.edge) THEN "queued"
                ELSE "skipped"
  BY DEF DecideNodeFate, ReadsOf
<1> HIDE DEF fate
<1>6. /\ ~IsPastLoopEnd(L, k, t) /\ ReadsOf(g, t, k) # {}
      /\ \A r \in ReadsOf(g, t, k) : Decided(t, r)
      /\ fate(k) = "queued" <=> \E r \in ReadsOf(g, t, k) : IsLive(t[r.src.key], r.edge)
  BY <1>2, <1>5 DEF Decided
<1>7. QED BY <1>2, <1>3, <1>4, <1>6 DEF cands

\* What the settlement of s decides, given the whole table.
DecidedBy(g, t, s) == PlanAt(g, t, s).toQueue \cup PlanAt(g, t, s).toSkip

\* A decision rests on nothing else.
LEMMA PlannedIf ==
  ASSUME NEW g, NEW t, NEW e \in g.edges, NEW s, s[1] = e.from,
         NEW k, k = TargetKey(e, ClassifyEdge(e, DeriveLoops(g)), s), k \notin DOMAIN t,
         \A l \in DeriveLoops(g) : l.batch = s[1] =>
           (IsTerminalStep(t[s]) <=> ClassifyEdge(e, DeriveLoops(g)) = "exit"),
         ~IsPastLoopEnd(DeriveLoops(g), k, t),
         ReadsOf(g, t, k) # {},
         \A r \in ReadsOf(g, t, k) : Decided(t, r)
  PROVE  k \in DecidedBy(g, t, s)
<1> DEFINE L == DeriveLoops(g)
<1> DEFINE cands == {TargetKey(d, ClassifyEdge(d, L), s) : d \in EdgesDecided(g, L, s, t)} \ DOMAIN t
<1> DEFINE fate(j) == DecideNodeFate(g, L, j, t, TermsOf(g, t))
<1>1. e \in EdgesDecided(g, L, s, t)
  BY DEF EdgesDecided, Outgoing
<1>2. k \in cands
  BY <1>1
<1>3. /\ PlanAt(g, t, s).toQueue = {j \in cands : fate(j) = "queued"}
      /\ PlanAt(g, t, s).toSkip = {j \in cands : fate(j) = "skipped"}
  BY DEF PlanAt, DecideSuccessors
<1>4. fate(k) = IF IsPastLoopEnd(L, k, t) \/ ReadsOf(g, t, k) = {} THEN "outside"
                ELSE IF \E r \in ReadsOf(g, t, k) : SourceUnsettled(r, t) THEN "undecidable"
                ELSE IF \E r \in ReadsOf(g, t, k) : IsLive(t[r.src.key], r.edge) THEN "queued"
                ELSE "skipped"
  BY DEF DecideNodeFate, ReadsOf
<1> HIDE DEF cands, fate
<1>5. fate(k) \in {"queued", "skipped"}
  BY <1>4 DEF Decided
<1>6. QED BY <1>2, <1>3, <1>5 DEF DecidedBy

\* Inside a loop, a step whose sources are read at its own pass.
LEMMA InnerSource ==
  ASSUME NEW g, Executable(g), NEW t, NEW l \in DeriveLoops(g), NEW e \in g.edges, ~e.back,
         e.to \in l.members \ {l.batch}, NEW k, k[1] = e.to, k[2] \in Nat
  PROVE  [edge |-> e, src |-> [kind |-> "row", key |-> <<e.from, k[2]>>]] \in ReadsOf(g, t, k)
<1>1. e.from \in l.members
  BY LoopEdges
<1>2. ClassifyEdge(e, DeriveLoops(g)) = "intra"
  <2>1. ~(ClassifyEdge(e, DeriveLoops(g)) \in {"exit", "entry"})
    BY EdgeClasses
  <2>2. InLoop(g, e.to)
    BY DEF InLoop
  <2>3. QED BY <2>1, <2>2, EdgeClasses
<1>3. SourceAt(g, e, k, TermsOf(g, t)) = [kind |-> "row", key |-> <<e.from, k[2]>>]
  BY <1>2, SourceCases
<1>4. QED BY <1>3, ReadsAre

\* A step of a batch node after pass 0 reads the previous pass along the back edge.
LEMMA BackSource ==
  ASSUME NEW g, Executable(g), NEW t, NEW e \in g.edges, e.back, NEW k, k[1] = e.to, k[2] \in Nat, k[2] > 0
  PROVE  [edge |-> e, src |-> [kind |-> "row", key |-> <<e.from, k[2] - 1>>]] \in ReadsOf(g, t, k)
<1>1. ClassifyEdge(e, DeriveLoops(g)) = "back" /\ k[2] # 0
  BY EdgeClasses
<1>2. SourceAt(g, e, k, TermsOf(g, t)) = [kind |-> "row", key |-> <<e.from, k[2] - 1>>]
  BY <1>1, SourceCases
<1>3. QED BY <1>2, ReadsAre

\* Once the member that returns has settled at a pass, every member has.
LEMMA PassSettled ==
  ASSUME NEW g, Executable(g), NEW t, GoodTable(g, t), NEW l \in DeriveLoops(g), NEW i \in Nat,
         \A e \in l.backs : <<e.from, i>> \in DOMAIN t /\ IsSettled(t[<<e.from, i>>])
  PROVE  \A m \in l.members : <<m, i>> \in DOMAIN t /\ IsSettled(t[<<m, i>>])
<1> DEFINE S == {m \in l.members : <<m, i>> \in DOMAIN t /\ IsSettled(t[<<m, i>>])}
<1>1. \A e \in l.backs : e.from \in S
  BY BackEdges
<1>2. ASSUME NEW e \in g.edges, ~e.back, e.to \in S \ {l.batch} PROVE e.from \in S
  <2>1. e.to \in l.members \ {l.batch} /\ e.from \in l.members
    BY <1>2, LoopEdges
  <2> DEFINE k == <<e.to, i>>
  <2>2. k \in DOMAIN t /\ k[1] = e.to /\ k[2] \in Nat /\ k[2] = i
    BY <1>2
  <2>3. e.to # TriggerOf(g)
    BY TriggerNotEntered
  <2>4. \A s \in ReadsOf(g, t, k) : Decided(t, s)
    BY <2>2, <2>3 DEF GoodTable, FatesOK, Justified
  <2>5. [edge |-> e, src |-> [kind |-> "row", key |-> <<e.from, k[2]>>]] \in ReadsOf(g, t, k)
    BY <1>2, <2>1, <2>2, InnerSource
  <2>6. <<e.from, i>> \in DOMAIN t /\ IsSettled(t[<<e.from, i>>])
    BY <2>4, <2>5 DEF Decided, SourceUnsettled
  <2>7. QED BY <2>1, <2>6
<1> HIDE DEF S
<1>3. S \subseteq l.members
  BY DEF S
<1>4. S = l.members
  BY <1>1, <1>2, <1>3, LoopBackward
<1>5. QED BY <1>4 DEF S
\* Where a loop stands for a step it may get.
PlaceOK(t, l, k) ==
  /\ k[1] \in l.members => \A i \in 0..k[2] : (i = k[2] /\ k[1] = l.batch) \/ <<l.batch, i>> \in DOMAIN t
  /\ k[1] = l.batch /\ k[2] > 0 =>
       /\ <<l.batch, k[2] - 1>> \in DOMAIN t /\ Filled(t[<<l.batch, k[2] - 1>>], LoopSlot)
       /\ \A m \in l.members : <<m, k[2] - 1>> \in DOMAIN t /\ IsSettled(t[<<m, k[2] - 1>>])
  /\ k[1] \in l.members \ {l.batch} =>
       <<l.batch, k[2]>> \in DOMAIN t /\ Filled(t[<<l.batch, k[2]>>], LoopSlot)

\* A key of a table is a node and a pass.
LEMMA KeyParts ==
  ASSUME NEW g, NEW t, TableOK(g, t), NEW k \in DOMAIN t
  PROVE  k = <<k[1], k[2]>> /\ k[1] \in NodesOf(g) /\ k[2] \in Nat
BY DEF TableOK

\* A settled step that decides a step of a loop from inside it has seen the head
\* hand out items at its pass.
LEMMA InsideFilled ==
  ASSUME NEW g, Executable(g), NEW t, GoodTable(g, t), NEW s \in DOMAIN t, IsSettled(t[s]),
         NEW l \in DeriveLoops(g), s[1] \in l.members,
         s[1] = l.batch => ~IsTerminalStep(t[s])
  PROVE  <<l.batch, s[2]>> \in DOMAIN t /\ Filled(t[<<l.batch, s[2]>>], LoopSlot)
<1>1. s = <<s[1], s[2]>> /\ s[2] \in Nat /\ LoopOK(t, l)
  BY KeyParts DEF GoodTable, LoopsOK
<1>2. CASE s[1] = l.batch
  BY <1>1, <1>2 DEF IsTerminalStep
<1>3. CASE s[1] # l.batch
  <2>1. s[2] \in 0..s[2]
    BY <1>1
  <2>2. QED BY <1>1, <1>3, <2>1 DEF LoopOK
<1>4. QED BY <1>2, <1>3

\* A planned key is a reachable node but the trigger, in pass 0 outside loops, and in a
\* loop the pass its batch node's rows call for.
LEMMA NewKeyPlace ==
  ASSUME NEW g, Executable(g), NEW t, GoodTable(g, t), NEW s \in DOMAIN t, IsSettled(t[s]),
         NEW k \in PlanAt(g, t, s).toQueue \cup PlanAt(g, t, s).toSkip
  PROVE  /\ k \in NodesOf(g) \X Nat /\ k[1] \in ReachableNodes(g) /\ k[1] # TriggerOf(g)
         /\ ~InLoop(g, k[1]) => k[2] = 0
         /\ \A l \in DeriveLoops(g) : PlaceOK(t, l, k)
<1> DEFINE L == DeriveLoops(g)
<1>1. PICK e \in g.edges :
        /\ e.from = s[1] /\ k = TargetKey(e, ClassifyEdge(e, L), s)
        /\ \A l \in L : l.batch = s[1] => (IsTerminalStep(t[s]) <=> ClassifyEdge(e, L) = "exit")
  BY PlanFacts
<1> DEFINE class == ClassifyEdge(e, L)
<1>2. /\ class \in {"back", "intra", "exit", "entry", "plain"}
      /\ s = <<s[1], s[2]>> /\ s[1] \in NodesOf(g) /\ s[2] \in Nat
      /\ e.to \in NodesOf(g)
  BY EdgeClasses, KeyParts, ExecutableSound DEF GoodTable
<1>3. /\ k = <<k[1], k[2]>> /\ k[1] = e.to
      /\ k[2] = CASE class = "back" -> s[2] + 1 [] class \in {"exit", "entry"} -> 0 [] OTHER -> s[2]
  BY <1>1 DEF TargetKey
<1>4. k[2] \in Nat
  BY <1>2, <1>3
<1>5. k[1] \in ReachableNodes(g) /\ k[1] # TriggerOf(g)
  BY <1>1, <1>3, ReachableEdges, TriggerNotEntered DEF GoodTable, KeysOK
<1>6. ASSUME ~InLoop(g, k[1]) PROVE k[2] = 0
  <2>1. class \in {"exit", "plain"}
    BY <1>2, <1>3, <1>6, EdgeClasses, LoopShape DEF InLoop
  <2>2. CASE class = "exit"
    BY <1>3, <2>2
  <2>3. CASE class = "plain"
    <3>1. ~InLoop(g, s[1])
      BY <1>1, <2>3, EdgeClasses
    <3>2. QED BY <1>3, <2>3, <3>1 DEF GoodTable, KeysOK
  <2>4. QED BY <2>1, <2>2, <2>3
<1>7. ASSUME NEW l \in L PROVE PlaceOK(t, l, k)
  <2>1. CASE k[1] \notin l.members
    BY <2>1, LoopShape DEF PlaceOK
  <2>2. CASE k[1] \in l.members /\ class \in {"exit", "entry"}
    <3>1. k[2] = 0 /\ k[1] = l.batch
      BY <1>3, <2>2, EdgeClasses
    <3>2. QED BY <3>1 DEF PlaceOK
  <2>3. CASE k[1] \in l.members /\ class \in {"back", "intra"}
    <3>1. e.from \in l.members
      <4>1. CASE class = "back"
        BY <1>3, <2>3, <4>1, BackEdges, EdgeClasses
      <4>2. CASE class = "intra"
        BY <1>3, <2>3, <4>2, LoopsApart, EdgeClasses
      <4>3. QED BY <2>3, <4>1, <4>2
    <3>2. s[1] \in l.members /\ (s[1] = l.batch => ~IsTerminalStep(t[s]))
      BY <1>1, <2>3, <3>1
    <3>3. <<l.batch, s[2]>> \in DOMAIN t /\ Filled(t[<<l.batch, s[2]>>], LoopSlot)
      BY <3>2, InsideFilled
    <3>4. \A i \in 0..s[2] : <<l.batch, i>> \in DOMAIN t
      BY <3>2 DEF GoodTable, LoopsOK, LoopOK
    <3>5. CASE class = "intra"
      <4>1. k[2] = s[2] /\ k[1] # l.batch
        <5>1. PICK j \in L : e.from \in j.members /\ e.to \in j.members \ {j.batch}
          BY <3>5, EdgeClasses
        <5>2. j = l
          BY <3>1, <5>1, LoopsApart
        <5>3. QED BY <1>3, <3>5, <5>1, <5>2
      <4>2. QED BY <3>3, <3>4, <4>1 DEF PlaceOK
    <3>6. CASE class = "back"
      <4>1. k[2] = s[2] + 1 /\ k[2] - 1 = s[2]
        BY <1>2, <1>3, <3>6
      <4>2. k[1] = l.batch /\ l.backs = {e}
        BY <1>3, <2>3, <3>6, BackEdges, EdgeClasses
      <4>3. \A d \in l.backs : <<d.from, s[2]>> \in DOMAIN t /\ IsSettled(t[<<d.from, s[2]>>])
        BY <1>1, <1>2, <4>2
      <4>4. \A m \in l.members : <<m, s[2]>> \in DOMAIN t /\ IsSettled(t[<<m, s[2]>>])
        BY <1>2, <4>3, PassSettled
      <4>5. \A i \in 0..k[2] : i = k[2] \/ i \in 0..s[2]
        BY <1>2, <4>1
      <4>6. QED BY <3>3, <3>4, <4>1, <4>2, <4>4, <4>5 DEF PlaceOK
    <3>7. QED BY <2>3, <3>5, <3>6
  <2>4. CASE k[1] \in l.members /\ class = "plain"
    BY <1>3, <2>4, EdgeClasses DEF InLoop
  <2>5. QED BY <1>2, <2>1, <2>2, <2>3, <2>4
<1>8. QED BY <1>2, <1>3, <1>4, <1>5, <1>6, <1>7
\* No outputs are outputs.
LEMMA NoOutputsType == NoOutputs \in Outputs
BY DEF NoOutputs, Outputs, Values

\* A justified fate stays justified when the table grows and settled rows stay.
LEMMA FatesContinue ==
  ASSUME NEW g, Executable(g), NEW t, FatesOK(g, t), NEW next, Continues(g, t, next),
         TableOK(g, t), TableOK(g, next), NEW k \in DOMAIN t, k[1] # TriggerOf(g),
         next[k].status = "skipped" <=> t[k].status = "skipped"
  PROVE  Justified(g, next, k)
<1>1. k[2] \in Nat /\ DOMAIN next \subseteq NodesOf(g) \X Nat
  BY KeyParts DEF TableOK
<1>2. Justified(g, t, k)
  BY DEF FatesOK
<1>3. \A s \in ReadsOf(g, t, k) : Decided(t, s)
  BY <1>2 DEF Justified
<1>4. /\ ReadsOf(g, next, k) = ReadsOf(g, t, k)
      /\ \A s \in ReadsOf(g, t, k) :
           Decided(next, s) /\ s.src.key \in DOMAIN t /\ next[s.src.key] = t[s.src.key]
  BY <1>1, <1>3, ReadsStay
<1>5. QED BY <1>2, <1>4 DEF Justified

\* A row that has not settled may change, and settle, but not turn out skipped.
LEMMA ChangeRows ==
  ASSUME NEW g, Executable(g), NEW t, GoodTable(g, t), NEW next, TableOK(g, next),
         DOMAIN next = DOMAIN t,
         \A k \in DOMAIN t : next[k] = t[k] \/ (~IsSettled(t[k]) /\ next[k].status # "skipped")
  PROVE  GoodTable(g, next) /\ Continues(g, t, next)
<1>1. \A k \in DOMAIN t : IsSettled(t[k]) => next[k] = t[k]
  OBVIOUS
<1>2. TermsOf(g, t) \subseteq TermsOf(g, next)
  BY <1>1 DEF TermsOf, LoadTerminalIterations, IsLatestPass, IsTerminalStep
<1>3. Continues(g, t, next)
  BY <1>1, <1>2 DEF Continues
<1>4. FatesOK(g, next)
  <2>1. \A k \in DOMAIN t : next[k].status = "skipped" <=> t[k].status = "skipped"
    BY DEF IsSettled, SettledStatuses
  <2>2. QED BY <1>3, <2>1, FatesContinue DEF FatesOK, GoodTable
<1>5. KeysOK(g, next)
  BY <1>1 DEF GoodTable, KeysOK, IsSettled, SettledStatuses
<1>6. LoopsOK(g, next)
  <2>1. SUFFICES ASSUME NEW l \in DeriveLoops(g), NEW k \in DOMAIN t PROVE
          /\ k[1] \in l.members => \A i \in 0..k[2] : <<l.batch, i>> \in DOMAIN t
          /\ k[1] = l.batch /\ k[2] > 0 =>
               /\ Filled(next[<<l.batch, k[2] - 1>>], LoopSlot)
               /\ \A m \in l.members : <<m, k[2] - 1>> \in DOMAIN t /\ IsSettled(next[<<m, k[2] - 1>>])
          /\ k[1] \in l.members \ {l.batch} => Filled(next[<<l.batch, k[2]>>], LoopSlot)
    BY DEF LoopsOK, LoopOK
  <2>2. LoopOK(t, l) /\ TableOK(g, t) /\ l.batch \in l.members
    BY LoopShape DEF GoodTable, LoopsOK
  <2>3. k = <<k[1], k[2]>> /\ k[2] \in Nat
    BY <2>2, KeyParts
  <2>4. ASSUME k[1] = l.batch, k[2] > 0
        PROVE  /\ Filled(next[<<l.batch, k[2] - 1>>], LoopSlot)
               /\ \A m \in l.members : <<m, k[2] - 1>> \in DOMAIN t /\ IsSettled(next[<<m, k[2] - 1>>])
    <3>1. /\ Filled(t[<<l.batch, k[2] - 1>>], LoopSlot)
          /\ \A m \in l.members : <<m, k[2] - 1>> \in DOMAIN t /\ IsSettled(t[<<m, k[2] - 1>>])
      BY <2>2, <2>4 DEF LoopOK
    <3>2. QED BY <1>1, <2>2, <3>1
  <2>5. ASSUME k[1] \in l.members \ {l.batch} PROVE Filled(next[<<l.batch, k[2]>>], LoopSlot)
    <3>1. Filled(t[<<l.batch, k[2]>>], LoopSlot)
      BY <2>2, <2>5 DEF LoopOK
    <3>2. <<l.batch, k[2]>> \in DOMAIN t
      <4>1. k[2] \in 0..k[2]
        BY <2>3
      <4>2. QED BY <2>2, <2>5, <4>1 DEF LoopOK
    <3>3. IsSettled(t[<<l.batch, k[2]>>])
      BY <2>2, <3>1, <3>2, FilledSettled
    <3>4. QED BY <1>1, <3>1, <3>2, <3>3
  <2>6. k[1] \in l.members => \A i \in 0..k[2] : <<l.batch, i>> \in DOMAIN t
    BY <2>2 DEF LoopOK
  <2>7. QED BY <2>4, <2>5, <2>6
<1>7. QED BY <1>3, <1>4, <1>5, <1>6 DEF GoodTable

\* The rows a plan adds.
LEMMA AddRows ==
  ASSUME NEW g, Executable(g), NEW t, GoodTable(g, t), NEW s \in DOMAIN t, IsSettled(t[s]),
         NEW D, D \subseteq PlanAt(g, t, s).toQueue \cup PlanAt(g, t, s).toSkip, IsFiniteSet(D),
         NEW next,
         next = [k \in DOMAIN t \cup D |->
                   IF k \in DOMAIN t THEN t[k]
                   ELSE NewRow(IF k \in PlanAt(g, t, s).toQueue THEN "queued" ELSE "skipped", NoOutputs)]
  PROVE  GoodTable(g, next) /\ Continues(g, t, next)
<1> DEFINE plan == PlanAt(g, t, s)
<1>1. ASSUME NEW k \in D
      PROVE  /\ k \notin DOMAIN t /\ k \in NodesOf(g) \X Nat /\ k[1] \in ReachableNodes(g)
             /\ k[1] # TriggerOf(g) /\ (~InLoop(g, k[1]) => k[2] = 0)
             /\ \A l \in DeriveLoops(g) : PlaceOK(t, l, k)
  BY PlanFacts, NewKeyPlace
<1>2. /\ DOMAIN next = DOMAIN t \cup D
      /\ \A k \in DOMAIN t : next[k] = t[k]
      /\ \A k \in D : next[k] = NewRow(IF k \in plan.toQueue THEN "queued" ELSE "skipped", NoOutputs)
  BY <1>1
<1> HIDE DEF plan
<1>3. ASSUME NEW k \in D
      PROVE  /\ next[k] \in [status : StepStatuses, outputs : Outputs]
             /\ next[k].status = (IF k \in plan.toQueue THEN "queued" ELSE "skipped")
             /\ next[k].outputs = NoOutputs
  <2> DEFINE fate == IF k \in plan.toQueue THEN "queued" ELSE "skipped"
  <2>1. next[k] = [status |-> fate, outputs |-> NoOutputs]
    BY <1>2 DEF NewRow
  <2>2. fate \in StepStatuses
    BY DEF StepStatuses
  <2> HIDE DEF fate
  <2>3. next[k].status = fate /\ next[k].outputs = NoOutputs /\ next[k] \in [status : StepStatuses, outputs : Outputs]
    BY <2>1, <2>2, NoOutputsType
  <2>4. QED BY <2>3 DEF fate
<1>4. TableOK(g, next)
  <2>1. IsFiniteSet(DOMAIN next)
    BY <1>2, FS_Union DEF GoodTable, TableOK
  <2>2. DOMAIN next \subseteq NodesOf(g) \X Nat
    BY <1>1, <1>2 DEF GoodTable, TableOK
  <2>3. next = [k \in DOMAIN next |-> next[k]]
    BY <1>2
  <2>4. ASSUME NEW k \in DOMAIN next
        PROVE  /\ next[k] \in [status : StepStatuses, outputs : Outputs]
               /\ next[k].status # "completed" => next[k].outputs = NoOutputs
    BY <1>2, <1>3 DEF GoodTable, TableOK
  <2>5. QED BY <2>1, <2>2, <2>3, <2>4 DEF TableOK
<1>5. KeysOK(g, next)
  BY <1>1, <1>2 DEF KeysOK, GoodTable
<1>6. LoopsOK(g, next)
  <2>1. SUFFICES ASSUME NEW l \in DeriveLoops(g) PROVE LoopOK(next, l)
    BY DEF LoopsOK
  <2>2. LoopOK(t, l) /\ TableOK(g, t) /\ l.batch \in l.members
    BY LoopShape DEF GoodTable, LoopsOK
  <2>3. ASSUME NEW k \in DOMAIN next
        PROVE  /\ k[1] \in l.members => \A i \in 0..k[2] : <<l.batch, i>> \in DOMAIN next
               /\ k[1] = l.batch /\ k[2] > 0 =>
                    /\ Filled(next[<<l.batch, k[2] - 1>>], LoopSlot)
                    /\ \A m \in l.members : <<m, k[2] - 1>> \in DOMAIN next /\ IsSettled(next[<<m, k[2] - 1>>])
               /\ k[1] \in l.members \ {l.batch} => Filled(next[<<l.batch, k[2]>>], LoopSlot)
    <3>1. CASE k \in DOMAIN t
      <4>1. k = <<k[1], k[2]>> /\ k[2] \in Nat
        BY <2>2, <3>1, KeyParts
      <4>2. ASSUME k[1] \in l.members PROVE \A i \in 0..k[2] : <<l.batch, i>> \in DOMAIN t
        BY <2>2, <3>1, <4>2 DEF LoopOK
      <4>3. ASSUME k[1] = l.batch, k[2] > 0
            PROVE  /\ Filled(t[<<l.batch, k[2] - 1>>], LoopSlot)
                   /\ \A m \in l.members : <<m, k[2] - 1>> \in DOMAIN t /\ IsSettled(t[<<m, k[2] - 1>>])
        BY <2>2, <3>1, <4>3 DEF LoopOK
      <4>4. ASSUME k[1] \in l.members \ {l.batch} PROVE Filled(t[<<l.batch, k[2]>>], LoopSlot)
        BY <2>2, <3>1, <4>4 DEF LoopOK
      <4>5. k[1] \in l.members => <<l.batch, k[2]>> \in DOMAIN t
        BY <4>1, <4>2
      <4>6. QED BY <1>2, <2>2, <4>2, <4>3, <4>4, <4>5
    <3>2. CASE k \in D
      <4>1. PlaceOK(t, l, k) /\ k = <<k[1], k[2]>>
        BY <1>1, <3>2
      <4>2. ASSUME k[1] \in l.members, NEW i \in 0..k[2] PROVE <<l.batch, i>> \in DOMAIN next
        <5>1. CASE i = k[2] /\ k[1] = l.batch
          BY <1>2, <3>2, <4>1, <5>1
        <5>2. CASE <<l.batch, i>> \in DOMAIN t
          BY <1>2, <5>2
        <5>3. QED BY <4>1, <4>2, <5>1, <5>2 DEF PlaceOK
      <4>3. ASSUME k[1] = l.batch, k[2] > 0
            PROVE  /\ Filled(next[<<l.batch, k[2] - 1>>], LoopSlot)
                   /\ \A m \in l.members : <<m, k[2] - 1>> \in DOMAIN next /\ IsSettled(next[<<m, k[2] - 1>>])
        BY <1>2, <4>1, <4>3 DEF PlaceOK
      <4>4. ASSUME k[1] \in l.members \ {l.batch} PROVE Filled(next[<<l.batch, k[2]>>], LoopSlot)
        BY <1>2, <4>1, <4>4 DEF PlaceOK
      <4>5. QED BY <4>2, <4>3, <4>4
    <3>3. QED BY <1>2, <3>1, <3>2
  <2>4. QED BY <2>3 DEF LoopOK
<1>7. Continues(g, t, next)
  <2>1. ASSUME NEW k \in TermsOf(g, t) PROVE k \in TermsOf(g, next)
    <3>1. /\ k \in DOMAIN t /\ IsSettled(t[k]) /\ ~Filled(t[k], LoopSlot)
          /\ \A j \in DOMAIN t : j[1] = k[1] => j[2] <= k[2]
          /\ IsTerminalStep(t[k]) /\ k[1] \in {l.batch : l \in DeriveLoops(g)}
      BY TerminalUnfilled DEF IsTerminalStep
    <3>2. PICK l \in DeriveLoops(g) : k[1] = l.batch
      BY <3>1
    <3>3. k = <<k[1], k[2]>> /\ k[2] \in Nat
      BY <3>1, KeyParts DEF GoodTable
    <3>4. ASSUME NEW j \in D, j[1] = k[1] PROVE j[2] <= k[2]
      <4>1. PlaceOK(t, l, j) /\ j = <<j[1], j[2]>> /\ j[2] \in Nat
        BY <1>1
      <4>2. CASE j[2] = 0
        BY <3>3, <4>2
      <4>3. CASE j[2] > 0
        <5>1. <<l.batch, j[2] - 1>> \in DOMAIN t /\ Filled(t[<<l.batch, j[2] - 1>>], LoopSlot)
          BY <3>2, <3>4, <4>1, <4>3 DEF PlaceOK
        <5>2. j[2] - 1 # k[2]
          BY <3>1, <3>2, <3>3, <5>1
        <5>3. j[2] - 1 <= k[2]
          BY <3>1, <3>2, <5>1
        <5>4. QED BY <3>3, <4>1, <5>2, <5>3
      <4>4. QED BY <4>1, <4>2, <4>3
    <3>5. \A j \in DOMAIN next : j[1] = k[1] => j[2] <= k[2]
      BY <1>2, <3>1, <3>4
    <3>6. QED BY <1>2, <3>1, <3>5 DEF TermsOf, LoadTerminalIterations, IsLatestPass
  <2>2. QED BY <1>2, <2>1 DEF Continues
<1>8. FatesOK(g, next)
  <2>1. SUFFICES ASSUME NEW k \in DOMAIN next, k[1] # TriggerOf(g) PROVE Justified(g, next, k)
    BY DEF FatesOK
  <2>2. CASE k \in DOMAIN t
    BY <1>2, <1>4, <1>7, <2>1, <2>2, FatesContinue DEF GoodTable
  <2>3. CASE k \in D
    <3>1. /\ ReadsOf(g, t, k) # {}
          /\ \A r \in ReadsOf(g, t, k) : Decided(t, r)
          /\ k \in plan.toQueue <=> \E r \in ReadsOf(g, t, k) : IsLive(t[r.src.key], r.edge)
      BY <2>3, PlanFacts DEF plan
    <3>2. k[2] \in Nat /\ DOMAIN next \subseteq NodesOf(g) \X Nat
      BY <1>1, <1>4, <2>3 DEF TableOK
    <3>3. /\ ReadsOf(g, next, k) = ReadsOf(g, t, k)
          /\ \A r \in ReadsOf(g, t, k) : Decided(next, r) /\ next[r.src.key] = t[r.src.key]
      BY <1>7, <3>1, <3>2, ReadsStay
    <3>4. next[k].status = "skipped" <=> k \notin plan.toQueue
      BY <1>3, <2>3
    <3>5. QED BY <3>1, <3>3, <3>4 DEF Justified
  <2>4. QED BY <1>2, <2>2, <2>3
<1>9. QED BY <1>4, <1>5, <1>6, <1>7, <1>8 DEF GoodTable

\* A settlement decides finitely many keys.
LEMMA PlanFinite ==
  ASSUME NEW g, Executable(g), NEW t, NEW s
  PROVE  IsFiniteSet(PlanAt(g, t, s).toQueue \cup PlanAt(g, t, s).toSkip)
<1> DEFINE key(e) == TargetKey(e, ClassifyEdge(e, DeriveLoops(g)), s)
<1> DEFINE all == {key(e) : e \in g.edges}
<1> DEFINE f == [e \in g.edges |-> key(e)]
<1>1. f \in Surjection(g.edges, all)
  BY DEF Surjection
<1>2. IsFiniteSet(all)
  BY <1>1, FS_Surjection DEF Executable, IsGraph
<1>3. PlanAt(g, t, s).toQueue \cup PlanAt(g, t, s).toSkip \subseteq all
  BY DEF PlanAt, DecideSuccessors, EdgesDecided, Outgoing
<1> HIDE DEF all
<1>4. QED BY <1>2, <1>3, FS_Subset

\* A table that holds only the trigger's completed row is a good one.
LEMMA FirstRow ==
  ASSUME NEW g, Executable(g), NEW o \in Outputs, NEW next,
         next = [k \in {<<TriggerOf(g), 0>>} |-> NewRow("completed", o)]
  PROVE  GoodTable(g, next)
<1>1. DOMAIN next = {<<TriggerOf(g), 0>>} /\ next[<<TriggerOf(g), 0>>] = NewRow("completed", o)
  OBVIOUS
<1>2. TableOK(g, next)
  <2>1. next[<<TriggerOf(g), 0>>] \in [status : StepStatuses, outputs : Outputs]
    BY <1>1 DEF NewRow, StepStatuses
  <2>2. next[<<TriggerOf(g), 0>>].status = "completed"
    BY <1>1 DEF NewRow
  <2>3. IsFiniteSet(DOMAIN next)
    BY <1>1, FS_Singleton
  <2>4. DOMAIN next \subseteq NodesOf(g) \X Nat
    BY <1>1, TriggerFacts
  <2>5. QED BY <1>1, <2>1, <2>2, <2>3, <2>4 DEF TableOK
<1>3. KeysOK(g, next)
  BY <1>1 DEF KeysOK, NewRow, ReachableNodes
<1>4. FatesOK(g, next)
  BY <1>1 DEF FatesOK
<1>5. LoopsOK(g, next)
  <2>1. \A l \in DeriveLoops(g) : TriggerOf(g) \notin l.members /\ l.batch \in l.members
    BY TriggerFacts, LoopShape DEF InLoop
  <2>2. \A k \in DOMAIN next : k[1] = TriggerOf(g)
    BY <1>1
  <2>3. QED BY <2>1, <2>2 DEF LoopsOK, LoopOK
<1>6. QED BY <1>2, <1>3, <1>4, <1>5 DEF GoodTable
-----------------------------------------------------------------------------
(***************************************************************************)
(* The slices a batch node hands out.                                      *)
(***************************************************************************)
Row == [status : StepStatuses, outputs : Outputs]

\* A row with one slot filled is a row of outputs.
LEMMA SlotOnlyType ==
  ASSUME NEW slot, NEW value \in Values
  PROVE  SlotOnly(slot, value) \in Outputs
  BY NoOutputsType DEF SlotOnly, Outputs

\* Whatever the edge, it delivers a value.
LEMMA EdgeValueType ==
  ASSUME NEW row \in Row, NEW e
  PROVE  EdgeValue(row, e) \in Values
  BY DEF EdgeValue, IsLive, Filled, Row, Outputs, Values, NoData

\* Finitely many lists hold finitely many items.
LEMMA ItemsFinite ==
  ASSUME NEW D, IsFiniteSet(D), NEW lists \in [D -> Values]
  PROVE  Cardinality(Items(lists)) \in Nat
<1> DEFINE list(i) == {i} \X (1..AsList(lists[i]))
<1>1. ASSUME NEW i \in D PROVE IsFiniteSet(list(i))
  <2>1. AsList(lists[i]) \in Int
    BY <1>1 DEF AsList, Values, NoData, NotAList
  <2> DEFINE n == AsList(lists[i])
  <2>2. 1 \in Int /\ n \in Int
    BY <2>1
  <2> HIDE DEF n
  <2>3. IsFiniteSet(1..n)
    BY <2>2, FS_Interval
  <2>4. IsFiniteSet({i})
    BY FS_Singleton
  <2> QED BY <2>3, <2>4, FS_Product DEF n
<1>2. IsFiniteSet({list(i) : i \in D})
  <2> DEFINE S == {list(i) : i \in D}
             f == [i \in D |-> list(i)]
  <2>1. f \in Surjection(D, S)
    BY DEF Surjection
  <2> QED BY <2>1, FS_Surjection
<1>3. IsFiniteSet(UNION {list(i) : i \in D})
  BY <1>1, <1>2, FS_UNION
<1>4. Items(lists) = UNION {list(i) : i \in D}
  BY DEF Items
<1> QED BY <1>3, <1>4, FS_CardinalityType

RunResult == [ok : BOOLEAN, outputs : Outputs]

\* A failed executor call is a result.
LEMMA FailedType == Failed \in RunResult
  BY NoOutputsType DEF Failed, RunResult

\* A successful executor call is a result.
LEMMA SucceededType ==
  ASSUME NEW outputs \in Outputs
  PROVE  Succeeded(outputs) \in RunResult
  BY DEF Succeeded, RunResult

\* A pass of a batch step hands out a list, ends its loop, or fails.
LEMMA RunBatchStepType ==
  ASSUME NEW size \in Nat, NEW pass \in Nat, NEW original \in Values,
         NEW D, IsFiniteSet(D), NEW arrivals \in [D -> Values]
  PROVE  RunBatchStep(size, pass, original, arrivals) \in RunResult
<1> DEFINE remaining == AsList(original) - pass * size
           slice == IF remaining < size THEN remaining ELSE size
           accumulated == Cardinality(Items(arrivals))
<1>1. AsList(original) \in Int
  BY DEF AsList, Values, NoData, NotAList
<1>2. pass * size \in Int
  OBVIOUS
<1>3. remaining \in Int
  BY <1>1, <1>2
<1>4. slice \in Int
  BY <1>3
<1>5. slice > 0 => slice \in Values
  BY <1>4 DEF Values
<1>6. accumulated \in Values
  BY ItemsFinite DEF Values
<1>7. slice > 0 => Succeeded(SlotOnly(LoopSlot, slice)) \in RunResult
  BY <1>5, SlotOnlyType, SucceededType
<1>8. Succeeded(SlotOnly(DoneSlot, accumulated)) \in RunResult
  BY <1>6, SlotOnlyType, SucceededType
<1>9. Succeeded(NoOutputs) \in RunResult
  BY NoOutputsType, SucceededType
<1>10. RunBatchStep(size, pass, original, arrivals) =
         IF original = NotAList THEN Failed
         ELSE IF slice > 0 THEN Succeeded(SlotOnly(LoopSlot, slice))
         ELSE IF \E i \in DOMAIN arrivals : arrivals[i] = NotAList THEN Failed
         ELSE IF accumulated = 0 THEN Succeeded(NoOutputs)
         ELSE Succeeded(SlotOnly(DoneSlot, accumulated))
  BY DEF RunBatchStep
<1> HIDE DEF slice, accumulated
<1> QED BY <1>7, <1>8, <1>9, <1>10, FailedType

\* Running a step of a typed table returns a typed result.
LEMMA StepRunsType ==
  ASSUME NEW g, g.batch \in [NodesOf(g) -> Nat], NEW L,
         NEW table, \A k \in DOMAIN table : table[k] \in Row,
         NEW k \in NodesOf(g) \X Nat, NEW executorRuns \in SUBSET RunResult,
         NEW batchErrors \in SUBSET RunResult
  PROVE  StepRuns(g, L, table, k, executorRuns, batchErrors) \subseteq RunResult
<1> DEFINE l == CHOOSE l \in L : l.batch = k[1]
           original == ReadOriginalItems(g, L, table, l)
           arrivals == ReadArrivals(table, l, k[2])
<1>1. ASSUME NEW key, NEW e PROVE ReadBack(table, key, e) \in Values
  BY EdgeValueType DEF ReadBack, Values, NotAList
<1>2. original \in Values
  <2> DEFINE reads == {s \in StepReads(g, L, table, <<l.batch, 0>>) : s.edge \in l.entries}
             read == CHOOSE s \in reads : TRUE
  <2>1. original = IF reads = {} THEN NoData
                   ELSE IF read.src.kind = "pending" THEN NotAList
                   ELSE ReadBack(table, read.src.key, read.edge)
    BY DEF ReadOriginalItems
  <2>2. ReadBack(table, read.src.key, read.edge) \in Values
    BY <1>1
  <2> HIDE DEF original, reads, read
  <2> QED BY <2>1, <2>2 DEF Values
<1>3. arrivals \in [0..(k[2] - 1) -> Values]
  BY <1>1 DEF ReadArrivals
<1>4. IsFiniteSet(0..(k[2] - 1))
  <2>1. 0 \in Int /\ k[2] - 1 \in Int
    OBVIOUS
  <2> QED BY <2>1, FS_Interval
<1>5. g.batch[k[1]] \in Nat /\ k[2] \in Nat
  OBVIOUS
<1> HIDE DEF original, arrivals
<1>6. RunBatchStep(g.batch[k[1]], k[2], original, arrivals) \in RunResult
  BY <1>2, <1>3, <1>4, <1>5, RunBatchStepType
<1>7. RunBatchNode(g, L, table, k) \in RunResult
  BY <1>6 DEF RunBatchNode, original, arrivals
<1> QED BY <1>7 DEF StepRuns

\* What is left of a loop's list at a pass of its head.
LeftAt(g, l, original, pass) == AsList(original) - pass * g.batch[l.batch]

\* What a head that completed a pass made of it.
HeadRan(g, l, original, row, pass) ==
  LET left == LeftAt(g, l, original, pass)
      size == g.batch[l.batch]
  IN  /\ original \in Nat \cup {NoData}
      /\ left > 0 => row.outputs[LoopSlot] = IF left < size THEN left ELSE size
      /\ left <= 0 => ~Filled(row, LoopSlot)

HeadsOK(g, t) ==
  \A l \in DeriveLoops(g) : \A k \in DOMAIN t :
    k[1] = l.batch /\ t[k].status = "completed" =>
      HeadRan(g, l, ReadOriginalItems(g, DeriveLoops(g), t, l), t[k], k[2])

\* A loop with any row has pass 0 of its batch node, with everything it reads decided.
LEMMA FirstPass ==
  ASSUME NEW g, Executable(g), NEW t, GoodTable(g, t), NEW l \in DeriveLoops(g),
         NEW k \in DOMAIN t, k[1] \in l.members
  PROVE  /\ <<l.batch, 0>> \in DOMAIN t
         /\ \A s \in ReadsOf(g, t, <<l.batch, 0>>) : Decided(t, s)
<1>1. k[2] \in Nat /\ 0 \in 0..k[2] /\ LoopOK(t, l)
  BY KeyParts DEF GoodTable, LoopsOK
<1>2. <<l.batch, 0>> \in DOMAIN t
  BY <1>1 DEF LoopOK
<1>3. l.batch # TriggerOf(g)
  BY TriggerFacts, LoopShape DEF InLoop
<1>4. QED BY <1>2, <1>3 DEF GoodTable, FatesOK, Justified

\* A loop has at most one entry, so its head reads at most one list.
LEMMA OriginalRead ==
  ASSUME NEW g, Executable(g), NEW t, NEW l \in DeriveLoops(g)
  PROVE  LET reads == {s \in ReadsOf(g, t, <<l.batch, 0>>) : s.edge \in l.entries}
             value == ReadOriginalItems(g, DeriveLoops(g), t, l)
         IN  /\ reads = {} => value = NoData
             /\ \A s \in reads : /\ reads = {s}
                                /\ value = IF s.src.kind = "pending" THEN NotAList
                                           ELSE ReadBack(t, s.src.key, s.edge)
<1> DEFINE L == DeriveLoops(g)
<1> DEFINE head == <<l.batch, 0>>
<1> DEFINE reads == {s \in ReadsOf(g, t, head) : s.edge \in l.entries}
<1> DEFINE value == ReadOriginalItems(g, L, t, l)
<1>1. reads = {s \in StepReads(g, L, t, head) : s.edge \in l.entries}
  BY StepReadsAll
<1>2. reads = {} => value = NoData
  BY <1>1 DEF ReadOriginalItems
<1>3. ASSUME NEW s \in reads, NEW r \in reads PROVE r = s
  <2>1. s.edge \in l.entries /\ r.edge \in l.entries
    OBVIOUS
  <2>2. l.entries \in SUBSET g.edges /\ IsFiniteSet(g.edges) /\ Cardinality(l.entries) <= 1
    BY LoopShape DEF Executable, IsGraph, ValidateExecutableGraph, ValidateLoops, BatchSlotsOK
  <2>3. IsFiniteSet(l.entries) /\ Cardinality(l.entries) \in Nat /\ Cardinality(l.entries) # 0
    BY <2>1, <2>2, FS_Subset, FS_CardinalityType, FS_EmptySet
  <2>4. Cardinality(l.entries) = 1
    BY <2>2, <2>3
  <2>5. s.edge = r.edge
    BY <2>1, <2>3, <2>4, FS_Singleton
  <2>6. /\ s = [edge |-> s.edge, src |-> SourceAt(g, s.edge, head, TermsOf(g, t))]
        /\ r = [edge |-> r.edge, src |-> SourceAt(g, r.edge, head, TermsOf(g, t))]
    BY ReadsAre
  <2>7. QED BY <2>5, <2>6
<1>4. ASSUME NEW s \in reads
      PROVE  value = IF s.src.kind = "pending" THEN NotAList ELSE ReadBack(t, s.src.key, s.edge)
  <2>1. {r \in StepReads(g, L, t, head) : r.edge \in l.entries} = {s}
    BY <1>1, <1>3
  <2>2. (CHOOSE r \in {r \in StepReads(g, L, t, head) : r.edge \in l.entries} : TRUE) = s
    BY <2>1
  <2>3. QED BY <2>1, <2>2 DEF ReadOriginalItems
<1>5. QED BY <1>2, <1>3, <1>4

\* The list a loop works through never changes once its head has a row.
LEMMA OriginalStays ==
  ASSUME NEW g, Executable(g), NEW t, GoodTable(g, t), NEW next, TableOK(g, next), Continues(g, t, next),
         NEW l \in DeriveLoops(g), NEW k \in DOMAIN t, k[1] \in l.members
  PROVE  ReadOriginalItems(g, DeriveLoops(g), next, l) = ReadOriginalItems(g, DeriveLoops(g), t, l)
<1> DEFINE head == <<l.batch, 0>>
<1>1. /\ \A s \in ReadsOf(g, t, head) : Decided(t, s)
      /\ head[2] \in Nat /\ DOMAIN next \subseteq NodesOf(g) \X Nat
  BY FirstPass DEF TableOK
<1>2. /\ ReadsOf(g, next, head) = ReadsOf(g, t, head)
      /\ \A s \in ReadsOf(g, t, head) :
           Decided(next, s) /\ s.src.key \in DOMAIN t /\ next[s.src.key] = t[s.src.key]
  BY <1>1, ReadsStay
<1> DEFINE reads == {s \in ReadsOf(g, t, head) : s.edge \in l.entries}
<1>3. reads = {s \in ReadsOf(g, next, head) : s.edge \in l.entries}
  BY <1>2
<1>4. CASE reads = {}
  BY <1>3, <1>4, OriginalRead
<1>5. CASE reads # {}
  <2>1. PICK s \in reads : TRUE
    BY <1>5
  <2>2. ReadBack(next, s.src.key, s.edge) = ReadBack(t, s.src.key, s.edge)
    BY <1>2, <2>1 DEF ReadBack, Continues
  <2>3. s \in {r \in ReadsOf(g, next, head) : r.edge \in l.entries}
    BY <1>3, <2>1
  <2>4. ReadOriginalItems(g, DeriveLoops(g), next, l) =
          IF s.src.kind = "pending" THEN NotAList ELSE ReadBack(next, s.src.key, s.edge)
    BY <2>3, OriginalRead
  <2>5. ReadOriginalItems(g, DeriveLoops(g), t, l) =
          IF s.src.kind = "pending" THEN NotAList ELSE ReadBack(t, s.src.key, s.edge)
    BY <2>1, OriginalRead
  <2>6. QED BY <2>2, <2>4, <2>5
<1>6. QED BY <1>4, <1>5

\* A run of the head that succeeds.
LEMMA HeadRuns ==
  ASSUME NEW g, Executable(g), NEW t, TableOK(g, t), NEW l \in DeriveLoops(g),
         NEW k \in NodesOf(g) \X Nat, k[1] = l.batch,
         NEW run, run = RunBatchNode(g, DeriveLoops(g), t, k), run.ok
  PROVE  HeadRan(g, l, ReadOriginalItems(g, DeriveLoops(g), t, l), [status |-> "completed", outputs |-> run.outputs], k[2])
<1> DEFINE L == DeriveLoops(g)
<1> DEFINE original == ReadOriginalItems(g, L, t, l)
<1> DEFINE arrivals == ReadArrivals(t, l, k[2])
<1> DEFINE size == g.batch[l.batch]
<1> DEFINE left == AsList(original) - k[2] * size
<1> DEFINE slice == IF left < size THEN left ELSE size
<1>1. (CHOOSE j \in L : j.batch = k[1]) = l
  BY LoopsApart, LoopShape
<1>2. run = RunBatchStep(size, k[2], original, arrivals)
  BY <1>1 DEF RunBatchNode
<1> HIDE DEF original, arrivals, size
<1>3. original \in Values
  <2>1. \A j \in DOMAIN t : t[j] \in Row
    BY DEF TableOK, Row
  <2>2. ASSUME NEW key, NEW e PROVE ReadBack(t, key, e) \in Values
    BY <2>1, EdgeValueType DEF ReadBack, Values, NotAList
  <2>3. QED BY <2>2 DEF original, ReadOriginalItems, Values, NoData, NotAList
<1>4. size \in Nat /\ size >= 1 /\ k[2] \in Nat
  BY HeadKind DEF size
<1>5. run = IF original = NotAList THEN Failed
            ELSE IF slice > 0 THEN Succeeded(SlotOnly(LoopSlot, slice))
            ELSE IF \E i \in DOMAIN arrivals : arrivals[i] = NotAList THEN Failed
            ELSE IF Cardinality(Items(arrivals)) = 0 THEN Succeeded(NoOutputs)
            ELSE Succeeded(SlotOnly(DoneSlot, Cardinality(Items(arrivals))))
  BY <1>2 DEF RunBatchStep
<1>6. ~Failed.ok
  BY DEF Failed
<1>7. original \in Nat \cup {NoData}
  BY <1>3, <1>5, <1>6 DEF Values
<1>8. AsList(original) \in Nat
  BY <1>7 DEF AsList, NoData
<1>9. k[2] * size \in Nat
  BY <1>4
<1>10. left \in Int
  BY <1>8, <1>9
<1> HIDE DEF left
<1>11. (slice > 0 <=> left > 0) /\ slice = (IF left < size THEN left ELSE size)
  BY <1>4, <1>10
<1> HIDE DEF slice
<1>12. {0, 1} \subseteq OutputSlots
  BY OutputSlotsAssumption
<1>13. CASE left > 0
  <2>1. run = Succeeded(SlotOnly(LoopSlot, slice))
    BY <1>5, <1>6, <1>11, <1>13
  <2>2. run.outputs[LoopSlot] = slice
    BY <2>1, <1>12 DEF Succeeded, SlotOnly, LoopSlot, NoOutputs
  <2>3. QED BY <1>7, <1>10, <1>11, <1>13, <2>2 DEF HeadRan, LeftAt, left, size, original
<1>14. CASE left <= 0
  <2>1. run.outputs[LoopSlot] = NoData
    <3>1. ~(slice > 0)
      BY <1>10, <1>11, <1>14
    <3>2. run = Succeeded(NoOutputs) \/ run = Succeeded(SlotOnly(DoneSlot, Cardinality(Items(arrivals))))
      BY <1>5, <1>6, <3>1
    <3>3. CASE run = Succeeded(NoOutputs)
      BY <1>12, <3>3 DEF Succeeded, LoopSlot, NoOutputs
    <3>4. CASE run = Succeeded(SlotOnly(DoneSlot, Cardinality(Items(arrivals))))
      BY <1>12, <3>4 DEF Succeeded, SlotOnly, LoopSlot, DoneSlot, NoOutputs
    <3>5. QED BY <3>2, <3>3, <3>4
  <2>2. ~(left > 0)
    BY <1>10, <1>14
  <2>3. QED BY <1>7, <2>1, <2>2 DEF HeadRan, LeftAt, left, size, original, Filled
<1>15. QED BY <1>10, <1>13, <1>14

\* What the heads made of their passes survives every step of the table.
LEMMA HeadsContinue ==
  ASSUME NEW g, Executable(g), NEW t, GoodTable(g, t), HeadsOK(g, t), NEW next, TableOK(g, next),
         Continues(g, t, next),
         \A l \in DeriveLoops(g) : \A k \in DOMAIN next :
           k[1] = l.batch /\ next[k].status = "completed" =>
             \/ k \in DOMAIN t /\ next[k] = t[k]
             \/ k \in DOMAIN t /\ HeadRan(g, l, ReadOriginalItems(g, DeriveLoops(g), t, l), next[k], k[2])
  PROVE  HeadsOK(g, next)
<1>1. SUFFICES ASSUME NEW l \in DeriveLoops(g), NEW k \in DOMAIN next,
                      k[1] = l.batch, next[k].status = "completed"
               PROVE  HeadRan(g, l, ReadOriginalItems(g, DeriveLoops(g), next, l), next[k], k[2])
  BY DEF HeadsOK
<1>2. k \in DOMAIN t /\ l.batch \in l.members
  BY <1>1, LoopShape
<1>3. ReadOriginalItems(g, DeriveLoops(g), next, l) = ReadOriginalItems(g, DeriveLoops(g), t, l)
  BY <1>1, <1>2, OriginalStays
<1>4. CASE next[k] = t[k]
  BY <1>1, <1>2, <1>3, <1>4 DEF HeadsOK
<1>5. CASE next[k] # t[k]
  BY <1>1, <1>3, <1>5
<1>6. QED BY <1>4, <1>5
-----------------------------------------------------------------------------
(***************************************************************************)
(* The inductive invariant of the specification, action by action.         *)
(***************************************************************************)
ExecStates ==
  [status : {"absent", "queued", "running", "completed", "failed"}, trigger : Outputs]

\* Every settled step has left a row for each successor whose fate is known.
NothingLeft(g, t) ==
  \A s \in DOMAIN t : IsSettled(t[s]) => PlanAt(g, t, s).toQueue \cup PlanAt(g, t, s).toSkip = {}

ExecOK(g, x, t) ==
  /\ x.status # "absent" => ValidateExecutableGraph(g)
  /\ x.status \in {"absent", "queued"} => DOMAIN t = {}
  /\ (\E k \in DOMAIN t : t[k].status = "cancelled") => x.status = "failed"
  /\ x.status = "failed" => \E k \in DOMAIN t : t[k].status = "failed"
  /\ x.status = "completed" =>
       /\ DOMAIN t # {}
       /\ \A k \in DOMAIN t : IsSettled(t[k]) /\ t[k].status # "failed"
       /\ NothingLeft(g, t)

DataInv ==
  /\ graph \in Graphs
  /\ exec \in ExecStates
  /\ ExecOK(graph, exec, rows)
  /\ GoodTable(graph, rows)
  /\ HeadsOK(graph, rows)
  /\ DOMAIN rows # {} => <<TriggerOf(graph), 0>> \in DOMAIN rows
\* Under the invariant, what the state defines is what the operators above say of the
\* graph and the rows.
LEMMA Links ==
  ASSUME DataInv
  PROVE  /\ loops = DeriveLoops(graph)
         /\ Terminals = TermsOf(graph, rows)
         /\ \A s : PlanOf(s) = PlanAt(graph, rows, s)
         /\ NothingDecidable <=> NothingLeft(graph, rows)
         /\ IsGraph(graph)
         /\ exec.status # "absent" => Executable(graph)
<1>1. loops = DeriveLoops(graph)
  BY DEF DataInv, loops, Loops
<1>2. Terminals = TermsOf(graph, rows)
  BY <1>1 DEF Terminals, TermsOf
<1>3. \A s : PlanOf(s) = PlanAt(graph, rows, s)
  BY <1>1, <1>2 DEF PlanOf, PlanAt
<1>4. NothingDecidable <=> NothingLeft(graph, rows)
  BY <1>3 DEF NothingDecidable, NothingLeft
<1>5. IsGraph(graph)
  BY DataflowAssumption DEF DataInv
<1>6. exec.status # "absent" => Executable(graph)
  BY <1>5 DEF DataInv, ExecOK, Executable
<1>7. QED BY <1>1, <1>2, <1>3, <1>4, <1>5, <1>6

\* The invariant one step on, its parts stated of the new values.
LEMMA NextInv ==
  ASSUME graph' \in Graphs, exec' \in ExecStates, ExecOK(graph', exec', rows'),
         GoodTable(graph', rows'), HeadsOK(graph', rows'),
         DOMAIN rows' # {} => <<TriggerOf(graph'), 0>> \in DOMAIN rows'
  PROVE  DataInv'
BY DEF DataInv

\* The empty table is a good one.
LEMMA EmptyTable ==
  ASSUME NEW g, NEW t, t = [k \in {} |-> NewRow("queued", NoOutputs)]
  PROVE  /\ DOMAIN t = {} /\ GoodTable(g, t) /\ HeadsOK(g, t)
<1>1. DOMAIN t = {} /\ IsFiniteSet(DOMAIN t)
  BY FS_EmptySet
<1>2. TableOK(g, t)
  BY <1>1 DEF TableOK
<1>3. KeysOK(g, t) /\ LoopsOK(g, t) /\ FatesOK(g, t) /\ HeadsOK(g, t)
  BY <1>1 DEF KeysOK, LoopsOK, LoopOK, FatesOK, HeadsOK
<1>4. QED BY <1>1, <1>2, <1>3 DEF GoodTable

\* The invariant holds of the initial states.
LEMMA InitInv ==
  ASSUME Init
  PROVE  DataInv
<1>1. exec \in ExecStates /\ exec.status = "absent"
  BY NoOutputsType DEF Init, ExecStates
<1>2. DOMAIN rows = {} /\ GoodTable(graph, rows) /\ HeadsOK(graph, rows)
  BY EmptyTable DEF Init
<1>3. ExecOK(graph, exec, rows)
  BY <1>1, <1>2 DEF ExecOK
<1>4. QED BY <1>1, <1>2, <1>3 DEF Init, DataInv
\* Admitting an execution keeps the invariant: only a validated graph is persisted.
LEMMA AdmitKeeps ==
  ASSUME DataInv, Admit
  PROVE  DataInv'
<1>1. PICK payload \in TriggerPayloads : exec' = [status |-> "queued", trigger |-> payload]
  BY DEF Admit
<1>2. exec' \in ExecStates /\ exec'.status = "queued" /\ payload \in Outputs
  BY <1>1, DataflowAssumption DEF ExecStates, Outputs
<1>3. /\ graph' = graph /\ rows' = rows /\ ValidateExecutableGraph(graph)
      /\ exec.status = "absent" /\ DOMAIN rows = {}
  BY DEF Admit, DataInv, ExecOK
<1>4. ExecOK(graph', exec', rows')
  BY <1>2, <1>3 DEF ExecOK
<1>5. QED BY <1>2, <1>3, <1>4, NextInv DEF DataInv

\* The row of an execution moves on and its steps stay.
LEMMA ExecMoves ==
  ASSUME DataInv, UNCHANGED <<graph, rows>>, exec.status = "running",
         NEW status \in {"running", "completed", "failed"},
         exec' = [exec EXCEPT !.status = status],
         status # "failed" => \A k \in DOMAIN rows : rows[k].status # "cancelled",
         status = "failed" => \E k \in DOMAIN rows : rows[k].status = "failed",
         status = "completed" => /\ DOMAIN rows # {} /\ NothingLeft(graph, rows)
                                 /\ \A k \in DOMAIN rows : IsSettled(rows[k]) /\ rows[k].status # "failed"
  PROVE  DataInv'
<1>1. exec' \in ExecStates /\ exec'.status = status
  BY DEF DataInv, ExecStates
<1>2. graph' = graph /\ rows' = rows
  OBVIOUS
<1>3. ExecOK(graph', exec', rows')
  BY <1>1, <1>2 DEF ExecOK, DataInv
<1>4. QED BY <1>1, <1>2, <1>3, NextInv DEF DataInv

\* Before an execution has failed, no row is cancelled.
LEMMA NoneCancelled ==
  ASSUME DataInv, exec.status # "failed"
  PROVE  \A k \in DOMAIN rows : rows[k].status # "cancelled"
BY DEF DataInv, ExecOK

\* Beginning an execution keeps the invariant.
LEMMA BeginKeeps ==
  ASSUME DataInv, Begin
  PROVE  DataInv'
<1>1. exec' \in ExecStates /\ exec'.status = "running" /\ exec.status = "queued"
  BY DEF DataInv, ExecStates, Begin
<1>2. graph' = graph /\ rows' = rows
  BY DEF Begin
<1>3. ExecOK(graph', exec', rows')
  BY <1>1, <1>2, NoneCancelled DEF ExecOK, DataInv
<1>4. QED BY <1>1, <1>2, <1>3, NextInv DEF DataInv

\* Completing an execution keeps the invariant: nothing is left to settle or to decide.
LEMMA CompleteKeeps ==
  ASSUME DataInv, Complete
  PROVE  DataInv'
<1>1. /\ exec.status = "running" /\ exec' = [exec EXCEPT !.status = "completed"]
      /\ UNCHANGED <<graph, rows>>
      /\ DOMAIN rows # {} /\ NothingLeft(graph, rows)
      /\ \A k \in DOMAIN rows : IsSettled(rows[k]) /\ rows[k].status # "failed"
  BY Links DEF Complete, AllSettled, AnyFailed
<1>2. QED BY <1>1, NoneCancelled, ExecMoves

\* Failing an execution keeps the invariant.
LEMMA FailKeeps ==
  ASSUME DataInv, Fail
  PROVE  DataInv'
BY ExecMoves DEF Fail, AnyFailed

\* Recording the trigger's row keeps the invariant.
LEMMA RecordTriggerKeeps ==
  ASSUME DataInv, RecordTrigger
  PROVE  DataInv'
<1>1. /\ exec.status = "running" /\ graph' = graph /\ exec' = exec
      /\ rows' = [k \in {<<TriggerOf(graph), 0>>} |-> NewRow("completed", exec.trigger)]
  BY DEF RecordTrigger
<1>2. Executable(graph) /\ exec.trigger \in Outputs
  BY <1>1, Links DEF DataInv, ExecStates
<1>3. GoodTable(graph, rows')
  BY <1>1, <1>2, FirstRow
<1>4. DOMAIN rows' = {<<TriggerOf(graph), 0>>} /\ rows'[<<TriggerOf(graph), 0>>].status = "completed"
  BY <1>1 DEF NewRow
<1>5. HeadsOK(graph, rows')
  BY <1>2, <1>4, TriggerFacts, LoopShape DEF HeadsOK, InLoop
<1>6. ExecOK(graph', exec', rows')
  BY <1>1, <1>4 DEF ExecOK, DataInv
<1>7. QED BY <1>1, <1>3, <1>4, <1>5, <1>6, NextInv DEF DataInv

\* Deciding the successors of a settled step keeps the invariant.
LEMMA DecideKeeps ==
  ASSUME DataInv, Decide
  PROVE  DataInv' /\ Continues(graph, rows, rows')
<1>1. exec.status = "running" /\ graph' = graph /\ exec' = exec
  BY DEF Decide
<1>2. Executable(graph) /\ GoodTable(graph, rows) /\ HeadsOK(graph, rows) /\ TableOK(graph, rows)
  BY <1>1, Links DEF DataInv, GoodTable
<1>3. PICK s \in DOMAIN rows :
        /\ IsSettled(rows[s])
        /\ \E D \in (SUBSET (PlanAt(graph, rows, s).toQueue \cup PlanAt(graph, rows, s).toSkip)) \ {{}} :
             rows' = [k \in DOMAIN rows \cup D |->
                        IF k \in DOMAIN rows THEN rows[k]
                        ELSE NewRow(IF k \in PlanAt(graph, rows, s).toQueue THEN "queued" ELSE "skipped",
                                    NoOutputs)]
  BY Links DEF Decide
<1>4. PICK D \in SUBSET (PlanAt(graph, rows, s).toQueue \cup PlanAt(graph, rows, s).toSkip) :
        rows' = [k \in DOMAIN rows \cup D |->
                   IF k \in DOMAIN rows THEN rows[k]
                   ELSE NewRow(IF k \in PlanAt(graph, rows, s).toQueue THEN "queued" ELSE "skipped",
                               NoOutputs)]
  BY <1>3
<1>5. IsFiniteSet(D)
  BY <1>2, <1>4, PlanFinite, FS_Subset
<1>6. GoodTable(graph, rows') /\ Continues(graph, rows, rows')
  BY <1>2, <1>3, <1>4, <1>5, AddRows
<1>7. /\ DOMAIN rows' = DOMAIN rows \cup D
      /\ \A k \in DOMAIN rows : rows'[k] = rows[k]
      /\ \A k \in D \ DOMAIN rows : rows'[k].status \in {"queued", "skipped"}
  BY <1>4 DEF NewRow
<1>8. HeadsOK(graph, rows')
  <2>1. \A k \in DOMAIN rows' : rows'[k].status = "completed" => k \in DOMAIN rows /\ rows'[k] = rows[k]
    BY <1>7
  <2>2. TableOK(graph, rows')
    BY <1>6 DEF GoodTable
  <2>3. QED BY <1>2, <1>6, <2>1, <2>2, HeadsContinue
<1>9. ExecOK(graph', exec', rows')
  BY <1>1, <1>7, NoneCancelled DEF ExecOK, DataInv
<1>10. QED BY <1>1, <1>3, <1>6, <1>7, <1>8, <1>9, NextInv DEF DataInv

\* Rows change, and none is added.
LEMMA RowsChange ==
  ASSUME DataInv, UNCHANGED <<graph, exec>>, Executable(graph), DOMAIN rows' = DOMAIN rows,
         rows' = [k \in DOMAIN rows' |-> rows'[k]],
         exec.status \in {"running", "failed"},
         \A k \in DOMAIN rows :
           \/ rows'[k] = rows[k]
           \/ /\ ~IsSettled(rows[k])
              /\ rows'[k] \in [status : {"running", "completed", "failed", "cancelled"}, outputs : Outputs]
              /\ k[1] # TriggerOf(graph)
              /\ rows'[k].status # "completed" => rows'[k].outputs = NoOutputs
              /\ rows'[k].status = "cancelled" => exec.status = "failed"
              /\ \A l \in DeriveLoops(graph) : k[1] = l.batch /\ rows'[k].status = "completed" =>
                   HeadRan(graph, l, ReadOriginalItems(graph, DeriveLoops(graph), rows, l), rows'[k], k[2])
  PROVE  DataInv' /\ Continues(graph, rows, rows')
<1>1. GoodTable(graph, rows) /\ HeadsOK(graph, rows) /\ TableOK(graph, rows)
  BY DEF DataInv, GoodTable
<1>2. TableOK(graph, rows')
  <2>1. \A k \in DOMAIN rows : rows'[k] \in [status : StepStatuses, outputs : Outputs]
    BY <1>1 DEF TableOK, StepStatuses
  <2>2. \A k \in DOMAIN rows : rows'[k].status # "completed" => rows'[k].outputs = NoOutputs
    BY <1>1 DEF TableOK
  <2>3. QED BY <1>1, <2>1, <2>2 DEF TableOK
<1>3. \A k \in DOMAIN rows : rows'[k] = rows[k] \/ (~IsSettled(rows[k]) /\ rows'[k].status # "skipped")
  OBVIOUS
<1>4. GoodTable(graph, rows') /\ Continues(graph, rows, rows')
  BY <1>1, <1>2, <1>3, ChangeRows
<1>5. HeadsOK(graph, rows')
  BY <1>1, <1>2, <1>4, HeadsContinue
<1>6. ExecOK(graph', exec', rows')
  <2>1. \A k \in DOMAIN rows : IsSettled(rows[k]) => rows'[k] = rows[k]
    OBVIOUS
  <2>2. exec.status = "failed" => \E k \in DOMAIN rows' : rows'[k].status = "failed"
    BY <2>1 DEF ExecOK, DataInv, IsSettled, SettledStatuses
  <2>3. (\E k \in DOMAIN rows' : rows'[k].status = "cancelled") => exec.status = "failed"
    BY DEF ExecOK, DataInv
  <2>4. exec'.status # "completed" /\ exec'.status \notin {"absent", "queued"}
    OBVIOUS
  <2>5. QED BY <2>2, <2>3, <2>4 DEF ExecOK, DataInv
<1>7. QED BY <1>4, <1>5, <1>6, NextInv DEF DataInv
\* A step that has not settled is not the trigger's, and its execution still runs
\* or has failed.
LEMMA UnsettledStep ==
  ASSUME DataInv, NEW k \in DOMAIN rows, ~IsSettled(rows[k])
  PROVE  /\ exec.status \in {"running", "failed"} /\ Executable(graph)
         /\ k[1] # TriggerOf(graph)
         /\ k \in NodesOf(graph) \X Nat
<1>1. exec.status \in {"absent", "queued", "running", "completed", "failed"} /\ exec.status # "completed"
  BY DEF DataInv, ExecStates, ExecOK
<1>2. exec.status \in {"running", "failed"}
  BY <1>1 DEF DataInv, ExecOK
<1>3. k[1] # TriggerOf(graph)
  BY DEF DataInv, GoodTable, KeysOK, IsSettled, SettledStatuses
<1>4. QED BY <1>2, <1>3, Links DEF DataInv, GoodTable, TableOK

\* A step that begins keeps the invariant: it was queued, and what it reads is decided.
LEMMA BeginStepKeeps ==
  ASSUME DataInv, BeginStep
  PROVE  DataInv' /\ Continues(graph, rows, rows')
<1>1. PICK k \in DOMAIN rows : /\ rows[k].status = "queued"
                               /\ rows' = [rows EXCEPT ![k] = NewRow("running", NoOutputs)]
  BY DEF BeginStep
<1>2. ~IsSettled(rows[k])
  BY <1>1 DEF IsSettled, SettledStatuses
<1>3. UNCHANGED <<graph, exec>> /\ exec.status = "running"
  BY DEF BeginStep
<1>4. Executable(graph) /\ k[1] # TriggerOf(graph)
  BY <1>2, UnsettledStep
<1>5. rows = [j \in DOMAIN rows |-> rows[j]]
  BY DEF DataInv, GoodTable, TableOK
<1>6. /\ DOMAIN rows' = DOMAIN rows /\ rows' = [j \in DOMAIN rows' |-> rows'[j]]
      /\ \A j \in DOMAIN rows : rows'[j] = IF j = k THEN NewRow("running", NoOutputs) ELSE rows[j]
  BY <1>1, <1>5
<1>7. /\ NewRow("running", NoOutputs) \in [status : {"running", "completed", "failed", "cancelled"}, outputs : Outputs]
      /\ NewRow("running", NoOutputs).status = "running" /\ NewRow("running", NoOutputs).outputs = NoOutputs
  BY NoOutputsType DEF NewRow
<1>8. QED BY <1>2, <1>3, <1>4, <1>6, <1>7, RowsChange

\* Cancelling queued rows after a failure keeps the invariant.
LEMMA CancelQueuedKeeps ==
  ASSUME DataInv, CancelQueued
  PROVE  DataInv' /\ Continues(graph, rows, rows')
<1>1. /\ exec.status = "failed" /\ UNCHANGED <<graph, exec>>
      /\ rows' = [k \in DOMAIN rows |->
                   IF rows[k].status = "queued" THEN NewRow("cancelled", NoOutputs) ELSE rows[k]]
  BY DEF CancelQueued
<1>2. Executable(graph)
  BY <1>1, Links
<1>3. /\ NewRow("cancelled", NoOutputs) \in [status : {"running", "completed", "failed", "cancelled"}, outputs : Outputs]
      /\ NewRow("cancelled", NoOutputs).status = "cancelled" /\ NewRow("cancelled", NoOutputs).outputs = NoOutputs
  BY NoOutputsType DEF NewRow
<1>4. /\ DOMAIN rows' = DOMAIN rows /\ rows' = [k \in DOMAIN rows' |-> rows'[k]]
      /\ \A k \in DOMAIN rows :
           \/ rows'[k] = rows[k]
           \/ rows[k].status = "queued" /\ rows'[k] = NewRow("cancelled", NoOutputs)
  BY <1>1
<1>5. ASSUME NEW k \in DOMAIN rows, rows[k].status = "queued"
      PROVE  ~IsSettled(rows[k]) /\ k[1] # TriggerOf(graph)
  <2>1. ~IsSettled(rows[k])
    BY <1>5 DEF IsSettled, SettledStatuses
  <2>2. QED BY <2>1, UnsettledStep
<1>6. QED BY <1>1, <1>2, <1>3, <1>4, <1>5, RowsChange

\* Recording what an executor returned, or that it failed, keeps the invariant.
LEMMA SettleStepKeeps ==
  ASSUME DataInv, SettleStep
  PROVE  DataInv' /\ Continues(graph, rows, rows')
<1>1. PICK k \in DOMAIN rows :
        /\ rows[k].status = "running"
        /\ \E run \in StepRuns(graph, loops, rows, k, ExecutorRuns, BatchErrors) :
             rows' = [rows EXCEPT ![k] = NewRow(IF run.ok THEN "completed" ELSE "failed", run.outputs)]
  BY DEF SettleStep
<1>2. PICK run \in StepRuns(graph, loops, rows, k, ExecutorRuns, BatchErrors) :
        rows' = [rows EXCEPT ![k] = NewRow(IF run.ok THEN "completed" ELSE "failed", run.outputs)]
  BY <1>1
<1>3. ~IsSettled(rows[k]) /\ UNCHANGED <<graph, exec>>
  BY <1>1 DEF IsSettled, SettledStatuses, SettleStep
<1>4. /\ exec.status \in {"running", "failed"} /\ Executable(graph)
      /\ k[1] # TriggerOf(graph) /\ k \in NodesOf(graph) \X Nat
  BY <1>3, UnsettledStep
<1>5. loops = DeriveLoops(graph) /\ TableOK(graph, rows)
  BY Links DEF DataInv, GoodTable
<1>6. ExecutorRuns \in SUBSET RunResult /\ BatchErrors \in SUBSET RunResult
  BY FailedType, SucceededType, DataflowAssumption DEF ExecutorRuns, BatchErrors, Outputs
<1>7. graph.batch \in [NodesOf(graph) -> Nat] /\ \A j \in DOMAIN rows : rows[j] \in Row
  BY <1>4, <1>5 DEF Executable, IsGraph, TableOK, Row
<1>8. run \in RunResult
  BY <1>2, <1>4, <1>6, <1>7, StepRunsType
<1> DEFINE row == NewRow(IF run.ok THEN "completed" ELSE "failed", run.outputs)
<1>9. /\ row \in [status : {"running", "completed", "failed", "cancelled"}, outputs : Outputs]
      /\ row.outputs = run.outputs /\ (row.status = "completed" <=> run.ok) /\ row.status # "cancelled"
  BY <1>8 DEF NewRow, RunResult
<1>10. run.ok => row = [status |-> "completed", outputs |-> run.outputs]
  BY DEF NewRow
<1>11. ~run.ok => run.outputs = NoOutputs
  <2>1. ASSUME ~run.ok PROVE run = Failed
    <3>1. ASSUME NEW o PROVE Succeeded(o).ok
      BY DEF Succeeded
    <3>2. \A r \in ExecutorRuns \cup BatchErrors : r.ok \/ r = Failed
      BY <3>1 DEF ExecutorRuns, BatchErrors
    <3>3. \A g, m, c, j : RunBatchNode(g, m, c, j).ok \/ RunBatchNode(g, m, c, j) = Failed
      <4>1. \A size, pass, o, a : RunBatchStep(size, pass, o, a).ok \/ RunBatchStep(size, pass, o, a) = Failed
        BY <3>1 DEF RunBatchStep
      <4>2. QED BY <4>1 DEF RunBatchNode
    <3>4. run = RunBatchNode(graph, loops, rows, k) \/ run \in ExecutorRuns \cup BatchErrors
      <4>1. CASE graph.kind[k[1]] = "batch"
        BY <1>2, <4>1 DEF StepRuns
      <4>2. CASE graph.kind[k[1]] # "batch"
        BY <1>2, <4>2 DEF StepRuns
      <4>3. QED BY <4>1, <4>2
    <3>5. QED BY <2>1, <3>2, <3>3, <3>4
  <2>2. QED BY <2>1 DEF Failed
<1>12. ASSUME NEW l \in DeriveLoops(graph), k[1] = l.batch, run.ok
       PROVE  HeadRan(graph, l, ReadOriginalItems(graph, DeriveLoops(graph), rows, l), row, k[2])
  <2>1. graph.kind[k[1]] = "batch"
    BY <1>4, <1>12, HeadKind
  <2>2. run \in {RunBatchNode(graph, loops, rows, k)} \cup BatchErrors
    BY <1>2, <2>1 DEF StepRuns
  <2>3. run \notin BatchErrors
    BY <1>12 DEF BatchErrors, Failed
  <2>4. run = RunBatchNode(graph, DeriveLoops(graph), rows, k)
    BY <1>5, <2>2, <2>3
  <2>5. QED BY <1>4, <1>5, <1>10, <1>12, <2>4, HeadRuns
<1>13. rows = [j \in DOMAIN rows |-> rows[j]]
  BY <1>5 DEF TableOK
<1> HIDE DEF row
<1>14. /\ DOMAIN rows' = DOMAIN rows /\ rows' = [j \in DOMAIN rows' |-> rows'[j]]
       /\ \A j \in DOMAIN rows : rows'[j] = IF j = k THEN row ELSE rows[j]
  BY <1>2, <1>13 DEF row
<1>15. \A j \in DOMAIN rows : rows'[j] = rows[j] \/ (j = k /\ rows'[j] = row)
  BY <1>14
<1>16. row.status # "completed" => row.outputs = NoOutputs
  BY <1>9, <1>11
<1>17. \A l \in DeriveLoops(graph) : k[1] = l.batch /\ row.status = "completed" =>
          HeadRan(graph, l, ReadOriginalItems(graph, DeriveLoops(graph), rows, l), row, k[2])
  BY <1>9, <1>12
<1>18. QED BY <1>3, <1>4, <1>9, <1>14, <1>15, <1>16, <1>17, RowsChange

\* Every step keeps the invariant, and what has settled.
LEMMA NextKeeps ==
  ASSUME DataInv, [Next]_dataVars
  PROVE  /\ DataInv' /\ graph' = graph /\ Continues(graph, rows, rows')
         /\ TableOK(graph, rows) /\ TableOK(graph, rows')
<1>1. rows' = rows => Continues(graph, rows, rows')
  BY DEF Continues
<1>2. CASE UNCHANGED dataVars
  <2>1. graph' = graph /\ exec' = exec /\ rows' = rows
    BY <1>2 DEF dataVars
  <2>2. QED BY <1>1, <2>1, NextInv DEF DataInv, GoodTable
<1>3. CASE Next
  <2>1. graph' = graph
    BY <1>3 DEF Next, Progress, Admit, Begin, RecordTrigger, Fail, BeginStep, SettleStep, Decide, Complete,
                CancelQueued
  <2>2. CASE Admit \/ Begin \/ Fail \/ Complete
    <3>1. rows' = rows
      BY <2>2 DEF Admit, Begin, Fail, Complete
    <3>2. QED BY <1>1, <2>1, <2>2, <3>1, AdmitKeeps, BeginKeeps, FailKeeps, CompleteKeeps DEF DataInv, GoodTable
  <2>3. CASE RecordTrigger
    <3>1. DOMAIN rows = {}
      BY <2>3 DEF RecordTrigger
    <3>2. Continues(graph, rows, rows')
      BY <3>1 DEF Continues, TermsOf, LoadTerminalIterations
    <3>3. QED BY <2>1, <2>3, <3>2, RecordTriggerKeeps DEF DataInv, GoodTable
  <2>4. CASE BeginStep \/ SettleStep \/ Decide \/ CancelQueued
    BY <2>1, <2>4, BeginStepKeeps, SettleStepKeeps, DecideKeeps, CancelQueuedKeeps DEF DataInv, GoodTable
  <2>5. QED BY <1>3, <2>2, <2>3, <2>4 DEF Next, Progress
<1>4. QED BY <1>2, <1>3

\* The invariant holds in every state.
THEOREM Invariant == Spec => []DataInv
<1>1. Init => DataInv
  BY InitInv
<1>2. DataInv /\ [Next]_dataVars => DataInv'
  BY NextKeeps
<1>3. QED BY <1>1, <1>2, PTL DEF Spec
-----------------------------------------------------------------------------
(***************************************************************************)
(* What the invariant implies: the safety properties, first fates, passes  *)
(* and reads.                                                              *)
(***************************************************************************)
\* What the invariant says of a table that has a row.
LEMMA SomeRow ==
  ASSUME DataInv, DOMAIN rows # {}
  PROVE  /\ Executable(graph) /\ GoodTable(graph, rows) /\ TableOK(graph, rows) /\ HeadsOK(graph, rows)
         /\ loops = DeriveLoops(graph) /\ Terminals = TermsOf(graph, rows)
         /\ exec.status \notin {"absent", "queued"}
BY Links DEF DataInv, ExecOK, GoodTable

\* Fates are part of the invariant.
LEMMA FatesAreJustified ==
  ASSUME DataInv
  PROVE  FatesJustified
<1>1. SUFFICES ASSUME NEW k \in DOMAIN rows, k[1] # TriggerOf(graph)
               PROVE  LET reads == StepReads(graph, loops, rows, k)
                          live == {s \in reads : IsLive(rows[s.src.key], s.edge)}
                      IN  /\ reads # {}
                          /\ \A s \in reads : ~SourceUnsettled(s, rows)
                          /\ IF rows[k].status = "skipped" THEN live = {} ELSE live # {}
  BY DEF FatesJustified
<1>2. /\ Executable(graph) /\ GoodTable(graph, rows) /\ loops = DeriveLoops(graph) /\ k[2] \in Nat
  BY SomeRow, KeyParts
<1>3. StepReads(graph, loops, rows, k) = ReadsOf(graph, rows, k)
  BY <1>2, StepReadsAll
<1>4. Justified(graph, rows, k)
  BY <1>1, <1>2 DEF GoodTable, FatesOK
<1>5. QED BY <1>3, <1>4 DEF Justified, Decided

\* Passes in order follow from where the invariant lets a loop's rows be.
LEMMA PassesAreInOrder ==
  ASSUME DataInv
  PROVE  PassesInOrder
<1>1. SUFFICES ASSUME NEW l \in loops, NEW k \in DOMAIN rows
               PROVE  /\ k[1] = l.batch /\ k[2] > 0 =>
                           \A m \in l.members :
                             /\ <<m, k[2] - 1>> \in DOMAIN rows
                             /\ IsSettled(rows[<<m, k[2] - 1>>])
                      /\ k[1] \in l.members \ {l.batch} =>
                           /\ <<l.batch, k[2]>> \in DOMAIN rows
                           /\ Filled(rows[<<l.batch, k[2]>>], LoopSlot)
  BY DEF PassesInOrder
<1>2. LoopOK(rows, l) /\ k[2] \in Nat
  BY SomeRow, KeyParts DEF GoodTable, LoopsOK
<1>3. k[2] \in 0..k[2]
  BY <1>2
<1>4. QED BY <1>2, <1>3 DEF LoopOK

\* Two sources of a step never feed one input slot.
LEMMA OneSourcePerSlot ==
  ASSUME NEW g, Executable(g), NEW t, NEW k, k[2] \in Nat,
         NEW s \in ReadsOf(g, t, k), NEW r \in ReadsOf(g, t, k), s.edge.in = r.edge.in
  PROVE  s = r
<1>1. PICK d \in g.edges : /\ d.to = k[1]
                           /\ s = [edge |-> d, src |-> SourceAt(g, d, k, TermsOf(g, t))]
                           /\ SourceAt(g, d, k, TermsOf(g, t)).kind # "none"
  BY ReadsAre
<1>2. PICK e \in g.edges : /\ e.to = k[1]
                           /\ r = [edge |-> e, src |-> SourceAt(g, e, k, TermsOf(g, t))]
                           /\ SourceAt(g, e, k, TermsOf(g, t)).kind # "none"
  BY ReadsAre
<1>3. ASSUME NEW b \in g.edges, NEW f \in g.edges, b.to = k[1], f.to = k[1], b.back, ~f.back,
             SourceAt(g, b, k, TermsOf(g, t)).kind # "none",
             SourceAt(g, f, k, TermsOf(g, t)).kind # "none"
      PROVE  FALSE
  <2>1. PICK l \in DeriveLoops(g) : b.to = l.batch /\ l.batch \in l.members
    BY <1>3, EdgeClasses, LoopShape
  <2>2. ClassifyEdge(b, DeriveLoops(g)) = "back"
    BY <1>3, EdgeClasses
  <2>3. k[2] > 0
    BY <1>3, <2>2, SourceCases
  <2>4. ClassifyEdge(f, DeriveLoops(g)) \notin {"entry", "exit"}
    BY <1>3, <2>3, SourceCases
  <2>5. ClassifyEdge(f, DeriveLoops(g)) = "intra"
    BY <1>3, <2>1, <2>4, EdgeClasses DEF InLoop
  <2>6. PICK j \in DeriveLoops(g) : f.to \in j.members \ {j.batch}
    BY <2>5, EdgeClasses
  <2>7. QED BY <1>3, <2>1, <2>6, LoopsApart
<1>4. d.back \in BOOLEAN /\ e.back \in BOOLEAN
  BY DEF Executable, IsGraph
<1>5. CASE d.back /\ e.back
  <2>1. PICK l \in DeriveLoops(g) : l.backs = {d} /\ d.to = l.batch
    BY <1>5, EdgeClasses
  <2>2. e \in l.backs
    BY <1>1, <1>2, <1>5, <2>1, LoopShape
  <2>3. QED BY <1>1, <1>2, <2>1, <2>2
<1>6. CASE ~d.back /\ ~e.back
  <2>1. d = e
    BY <1>1, <1>2, <1>6 DEF Executable, ValidateExecutableGraph, OneEdgePerInputSlot
  <2>2. QED BY <1>1, <1>2, <2>1
<1>7. QED BY <1>1, <1>2, <1>3, <1>4, <1>5, <1>6

\* A step that runs finds one settled source for each input slot.
LEMMA RunningStepsRead ==
  ASSUME DataInv
  PROVE  RunningStepsCanRead
<1>1. SUFFICES ASSUME NEW k \in DOMAIN rows, rows[k].status = "running"
               PROVE  InputsReadable(graph, loops, rows, k)
  BY DEF RunningStepsCanRead
<1>2. ~IsSettled(rows[k])
  BY <1>1 DEF IsSettled, SettledStatuses
<1>3. /\ Executable(graph) /\ GoodTable(graph, rows) /\ loops = DeriveLoops(graph) /\ k[2] \in Nat
      /\ k[1] # TriggerOf(graph)
  BY <1>2, SomeRow, KeyParts, UnsettledStep
<1>4. StepReads(graph, loops, rows, k) = ReadsOf(graph, rows, k)
  BY <1>3, StepReadsAll
<1>5. Justified(graph, rows, k)
  BY <1>3 DEF GoodTable, FatesOK
<1>6. \A s, r \in ReadsOf(graph, rows, k) : s.edge.in = r.edge.in => s = r
  BY <1>3, OneSourcePerSlot
<1>7. QED BY <1>4, <1>5, <1>6 DEF InputsReadable, Justified, Decided
-----------------------------------------------------------------------------
(***************************************************************************)
(* Every item is handed out.                                               *)
(***************************************************************************)
\* The lists a loop hands out, a batch at a time, until its list has run out.
Slices(size, n, h) ==
  \A i \in DOMAIN h : n - i * size > 0 /\ h[i] = IF n - i * size < size THEN n - i * size ELSE size

\* They hold as many items as the loop has reached.
LEMMA ItemsOfSlices ==
  ASSUME NEW size \in Nat, NEW n \in Nat, NEW q \in Nat, NEW h, DOMAIN h = 0..(q - 1), Slices(size, n, h)
  PROVE  Cardinality(Items(h)) = IF q * size < n THEN q * size ELSE n
<1> DEFINE part(p) == UNION {{i} \X (1..AsList(h[i])) : i \in 0..(p - 1)}
<1> DEFINE reached(p) == IF p * size < n THEN p * size ELSE n
<1> DEFINE good(p) == IsFiniteSet(part(p)) /\ Cardinality(part(p)) = reached(p)
<1> DEFINE bad == {p \in 0..q : ~good(p)}
<1>1. \A p \in 0..q : p * size \in Nat /\ reached(p) \in Nat
  OBVIOUS
<1>2. bad = {}
  <2>1. SUFFICES ASSUME bad # {} PROVE FALSE
    OBVIOUS
  <2>2. bad \in SUBSET Nat
    OBVIOUS
  <2>3. PICK p \in bad : \A j \in bad : p <= j
    BY <2>1, <2>2, LeastNumber
  <2>4. CASE p = 0
    <3>1. part(0) = {}
      OBVIOUS
    <3>2. reached(0) = 0
      OBVIOUS
    <3>3. QED BY <2>3, <2>4, <3>1, <3>2, FS_EmptySet
  <2>5. CASE p # 0
    <3> DEFINE i == p - 1
    <3>1. i \in 0..(q - 1) /\ i \in Nat /\ i \in 0..q /\ i \notin bad /\ p = i + 1
      <4> HIDE DEF good
      <4>1. p \in 0..q /\ p # 0
        BY <2>3, <2>5
      <4>2. i \in 0..(q - 1) /\ i \in Nat /\ i \in 0..q /\ p = i + 1
        BY <4>1
      <4>3. ~(p <= i)
        BY <4>1
      <4>4. QED BY <2>3, <4>2, <4>3
    <3>2. IsFiniteSet(part(i)) /\ Cardinality(part(i)) = reached(i)
      BY <3>1
    <3> DEFINE x == i * size
    <3>3. x \in Nat /\ p * size = x + size
      BY <3>1
    <3>4. n - x > 0 /\ h[i] = IF n - x < size THEN n - x ELSE size
      BY <3>1 DEF Slices
    <3> DEFINE last == {i} \X (1..AsList(h[i]))
    <3>5. part(p) = part(i) \cup last
      <4>1. 0..(p - 1) = (0..(i - 1)) \cup {i}
        BY <3>1
      <4> HIDE DEF i
      <4>2. QED BY <4>1
    <3> HIDE DEF x
    <3>6. h[i] \in Nat /\ AsList(h[i]) = h[i]
      BY <3>3, <3>4 DEF AsList, NoData
    <3>7. IsFiniteSet(last) /\ Cardinality(last) = h[i]
      <4> DEFINE m == h[i]
      <4>1. m \in Nat /\ 1 \in Int /\ m \in Int
        BY <3>6
      <4> HIDE DEF m
      <4>6. IsFiniteSet(1..m) /\ Cardinality(1..m) = IF 1 > m THEN 0 ELSE m - 1 + 1
        BY <4>1, FS_Interval
      <4>2. IsFiniteSet(1..m) /\ Cardinality(1..m) = m
        BY <4>1, <4>6
      <4>3. IsFiniteSet({i}) /\ Cardinality({i}) = 1
        BY FS_Singleton
      <4>4. IsFiniteSet({i} \X (1..m)) /\ Cardinality({i} \X (1..m)) = 1 * m
        BY <4>2, <4>3, FS_Product
      <4>5. QED BY <3>6, <4>1, <4>4 DEF m
    <3>8. part(i) \cap last = {}
      <4>1. \A j \in 0..(i - 1) : j # i
        BY <3>1
      <4> HIDE DEF i
      <4>2. QED BY <4>1
    <3>9. /\ IsFiniteSet(part(p)) /\ Cardinality(part(p)) = reached(i) + h[i] - Cardinality(part(i) \cap last)
      <4> HIDE DEF part, last, i, reached
      <4>1. QED BY <3>2, <3>5, <3>7, FS_Union
    <3>10. Cardinality(part(i) \cap last) = 0
      <4> HIDE DEF part, last
      <4>1. QED BY <3>8, FS_EmptySet
    <3>11. reached(i) + h[i] - 0 = reached(p)
      <4>1. reached(i) = IF x < n THEN x ELSE n
        BY DEF x
      <4>2. reached(p) = IF x + size < n THEN x + size ELSE n
        BY <3>3
      <4> HIDE DEF reached
      <4>3. QED BY <3>3, <3>4, <4>1, <4>2
    <3> HIDE DEF part, last, reached
    <3>12. good(p)
      BY <3>9, <3>10, <3>11
    <3>13. QED BY <2>3, <3>12
  <2>6. QED BY <2>4, <2>5
<1>3. Items(h) = part(q)
  BY DEF Items
<1>4. q \in 0..q
  OBVIOUS
<1> HIDE DEF part
<1>5. good(q)
  BY <1>2, <1>4
<1>6. QED BY <1>3, <1>5

\* What a loop handed out before a pass that hands out nothing.
LEMMA HandedOut ==
  ASSUME NEW g, Executable(g), NEW t, GoodTable(g, t), HeadsOK(g, t), NEW l \in DeriveLoops(g),
         NEW k \in DOMAIN t, k[1] = l.batch, t[k].status = "completed", IsTerminalStep(t[k])
  PROVE  LET handed == [i \in 0..(k[2] - 1) |-> t[<<l.batch, i>>].outputs[LoopSlot]]
         IN  /\ Cardinality(Items(handed)) = AsList(ReadOriginalItems(g, DeriveLoops(g), t, l))
             /\ \A i \in DOMAIN handed : handed[i] \in 1..g.batch[l.batch]
<1> DEFINE original == ReadOriginalItems(g, DeriveLoops(g), t, l)
<1> DEFINE handed == [i \in 0..(k[2] - 1) |-> t[<<l.batch, i>>].outputs[LoopSlot]]
<1> DEFINE n == AsList(original)
<1> DEFINE size == g.batch[l.batch]
<1>1. /\ k = <<k[1], k[2]>> /\ k[2] \in Nat /\ TableOK(g, t) /\ LoopOK(t, l) /\ l.batch \in l.members
      /\ size \in Nat /\ size >= 1 /\ LoopSlot \in OutputSlots
  BY KeyParts, HeadKind, LoopShape, OutputSlotsAssumption DEF GoodTable, LoopsOK, LoopSlot
<1>2. HeadRan(g, l, original, t[k], k[2])
  BY DEF HeadsOK
<1>3. n \in Nat
  BY <1>2 DEF HeadRan, AsList, NoData
<1>4. ASSUME NEW i \in 0..(k[2] - 1)
      PROVE  /\ n - i * size > 0
             /\ t[<<l.batch, i>>].outputs[LoopSlot] = IF n - i * size < size THEN n - i * size ELSE size
  <2>1. i + 1 \in 0..k[2] /\ i \in Nat /\ i + 1 > 0 /\ (i + 1) - 1 = i
    BY <1>1
  <2> DEFINE next == <<l.batch, i + 1>>
  <2>2. next \in DOMAIN t /\ next[1] = l.batch /\ next[2] = i + 1
    BY <1>1, <2>1 DEF LoopOK
  <2>3. Filled(t[<<l.batch, i>>], LoopSlot) /\ <<l.batch, i>> \in DOMAIN t
    BY <1>1, <2>1, <2>2 DEF LoopOK
  <2>4. t[<<l.batch, i>>].status = "completed"
    BY <1>1, <2>3, FilledSettled
  <2>5. HeadRan(g, l, original, t[<<l.batch, i>>], i)
    BY <2>3, <2>4 DEF HeadsOK
  <2> HIDE DEF original
  <2> DEFINE x == i * size
  <2>6. x \in Nat
    BY <1>1, <2>1
  <2>7. HeadRan(g, l, original, t[<<l.batch, i>>], i) <=>
          /\ original \in Nat \cup {NoData}
          /\ n - x > 0 => t[<<l.batch, i>>].outputs[LoopSlot] = IF n - x < size THEN n - x ELSE size
          /\ n - x <= 0 => ~Filled(t[<<l.batch, i>>], LoopSlot)
    BY DEF HeadRan, LeftAt
  <2> HIDE DEF x, n
  <2>8. n - x > 0
    BY <1>3, <2>3, <2>5, <2>6, <2>7
  <2>9. QED BY <2>5, <2>7, <2>8 DEF x
<1> HIDE DEF original
<1>5. Slices(size, n, handed) /\ DOMAIN handed = 0..(k[2] - 1)
  BY <1>4 DEF Slices
<1>6. n - k[2] * size <= 0
  <2> DEFINE x == k[2] * size
  <2>1. x \in Nat
    BY <1>1
  <2>2. n - x > 0 => t[k].outputs[LoopSlot] = IF n - x < size THEN n - x ELSE size
    BY <1>2 DEF HeadRan, LeftAt
  <2> HIDE DEF x, n, size
  <2>3. t[k].outputs[LoopSlot] = NoData
    BY <1>1 DEF IsTerminalStep, Filled
  <2>4. n - x > 0 => t[k].outputs[LoopSlot] >= 1
    BY <1>1, <1>3, <2>1, <2>2
  <2>5. ~(n - x > 0)
    BY <2>3, <2>4 DEF NoData
  <2>6. QED BY <1>3, <2>1, <2>5 DEF x
<1> HIDE DEF n, size, handed
<1>7. Cardinality(Items(handed)) = n
  <2>1. Cardinality(Items(handed)) = IF k[2] * size < n THEN k[2] * size ELSE n
    BY <1>1, <1>3, <1>5, ItemsOfSlices
  <2>2. k[2] * size \in Nat
    BY <1>1
  <2>3. QED BY <1>3, <1>6, <2>1, <2>2
<1>8. ASSUME NEW i \in DOMAIN handed PROVE handed[i] \in 1..size
  <2> DEFINE x == i * size
  <2>1. i \in Nat /\ x \in Nat
    BY <1>1, <1>5
  <2>2. n - x > 0 /\ handed[i] = IF n - x < size THEN n - x ELSE size
    BY <1>5 DEF Slices
  <2> HIDE DEF x
  <2>3. QED BY <1>1, <1>3, <2>1, <2>2
<1>9. QED BY <1>7, <1>8 DEF n, size, original, handed

\* The slices of a loop's passes put together are its list, up to the latest pass.
LEMMA EveryItemIsHandedOut ==
  ASSUME DataInv
  PROVE  EveryItemHandedOut
<1>1. ASSUME DOMAIN rows # {}, NEW l \in loops, NEW k \in DOMAIN rows,
             k[1] = l.batch, rows[k].status = "completed", IsTerminalStep(rows[k])
      PROVE  LET handed == [i \in 0..(k[2] - 1) |-> rows[<<l.batch, i>>].outputs[LoopSlot]]
             IN  /\ Cardinality(Items(handed)) = AsList(ReadOriginalItems(graph, loops, rows, l))
                 /\ \A i \in DOMAIN handed : handed[i] \in 1..graph.batch[l.batch]
  BY <1>1, SomeRow, HandedOut
<1>2. QED BY <1>1 DEF EveryItemHandedOut
-----------------------------------------------------------------------------
(***************************************************************************)
(* A completed execution is complete: whatever a node reads, it gets a row.*)
(***************************************************************************)
\* Every step that can be decided has a row.
LEMMA MustDecide ==
  ASSUME NEW g, Executable(g), NEW t, NothingLeft(g, t),
         NEW e \in g.edges, NEW s \in DOMAIN t, IsSettled(t[s]), s[1] = e.from,
         NEW k, k = TargetKey(e, ClassifyEdge(e, DeriveLoops(g)), s),
         \A l \in DeriveLoops(g) : l.batch = s[1] =>
           (IsTerminalStep(t[s]) <=> ClassifyEdge(e, DeriveLoops(g)) = "exit"),
         ~IsPastLoopEnd(DeriveLoops(g), k, t),
         ReadsOf(g, t, k) # {},
         \A r \in ReadsOf(g, t, k) : Decided(t, r)
  PROVE  k \in DOMAIN t
<1>1. SUFFICES ASSUME k \notin DOMAIN t PROVE FALSE
  OBVIOUS
<1>2. k \in DecidedBy(g, t, s)
  BY <1>1, PlannedIf
<1>3. QED BY <1>2 DEF DecidedBy, NothingLeft

\* The edges into a node outside every loop, and those into the head of a loop
\* at its first pass, are read from pass 0, or from where a loop ended.
Ready(g, t, n) ==
  IF InLoop(g, n)
  THEN \A l \in DeriveLoops(g) : l.batch = n => \E k \in TermsOf(g, t) : k[1] = n
  ELSE <<n, 0>> \in DOMAIN t

\* When all rows settled, an edge from a ready node to a node outside loops, or to a
\* batch node, has a decided source that decides that node.
LEMMA OuterSource ==
  ASSUME NEW g, Executable(g), NEW t, GoodTable(g, t), \A k \in DOMAIN t : IsSettled(t[k]),
         NEW e \in g.edges, ~e.back, Ready(g, t, e.from),
         ~InLoop(g, e.to) \/ \E l \in DeriveLoops(g) : l.batch = e.to
  PROVE  LET k == <<e.to, 0>>
             class == ClassifyEdge(e, DeriveLoops(g))
             src == SourceAt(g, e, k, TermsOf(g, t))
         IN  /\ src.kind = "row" /\ src.key \in DOMAIN t /\ src.key[1] = e.from
             /\ k = TargetKey(e, class, src.key)
             /\ \A l \in DeriveLoops(g) : l.batch = e.from => IsTerminalStep(t[src.key]) /\ class = "exit"
<1> DEFINE L == DeriveLoops(g)
<1> DEFINE k == <<e.to, 0>>
<1> DEFINE class == ClassifyEdge(e, L)
<1> DEFINE src == SourceAt(g, e, k, TermsOf(g, t))
<1>1. class \in {"exit", "entry", "plain"}
  <2>1. class \in {"intra", "exit", "entry", "plain"}
    BY EdgeClasses
  <2>2. ASSUME class = "intra" PROVE FALSE
    <3>1. PICK j \in L : e.to \in j.members \ {j.batch}
      BY <2>2, EdgeClasses
    <3>2. PICK l \in L : l.batch = e.to
      BY <3>1 DEF InLoop
    <3>3. QED BY <3>1, <3>2, LoopShape, LoopsApart
  <2>3. QED BY <2>1, <2>2
<1>2. k[1] = e.to /\ k[2] = 0 /\ k[2] \in Nat
  OBVIOUS
<1> HIDE DEF k
<1>3. CASE class = "exit"
  <2>1. PICK l \in L : e.from = l.batch /\ l.batch \in l.members
    BY <1>3, EdgeClasses, LoopShape
  <2>2. PICK j \in TermsOf(g, t) : j[1] = e.from
    BY <2>1 DEF Ready, InLoop
  <2>3. PICK i \in TermsOf(g, t) : i[1] = e.from /\ src = [kind |-> "row", key |-> i]
    BY <1>2, <1>3, <2>2, SourceCases
  <2>4. i \in DOMAIN t /\ IsTerminalStep(t[i])
    BY <2>3, TerminalUnfilled DEF IsTerminalStep
  <2>5. src.kind = "row" /\ src.key = i
    BY <2>3
  <2>6. TargetKey(e, class, i) = k
    BY <1>3 DEF TargetKey, k
  <2>7. QED BY <1>3, <2>3, <2>4, <2>5, <2>6 DEF k
<1>4. CASE class \in {"entry", "plain"}
  <2>1. ~InLoop(g, e.from)
    BY <1>4, EdgeClasses
  <2>2. <<e.from, 0>> \in DOMAIN t
    BY <2>1 DEF Ready
  <2>3. src = [kind |-> "row", key |-> <<e.from, 0>>]
    BY <1>2, <1>4, SourceCases
  <2>4. src.kind = "row" /\ src.key = <<e.from, 0>> /\ src.key[1] = e.from /\ src.key[2] = 0
    BY <2>3
  <2>5. TargetKey(e, class, src.key) = k
    BY <1>4, <2>4 DEF TargetKey, k
  <2>6. \A l \in L : l.batch # e.from
    BY <2>1, LoopShape DEF InLoop
  <2>7. QED BY <2>2, <2>4, <2>5, <2>6 DEF k
<1>5. QED BY <1>1, <1>3, <1>4

\* A node outside every loop, or the head of one, gets its first row once all
\* that leads to it is ready.
LEMMA OuterRow ==
  ASSUME NEW g, Executable(g), NEW t, GoodTable(g, t), \A k \in DOMAIN t : IsSettled(t[k]), NothingLeft(g, t),
         NEW n \in ReachableNodes(g), n # TriggerOf(g),
         ~InLoop(g, n) \/ \E l \in DeriveLoops(g) : l.batch = n,
         \A e \in g.edges : ~e.back /\ e.to = n => Ready(g, t, e.from)
  PROVE  <<n, 0>> \in DOMAIN t
<1> DEFINE L == DeriveLoops(g)
<1> DEFINE k == <<n, 0>>
<1>1. k[1] = n /\ k[2] = 0 /\ k[2] \in Nat
  OBVIOUS
<1>2. \E e \in g.edges : ~e.back /\ e.to = n
  <2>1. CASE InLoop(g, n)
    BY <2>1, HeadEntered
  <2>2. CASE ~InLoop(g, n)
    BY <2>2, ReachableEntered, EdgeClasses, LoopShape DEF InLoop
  <2>3. QED BY <2>1, <2>2
<1>3. PICK e \in g.edges : ~e.back /\ e.to = n
  BY <1>2
<1> DEFINE src(d) == SourceAt(g, d, k, TermsOf(g, t))
<1>4. ASSUME NEW d \in g.edges, ~d.back, d.to = n
      PROVE  /\ src(d).kind = "row" /\ src(d).key \in DOMAIN t /\ src(d).key[1] = d.from
             /\ k = TargetKey(d, ClassifyEdge(d, L), src(d).key)
             /\ \A l \in L : l.batch = d.from => IsTerminalStep(t[src(d).key]) /\ ClassifyEdge(d, L) = "exit"
  BY <1>4, OuterSource
<1>5. ASSUME NEW d \in g.edges, d.back, d.to = n PROVE src(d).kind = "none"
  BY <1>1, <1>5, EdgeClasses, SourceCases
<1> HIDE DEF k
<1>6. \A d \in g.edges : d.back \in BOOLEAN
  BY DEF Executable, IsGraph
<1>7. \A r \in ReadsOf(g, t, k) : Decided(t, r)
  <2>1. SUFFICES ASSUME NEW r \in ReadsOf(g, t, k) PROVE Decided(t, r)
    OBVIOUS
  <2>2. PICK d \in g.edges : d.to = n /\ r = [edge |-> d, src |-> src(d)] /\ r.src.kind # "none"
    BY <1>1, ReadsAre
  <2>3. r.src = src(d)
    BY <2>2
  <2>4. r.src.kind = "row" /\ r.src.key \in DOMAIN t
    BY <1>4, <1>5, <1>6, <2>2, <2>3
  <2>5. QED BY <2>4 DEF Decided, SourceUnsettled
<1>8. ReadsOf(g, t, k) # {}
  <2> DEFINE r == [edge |-> e, src |-> src(e)]
  <2>1. src(e).kind = "row"
    BY <1>3, <1>4
  <2>2. r.src.kind = "row"
    BY <2>1
  <2>3. r \in ReadsOf(g, t, k)
    BY <1>1, <1>3, <2>2, ReadsAre
  <2>4. QED BY <2>3
<1>9. ~IsPastLoopEnd(L, k, t)
  <2>1. ASSUME NEW l \in L, n \in l.members PROVE n = l.batch
    BY <2>1, LoopsApart, LoopShape DEF InLoop
  <2>2. QED BY <1>1, <2>1 DEF IsPastLoopEnd, LoopsWith
<1>10. k \in DOMAIN t
  <2>1. /\ src(e).key \in DOMAIN t /\ src(e).key[1] = e.from
        /\ k = TargetKey(e, ClassifyEdge(e, L), src(e).key)
        /\ \A l \in L : l.batch = e.from => IsTerminalStep(t[src(e).key]) /\ ClassifyEdge(e, L) = "exit"
    BY <1>3, <1>4
  <2> HIDE DEF src
  <2>2. QED BY <1>7, <1>8, <1>9, <2>1, MustDecide
<1>11. QED BY <1>10 DEF k
\* A pass that hands out items runs through the whole body, and is followed by
\* another.
LEMMA PassGoesOn ==
  ASSUME NEW g, Executable(g), NEW t, GoodTable(g, t), \A k \in DOMAIN t : IsSettled(t[k]), NothingLeft(g, t),
         NEW l \in DeriveLoops(g), NEW q \in Nat, <<l.batch, q>> \in DOMAIN t,
         ~IsTerminalStep(t[<<l.batch, q>>])
  PROVE  <<l.batch, q + 1>> \in DOMAIN t
<1> DEFINE L == DeriveLoops(g)
<1> DEFINE U == {n \in l.members : <<n, q>> \notin DOMAIN t}
<1>1. /\ l.batch \in l.members /\ l.batch \in ReachableNodes(g)
      /\ \A m \in l.members : m \in ReachableNodes(g)
  <2>1. l.batch \in l.members
    BY LoopShape
  <2> DEFINE h == <<l.batch, q>>
  <2>2. h \in DOMAIN t /\ h[1] = l.batch
    OBVIOUS
  <2>3. l.batch \in ReachableNodes(g)
    BY <2>2 DEF GoodTable, KeysOK
  <2>4. QED BY <2>1, <2>3, ReachableMembers
<1>2. \A d \in g.edges : d.back \in BOOLEAN
  BY DEF Executable, IsGraph
<1>3. ASSUME NEW n \in U, \A e \in g.edges : ~e.back /\ e.to = n => e.from \notin U PROVE FALSE
  <2> DEFINE k == <<n, q>>
  <2>1. /\ k[1] = n /\ k[2] = q /\ k \notin DOMAIN t /\ n \in l.members /\ n # l.batch
        /\ n \in ReachableNodes(g) /\ n # TriggerOf(g)
    BY <1>1, <1>3, TriggerFacts DEF InLoop
  <2>2. \A e \in g.edges : e.to = n => ~e.back
    BY <1>2, <2>1, BackEdges, EdgeClasses
  <2>3. ASSUME NEW e \in g.edges, e.to = n
        PROVE  /\ ClassifyEdge(e, L) = "intra" /\ e.from \in l.members /\ <<e.from, q>> \in DOMAIN t
               /\ SourceAt(g, e, k, TermsOf(g, t)) = [kind |-> "row", key |-> <<e.from, q>>]
    <3>1. e.from \in l.members
      BY <2>1, <2>2, <2>3, LoopEdges
    <3>2. ClassifyEdge(e, L) = "intra"
      BY <2>1, <2>2, <2>3, <3>1, EdgeClasses DEF InLoop
    <3>3. SourceAt(g, e, k, TermsOf(g, t)) = [kind |-> "row", key |-> <<e.from, q>>]
      BY <2>1, <3>2, SourceCases
    <3>4. QED BY <1>3, <2>2, <2>3, <3>1, <3>2, <3>3
  <2>4. PICK e \in g.edges : e.to = n
    BY <2>1, ReachableEntered
  <2> HIDE DEF k
  <2>5. \A r \in ReadsOf(g, t, k) : Decided(t, r)
    <3>1. SUFFICES ASSUME NEW r \in ReadsOf(g, t, k) PROVE Decided(t, r)
      OBVIOUS
    <3>2. PICK d \in g.edges : d.to = n /\ r = [edge |-> d, src |-> SourceAt(g, d, k, TermsOf(g, t))]
      BY <2>1, ReadsAre
    <3>3. r.src = [kind |-> "row", key |-> <<d.from, q>>] /\ <<d.from, q>> \in DOMAIN t
      BY <2>3, <3>2
    <3>4. QED BY <3>3 DEF Decided, SourceUnsettled
  <2>6. ReadsOf(g, t, k) # {}
    <3> DEFINE r == [edge |-> e, src |-> SourceAt(g, e, k, TermsOf(g, t))]
    <3>4. SourceAt(g, e, k, TermsOf(g, t)) = [kind |-> "row", key |-> <<e.from, q>>]
      BY <2>3, <2>4
    <3>1. r.src.kind = "row"
      BY <3>4
    <3>2. r \in ReadsOf(g, t, k)
      BY <2>1, <2>4, <3>1, ReadsAre
    <3>3. QED BY <3>2
  <2>7. ~IsPastLoopEnd(L, k, t)
    <3>1. LoopsWith(L, k[1]) = {l}
      BY <2>1, LoopsWithOne
    <3> HIDE DEF L
    <3>2. QED BY <2>1, <3>1 DEF IsPastLoopEnd
  <2> DEFINE s == <<e.from, q>>
  <2>8. s \in DOMAIN t /\ s[1] = e.from /\ s[2] = q /\ ClassifyEdge(e, L) = "intra"
    BY <2>3, <2>4
  <2>9. k = TargetKey(e, ClassifyEdge(e, L), s)
    BY <2>4, <2>8 DEF TargetKey, k
  <2>10. ASSUME NEW j \in L, j.batch = s[1] PROVE ~IsTerminalStep(t[s])
    <3>1. e.from \in l.members /\ e.from \in j.members
      BY <2>3, <2>4, <2>8, <2>10, LoopShape
    <3>2. j = l
      BY <3>1, LoopsApart
    <3>3. QED BY <2>8, <2>10, <3>2
  <2> HIDE DEF s
  <2>11. k \in DOMAIN t
    BY <2>5, <2>6, <2>7, <2>8, <2>9, <2>10, MustDecide
  <2>12. QED BY <2>1, <2>11
<1>4. U = {}
  <2> HIDE DEF U
  <2>1. QED BY <1>3, ForwardFirst
<1>5. PICK r \in g.edges :
        /\ l.backs = {r} /\ r.back /\ r.to = l.batch /\ r.from \in l.members
        /\ \A e \in g.edges : e.back /\ (e.from \in l.members \/ e.to \in l.members) => e = r
  BY BackEdges
<1> DEFINE k == <<l.batch, q + 1>>
<1> DEFINE s == <<r.from, q>>
<1>6. /\ k[1] = l.batch /\ k[2] = q + 1 /\ k[2] > 0 /\ k[2] \in Nat /\ k[2] - 1 = q
      /\ s[1] = r.from /\ s[2] = q /\ s \in DOMAIN t
  BY <1>4, <1>5
<1>7. ClassifyEdge(r, L) = "back"
  BY <1>5, EdgeClasses
<1>8. k = TargetKey(r, ClassifyEdge(r, L), s)
  BY <1>5, <1>7 DEF TargetKey
<1> HIDE DEF k, s, U
<1>9. SourceAt(g, r, k, TermsOf(g, t)) = [kind |-> "row", key |-> s]
  <2>1. SourceAt(g, r, k, TermsOf(g, t)) = [kind |-> "row", key |-> <<r.from, k[2] - 1>>]
    BY <1>6, <1>7, SourceCases
  <2>2. QED BY <1>6, <2>1 DEF s
<1>10. ASSUME NEW e \in g.edges, e.to = l.batch, e # r
       PROVE  SourceAt(g, e, k, TermsOf(g, t)).kind = "none"
  <2>1. ~e.back
    BY <1>1, <1>2, <1>5, <1>10
  <2>2. ClassifyEdge(e, L) \in {"exit", "entry"}
    <3>1. ClassifyEdge(e, L) \in {"intra", "exit", "entry", "plain"}
      BY <2>1, EdgeClasses
    <3>2. ClassifyEdge(e, L) # "plain"
      BY <1>1, <1>10, EdgeClasses DEF InLoop
    <3>3. ASSUME ClassifyEdge(e, L) = "intra" PROVE FALSE
      <4>1. PICK j \in L : e.to \in j.members \ {j.batch}
        BY <3>3, EdgeClasses
      <4>2. QED BY <1>1, <1>10, <4>1, LoopsApart
    <3>4. QED BY <3>1, <3>2, <3>3
  <2>3. QED BY <1>6, <2>2, SourceCases
<1>11. ReadsOf(g, t, k) # {}
  <2> DEFINE a == [edge |-> r, src |-> SourceAt(g, r, k, TermsOf(g, t))]
  <2>1. a.src.kind = "row"
    BY <1>9
  <2>2. a \in ReadsOf(g, t, k)
    BY <1>5, <1>6, <2>1, ReadsAre
  <2>3. QED BY <2>2
<1>12. \A a \in ReadsOf(g, t, k) : Decided(t, a)
  <2>1. SUFFICES ASSUME NEW a \in ReadsOf(g, t, k) PROVE Decided(t, a)
    OBVIOUS
  <2>2. PICK d \in g.edges : /\ d.to = l.batch
                             /\ a = [edge |-> d, src |-> SourceAt(g, d, k, TermsOf(g, t))]
                             /\ a.src.kind # "none"
    BY <1>6, ReadsAre
  <2>3. a.src = [kind |-> "row", key |-> s]
    BY <1>9, <1>10, <2>2
  <2>4. QED BY <1>6, <2>3 DEF Decided, SourceUnsettled
<1>13. ~IsPastLoopEnd(L, k, t)
  <2>1. LoopsWith(L, k[1]) = {l}
    BY <1>1, <1>6, LoopsWithOne
  <2> HIDE DEF L
  <2>2. QED BY <1>6, <2>1 DEF IsPastLoopEnd
<1>14. ASSUME NEW j \in L, j.batch = s[1] PROVE ~IsTerminalStep(t[s])
  <2>1. r.from \in j.members
    BY <1>6, <1>14, LoopShape
  <2>2. j = l
    BY <1>5, <2>1, LoopsApart
  <2>3. s = <<l.batch, q>>
    BY <1>6, <1>14, <2>2 DEF s
  <2>4. QED BY <2>3
<1>15. k \in DOMAIN t
  BY <1>6, <1>7, <1>8, <1>11, <1>12, <1>13, <1>14, MustDecide
<1>16. QED BY <1>15 DEF k

\* A loop that has begun has ended.
LEMMA LoopHasEnded ==
  ASSUME NEW g, Executable(g), NEW t, GoodTable(g, t), \A k \in DOMAIN t : IsSettled(t[k]), NothingLeft(g, t),
         NEW l \in DeriveLoops(g), <<l.batch, 0>> \in DOMAIN t
  PROVE  \E k \in TermsOf(g, t) : k[1] = l.batch
<1> DEFINE S == {q \in Nat : <<l.batch, q>> \in DOMAIN t}
<1> DEFINE D == DOMAIN t
<1> DEFINE c == Cardinality(D)
<1>1. TableOK(g, t) /\ LoopOK(t, l) /\ l.batch \in l.members /\ IsFiniteSet(D) /\ c \in Nat
  BY LoopShape, FS_CardinalityType DEF GoodTable, LoopsOK, TableOK
<1>2. ASSUME NEW q \in S PROVE q < c
  <2> DEFINE f == [i \in 0..q |-> <<l.batch, i>>]
  <2> DEFINE h == <<l.batch, q>>
  <2>1. h \in DOMAIN t /\ h[1] = l.batch /\ h[2] = q /\ q \in Nat
    BY <1>2
  <2>2. \A i \in 0..q : <<l.batch, i>> \in D
    BY <1>1, <2>1 DEF LoopOK
  <2>3. f \in Injection(0..q, D)
    <3>1. f \in [0..q -> D]
      BY <2>2
    <3>2. \A i, j \in 0..q : f[i] = f[j] => i = j
      OBVIOUS
    <3> HIDE DEF f, D
    <3>3. QED BY <3>1, <3>2 DEF Injection, IsInjective
  <2> HIDE DEF D
  <2>4. Cardinality(0..q) <= Cardinality(D)
    BY <1>1, <2>3, FS_Injection
  <2>5. 0 \in Int /\ q \in Int
    BY <2>1
  <2>6. Cardinality(0..q) = IF 0 > q THEN 0 ELSE q - 0 + 1
    BY <2>5, FS_Interval
  <2>7. Cardinality(0..q) = q + 1
    BY <2>1, <2>6
  <2>8. QED BY <1>1, <2>1, <2>4, <2>7
<1> DEFINE rest == {c - q : q \in S}
<1>3. rest \in SUBSET Nat /\ rest # {}
  <2>1. 0 \in S
    OBVIOUS
  <2>2. \A q \in S : q \in Nat
    OBVIOUS
  <2> HIDE DEF S, c
  <2>3. QED BY <1>1, <1>2, <2>1, <2>2
<1>4. PICK d \in rest : \A j \in rest : d <= j
  BY <1>3, LeastNumber
<1>5. PICK q \in S : d = c - q
  BY <1>4
<1>6. \A j \in S : j <= q
  <2>1. \A j \in S : c - q <= c - j /\ j \in Nat
    BY <1>4, <1>5
  <2> HIDE DEF S, c
  <2>2. QED BY <1>1, <1>5, <2>1
<1> DEFINE k == <<l.batch, q>>
<1>7. k \in DOMAIN t /\ k[1] = l.batch /\ k[2] = q /\ q \in Nat
  BY <1>5
<1>8. q + 1 \notin S
  BY <1>6, <1>7
<1>9. IsTerminalStep(t[k])
  BY <1>7, <1>8, PassGoesOn
<1>10. \A j \in DOMAIN t : j[1] = l.batch => j[2] <= q
  <2>1. SUFFICES ASSUME NEW j \in DOMAIN t, j[1] = l.batch PROVE j[2] <= q
    OBVIOUS
  <2>2. j = <<j[1], j[2]>> /\ j[2] \in Nat
    BY <1>1, KeyParts
  <2>3. j[2] \in S
    BY <2>1, <2>2
  <2>4. QED BY <1>6, <2>3
<1>11. k \in TermsOf(g, t)
  BY <1>7, <1>9, <1>10 DEF TermsOf, LoadTerminalIterations, IsLatestPass
<1>12. QED BY <1>7, <1>11

\* With nothing left to decide or to run, every node the trigger reaches is done.
LEMMA AllReady ==
  ASSUME NEW g, Executable(g), NEW t, GoodTable(g, t), \A k \in DOMAIN t : IsSettled(t[k]), NothingLeft(g, t),
         <<TriggerOf(g), 0>> \in DOMAIN t
  PROVE  /\ \A n \in ReachableNodes(g) : ~InLoop(g, n) => <<n, 0>> \in DOMAIN t
         /\ \A l \in DeriveLoops(g) : l.batch \in ReachableNodes(g) =>
              \E k \in TermsOf(g, t) : k[1] = l.batch
<1> DEFINE U == {n \in ReachableNodes(g) : ~Ready(g, t, n)}
<1>1. ASSUME NEW n \in U, \A e \in g.edges : ~e.back /\ e.to = n => e.from \notin U PROVE FALSE
  <2>1. n \in ReachableNodes(g) /\ ~Ready(g, t, n)
    BY <1>1
  <2>2. n # TriggerOf(g)
    BY <2>1, TriggerFacts DEF Ready
  <2>3. ~InLoop(g, n) \/ \E l \in DeriveLoops(g) : l.batch = n
    BY <2>1 DEF Ready
  <2>4. \A e \in g.edges : ~e.back /\ e.to = n => Ready(g, t, e.from)
    BY <1>1, <2>1, ReachableEdges
  <2>5. <<n, 0>> \in DOMAIN t
    BY <2>1, <2>2, <2>3, <2>4, OuterRow
  <2>6. QED BY <2>1, <2>5, LoopHasEnded DEF Ready
<1>2. U = {}
  <2> HIDE DEF U
  <2>1. QED BY <1>1, ForwardFirst
<1>3. \A n \in ReachableNodes(g) : Ready(g, t, n)
  BY <1>2
<1>4. QED BY <1>3, LoopShape DEF Ready, InLoop

\* A completed execution with nothing left to decide has a row for every node it owes:
\* by induction along the rank of nodes and the passes of loops.
LEMMA CompletedIsWhole ==
  ASSUME DataInv
  PROVE  CompletedIsComplete
<1>1. SUFFICES ASSUME exec.status = "completed"
               PROVE  /\ \A k \in DOMAIN rows : rows[k].status \in {"completed", "skipped"}
                      /\ \A n \in ReachableNodes(graph) : LoopsWith(loops, n) = {} => <<n, 0>> \in DOMAIN rows
                      /\ \A l \in loops : l.batch \in ReachableNodes(graph) =>
                           \E k \in Terminals : k[1] = l.batch
  BY DEF CompletedIsComplete, Reachable
<1>2. /\ DOMAIN rows # {}
      /\ \A k \in DOMAIN rows : IsSettled(rows[k]) /\ rows[k].status # "failed" /\ rows[k].status # "cancelled"
      /\ NothingLeft(graph, rows) /\ <<TriggerOf(graph), 0>> \in DOMAIN rows
  BY <1>1, NoneCancelled DEF DataInv, ExecOK
<1>3. \A k \in DOMAIN rows : rows[k].status \in {"completed", "skipped"}
  BY <1>2 DEF IsSettled, SettledStatuses
<1>4. /\ Executable(graph) /\ GoodTable(graph, rows)
      /\ loops = DeriveLoops(graph) /\ Terminals = TermsOf(graph, rows)
  BY <1>2, SomeRow
<1>5. \A n : LoopsWith(loops, n) = {} => ~InLoop(graph, n)
  BY <1>4 DEF LoopsWith, InLoop
<1>6. QED BY <1>2, <1>3, <1>4, <1>5, AllReady
-----------------------------------------------------------------------------
(***************************************************************************)
(* The completion count is exact.                                          *)
(***************************************************************************)
Counted(g) == ReachableLoops(DeriveLoops(g), ReachableNodes(g))

AllEnded(g, t) == \A l \in Counted(g) : \E k \in TermsOf(g, t) : k[1] = l.batch

LastPass(g, t, l) == (CHOOSE k \in TermsOf(g, t) : k[1] = l.batch)[2]

\* The rows a loop has by its last pass: every member's before it, and the head's.
PassKeys(l, last) == (l.members \X (0..(last - 1))) \cup {<<l.batch, last>>}

LoopKeys(g, t, s) == UNION {PassKeys(l, LastPass(g, t, l)) : l \in s}

NodeKeys(g) == {n \in ReachableNodes(g) : ~InLoop(g, n)} \X {0}

OwedKeys(g, t) == LoopKeys(g, t, Counted(g)) \cup NodeKeys(g)

\* The last pass of a loop that ended is its terminal batch step.
LEMMA LastPassIs ==
  ASSUME NEW g, Executable(g), NEW t, TableOK(g, t), NEW l \in DeriveLoops(g),
         \E k \in TermsOf(g, t) : k[1] = l.batch
  PROVE  LastPass(g, t, l) \in Nat /\ <<l.batch, LastPass(g, t, l)>> \in TermsOf(g, t)
<1> DEFINE k == CHOOSE j \in TermsOf(g, t) : j[1] = l.batch
<1>1. k \in TermsOf(g, t) /\ k[1] = l.batch
  OBVIOUS
<1>2. LastPass(g, t, l) = k[2]
  BY DEF LastPass
<1> HIDE DEF k
<1>3. k = <<k[1], k[2]>> /\ k[2] \in Nat
  BY <1>1, TerminalUnfilled, KeyParts
<1>4. QED BY <1>1, <1>2, <1>3

\* Once every loop has ended, a table has no row but those that are owed.
LEMMA RowsAreOwed ==
  ASSUME NEW g, Executable(g), NEW t, GoodTable(g, t), AllEnded(g, t)
  PROVE  DOMAIN t \subseteq OwedKeys(g, t)
<1>1. SUFFICES ASSUME NEW k \in DOMAIN t PROVE k \in OwedKeys(g, t)
  OBVIOUS
<1>2. k = <<k[1], k[2]>> /\ k[2] \in Nat /\ k[1] \in ReachableNodes(g) /\ TableOK(g, t)
  BY KeyParts DEF GoodTable, KeysOK
<1>3. CASE ~InLoop(g, k[1])
  <2>1. k[2] = 0
    BY <1>3 DEF GoodTable, KeysOK
  <2>2. QED BY <1>2, <1>3, <2>1 DEF OwedKeys, NodeKeys
<1>4. CASE InLoop(g, k[1])
  <2>1. PICK l \in DeriveLoops(g) : k[1] \in l.members
    BY <1>4 DEF InLoop
  <2>2. l \in Counted(g)
    BY <1>2, <2>1, ReachableMembers DEF Counted, ReachableLoops
  <2> DEFINE last == LastPass(g, t, l)
  <2> DEFINE end == <<l.batch, last>>
  <2>3. last \in Nat /\ end \in TermsOf(g, t) /\ end[1] = l.batch /\ end[2] = last
    BY <1>2, <2>2, LastPassIs DEF AllEnded, Counted, ReachableLoops
  <2> HIDE DEF last, end
  <2>4. /\ end \in DOMAIN t /\ ~Filled(t[end], LoopSlot)
        /\ \A j \in DOMAIN t : j[1] = l.batch => j[2] <= last
    BY <2>3, TerminalUnfilled
  <2>5. k \in PassKeys(l, last)
    <3>1. CASE k[1] = l.batch
      <4>1. k[2] <= last
        BY <2>4, <3>1
      <4>2. k[2] = last \/ k[2] \in 0..(last - 1)
        BY <1>2, <2>3, <4>1
      <4>3. QED BY <1>2, <2>1, <3>1, <4>2 DEF PassKeys
    <3>2. CASE k[1] # l.batch
      <4> DEFINE head == <<l.batch, k[2]>>
      <4>1. head \in DOMAIN t /\ head[1] = l.batch /\ head[2] = k[2] /\ Filled(t[head], LoopSlot)
        <5>1. LoopOK(t, l) /\ k[2] \in 0..k[2]
          BY <1>2 DEF GoodTable, LoopsOK
        <5>2. QED BY <2>1, <3>2, <5>1 DEF LoopOK
      <4>2. k[2] <= last
        BY <2>4, <4>1
      <4>3. k[2] # last
        BY <2>4, <4>1 DEF end
      <4>4. k[2] \in 0..(last - 1)
        BY <1>2, <2>3, <4>2, <4>3
      <4>5. QED BY <1>2, <2>1, <4>4 DEF PassKeys
    <3>3. QED BY <3>1, <3>2
  <2>6. QED BY <2>2, <2>5 DEF OwedKeys, LoopKeys, last
<1>5. QED BY <1>3, <1>4

\* With nothing left to decide, every row that is owed is there.
LEMMA OwedRows ==
  ASSUME NEW g, Executable(g), NEW t, GoodTable(g, t), \A k \in DOMAIN t : IsSettled(t[k]), NothingLeft(g, t),
         <<TriggerOf(g), 0>> \in DOMAIN t
  PROVE  AllEnded(g, t) /\ OwedKeys(g, t) \subseteq DOMAIN t
<1>1. AllEnded(g, t)
  BY AllReady DEF AllEnded, Counted, ReachableLoops
<1>2. NodeKeys(g) \subseteq DOMAIN t
  BY AllReady DEF NodeKeys
<1>3. ASSUME NEW l \in Counted(g), NEW k \in PassKeys(l, LastPass(g, t, l)) PROVE k \in DOMAIN t
  <2> DEFINE last == LastPass(g, t, l)
  <2> DEFINE end == <<l.batch, last>>
  <2>1. l \in DeriveLoops(g) /\ TableOK(g, t) /\ LoopOK(t, l) /\ l.batch \in l.members
    BY LoopShape DEF Counted, ReachableLoops, GoodTable, LoopsOK
  <2>2. last \in Nat /\ end \in DOMAIN t /\ end[1] = l.batch /\ end[2] = last
    BY <1>1, <2>1, LastPassIs, TerminalUnfilled DEF AllEnded
  <2> HIDE DEF last
  <2>3. CASE k = end
    BY <2>2, <2>3
  <2>4. CASE k \in l.members \X (0..(last - 1))
    <3> DEFINE next == <<l.batch, k[2] + 1>>
    <3>1. k = <<k[1], k[2]>> /\ k[1] \in l.members /\ k[2] + 1 \in 0..last /\ k[2] \in Nat
      BY <2>2, <2>4
    <3>2. next \in DOMAIN t /\ next[1] = l.batch /\ next[2] > 0 /\ next[2] - 1 = k[2]
      <4> HIDE DEF end
      <4>1. \A i \in 0..last : <<l.batch, i>> \in DOMAIN t
        BY <2>1, <2>2 DEF LoopOK
      <4>2. QED BY <3>1, <4>1
    <3> HIDE DEF next
    <3>3. \A m \in l.members : <<m, next[2] - 1>> \in DOMAIN t
      BY <2>1, <3>2 DEF LoopOK
    <3>4. QED BY <3>1, <3>2, <3>3
  <2>5. QED BY <1>3, <2>3, <2>4 DEF PassKeys, last
<1>4. QED BY <1>1, <1>2, <1>3 DEF OwedKeys, LoopKeys

\* With all that is owed there, nothing is left: a row more would be owed too.
LEMMA NoneAfterOwed ==
  ASSUME NEW g, Executable(g), NEW t, GoodTable(g, t), AllEnded(g, t), OwedKeys(g, t) \subseteq DOMAIN t
  PROVE  NothingLeft(g, t)
<1>1. SUFFICES ASSUME NEW s \in DOMAIN t, IsSettled(t[s]),
                      NEW k \in PlanAt(g, t, s).toQueue \cup PlanAt(g, t, s).toSkip
               PROVE  FALSE
  BY DEF NothingLeft
<1> DEFINE D == {k}
<1> DEFINE next == [j \in DOMAIN t \cup D |->
                      IF j \in DOMAIN t THEN t[j]
                      ELSE NewRow(IF j \in PlanAt(g, t, s).toQueue THEN "queued" ELSE "skipped", NoOutputs)]
<1>2. D \subseteq PlanAt(g, t, s).toQueue \cup PlanAt(g, t, s).toSkip /\ IsFiniteSet(D)
  BY FS_Singleton
<1> HIDE DEF D
<1>3. GoodTable(g, next) /\ Continues(g, t, next)
  BY <1>1, <1>2, AddRows
<1>4. k \in DOMAIN next /\ k \notin DOMAIN t
  BY PlanFacts DEF D
<1> HIDE DEF next
<1>5. TermsOf(g, t) \subseteq TermsOf(g, next) /\ OnePerLoop(TermsOf(g, next)) /\ TableOK(g, t)
  BY <1>3, TermsOnePerLoop DEF Continues, GoodTable, TableOK
<1>6. AllEnded(g, next)
  BY <1>5 DEF AllEnded
<1>7. ASSUME NEW l \in Counted(g) PROVE LastPass(g, next, l) = LastPass(g, t, l)
  <2>1. l \in DeriveLoops(g) /\ TableOK(g, next)
    BY <1>3 DEF Counted, ReachableLoops, GoodTable
  <2> DEFINE a == LastPass(g, t, l)
  <2> DEFINE b == LastPass(g, next, l)
  <2>2. <<l.batch, a>> \in TermsOf(g, next)
    BY <1>5, <2>1, LastPassIs DEF AllEnded
  <2>3. <<l.batch, b>> \in TermsOf(g, next)
    BY <1>6, <2>1, LastPassIs DEF AllEnded
  <2> HIDE DEF a, b
  <2>4. <<l.batch, a>> = <<l.batch, b>>
    BY <1>5, <2>2, <2>3 DEF OnePerLoop
  <2>5. QED BY <2>4 DEF a, b
<1>8. OwedKeys(g, next) = OwedKeys(g, t)
  BY <1>7 DEF OwedKeys, LoopKeys
<1>9. k \in OwedKeys(g, next)
  BY <1>3, <1>4, <1>6, RowsAreOwed
<1>10. QED BY <1>4, <1>8, <1>9
\* What one loop is owed.
LEMMA PassKeysCount ==
  ASSUME NEW g, Executable(g), NEW l \in DeriveLoops(g), NEW last \in Nat
  PROVE  /\ IsFiniteSet(PassKeys(l, last)) /\ Cardinality(l.members) \in Nat
         /\ Cardinality(PassKeys(l, last)) = last + 1 + last * (Cardinality(l.members) - 1)
<1> DEFINE body == l.members \X (0..(last - 1))
<1> DEFINE end == {<<l.batch, last>>}
<1> DEFINE c == Cardinality(l.members)
<1>1. IsFiniteSet(l.members) /\ c \in Nat
  <2>1. l.members \in SUBSET NodesOf(g) /\ IsFiniteSet(NodesOf(g))
    BY LoopShape DEF Executable, IsGraph
  <2>2. QED BY <2>1, FS_Subset, FS_CardinalityType
<1>2. IsFiniteSet(0..(last - 1)) /\ Cardinality(0..(last - 1)) = last
  <2>1. 0 \in Int /\ last - 1 \in Int
    OBVIOUS
  <2>2. /\ IsFiniteSet(0..(last - 1))
        /\ Cardinality(0..(last - 1)) = IF 0 > last - 1 THEN 0 ELSE (last - 1) - 0 + 1
    BY <2>1, FS_Interval
  <2>3. QED BY <2>2
<1>3. IsFiniteSet(body) /\ Cardinality(body) = c * last
  BY <1>1, <1>2, FS_Product
<1>4. IsFiniteSet(end) /\ Cardinality(end) = 1
  BY FS_Singleton
<1>5. body \cap end = {}
  OBVIOUS
<1> HIDE DEF body, end
<1>6. Cardinality(body \cap end) = 0
  BY <1>5, FS_EmptySet
<1>7. /\ IsFiniteSet(body \cup end)
      /\ Cardinality(body \cup end) = Cardinality(body) + Cardinality(end) - Cardinality(body \cap end)
  BY <1>3, <1>4, FS_Union
<1>8. Cardinality(body \cup end) = c * last + 1 - 0
  BY <1>3, <1>4, <1>6, <1>7
<1>9. c * last + 1 - 0 = last + 1 + last * (c - 1)
  <2> HIDE DEF c
  <2>1. c * last \in Nat /\ last * (c - 1) = c * last - last
    BY <1>1
  <2>2. QED BY <2>1
<1>10. PassKeys(l, last) = body \cup end
  BY DEF PassKeys, body, end
<1>11. QED BY <1>1, <1>7, <1>8, <1>9, <1>10

\* A validated graph has finitely many loops.
LEMMA LoopsFinite ==
  ASSUME NEW g, Executable(g)
  PROVE  IsFiniteSet(DeriveLoops(g)) /\ IsFiniteSet(Counted(g)) /\ Counted(g) \subseteq DeriveLoops(g)
<1> DEFINE back == {d \in g.edges : d.back}
<1> DEFINE f == [e \in back |-> LoopAt(g, e.to)]
<1>1. back \in SUBSET g.edges /\ IsFiniteSet(g.edges)
  BY DEF Executable, IsGraph
<1>2. IsFiniteSet(back)
  BY <1>1, FS_Subset
<1>3. f \in Surjection(back, DeriveLoops(g))
  BY DEF Surjection, DeriveLoops
<1> HIDE DEF back, f
<1>4. IsFiniteSet(DeriveLoops(g))
  BY <1>2, <1>3, FS_Surjection
<1>5. Counted(g) \in SUBSET DeriveLoops(g)
  BY DEF Counted, ReachableLoops
<1>6. QED BY <1>4, <1>5, FS_Subset

\* Loops are owed rows of their own, so what several are owed adds up.
LEMMA LoopKeysAdd ==
  ASSUME NEW g, Executable(g), NEW t, TableOK(g, t), AllEnded(g, t)
  PROVE  /\ LoopKeys(g, t, {}) = {}
         /\ \A s \in SUBSET Counted(g) :
              /\ IsFiniteSet(LoopKeys(g, t, s)) /\ Cardinality(LoopKeys(g, t, s)) \in Nat
              /\ \A l \in s : Cardinality(LoopKeys(g, t, s)) =
                   Cardinality(PassKeys(l, LastPass(g, t, l))) + Cardinality(LoopKeys(g, t, s \ {l}))
<1> DEFINE keys(l) == PassKeys(l, LastPass(g, t, l))
<1>1. ASSUME NEW l \in Counted(g)
      PROVE  l \in DeriveLoops(g) /\ IsFiniteSet(keys(l)) /\ \A k \in keys(l) : k[1] \in l.members
  <2>1. l \in DeriveLoops(g) /\ LastPass(g, t, l) \in Nat
    BY LastPassIs DEF Counted, ReachableLoops, AllEnded
  <2>2. \A k \in keys(l) : k[1] \in l.members
    BY <2>1, LoopShape DEF PassKeys
  <2>3. QED BY <2>1, <2>2, PassKeysCount
<1> HIDE DEF keys
<1>2. ASSUME NEW s \in SUBSET Counted(g) PROVE IsFiniteSet(LoopKeys(g, t, s))
  <2>1. IsFiniteSet(s)
    BY LoopsFinite, FS_Subset
  <2> DEFINE all == {keys(l) : l \in s}
  <2> DEFINE f == [l \in s |-> keys(l)]
  <2>2. f \in Surjection(s, all)
    BY DEF Surjection
  <2>3. \A x \in all : IsFiniteSet(x)
    BY <1>1
  <2>4. LoopKeys(g, t, s) = UNION all
    BY DEF LoopKeys, keys
  <2> HIDE DEF all, f
  <2>5. QED BY <2>1, <2>2, <2>3, <2>4, FS_Surjection, FS_UNION
<1>3. ASSUME NEW s \in SUBSET Counted(g), NEW l \in s
      PROVE  Cardinality(LoopKeys(g, t, s)) = Cardinality(keys(l)) + Cardinality(LoopKeys(g, t, s \ {l}))
  <2> DEFINE rest == LoopKeys(g, t, s \ {l})
  <2>1. IsFiniteSet(keys(l)) /\ IsFiniteSet(rest)
    BY <1>1, <1>2
  <2>2. LoopKeys(g, t, s) = keys(l) \cup rest
    BY DEF LoopKeys, keys
  <2>3. keys(l) \cap rest = {}
    <3>1. SUFFICES ASSUME NEW k \in keys(l), k \in rest PROVE FALSE
      OBVIOUS
    <3>2. PICK j \in s \ {l} : k \in keys(j)
      BY <3>1 DEF LoopKeys, keys
    <3>3. QED BY <1>1, <3>1, <3>2, LoopsApart
  <2> HIDE DEF rest
  <2>4. Cardinality(keys(l) \cap rest) = 0
    BY <2>3, FS_EmptySet
  <2>5. Cardinality(keys(l) \cup rest) = Cardinality(keys(l)) + Cardinality(rest) - Cardinality(keys(l) \cap rest)
    BY <2>1, FS_Union
  <2>6. Cardinality(keys(l)) \in Nat /\ Cardinality(rest) \in Nat
    BY <2>1, FS_CardinalityType
  <2>7. QED BY <2>2, <2>4, <2>5, <2>6 DEF rest
<1>4. LoopKeys(g, t, {}) = {}
  BY DEF LoopKeys
<1>5. QED BY <1>2, <1>3, <1>4, FS_CardinalityType DEF keys

\* The completion count is the number of rows owed, also when the last passes were
\* read from an earlier table, as long as every loop had ended in it.
LEMMA CountIs ==
  ASSUME NEW g, Executable(g), NEW t, TableOK(g, t), NEW terms \in SUBSET TermsOf(g, t),
         \A l \in Counted(g) : \E k \in terms : k[1] = l.batch
  PROVE  /\ IsFiniteSet(OwedKeys(g, t))
         /\ CountExpectedSettledSteps(DeriveLoops(g), ReachableNodes(g), terms) =
              Cardinality(OwedKeys(g, t))
<1> DEFINE S == ReachableLoops(DeriveLoops(g), ReachableNodes(g))
<1> DEFINE members == UNION {l.members : l \in S}
<1> DEFINE terminal(l) == (CHOOSE k \in terms : k[1] = l.batch)[2]
<1> DEFINE owed(l) == terminal(l) + 1 + terminal(l) * (Cardinality(l.members) - 1)
<1> DEFINE one(s) == CHOOSE x \in s : TRUE
<1> DEFINE Rec(f) == f = [s \in SUBSET S |-> IF s = {} THEN 0 ELSE owed(one(s)) + f[s \ {one(s)}]]
<1> DEFINE iter == CHOOSE f : Rec(f)
<1>1. MapThenSumSet(owed, S) = iter[S]
  BY DEF MapThenSumSet, MapThenFoldSet
<1>2. CountExpectedSettledSteps(DeriveLoops(g), ReachableNodes(g), terms) =
        IF \E l \in S : \A k \in terms : k[1] # l.batch THEN StillRunning
        ELSE iter[S] + Cardinality(ReachableNodes(g) \ members)
  BY <1>1 DEF CountExpectedSettledSteps
<1>3. S = Counted(g)
  BY DEF Counted
<1>4. (\A s : s # {} => one(s) \in s) /\ AllEnded(g, t)
  BY DEF AllEnded
<1> DEFINE count == [s \in SUBSET S |-> Cardinality(LoopKeys(g, t, s))]
<1>5. ASSUME NEW l \in S
      PROVE  owed(l) = Cardinality(PassKeys(l, LastPass(g, t, l)))
  <2>1. l \in DeriveLoops(g) /\ \E k \in TermsOf(g, t) : k[1] = l.batch
    BY <1>3 DEF ReachableLoops
  <2>2. LastPass(g, t, l) \in Nat
    BY <2>1, LastPassIs
  <2>3. terminal(l) = LastPass(g, t, l)
    <3> DEFINE one1 == CHOOSE k \in terms : k[1] = l.batch
    <3> DEFINE one2 == CHOOSE k \in TermsOf(g, t) : k[1] = l.batch
    <3>1. one1 \in terms /\ one1[1] = l.batch
      BY <1>3, <1>5
    <3>2. one2 \in TermsOf(g, t) /\ one2[1] = l.batch
      BY <2>1
    <3>3. terminal(l) = one1[2] /\ LastPass(g, t, l) = one2[2]
      BY DEF LastPass
    <3>4. OnePerLoop(TermsOf(g, t))
      BY TermsOnePerLoop DEF TableOK
    <3> HIDE DEF one1, one2, terminal
    <3>5. one1 = one2
      BY <3>1, <3>2, <3>4 DEF OnePerLoop
    <3>6. QED BY <3>3, <3>5
  <2> HIDE DEF terminal
  <2>4. QED BY <2>1, <2>2, <2>3, PassKeysCount
<1> HIDE DEF terminal, owed, one
<1>6. Rec(count)
  <2>1. ASSUME NEW s \in SUBSET S
        PROVE  count[s] = IF s = {} THEN 0 ELSE owed(one(s)) + count[s \ {one(s)}]
    <3>1. CASE s = {}
      BY <1>4, <3>1, LoopKeysAdd, FS_EmptySet
    <3>2. CASE s # {}
      <4>1. one(s) \in s /\ s \in SUBSET Counted(g)
        BY <1>3, <1>4, <3>2
      <4>2. Cardinality(LoopKeys(g, t, s)) =
              Cardinality(PassKeys(one(s), LastPass(g, t, one(s)))) + Cardinality(LoopKeys(g, t, s \ {one(s)}))
        BY <1>4, <4>1, LoopKeysAdd
      <4>3. s \ {one(s)} \in SUBSET S /\ one(s) \in S
        BY <4>1
      <4> HIDE DEF S
      <4>4. QED BY <1>5, <3>2, <4>2, <4>3
    <3>3. QED BY <3>1, <3>2
  <2> HIDE DEF S
  <2>2. count = [s \in SUBSET S |-> count[s]]
    OBVIOUS
  <2> HIDE DEF count
  <2>3. QED BY <2>1, <2>2
<1>7. Rec(iter)
  BY <1>6
<1> HIDE DEF iter
<1>8. iter[S] = count[S]
  <2> DEFINE bad == {s \in SUBSET S : iter[s] # count[s]}
  <2> DEFINE sizes == {Cardinality(s) : s \in bad}
  <2>1. SUFFICES ASSUME bad # {} PROVE FALSE
    <3>1. S \in SUBSET S
      OBVIOUS
    <3> HIDE DEF S
    <3>2. QED BY <3>1
  <2>2. IsFiniteSet(S)
    BY <1>3, LoopsFinite
  <2> HIDE DEF S
  <2>3. \A s \in SUBSET S : IsFiniteSet(s) /\ Cardinality(s) \in Nat
    BY <2>2, FS_Subset, FS_CardinalityType
  <2>4. sizes \in SUBSET Nat /\ sizes # {}
    BY <2>1, <2>3
  <2>5. PICK n \in sizes : \A j \in sizes : n <= j
    BY <2>4, LeastNumber
  <2>6. PICK s \in bad : n = Cardinality(s)
    BY <2>5
  <2>7. /\ iter[s] = IF s = {} THEN 0 ELSE owed(one(s)) + iter[s \ {one(s)}]
        /\ count[s] = IF s = {} THEN 0 ELSE owed(one(s)) + count[s \ {one(s)}]
    <3>1. s \in SUBSET S
      BY <2>6
    <3> HIDE DEF count
    <3>2. QED BY <1>6, <1>7, <3>1
  <2>8. s # {} /\ s \in SUBSET S
    BY <2>6, <2>7
  <2>9. one(s) \in s /\ s \ {one(s)} \in SUBSET S
    BY <1>4, <2>8
  <2>10. Cardinality(s \ {one(s)}) = Cardinality(s) - 1
    BY <2>3, <2>8, <2>9, FS_RemoveElement
  <2>11. s \ {one(s)} \notin bad
    <3>1. Cardinality(s) \in Nat
      BY <2>3, <2>8
    <3>2. SUFFICES ASSUME s \ {one(s)} \in bad PROVE FALSE
      OBVIOUS
    <3>3. Cardinality(s \ {one(s)}) \in sizes
      BY <3>2
    <3> HIDE DEF sizes
    <3>4. n <= Cardinality(s \ {one(s)})
      BY <2>5, <3>3
    <3>5. QED BY <2>6, <2>10, <3>1, <3>4
  <2>12. iter[s \ {one(s)}] = count[s \ {one(s)}]
    BY <2>9, <2>11
  <2>13. QED BY <2>6, <2>7, <2>12
<1>9. count[S] = Cardinality(LoopKeys(g, t, Counted(g))) /\ IsFiniteSet(LoopKeys(g, t, Counted(g)))
      /\ Cardinality(LoopKeys(g, t, Counted(g))) \in Nat
  BY <1>3, <1>4, LoopKeysAdd
<1>10. ~\E l \in S : \A k \in terms : k[1] # l.batch
  BY <1>3
<1> DEFINE R == {n \in ReachableNodes(g) : ~InLoop(g, n)}
<1>11. ReachableNodes(g) \ members = R
  <2>1. ASSUME NEW n \in ReachableNodes(g) PROVE n \in members <=> InLoop(g, n)
    BY ReachableMembers DEF InLoop, ReachableLoops
  <2>2. QED BY <2>1
<1>12. IsFiniteSet(R) /\ Cardinality(R) \in Nat
  <2>1. ReachableNodes(g) \subseteq NodesOf(g)
    BY TriggerFacts, ExecutableSound, DescendantsClosed DEF ReachableNodes
  <2>2. R \in SUBSET NodesOf(g) /\ IsFiniteSet(NodesOf(g))
    BY <2>1 DEF Executable, IsGraph
  <2>3. QED BY <2>2, FS_Subset, FS_CardinalityType
<1>13. NodeKeys(g) = R \X {0}
  BY DEF NodeKeys
<1> HIDE DEF R, members, S, count, iter
<1>14. IsFiniteSet(NodeKeys(g)) /\ Cardinality(NodeKeys(g)) = Cardinality(R)
  <2>1. IsFiniteSet({0}) /\ Cardinality({0}) = 1
    BY FS_Singleton
  <2>2. Cardinality(NodeKeys(g)) = Cardinality(R) * 1 /\ IsFiniteSet(NodeKeys(g))
    BY <1>12, <1>13, <2>1, FS_Product
  <2>3. QED BY <1>12, <2>2
<1> DEFINE K == LoopKeys(g, t, Counted(g))
<1>15. K \cap NodeKeys(g) = {}
  <2>1. SUFFICES ASSUME NEW k \in K, k \in NodeKeys(g) PROVE FALSE
    OBVIOUS
  <2>2. PICK l \in Counted(g) : k \in PassKeys(l, LastPass(g, t, l))
    BY <2>1 DEF LoopKeys
  <2>3. l \in DeriveLoops(g) /\ k[1] \in l.members
    BY <2>2, LoopShape DEF PassKeys, Counted, ReachableLoops
  <2>4. QED BY <2>1, <2>3 DEF NodeKeys, InLoop
<1> HIDE DEF K
<1>16. Cardinality(K \cap NodeKeys(g)) = 0
  BY <1>15, FS_EmptySet
<1>17. /\ IsFiniteSet(K \cup NodeKeys(g))
       /\ Cardinality(K \cup NodeKeys(g)) =
            Cardinality(K) + Cardinality(NodeKeys(g)) - Cardinality(K \cap NodeKeys(g))
  BY <1>9, <1>14, FS_Union DEF K
<1>18. Cardinality(K \cup NodeKeys(g)) = Cardinality(K) + Cardinality(R)
  BY <1>9, <1>12, <1>14, <1>16, <1>17 DEF K
<1>19. CountExpectedSettledSteps(DeriveLoops(g), ReachableNodes(g), terms) = iter[S] + Cardinality(R)
  BY <1>2, <1>10, <1>11
<1>20. OwedKeys(g, t) = K \cup NodeKeys(g)
  BY DEF OwedKeys, K
<1>21. QED BY <1>8, <1>9, <1>17, <1>18, <1>19, <1>20 DEF K

\* Exactness, of a table.
LEMMA CountOfTable ==
  ASSUME NEW g, Executable(g), NEW t, GoodTable(g, t), \A k \in DOMAIN t : IsSettled(t[k]),
         <<TriggerOf(g), 0>> \in DOMAIN t
  PROVE  LET owed == CountExpectedSettledSteps(DeriveLoops(g), ReachableNodes(g), TermsOf(g, t))
         IN  NothingLeft(g, t) <=> owed # StillRunning /\ Cardinality(DOMAIN t) >= owed
<1> DEFINE owed == CountExpectedSettledSteps(DeriveLoops(g), ReachableNodes(g), TermsOf(g, t))
<1> DEFINE K == OwedKeys(g, t)
<1> DEFINE D == DOMAIN t
<1>1. TableOK(g, t) /\ IsFiniteSet(D) /\ Cardinality(D) \in Nat
  BY FS_CardinalityType DEF GoodTable, TableOK
<1>2. ~AllEnded(g, t) => owed = StillRunning
  BY DEF CountExpectedSettledSteps, AllEnded, Counted
<1> HIDE DEF owed, K, D
<1>3. ASSUME AllEnded(g, t)
      PROVE  /\ IsFiniteSet(K) /\ Cardinality(K) \in Nat /\ owed = Cardinality(K)
             /\ D \subseteq K
  BY <1>1, <1>3, CountIs, RowsAreOwed, FS_CardinalityType DEF owed, K, D, AllEnded
<1>4. ASSUME NothingLeft(g, t) PROVE owed # StillRunning /\ Cardinality(D) >= owed
  <2>1. AllEnded(g, t) /\ K \subseteq D
    BY <1>4, OwedRows DEF K, D
  <2>2. K = D
    BY <1>3, <2>1
  <2>3. QED BY <1>3, <2>1, <2>2 DEF StillRunning
<1>5. ASSUME owed # StillRunning, Cardinality(D) >= owed PROVE NothingLeft(g, t)
  <2>1. AllEnded(g, t)
    BY <1>2, <1>5
  <2>2. Cardinality(D) = Cardinality(K)
    <3>1. Cardinality(D) <= Cardinality(K)
      BY <1>3, <2>1, FS_Subset
    <3>2. QED BY <1>1, <1>3, <1>5, <2>1, <3>1
  <2>3. D = K
    BY <1>3, <2>1, <2>2, FS_Subset
  <2>4. QED BY <2>1, <2>3, NoneAfterOwed DEF K, D
<1>6. QED BY <1>4, <1>5 DEF owed, D

\* With all rows settled, they are as many as the completion count expects just when
\* nothing is left to decide.
LEMMA TheCountIsExact ==
  ASSUME DataInv
  PROVE  CountIsExact
<1>1. SUFFICES ASSUME DOMAIN rows # {}, AllSettled
               PROVE  LET owed == CountExpectedSettledSteps(loops, ReachableNodes(graph), Terminals)
                      IN  NothingDecidable <=> owed # StillRunning /\ Cardinality(DOMAIN rows) >= owed
  BY DEF CountIsExact, Reachable
<1>2. /\ Executable(graph) /\ GoodTable(graph, rows) /\ <<TriggerOf(graph), 0>> \in DOMAIN rows
      /\ loops = DeriveLoops(graph) /\ Terminals = TermsOf(graph, rows)
      /\ NothingDecidable <=> NothingLeft(graph, rows)
  BY <1>1, SomeRow, Links DEF DataInv
<1>3. QED BY <1>1, <1>2, CountOfTable DEF AllSettled
-----------------------------------------------------------------------------
(***************************************************************************)
(* What the engine's handlers rely on: a plan made from part of the table  *)
(* and kept for a while, an outcome computed before it is recorded, a      *)
(* count taken after the last passes were read.  EngineExecutionProofs     *)
(* cites these.                                                            *)
(***************************************************************************)
\* A later table's plan for the same step holds what an earlier one decided, until it
\* has a row (settlement.ts: any planner, at any time, recomputes the same decisions).
LEMMA PlanStays ==
  ASSUME NEW g, Executable(g), NEW t, GoodTable(g, t), NEW next, GoodTable(g, next), Continues(g, t, next),
         NEW s \in DOMAIN t, IsSettled(t[s]),
         NEW k \in PlanAt(g, t, s).toQueue \cup PlanAt(g, t, s).toSkip, k \notin DOMAIN next
  PROVE  IF k \in PlanAt(g, t, s).toQueue THEN k \in PlanAt(g, next, s).toQueue
                                          ELSE k \in PlanAt(g, next, s).toSkip
<1> DEFINE L == DeriveLoops(g)
<1>1. PICK e \in g.edges :
        /\ e.from = s[1] /\ k = TargetKey(e, ClassifyEdge(e, L), s)
        /\ \A l \in L : l.batch = s[1] => (IsTerminalStep(t[s]) <=> ClassifyEdge(e, L) = "exit")
  BY PlanFacts
<1>2. /\ ReadsOf(g, t, k) # {}
      /\ \A r \in ReadsOf(g, t, k) : Decided(t, r)
      /\ k \in PlanAt(g, t, s).toQueue <=> \E r \in ReadsOf(g, t, k) : IsLive(t[r.src.key], r.edge)
  BY PlanFacts
<1>3. next[s] = t[s] /\ s \in DOMAIN next /\ IsSettled(next[s])
  BY DEF Continues
<1>4. k[2] \in Nat /\ \A l \in L : PlaceOK(t, l, k)
  BY NewKeyPlace
<1>5. /\ ReadsOf(g, next, k) = ReadsOf(g, t, k)
      /\ \A r \in ReadsOf(g, t, k) :
           Decided(next, r) /\ r.src.key \in DOMAIN t /\ next[r.src.key] = t[r.src.key]
  <2>1. DOMAIN next \subseteq NodesOf(g) \X Nat
    BY DEF GoodTable, TableOK
  <2>2. QED BY <1>2, <1>4, <2>1, ReadsStay
<1>6. ~IsPastLoopEnd(L, k, next)
  <2>1. SUFFICES ASSUME NEW l \in LoopsWith(L, k[1]), k[1] # l.batch, IsTerminalStep(next[<<l.batch, k[2]>>])
                 PROVE  FALSE
    BY DEF IsPastLoopEnd
  <2>2. l \in L /\ k[1] \in l.members \ {l.batch}
    BY <2>1 DEF LoopsWith
  <2>3. <<l.batch, k[2]>> \in DOMAIN t /\ Filled(t[<<l.batch, k[2]>>], LoopSlot)
    BY <1>4, <2>2 DEF PlaceOK
  <2>4. IsSettled(t[<<l.batch, k[2]>>])
    BY <2>3, FilledSettled DEF GoodTable
  <2>5. next[<<l.batch, k[2]>>] = t[<<l.batch, k[2]>>]
    BY <2>3, <2>4 DEF Continues
  <2>6. QED BY <2>1, <2>3, <2>5 DEF IsTerminalStep
<1> DEFINE cands == {TargetKey(d, ClassifyEdge(d, L), s) : d \in EdgesDecided(g, L, s, next)} \ DOMAIN next
<1> DEFINE fate(j) == DecideNodeFate(g, L, j, next, TermsOf(g, next))
<1>7. e \in EdgesDecided(g, L, s, next)
  BY <1>1, <1>3 DEF EdgesDecided, Outgoing
<1>8. k \in cands
  BY <1>1, <1>7
<1>9. /\ PlanAt(g, next, s).toQueue = {j \in cands : fate(j) = "queued"}
      /\ PlanAt(g, next, s).toSkip = {j \in cands : fate(j) = "skipped"}
  BY DEF PlanAt, DecideSuccessors
<1>10. fate(k) = IF IsPastLoopEnd(L, k, next) \/ ReadsOf(g, next, k) = {} THEN "outside"
                ELSE IF \E r \in ReadsOf(g, next, k) : SourceUnsettled(r, next) THEN "undecidable"
                ELSE IF \E r \in ReadsOf(g, next, k) : IsLive(next[r.src.key], r.edge) THEN "queued"
                ELSE "skipped"
  BY DEF DecideNodeFate, ReadsOf
<1> HIDE DEF cands, fate
<1>11. fate(k) = IF \E r \in ReadsOf(g, t, k) : IsLive(t[r.src.key], r.edge) THEN "queued" ELSE "skipped"
  BY <1>2, <1>5, <1>6, <1>10 DEF Decided
<1>12. QED BY <1>2, <1>8, <1>9, <1>11

\* The part of a table a planner loads, with last passes it read earlier, decides
\* nothing the whole table does not.
LEMMA PlanFromPart ==
  ASSUME NEW g, Executable(g), NEW t, GoodTable(g, t), NEW s \in DOMAIN t, IsSettled(t[s]),
         NEW terms \in SUBSET TermsOf(g, t), NEW part,
         part = [k \in DecisionKeys(g, DeriveLoops(g), s, terms) \cap DOMAIN t |-> t[k]]
  PROVE  LET plan == DecideSuccessors(g, DeriveLoops(g), s, part, terms)
         IN  plan.toQueue \subseteq PlanAt(g, t, s).toQueue /\ plan.toSkip \subseteq PlanAt(g, t, s).toSkip
<1> DEFINE L == DeriveLoops(g)
<1> DEFINE K == DecisionKeys(g, L, s, terms)
<1> DEFINE target(e) == TargetKey(e, ClassifyEdge(e, L), s)
<1> DEFINE known == {target(e) : e \in EdgesDecided(g, L, s, part)} \ DOMAIN part
<1> DEFINE cands == {target(e) : e \in EdgesDecided(g, L, s, t)} \ DOMAIN t
<1> DEFINE guess(j) == DecideNodeFate(g, L, j, part, terms)
<1> DEFINE fate(j) == DecideNodeFate(g, L, j, t, TermsOf(g, t))
<1> DEFINE plan == DecideSuccessors(g, L, s, part, terms)
<1>1. /\ PlanAt(g, t, s).toQueue = {j \in cands : fate(j) = "queued"}
      /\ PlanAt(g, t, s).toSkip = {j \in cands : fate(j) = "skipped"}
      /\ plan.toQueue = {j \in known : guess(j) = "queued"}
      /\ plan.toSkip = {j \in known : guess(j) = "skipped"}
  BY DEF PlanAt, DecideSuccessors
<1>2. /\ s \in K /\ \A e \in g.edges : e.from = s[1] => target(e) \in K
      /\ \A j : (\E e \in g.edges : e.from = s[1] /\ j = target(e)) =>
           /\ \A r \in SourcesOf(g, L, j, terms) : r.src.kind = "row" => r.src.key \in K
           /\ \A l \in LoopsWith(L, j[1]) : <<l.batch, j[2]>> \in K
  BY DEF DecisionKeys, Outgoing
<1> HIDE DEF K
<1>3. DOMAIN part = K \cap DOMAIN t /\ \A j \in K \cap DOMAIN t : part[j] = t[j]
  BY DEF K
<1>4. EdgesDecided(g, L, s, part) = EdgesDecided(g, L, s, t)
  BY <1>2, <1>3 DEF EdgesDecided
<1>5. ASSUME NEW k \in known, guess(k) \in {"queued", "skipped"}
      PROVE  k \in cands /\ fate(k) = guess(k)
  <2>1. PICK e \in g.edges : e.from = s[1] /\ k = target(e)
    BY <1>4 DEF EdgesDecided, Outgoing
  <2>2. k \in cands
    BY <1>2, <1>3, <1>4, <2>1
  <2>3. k[2] \in Nat
    <3>1. s[2] \in Nat
      BY KeyParts DEF GoodTable
    <3>2. QED BY <2>1, <3>1 DEF TargetKey
  <2> DEFINE few == SourcesOf(g, L, k, terms)
  <2> DEFINE all == ReadsOf(g, t, k)
  <2>4. guess(k) = IF IsPastLoopEnd(L, k, part) \/ few = {} THEN "outside"
                   ELSE IF \E r \in few : SourceUnsettled(r, part) THEN "undecidable"
                   ELSE IF \E r \in few : IsLive(part[r.src.key], r.edge) THEN "queued"
                   ELSE "skipped"
    BY DEF DecideNodeFate
  <2>5. fate(k) = IF IsPastLoopEnd(L, k, t) \/ all = {} THEN "outside"
                  ELSE IF \E r \in all : SourceUnsettled(r, t) THEN "undecidable"
                  ELSE IF \E r \in all : IsLive(t[r.src.key], r.edge) THEN "queued"
                  ELSE "skipped"
    BY DEF DecideNodeFate, ReadsOf
  <2> HIDE DEF guess, fate, cands, known, target
  <2>6. /\ ~IsPastLoopEnd(L, k, part) /\ few # {}
        /\ \A r \in few : ~SourceUnsettled(r, part)
    BY <1>5, <2>4
  <2>7. \A r \in few : r.src.kind # "pending" /\ r.src.key \in DOMAIN part
    BY <2>6 DEF SourceUnsettled
  <2>8. \A r \in few : part[r.src.key] = t[r.src.key] /\ r.src.key \in DOMAIN t
    BY <1>3, <2>7
  <2>9. few = all
    <3>1. OnePerLoop(TermsOf(g, t))
      BY TermsOnePerLoop DEF GoodTable, TableOK
    <3>2. ASSUME NEW d \in g.edges, d.to = k[1]
          PROVE  SourceAt(g, d, k, terms) = SourceAt(g, d, k, TermsOf(g, t))
      <4>1. CASE ClassifyEdge(d, L) = "exit" /\ k[2] = 0
        <5> DEFINE r == [edge |-> d, src |-> SourceAt(g, d, k, terms)]
        <5>1. r.src.kind # "pending"
          <6>1. ASSUME r.src.kind = "pending" PROVE FALSE
            <7>1. r \in few
              BY <3>2, <6>1 DEF SourcesOf, SourceAt, Incoming
            <7>2. QED BY <2>7, <6>1, <7>1
          <6>2. QED BY <6>1
        <5>2. PICK u \in terms : u[1] = d.from /\ SourceAt(g, d, k, terms) = [kind |-> "row", key |-> u]
          BY <2>3, <4>1, <5>1, SourceCases
        <5>3. SourceAt(g, d, k, TermsOf(g, t)).kind # "pending"
          BY <2>3, <5>2, SourceCases
        <5>4. PICK v \in TermsOf(g, t) : v[1] = d.from /\ SourceAt(g, d, k, TermsOf(g, t)) = [kind |-> "row", key |-> v]
          BY <2>3, <4>1, <5>3, SourceCases
        <5>5. u = v
          BY <3>1, <5>2, <5>4 DEF OnePerLoop
        <5>6. QED BY <5>2, <5>4, <5>5
      <4>2. CASE ~(ClassifyEdge(d, L) = "exit" /\ k[2] = 0)
        BY <4>2 DEF SourceAt, SourceRow
      <4>3. QED BY <4>1, <4>2
    <3>3. \A r : r \in few <=> r \in all
      BY <3>2 DEF SourcesOf, SourceAt, Incoming, ReadsOf
    <3> HIDE DEF few, all
    <3>4. QED BY <3>3
  <2>10. ~IsPastLoopEnd(L, k, t)
    <3>1. \A l \in LoopsWith(L, k[1]) : <<l.batch, k[2]>> \in K
      BY <1>2, <2>1 DEF target
    <3>2. QED BY <1>3, <2>6, <3>1 DEF IsPastLoopEnd
  <2> HIDE DEF few, all
  <2>11. \A r \in all : ~SourceUnsettled(r, t)
    BY <2>6, <2>8, <2>9 DEF SourceUnsettled
  <2>12. (\E r \in few : IsLive(part[r.src.key], r.edge)) <=> (\E r \in all : IsLive(t[r.src.key], r.edge))
    BY <2>8, <2>9
  <2>13. QED BY <2>2, <2>4, <2>5, <2>6, <2>9, <2>10, <2>11, <2>12
<1> HIDE DEF guess, fate, cands, known, plan
<1>6. QED BY <1>1, <1>5 DEF plan

\* What the body of a loop returned on the passes before a batch step that has a row.
LEMMA ArrivalsStay ==
  ASSUME NEW g, Executable(g), NEW t, GoodTable(g, t), NEW next, Continues(g, t, next),
         NEW l \in DeriveLoops(g), NEW k \in DOMAIN t, k[1] = l.batch
  PROVE  ReadArrivals(next, l, k[2]) = ReadArrivals(t, l, k[2])
<1> DEFINE e == CHOOSE e \in l.backs : TRUE
<1>1. e.from \in l.members
  BY BackEdges
<1> HIDE DEF e
<1>2. LoopOK(t, l) /\ k = <<l.batch, k[2]>> /\ k[2] \in Nat /\ l.batch \in l.members
  BY KeyParts, LoopShape DEF GoodTable, LoopsOK
<1>3. ASSUME NEW i \in 0..(k[2] - 1) PROVE ReadBack(next, <<e.from, i>>, e) = ReadBack(t, <<e.from, i>>, e)
  <2> DEFINE head == <<l.batch, i + 1>>
  <2>1. i + 1 \in 0..k[2] /\ i + 1 > 0 /\ (i + 1) - 1 = i
    BY <1>2
  <2>2. head \in DOMAIN t /\ head[1] = l.batch /\ head[2] = i + 1
    BY <1>2, <2>1 DEF LoopOK
  <2> HIDE DEF head
  <2>3. <<e.from, i>> \in DOMAIN t /\ IsSettled(t[<<e.from, i>>])
    <3>1. \A m \in l.members : <<m, head[2] - 1>> \in DOMAIN t /\ IsSettled(t[<<m, head[2] - 1>>])
      BY <1>2, <2>1, <2>2 DEF LoopOK
    <3>2. QED BY <1>1, <2>1, <2>2, <3>1
  <2>4. QED BY <2>3 DEF ReadBack, Continues
<1>4. QED BY <1>3 DEF ReadArrivals, e

\* What a step may come to does not change while it runs.
LEMMA StepRunsStay ==
  ASSUME NEW g, Executable(g), NEW t, GoodTable(g, t), NEW next, TableOK(g, next), Continues(g, t, next),
         NEW k \in DOMAIN t, NEW runs, NEW errors
  PROVE  StepRuns(g, DeriveLoops(g), next, k, runs, errors) = StepRuns(g, DeriveLoops(g), t, k, runs, errors)
<1> DEFINE L == DeriveLoops(g)
<1>1. CASE g.kind[k[1]] = "batch"
  <2>1. \E l \in L : l.batch = k[1]
    <3>1. k[1] \in NodesOf(g)
      BY KeyParts DEF GoodTable
    <3>2. QED BY <1>1, <3>1 DEF Executable, ValidateExecutableGraph, ValidateLoops, BatchNodesLoop, NodesOfKind
  <2> DEFINE l == CHOOSE l \in L : l.batch = k[1]
  <2>2. l \in L /\ l.batch = k[1]
    BY <2>1
  <2>3. RunBatchNode(g, L, next, k) = RunBatchNode(g, L, t, k)
    <3>1. /\ ReadOriginalItems(g, L, next, l) = ReadOriginalItems(g, L, t, l)
          /\ ReadArrivals(next, l, k[2]) = ReadArrivals(t, l, k[2])
      <4> HIDE DEF l
      <4>1. k[1] \in l.members
        BY <2>2, LoopShape
      <4>2. QED BY <2>2, <4>1, OriginalStays, ArrivalsStay
    <3>2. QED BY <3>1 DEF RunBatchNode
  <2>4. QED BY <1>1, <2>3 DEF StepRuns
<1>2. CASE g.kind[k[1]] # "batch"
  BY <1>2 DEF StepRuns
<1>3. QED BY <1>1, <1>2

\* Nothing is left of an execution.
Done(g, t) == DOMAIN t # {} /\ (\A k \in DOMAIN t : IsSettled(t[k])) /\ NothingLeft(g, t)

\* Last passes that were read earlier and a count of settled rows taken later
\* still tell that nothing is left.
LEMMA CountReached ==
  ASSUME NEW g, Executable(g), NEW t, GoodTable(g, t), NEW terms \in SUBSET TermsOf(g, t),
         CountExpectedSettledSteps(DeriveLoops(g), ReachableNodes(g), terms) # StillRunning,
         ~(Cardinality({k \in DOMAIN t : IsSettled(t[k])}) <
             CountExpectedSettledSteps(DeriveLoops(g), ReachableNodes(g), terms))
  PROVE  Done(g, t)
<1> DEFINE owed == CountExpectedSettledSteps(DeriveLoops(g), ReachableNodes(g), terms)
<1> DEFINE K == OwedKeys(g, t)
<1> DEFINE S == {k \in DOMAIN t : IsSettled(t[k])}
<1>1. TableOK(g, t) /\ IsFiniteSet(DOMAIN t)
  BY DEF GoodTable, TableOK
<1>2. \A l \in Counted(g) : \E k \in terms : k[1] = l.batch
  BY DEF CountExpectedSettledSteps, Counted
<1>3. AllEnded(g, t)
  BY <1>2 DEF AllEnded
<1>4. IsFiniteSet(K) /\ owed = Cardinality(K) /\ Cardinality(K) \in Nat
  BY <1>1, <1>2, CountIs, FS_CardinalityType
<1>5. DOMAIN t \subseteq K
  BY <1>3, RowsAreOwed
<1>6. S \subseteq K /\ S \subseteq DOMAIN t
  BY <1>5
<1> HIDE DEF owed, K, S
<1>7. Cardinality(S) <= Cardinality(K) /\ Cardinality(S) \in Nat
  BY <1>1, <1>4, <1>6, FS_Subset, FS_CardinalityType
<1>8. Cardinality(S) = Cardinality(K)
  BY <1>4, <1>7 DEF owed, S
<1>9. S = K /\ DOMAIN t = K
  BY <1>4, <1>5, <1>6, <1>8, FS_Subset
<1>10. NothingLeft(g, t)
  BY <1>3, <1>9, NoneAfterOwed DEF K
<1>11. DOMAIN t # {}
  <2>1. TriggerOf(g) \in ReachableNodes(g) /\ ~InLoop(g, TriggerOf(g))
    BY TriggerFacts DEF ReachableNodes
  <2>2. <<TriggerOf(g), 0>> \in K
    BY <2>1 DEF K, OwedKeys, NodeKeys
  <2>3. QED BY <1>9, <2>2
<1>12. QED BY <1>9, <1>10, <1>11 DEF S, Done

\* A step's plan gives each key one fate, and none to a key that has a row.
LEMMA PlanSplits ==
  ASSUME NEW g, NEW t, NEW s
  PROVE  /\ PlanAt(g, t, s).toQueue \cap PlanAt(g, t, s).toSkip = {}
         /\ (PlanAt(g, t, s).toQueue \cup PlanAt(g, t, s).toSkip) \cap DOMAIN t = {}
BY DEF PlanAt, DecideSuccessors

\* No step changes the rows of an execution of which nothing is left.
LEMMA DoneStays ==
  ASSUME DataInv, Done(graph, rows), [Next]_dataVars
  PROVE  rows' = rows
<1>1. \A k \in DOMAIN rows : rows[k].status \notin {"queued", "running"}
  BY DEF Done, IsSettled, SettledStatuses
<1>2. rows = [k \in DOMAIN rows |-> rows[k]]
  BY DEF DataInv, GoodTable, TableOK
<1>3. ASSUME CancelQueued PROVE rows' = rows
  <2>1. rows' = [k \in DOMAIN rows |-> IF rows[k].status = "queued" THEN NewRow("cancelled", NoOutputs) ELSE rows[k]]
    BY <1>3 DEF CancelQueued
  <2>2. [k \in DOMAIN rows |-> IF rows[k].status = "queued" THEN NewRow("cancelled", NoOutputs) ELSE rows[k]]
          = [k \in DOMAIN rows |-> rows[k]]
    BY <1>1
  <2>3. QED BY <1>2, <2>1, <2>2
<1>4. ~BeginStep /\ ~SettleStep
  BY <1>1 DEF BeginStep, SettleStep
<1>5. ~RecordTrigger
  BY DEF RecordTrigger, Done
<1>6. ~Decide
  <2>1. \A s \in DOMAIN rows : IsSettled(rows[s]) => PlanOf(s).toQueue \cup PlanOf(s).toSkip = {}
    BY Links DEF Done, NothingLeft
  <2>2. QED BY <2>1 DEF Decide
<1>7. UNCHANGED dataVars \/ Admit \/ Begin \/ Fail \/ Complete => rows' = rows
  BY DEF dataVars, Admit, Begin, Fail, Complete
<1>8. QED BY <1>3, <1>4, <1>5, <1>6, <1>7 DEF Next, Progress

\* A failed execution stays failed.
LEMMA FailedStays ==
  ASSUME exec.status = "failed", [Next]_dataVars
  PROVE  exec'.status = "failed"
BY DEF Next, Progress, Admit, Begin, RecordTrigger, Fail, BeginStep, SettleStep, Decide, Complete,
       CancelQueued, dataVars
-----------------------------------------------------------------------------
(***************************************************************************)
(* Who decides what becomes decidable.  The engine relies on the settlement *)
(* that came last to plan it, with last passes read before the rest.       *)
(***************************************************************************)
\* A back edge from the head of a loop to itself makes the loop that head alone.
LEMMA SelfLoop ==
  ASSUME NEW g, Executable(g), NEW l \in DeriveLoops(g), NEW e \in g.edges, e.back,
         e.from = l.batch, e.to = l.batch
  PROVE  l.members = {l.batch}
<1>1. l.batch \in l.members /\ l.backs = {d \in g.edges : d.back /\ d.to = l.batch}
  BY LoopShape
<1>2. PICK r \in g.edges : l.backs = {r}
  BY BackEdges
<1> DEFINE S == {l.batch}
<1>3. /\ \A d \in l.backs : d.from \in S
      /\ S \subseteq l.members /\ S \ {l.batch} = {}
  BY <1>1, <1>2
<1> HIDE DEF S
<1>4. S = l.members
  BY <1>3, LoopBackward
<1>5. QED BY <1>4 DEF S

\* Every step a planned step reads decides it: whichever of them settles last plans it.
LEMMA SourcesDecide ==
  ASSUME NEW g, Executable(g), NEW t, GoodTable(g, t), NEW s \in DOMAIN t, IsSettled(t[s]),
         NEW k \in DecidedBy(g, t, s), NEW x \in ReadsOf(g, t, k)
  PROVE  /\ x.src.key \in DOMAIN t /\ IsSettled(t[x.src.key])
         /\ k \in DecidedBy(g, t, x.src.key)
<1> DEFINE L == DeriveLoops(g)
<1> DEFINE class == ClassifyEdge(x.edge, L)
<1> DEFINE r == x.src.key
<1>1. /\ k \notin DOMAIN t /\ ~IsPastLoopEnd(L, k, t) /\ ReadsOf(g, t, k) # {}
      /\ \A y \in ReadsOf(g, t, k) : Decided(t, y)
  BY PlanFacts DEF DecidedBy
<1>2. PICK e \in g.edges : e.from = s[1] /\ k = TargetKey(e, ClassifyEdge(e, L), s)
  BY PlanFacts DEF DecidedBy
<1>3. k[2] \in Nat /\ k = <<k[1], k[2]>>
  BY NewKeyPlace DEF DecidedBy
<1>4. r \in DOMAIN t /\ IsSettled(t[r]) /\ x.src.kind # "pending"
  BY <1>1 DEF Decided, SourceUnsettled
<1>5. /\ x.edge \in g.edges /\ x.edge.to = k[1] /\ x.src = SourceAt(g, x.edge, k, TermsOf(g, t))
      /\ x.src.kind # "none"
  BY ReadsAre
<1>6. /\ class \in {"back", "intra", "exit", "entry", "plain"}
      /\ class = "back" => k[2] > 0 /\ r = <<x.edge.from, k[2] - 1>>
      /\ class = "entry" => k[2] = 0 /\ r = <<x.edge.from, 0>>
      /\ class = "exit" => k[2] = 0 /\ r \in TermsOf(g, t) /\ r[1] = x.edge.from
      /\ class \in {"intra", "plain"} => r = <<x.edge.from, k[2]>>
  BY <1>3, <1>4, <1>5, SourceCases, EdgeClasses
<1>7. r[1] = x.edge.from /\ k = TargetKey(x.edge, class, r)
  BY <1>3, <1>5, <1>6 DEF TargetKey
<1>8. CASE r = s
  BY <1>4, <1>8
<1>9. CASE r # s
  <2>1. ASSUME NEW l \in L, l.batch = r[1]
        PROVE  IsTerminalStep(t[r]) <=> class = "exit"
    <3>1. l.batch \in l.members
      BY LoopShape
    <3>2. class \notin {"entry", "plain"}
      BY <1>5, <1>7, <2>1, <3>1, EdgeClasses DEF InLoop
    <3>3. CASE class = "exit"
      BY <1>6, <3>3, TerminalUnfilled DEF IsTerminalStep
    <3>4. CASE class = "intra"
      <4>1. PICK j \in L : x.edge.from \in j.members /\ x.edge.to \in j.members \ {j.batch}
        BY <1>5, <3>4, EdgeClasses
      <4>2. j = l
        BY <1>7, <2>1, <3>1, <4>1, LoopsApart
      <4>3. r = <<l.batch, k[2]>> /\ k[1] # l.batch /\ l \in LoopsWith(L, k[1])
        BY <1>5, <1>6, <1>7, <2>1, <3>4, <4>1, <4>2 DEF LoopsWith
      <4>4. QED BY <1>1, <1>4, <3>4, <4>3 DEF IsPastLoopEnd
    <3>5. CASE class = "back"
      <4>1. PICK j \in L : j.backs = {x.edge} /\ x.edge.to = j.batch /\ x.edge.from \in j.members
        BY <1>5, <3>5, EdgeClasses
      <4>2. j = l
        BY <1>7, <2>1, <3>1, <4>1, LoopsApart
      <4>3. x.edge.back /\ l.members = {l.batch}
        BY <1>5, <1>7, <2>1, <3>5, <4>1, <4>2, SelfLoop, EdgeClasses
      <4>4. e.to = l.batch /\ k[2] > 0
        <5>1. k[1] = e.to
          BY <1>2 DEF TargetKey
        <5>2. QED BY <1>5, <1>6, <3>5, <4>1, <4>2, <5>1
      <4>5. ClassifyEdge(e, L) = "back"
        <5>1. ClassifyEdge(e, L) \notin {"entry", "exit"}
          BY <1>2, <4>4 DEF TargetKey
        <5>2. ClassifyEdge(e, L) # "plain"
          BY <3>1, <4>4, EdgeClasses DEF InLoop
        <5>3. ClassifyEdge(e, L) # "intra"
          <6>1. ASSUME ClassifyEdge(e, L) = "intra" PROVE FALSE
            <7>1. PICK i \in L : e.from \in i.members /\ e.to \in i.members \ {i.batch}
              BY <6>1, EdgeClasses
            <7>2. i = l
              BY <3>1, <4>4, <7>1, LoopsApart
            <7>3. QED BY <4>4, <7>1, <7>2
          <6>2. QED BY <6>1
        <5>4. QED BY <5>1, <5>2, <5>3, EdgeClasses
      <4>6. e = x.edge
        BY <3>1, <4>4, <4>5, <4>1, <4>2, LoopShape, EdgeClasses
      <4>7. s = r
        <5>1. s[2] \in Nat /\ s = <<s[1], s[2]>>
          BY KeyParts DEF GoodTable
        <5>2. k[2] = s[2] + 1
          BY <1>2, <4>5 DEF TargetKey
        <5>3. s[2] = k[2] - 1
          BY <5>1, <5>2
        <5>4. QED BY <1>2, <1>6, <3>5, <4>6, <5>1, <5>3
      <4>8. QED BY <1>9, <4>7
    <3>6. QED BY <1>6, <3>2, <3>3, <3>4, <3>5
  <2> HIDE DEF class, r
  <2>2. k \in DecidedBy(g, t, r)
    BY <1>1, <1>5, <1>7, <2>1, PlannedIf DEF class
  <2>3. QED BY <1>4, <2>2 DEF r
<1>10. QED BY <1>8, <1>9

\* A step that became decidable is decided by one whose settlement is new, unless
\* the settlement that decides it decided it before.
LEMMA LatestDecides ==
  ASSUME NEW g, Executable(g), NEW t, GoodTable(g, t), NEW next, GoodTable(g, next), Continues(g, t, next),
         NEW s \in DOMAIN next, IsSettled(next[s]), NEW k \in DecidedBy(g, next, s)
  PROVE  \/ s \in DOMAIN t /\ IsSettled(t[s]) /\ k \in DecidedBy(g, t, s)
         \/ \E r \in DOMAIN next : /\ IsSettled(next[r]) /\ k \in DecidedBy(g, next, r)
                                   /\ ~(r \in DOMAIN t /\ IsSettled(t[r]))
<1> DEFINE L == DeriveLoops(g)
<1>1. CASE ~(s \in DOMAIN t /\ IsSettled(t[s]))
  BY <1>1
<1>2. CASE s \in DOMAIN t /\ IsSettled(t[s])
  <2>1. next[s] = t[s]
    BY <1>2 DEF Continues
  <2>2. PICK e \in g.edges :
          /\ e.from = s[1] /\ k = TargetKey(e, ClassifyEdge(e, L), s)
          /\ \A l \in L : l.batch = s[1] => (IsTerminalStep(next[s]) <=> ClassifyEdge(e, L) = "exit")
    BY PlanFacts DEF DecidedBy
  <2>3. /\ k \notin DOMAIN next /\ ~IsPastLoopEnd(L, k, next) /\ ReadsOf(g, next, k) # {}
        /\ \A r \in ReadsOf(g, next, k) : Decided(next, r)
    BY PlanFacts DEF DecidedBy
  <2>4. k[2] \in Nat
    BY NewKeyPlace DEF DecidedBy
  <2>5. k \notin DOMAIN t
    BY <2>3 DEF Continues
  <2>6. ~IsPastLoopEnd(L, k, t)
    BY <2>3 DEF IsPastLoopEnd, IsTerminalStep, Continues
  <2>7. CASE \A x \in ReadsOf(g, t, k) : Decided(t, x)
    <3>1. ReadsOf(g, next, k) = ReadsOf(g, t, k)
      <4>1. DOMAIN next \subseteq NodesOf(g) \X Nat
        BY DEF GoodTable, TableOK
      <4>2. QED BY <2>4, <2>7, <4>1, ReadsStay
    <3>2. k \in DecidedBy(g, t, s)
      BY <2>1, <2>2, <2>3, <2>5, <2>6, <2>7, <3>1, PlannedIf
    <3>3. QED BY <1>2, <3>2
  <2>8. ASSUME NEW x \in ReadsOf(g, t, k), ~Decided(t, x)
        PROVE  \E r \in DOMAIN next : /\ IsSettled(next[r]) /\ k \in DecidedBy(g, next, r)
                                      /\ ~(r \in DOMAIN t /\ IsSettled(t[r]))
    <3> DEFINE d == x.edge
    <3> DEFINE class == ClassifyEdge(d, L)
    <3> DEFINE src == SourceAt(g, d, k, TermsOf(g, next))
    <3> DEFINE y == [edge |-> d, src |-> src]
    <3> DEFINE r == src.key
    <3>1. d \in g.edges /\ d.to = k[1] /\ x.src = SourceAt(g, d, k, TermsOf(g, t)) /\ x.src.kind # "none"
      BY ReadsAre
    <3>2. class # "exit" => src = x.src
      BY <3>1 DEF SourceAt, SourceRow
    <3>3. class = "exit" => k[2] = 0
      BY <2>4, <3>1, SourceCases
    <3>4. src.kind # "none"
      <4>1. CASE class = "exit"
        BY <2>4, <3>1, <3>3, <4>1, SourceCases
      <4>2. QED BY <3>1, <3>2, <4>1
    <3>5. y \in ReadsOf(g, next, k)
      BY <3>1, <3>4, ReadsAre
    <3>6. src.kind # "pending" /\ r \in DOMAIN next /\ IsSettled(next[r])
      BY <2>3, <3>5 DEF Decided, SourceUnsettled
    <3>7. k \in DecidedBy(g, next, r)
      <4>1. y.src.key = r
        OBVIOUS
      <4> HIDE DEF y, r
      <4>2. QED BY <3>5, <4>1, SourcesDecide
    <3>8. ~(r \in DOMAIN t /\ IsSettled(t[r]))
      <4>1. SUFFICES ASSUME r \in DOMAIN t, IsSettled(t[r]) PROVE FALSE
        OBVIOUS
      <4>2. CASE class # "exit"
        BY <2>8, <3>2, <3>6, <4>1, <4>2 DEF Decided, SourceUnsettled
      <4>3. CASE class = "exit"
        <5>1. PICK u \in TermsOf(g, next) : u[1] = d.from /\ src = [kind |-> "row", key |-> u]
          BY <2>4, <3>1, <3>3, <3>6, <4>3, SourceCases
        <5>2. r \in TermsOf(g, t) /\ r[1] = d.from
          <6>1. r = u /\ next[r] = t[r]
            BY <4>1, <5>1 DEF Continues
          <6>2. QED BY <4>1, <5>1, <6>1 DEF TermsOf, LoadTerminalIterations, IsLatestPass, Continues
        <5>3. x.src.kind # "pending"
          BY <2>4, <3>1, <5>2, SourceCases
        <5>4. PICK v \in TermsOf(g, t) : v[1] = d.from /\ x.src = [kind |-> "row", key |-> v]
          BY <2>4, <3>1, <3>3, <4>3, <5>3, SourceCases
        <5>5. v \in DOMAIN t /\ IsSettled(t[v])
          BY TerminalUnfilled
        <5>6. QED BY <2>8, <5>4, <5>5 DEF Decided, SourceUnsettled
      <4>4. QED BY <4>2, <4>3
    <3>9. QED BY <3>6, <3>7, <3>8
  <2>9. QED BY <2>7, <2>8
<1>3. QED BY <1>1, <1>2

\* The last passes of the loops the candidates leave are all the passes a candidate
\* reads (settlement.ts, planSuccessors).
LEMMA TermsEnough ==
  ASSUME NEW g, Executable(g), NEW t, NEW n, NEW k, k[1] \in Successors(g, {n}),
         NEW terms, terms = LoadTerminalIterations(t, ExitSourcesInto(g, DeriveLoops(g), Successors(g, {n})))
  PROVE  SourcesOf(g, DeriveLoops(g), k, terms) = ReadsOf(g, t, k)
<1> DEFINE L == DeriveLoops(g)
<1> DEFINE all == TermsOf(g, t)
<1>1. ASSUME NEW e \in Incoming(g, k[1])
      PROVE  SourceRow(e, ClassifyEdge(e, L), k, terms) = SourceRow(e, ClassifyEdge(e, L), k, all)
  <2>1. e \in g.edges /\ e.to = k[1]
    BY DEF Incoming
  <2>2. CASE ClassifyEdge(e, L) = "exit"
    <3>1. e.from \in ExitSourcesInto(g, L, Successors(g, {n}))
      BY <2>1, <2>2 DEF ExitSourcesInto
    <3>2. e.from \in {l.batch : l \in L}
      BY <2>1, <2>2, EdgeClasses
    <3>3. {u \in terms : u[1] = e.from} = {u \in all : u[1] = e.from}
      BY <3>1, <3>2 DEF LoadTerminalIterations, TermsOf
    <3> HIDE DEF all
    <3>4. QED BY <2>2, <3>3 DEF SourceRow
  <2>3. CASE ClassifyEdge(e, L) # "exit"
    BY <2>3 DEF SourceRow
  <2>4. QED BY <2>2, <2>3
<1> HIDE DEF all
<1>2. SourcesOf(g, L, k, terms) = SourcesOf(g, L, k, all)
  BY <1>1 DEF SourcesOf
<1>3. QED BY <1>2 DEF ReadsOf, all

\* What a settlement decides starts at one of its direct successors.
LEMMA DecidedSuccessor ==
  ASSUME NEW g, Executable(g), NEW t, NEW s, NEW k \in DecidedBy(g, t, s)
  PROVE  k[1] \in Successors(g, {s[1]})
<1>1. PICK e \in g.edges : e.from = s[1] /\ k = TargetKey(e, ClassifyEdge(e, DeriveLoops(g)), s)
  BY PlanFacts DEF DecidedBy
<1>2. QED BY <1>1 DEF TargetKey, Successors

\* Of an execution of which nothing is left, the last passes tell what it owes, and the
\* settled rows reach that.
LEMMA CountTold ==
  ASSUME NEW g, Executable(g), NEW t, GoodTable(g, t), Done(g, t), <<TriggerOf(g), 0>> \in DOMAIN t,
         NEW terms \in SUBSET TermsOf(g, t)
  PROVE  LET owed == CountExpectedSettledSteps(DeriveLoops(g), ReachableNodes(g), terms)
         IN  /\ (\A l \in Counted(g) : \A k \in TermsOf(g, t) : k[1] = l.batch => k \in terms) => owed # StillRunning
             /\ owed # StillRunning => ~(Cardinality({k \in DOMAIN t : IsSettled(t[k])}) < owed)
<1> DEFINE owed == CountExpectedSettledSteps(DeriveLoops(g), ReachableNodes(g), terms)
<1> DEFINE ended == \A l \in Counted(g) : \E k \in terms : k[1] = l.batch
<1>1. TableOK(g, t) /\ IsFiniteSet(DOMAIN t) /\ Cardinality(DOMAIN t) \in Nat
  BY FS_CardinalityType DEF GoodTable, TableOK
<1>2. AllEnded(g, t) /\ OwedKeys(g, t) = DOMAIN t
  BY OwedRows, RowsAreOwed DEF Done
<1>3. {k \in DOMAIN t : IsSettled(t[k])} = DOMAIN t
  BY DEF Done
<1>4. owed # StillRunning => ended
  BY DEF CountExpectedSettledSteps, Counted
<1>5. ended => owed = Cardinality(DOMAIN t)
  BY <1>1, <1>2, CountIs
<1>6. (\A l \in Counted(g) : \A k \in TermsOf(g, t) : k[1] = l.batch => k \in terms) => ended
  BY <1>2 DEF AllEnded
<1> HIDE DEF owed, ended
<1>7. QED BY <1>1, <1>3, <1>4, <1>5, <1>6 DEF owed, StillRunning

\* The part of a table a planner loads decides a step the whole table decides, when it
\* knows the last passes that step reads.
LEMMA PlanFromEnough ==
  ASSUME NEW g, Executable(g), NEW t, GoodTable(g, t), NEW s \in DOMAIN t, IsSettled(t[s]),
         NEW terms, NEW part,
         part = [k \in DecisionKeys(g, DeriveLoops(g), s, terms) \cap DOMAIN t |-> t[k]],
         NEW k \in DecidedBy(g, t, s), SourcesOf(g, DeriveLoops(g), k, terms) = ReadsOf(g, t, k)
  PROVE  LET plan == DecideSuccessors(g, DeriveLoops(g), s, part, terms)
         IN  k \in plan.toQueue \cup plan.toSkip
<1> DEFINE L == DeriveLoops(g)
<1> DEFINE K == DecisionKeys(g, L, s, terms)
<1> DEFINE target(e) == TargetKey(e, ClassifyEdge(e, L), s)
<1> DEFINE known == {target(e) : e \in EdgesDecided(g, L, s, part)} \ DOMAIN part
<1> DEFINE guess(j) == DecideNodeFate(g, L, j, part, terms)
<1> DEFINE plan == DecideSuccessors(g, L, s, part, terms)
<1>1. /\ plan.toQueue = {j \in known : guess(j) = "queued"}
      /\ plan.toSkip = {j \in known : guess(j) = "skipped"}
  BY DEF DecideSuccessors
<1>2. PICK e \in g.edges :
        /\ e.from = s[1] /\ k = target(e)
        /\ \A l \in L : l.batch = s[1] => (IsTerminalStep(t[s]) <=> ClassifyEdge(e, L) = "exit")
  BY PlanFacts DEF DecidedBy
<1>3. /\ k \notin DOMAIN t /\ ~IsPastLoopEnd(L, k, t) /\ ReadsOf(g, t, k) # {}
      /\ \A r \in ReadsOf(g, t, k) : Decided(t, r)
  BY PlanFacts DEF DecidedBy
<1> DEFINE few == SourcesOf(g, L, k, terms)
<1>4. /\ s \in K
      /\ \A r \in few : r.src.kind = "row" => r.src.key \in K
  BY <1>2 DEF DecisionKeys, Outgoing
<1>5. \A r \in few : r.src.kind = "row"
  <2>1. k[2] \in Nat
    BY NewKeyPlace DEF DecidedBy
  <2>2. ASSUME NEW r \in few PROVE r.src.kind = "row"
    <3>1. r \in ReadsOf(g, t, k)
      OBVIOUS
    <3>2. r.src.kind # "pending"
      BY <1>3, <3>1 DEF Decided, SourceUnsettled
    <3>3. r.edge \in g.edges /\ r.src = SourceAt(g, r.edge, k, TermsOf(g, t)) /\ r.src.kind # "none"
      BY <3>1, ReadsAre
    <3>4. QED BY <2>1, <3>2, <3>3, SourceCases
  <2>3. QED BY <2>2
<1> HIDE DEF K
<1>6. DOMAIN part = K \cap DOMAIN t /\ \A j \in K \cap DOMAIN t : part[j] = t[j]
  BY DEF K
<1>7. EdgesDecided(g, L, s, part) = EdgesDecided(g, L, s, t)
  BY <1>4, <1>6 DEF EdgesDecided
<1>8. k \in known
  BY <1>2, <1>3, <1>6, <1>7 DEF EdgesDecided, Outgoing
<1>9. guess(k) = IF IsPastLoopEnd(L, k, part) \/ few = {} THEN "outside"
                 ELSE IF \E r \in few : SourceUnsettled(r, part) THEN "undecidable"
                 ELSE IF \E r \in few : IsLive(part[r.src.key], r.edge) THEN "queued"
                 ELSE "skipped"
  BY DEF DecideNodeFate
<1>10. ~IsPastLoopEnd(L, k, part)
  BY <1>3, <1>6 DEF IsPastLoopEnd
<1>11. few # {} /\ \A r \in few : ~SourceUnsettled(r, part)
  <2>1. \A r \in few : ~SourceUnsettled(r, t) /\ r.src.key \in K
    BY <1>3, <1>4, <1>5 DEF Decided
  <2> HIDE DEF few
  <2>2. QED BY <1>3, <1>6, <2>1 DEF SourceUnsettled, few
<1> HIDE DEF guess, few, known, plan
<1>12. guess(k) \in {"queued", "skipped"}
  BY <1>9, <1>10, <1>11
<1>13. QED BY <1>1, <1>8, <1>12 DEF plan

-----------------------------------------------------------------------------
(***************************************************************************)
(* The safety properties as theorems of the specification.                 *)
(***************************************************************************)
\* Whatever decideSuccessors plans from the whole table is what the rows it read
\* justify: a step is queued when a live edge reaches it, skipped when none does.
THEOREM FatesAlwaysJustified == Spec => []FatesJustified
<1>1. DataInv => FatesJustified
  BY FatesAreJustified
<1>2. QED BY <1>1, Invariant, PTL

\* The passes of a loop follow each other: a batch step is planned only when every
\* member of the previous pass has settled, a body step only for a pass with items.
THEOREM PassesAlwaysInOrder == Spec => []PassesInOrder
<1>1. DataInv => PassesInOrder
  BY PassesAreInOrder
<1>2. QED BY <1>1, Invariant, PTL

\* The batch step hands out every item of its list once, a batch at a time.
THEOREM ItemsAllHandedOut == Spec => []EveryItemHandedOut
<1>1. DataInv => EveryItemHandedOut
  BY EveryItemIsHandedOut
<1>2. QED BY <1>1, Invariant, PTL

\* A step that runs finds what it reads: one settled source for each input slot,
\* so gatherInputs never throws.
THEOREM RunningStepsAlwaysRead == Spec => []RunningStepsCanRead
<1>1. DataInv => RunningStepsCanRead
  BY RunningStepsRead
<1>2. QED BY <1>1, Invariant, PTL

\* An execution that completed has run or skipped every reachable node, and
\* every reachable loop has ended.
THEOREM CompletedAlwaysComplete == Spec => []CompletedIsComplete
<1>1. DataInv => CompletedIsComplete
  BY CompletedIsWhole
<1>2. QED BY <1>1, Invariant, PTL

\* What completeness.ts adds up per node and per pass is neither short nor over: with
\* all rows settled and none failed, the count is reached just when nothing is left to
\* decide.
THEOREM CountAlwaysExact == Spec => []CountIsExact
<1>1. DataInv => CountIsExact
  BY TheCountIsExact
<1>2. QED BY <1>1, Invariant, PTL
=============================================================================
