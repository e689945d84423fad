--------------------- MODULE ExecutionConcurrencyProofs ---------------------
(***************************************************************************)
(* Proofs about ExecutionConcurrency, for any executions, limit and number *)
(* of runs: whatever is released, removed or given up, capacity is         *)
(* conserved, what queues when the shutdown begins never starts, a run     *)
(* that goes on holds its slot, and slots come back but for those of waits *)
(* cut short and of runs that the runner has abandoned.                    *)
(***************************************************************************)
EXTENDS ExecutionConcurrency, FiniteSetTheorems, SequenceTheorems, WellFoundedInduction, TLAPS

Queues(c, r) == \E i \in 1..Len(c.queue) : c.queue[i] = r

Controls == [enabled : BOOLEAN, capacity : Int, queue : Seq(Runs), slots : SUBSET Runs]

\* What the queue keeps true of itself: a run is in it once, and not with a slot.
QueueOK(c) ==
  /\ c \in Controls
  /\ IsFiniteSet(c.slots) /\ c.capacity <= Limit
  /\ \A i, j \in 1..Len(c.queue) : c.queue[i] = c.queue[j] => i = j
  /\ \A i \in 1..Len(c.queue) : c.queue[i] \notin c.slots
  /\ c.enabled => c.capacity + Cardinality(c.slots) + Len(c.queue) = Limit

\* Nobody enters the queue, and slots go to those who queued.
Serves(c, d) ==
  /\ d.enabled = c.enabled
  /\ \A r : Queues(d, r) => Queues(c, r)
  /\ \A r \in d.slots : r \in c.slots \/ (c.enabled /\ Queues(c, r))

LEMMA Balance ==
  ASSUME NEW x \in Int, NEW y \in Nat, NEW z \in Nat, x + y + z = Limit, z >= 1
  PROVE  (x + 1) + y + (z - 1) = Limit /\ x + (y + 1) + (z - 1) = Limit /\ x + 1 <= Limit /\ x <= Limit
BY ConcurrencyAssumption

LEMMA SlotTaken ==
  ASSUME NEW S, IsFiniteSet(S), NEW r, r \notin S
  PROVE  IsFiniteSet(S \cup {r}) /\ Cardinality(S \cup {r}) = Cardinality(S) + 1 /\ Cardinality(S) \in Nat
BY FS_AddElement, FS_CardinalityType

LEMMA SlotReleased ==
  ASSUME NEW S, IsFiniteSet(S), NEW r \in S
  PROVE  IsFiniteSet(S \ {r}) /\ Cardinality(S \ {r}) = Cardinality(S) - 1 /\ Cardinality(S) \in Nat
BY FS_RemoveElement, FS_CardinalityType

-----------------------------------------------------------------------------
\* throttle.
LEMMA EnqueueOK ==
  ASSUME NEW c, QueueOK(c), NEW r \in Runs, ~Queues(c, r), r \notin c.slots
  PROVE  LET d == Enqueue(c, r) IN
         /\ QueueOK(d) /\ d.enabled = c.enabled
         /\ \A q : Queues(d, q) => Queues(c, q) \/ q = r
         /\ \A q \in d.slots : q \in c.slots \/ q = r
         /\ ~c.enabled => d.queue = c.queue
<1> DEFINE d == Enqueue(c, r)
<1>1. /\ c \in Controls /\ c.capacity \in Int /\ c.queue \in Seq(Runs) /\ c.slots \subseteq Runs
      /\ Limit \in Nat /\ Cardinality(c.slots) \in Nat /\ Len(c.queue) \in Nat
  BY ConcurrencyAssumption, FS_CardinalityType DEF QueueOK, Controls
<1>2. /\ c.capacity - 1 \in Int /\ c.slots \cup {r} \in SUBSET Runs
      /\ Append(c.queue, r) \in Seq(Runs)
  BY <1>1
<1>3. CASE ~c.enabled
  <2>1. d = [c EXCEPT !.slots = @ \cup {r}]
    BY <1>3 DEF Enqueue
  <2>2. /\ d.enabled = c.enabled /\ d.capacity = c.capacity /\ d.queue = c.queue
        /\ d.slots = c.slots \cup {r}
        /\ d \in Controls
    BY <1>1, <1>2, <2>1 DEF Controls
  <2>3. IsFiniteSet(d.slots)
    BY <2>2, SlotTaken DEF QueueOK
  <2> HIDE DEF d
  <2>4. QED BY <1>3, <2>2, <2>3 DEF QueueOK, Queues, d
<1>4. CASE c.enabled /\ c.capacity > 0
  <2>1. d = [c EXCEPT !.capacity = @ - 1, !.slots = @ \cup {r}]
    BY <1>4 DEF Enqueue
  <2>2. /\ d.enabled = c.enabled /\ d.capacity = c.capacity - 1 /\ d.queue = c.queue
        /\ d.slots = c.slots \cup {r}
        /\ d \in Controls
    BY <1>1, <1>2, <2>1 DEF Controls
  <2>3. IsFiniteSet(d.slots) /\ Cardinality(d.slots) = Cardinality(c.slots) + 1
    BY <2>2, SlotTaken DEF QueueOK
  <2> HIDE DEF d
  <2>4. QED BY <1>1, <1>4, <2>2, <2>3 DEF QueueOK, Queues, d
<1>5. CASE c.enabled /\ ~(c.capacity > 0)
  <2>1. d = [c EXCEPT !.capacity = @ - 1, !.queue = Append(@, r)]
    BY <1>5 DEF Enqueue
  <2>2. /\ d.enabled = c.enabled /\ d.capacity = c.capacity - 1 /\ d.queue = Append(c.queue, r)
        /\ d.slots = c.slots
        /\ d \in Controls
    BY <1>1, <1>2, <2>1 DEF Controls
  <2> HIDE DEF d
  <2>3. /\ Len(d.queue) = Len(c.queue) + 1
        /\ \A i \in 1..Len(d.queue) : d.queue[i] = IF i <= Len(c.queue) THEN c.queue[i] ELSE r
    BY <1>1, <2>2
  <2>4. \A i, j \in 1..Len(d.queue) : d.queue[i] = d.queue[j] => i = j
    <3> SUFFICES ASSUME NEW i \in 1..Len(d.queue), NEW j \in 1..Len(d.queue), d.queue[i] = d.queue[j]
                 PROVE  i = j
      OBVIOUS
    <3>1. \A k \in 1..Len(c.queue) : c.queue[k] # r
      BY DEF Queues
    <3>2. i = Len(c.queue) + 1 \/ i \in 1..Len(c.queue)
      BY <1>1, <2>3
    <3>3. j = Len(c.queue) + 1 \/ j \in 1..Len(c.queue)
      BY <1>1, <2>3
    <3>4. QED BY <1>1, <2>3, <3>1, <3>2, <3>3 DEF QueueOK
  <2>5. \A i \in 1..Len(d.queue) : d.queue[i] \notin d.slots
    BY <1>1, <2>2, <2>3 DEF QueueOK
  <2>6. d.capacity + Cardinality(d.slots) + Len(d.queue) = Limit /\ d.capacity <= Limit
    <3>1. c.capacity + Cardinality(c.slots) + Len(c.queue) = Limit
      BY <1>5 DEF QueueOK
    <3>2. QED BY <1>1, <1>5, <2>2, <2>3, <3>1
  <2>7. IsFiniteSet(d.slots)
    BY <2>2 DEF QueueOK
  <2>8. QueueOK(d)
    BY <2>2, <2>4, <2>5, <2>6, <2>7 DEF QueueOK
  <2>9. QED BY <1>1, <1>5, <2>2, <2>3, <2>8 DEF Queues, d
<1>6. QED BY <1>1, <1>3, <1>4, <1>5

\* The next run in the queue takes the slot that has become free.
LEMMA ResolveNextOK ==
  ASSUME NEW c, QueueOK(c), c.enabled
  PROVE  QueueOK(ResolveNext(c)) /\ Serves(c, ResolveNext(c))
<1>1. /\ c \in Controls /\ c.capacity \in Int /\ c.queue \in Seq(Runs) /\ c.slots \subseteq Runs
      /\ Limit \in Nat /\ Cardinality(c.slots) \in Nat /\ Len(c.queue) \in Nat
  BY ConcurrencyAssumption, FS_CardinalityType DEF QueueOK, Controls
<1>2. CASE c.queue = <<>>
  BY <1>2 DEF ResolveNext, Serves
<1>3. CASE c.queue # <<>>
  <2> DEFINE d == [c EXCEPT !.queue = Tail(@), !.slots = @ \cup {Head(c.queue)}]
  <2>1. ResolveNext(c) = d
    BY <1>3 DEF ResolveNext
  <2>2. /\ Head(c.queue) = c.queue[1] /\ Head(c.queue) \in Runs /\ 1 \in 1..Len(c.queue)
        /\ Tail(c.queue) \in Seq(Runs) /\ Len(Tail(c.queue)) = Len(c.queue) - 1
        /\ \A i \in 1..Len(Tail(c.queue)) : Tail(c.queue)[i] = c.queue[i + 1] /\ i + 1 \in 1..Len(c.queue)
    BY <1>1, <1>3
  <2>3. /\ d.enabled = c.enabled /\ d.capacity = c.capacity /\ d.queue = Tail(c.queue)
        /\ d.slots = c.slots \cup {Head(c.queue)}
        /\ d \in Controls
    BY <1>1, <2>2 DEF Controls
  <2> HIDE DEF d
  <2>4. IsFiniteSet(d.slots) /\ Cardinality(d.slots) = Cardinality(c.slots) + 1
    BY <2>2, <2>3, SlotTaken DEF QueueOK
  <2>5. \A i, j \in 1..Len(d.queue) : d.queue[i] = d.queue[j] => i = j
    BY <1>1, <2>2, <2>3 DEF QueueOK
  <2>6. \A i \in 1..Len(d.queue) : d.queue[i] \notin d.slots
    BY <1>1, <2>2, <2>3 DEF QueueOK
  <2>7. d.capacity + Cardinality(d.slots) + Len(d.queue) = Limit /\ d.capacity <= Limit
    <3>1. c.capacity + Cardinality(c.slots) + Len(c.queue) = Limit
      BY DEF QueueOK
    <3>2. /\ Len(d.queue) = Len(c.queue) - 1 /\ Cardinality(d.slots) = Cardinality(c.slots) + 1
          /\ d.capacity = c.capacity /\ Len(c.queue) >= 1
      BY <1>1, <2>2, <2>3, <2>4
    <3>3. /\ c.capacity + (Cardinality(c.slots) + 1) + (Len(c.queue) - 1) = Limit
          /\ c.capacity <= Limit
      BY <1>1, <3>1, <3>2, Balance
    <3>4. QED BY <3>2, <3>3
  <2>8. QueueOK(d)
    BY <2>3, <2>4, <2>5, <2>6, <2>7 DEF QueueOK
  <2>9. Serves(c, d)
    BY <1>1, <2>2, <2>3 DEF Serves, Queues
  <2>10. QED BY <2>1, <2>8, <2>9
<1>4. QED BY <1>2, <1>3

LEMMA ReleaseOK ==
  ASSUME NEW c, QueueOK(c), NEW r
  PROVE  /\ QueueOK(Release(c, r)) /\ Serves(c, Release(c, r))
         /\ ~c.enabled => Release(c, r).queue = c.queue
<1>1. /\ c \in Controls /\ c.capacity \in Int /\ c.queue \in Seq(Runs) /\ c.slots \subseteq Runs
      /\ Limit \in Nat /\ Cardinality(c.slots) \in Nat /\ Len(c.queue) \in Nat
  BY ConcurrencyAssumption, FS_CardinalityType DEF QueueOK, Controls
<1>2. CASE r \in c.slots /\ c.enabled
  <2> DEFINE d == [c EXCEPT !.slots = @ \ {r}, !.capacity = @ + 1]
  <2>1. Release(c, r) = ResolveNext(d)
    BY <1>2 DEF Release
  <2>2. /\ d.enabled = c.enabled /\ d.capacity = c.capacity + 1 /\ d.queue = c.queue
        /\ d.slots = c.slots \ {r}
        /\ d \in Controls
    <3>1. c.slots \ {r} \in SUBSET Runs /\ c.capacity + 1 \in Int
      BY <1>1
    <3>2. QED BY <1>1, <3>1 DEF Controls
  <2> HIDE DEF d
  <2>3. /\ IsFiniteSet(d.slots) /\ Cardinality(d.slots) = Cardinality(c.slots) - 1
        /\ Cardinality(d.slots) \in Nat
    BY <1>2, <2>2, SlotReleased, FS_CardinalityType DEF QueueOK
  <2>4. d.capacity <= Limit
    BY <1>1, <1>2, <2>2, <2>3 DEF QueueOK
  <2>5. QueueOK(d)
    BY <1>1, <1>2, <2>2, <2>3, <2>4 DEF QueueOK
  <2>6. QueueOK(ResolveNext(d)) /\ Serves(d, ResolveNext(d))
    BY <1>2, <2>2, <2>5, ResolveNextOK
  <2>7. Serves(c, ResolveNext(d))
    BY <1>2, <2>2, <2>6 DEF Serves, Queues
  <2>8. QED BY <1>2, <2>1, <2>6, <2>7
<1>3. CASE ~(r \in c.slots /\ c.enabled)
  <2> DEFINE d == [c EXCEPT !.slots = @ \ {r}]
  <2>1. Release(c, r) = d
    BY <1>3 DEF Release
  <2>2. /\ d.enabled = c.enabled /\ d.capacity = c.capacity /\ d.queue = c.queue
        /\ d.slots = c.slots \ {r}
        /\ d \in Controls
    BY <1>1 DEF Controls
  <2> HIDE DEF d
  <2>3. IsFiniteSet(d.slots)
    BY <2>2, FS_Subset DEF QueueOK
  <2>4. c.enabled => d.slots = c.slots
    BY <1>3, <2>2
  <2>5. QueueOK(d)
    BY <1>1, <2>2, <2>3, <2>4 DEF QueueOK
  <2>6. Serves(c, d)
    BY <2>2 DEF Serves, Queues
  <2>7. QED BY <2>1, <2>2, <2>5, <2>6
<1>4. QED BY <1>2, <1>3

-----------------------------------------------------------------------------
\* stop: a queued run leaves the queue.
LEMMA RemoveAtFacts ==
  ASSUME NEW S, NEW s \in Seq(S), NEW i \in 1..Len(s)
  PROVE  /\ RemoveAt(s, i) \in Seq(S) /\ Len(RemoveAt(s, i)) = Len(s) - 1 /\ Len(s) \in Nat
         /\ \A j \in 1..Len(s) - 1 : RemoveAt(s, i)[j] = IF j < i THEN s[j] ELSE s[j + 1]
<1> DEFINE a == SubSeq(s, 1, i - 1)
           b == SubSeq(s, i + 1, Len(s))
<1>1. /\ a \in Seq(S) /\ Len(a) = i - 1 /\ \A j \in 1..i - 1 : a[j] = s[j]
  OBVIOUS
<1>2. /\ b \in Seq(S) /\ Len(b) = Len(s) - i /\ \A j \in 1..Len(s) - i : b[j] = s[i + j]
  OBVIOUS
<1>3. Len(s) \in Nat /\ i \in Nat
  OBVIOUS
<1>0. a \o b \in Seq(S) /\ Len(a \o b) = Len(a) + Len(b)
  BY <1>1, <1>2, ConcatProperties
<1> HIDE DEF a, b
<1>4. /\ a \o b \in Seq(S) /\ Len(a \o b) = Len(s) - 1
      /\ \A j \in 1..Len(s) - 1 : (a \o b)[j] = IF j <= i - 1 THEN a[j] ELSE b[j - (i - 1)]
  <2>1. a \o b \in Seq(S) /\ Len(a \o b) = Len(a) + Len(b)
    BY <1>0
  <2>2. Len(a) + Len(b) = Len(s) - 1
    BY <1>1, <1>2, <1>3
  <2>3. \A j \in 1..Len(a) + Len(b) : (a \o b)[j] = IF j <= Len(a) THEN a[j] ELSE b[j - Len(a)]
    BY <1>1, <1>2
  <2>4. QED BY <1>1, <2>1, <2>2, <2>3
<1>5. \A j \in 1..Len(s) - 1 : (a \o b)[j] = IF j < i THEN s[j] ELSE s[j + 1]
  <2> TAKE j \in 1..Len(s) - 1
  <2>1. CASE j < i
    BY <1>1, <1>3, <1>4, <2>1
  <2>2. CASE ~(j < i)
    <3>1. (a \o b)[j] = b[j - (i - 1)] /\ j - (i - 1) \in 1..Len(s) - i
      BY <1>3, <1>4, <2>2
    <3>2. b[j - (i - 1)] = s[i + (j - (i - 1))] /\ i + (j - (i - 1)) = j + 1
      BY <1>2, <1>3, <3>1
    <3>3. QED BY <2>2, <3>1, <3>2
  <2>3. QED BY <2>1, <2>2
<1>6. QED BY <1>3, <1>4, <1>5 DEF RemoveAt, a, b

LEMMA FirstOf ==
  ASSUME NEW S \in SUBSET Nat, S # {}
  PROVE  \E j \in S : \A k \in S : j <= k
<1>1. PICK j \in S : \A k \in S : <<k, j>> \notin OpToRel(<, Nat)
  BY NatLessThanWellFounded, WFMin
<1>2. \A k \in S : ~(k < j)
  BY <1>1 DEF OpToRel
<1>3. j \in Nat /\ \A k \in S : k \in Nat
  OBVIOUS
<1>4. QED BY <1>2, <1>3

LEMMA RemoveQueuedOK ==
  ASSUME NEW c, QueueOK(c), NEW e
  PROVE  QueueOK(RemoveQueued(c, e)) /\ Serves(c, RemoveQueued(c, e))
<1>1. /\ c \in Controls /\ c.capacity \in Int /\ c.queue \in Seq(Runs) /\ c.slots \subseteq Runs
      /\ Limit \in Nat /\ Cardinality(c.slots) \in Nat /\ Len(c.queue) \in Nat
  BY ConcurrencyAssumption, FS_CardinalityType DEF QueueOK, Controls
<1>2. CASE ~(c.enabled /\ Queued(c, e) # {})
  BY <1>2 DEF RemoveQueued, Serves
<1>3. CASE c.enabled /\ Queued(c, e) # {}
  <2> DEFINE i == CHOOSE j \in Queued(c, e) : \A k \in Queued(c, e) : j <= k
  <2> DEFINE d == [c EXCEPT !.queue = RemoveAt(@, i), !.capacity = @ + 1]
  <2>1. RemoveQueued(c, e) = ResolveNext(d)
    BY <1>3 DEF RemoveQueued
  <2>2. i \in 1..Len(c.queue)
    <3>1. Queued(c, e) \subseteq Nat
      BY <1>1 DEF Queued
    <3>2. \E j \in Queued(c, e) : \A k \in Queued(c, e) : j <= k
      BY <1>3, <3>1, FirstOf
    <3>3. i \in Queued(c, e)
      BY <3>2
    <3>4. QED BY <1>1, <3>3 DEF Queued
  <2> HIDE DEF i
  <2>3. /\ RemoveAt(c.queue, i) \in Seq(Runs) /\ Len(RemoveAt(c.queue, i)) = Len(c.queue) - 1
        /\ \A j \in 1..Len(c.queue) - 1 :
             RemoveAt(c.queue, i)[j] = IF j < i THEN c.queue[j] ELSE c.queue[j + 1]
    BY <1>1, <2>2, RemoveAtFacts
  <2>4. /\ d.enabled = c.enabled /\ d.capacity = c.capacity + 1
        /\ d.queue = RemoveAt(c.queue, i) /\ d.slots = c.slots /\ d \in Controls
    <3>1. c.capacity + 1 \in Int
      BY <1>1
    <3>2. QED BY <1>1, <2>3, <3>1 DEF Controls
  <2> HIDE DEF d
  <2>5. \A j \in 1..Len(d.queue) : \E k \in 1..Len(c.queue) :
          d.queue[j] = c.queue[k] /\ k = IF j < i THEN j ELSE j + 1
    BY <1>1, <2>2, <2>3, <2>4
  <2>6. \A j, k \in 1..Len(d.queue) : d.queue[j] = d.queue[k] => j = k
    <3> SUFFICES ASSUME NEW j \in 1..Len(d.queue), NEW k \in 1..Len(d.queue), d.queue[j] = d.queue[k]
                 PROVE  j = k
      OBVIOUS
    <3>1. PICK m \in 1..Len(c.queue), n \in 1..Len(c.queue) :
            /\ d.queue[j] = c.queue[m] /\ m = IF j < i THEN j ELSE j + 1
            /\ d.queue[k] = c.queue[n] /\ n = IF k < i THEN k ELSE k + 1
      BY <2>5
    <3>2. m = n
      BY <3>1 DEF QueueOK
    <3>3. QED BY <1>1, <2>2, <2>3, <2>4, <3>1, <3>2
  <2>7. \A j \in 1..Len(d.queue) : d.queue[j] \notin d.slots
    BY <2>4, <2>5 DEF QueueOK
  <2>8. d.capacity + Cardinality(d.slots) + Len(d.queue) = Limit /\ d.capacity <= Limit
    <3>1. c.capacity + Cardinality(c.slots) + Len(c.queue) = Limit /\ Len(c.queue) >= 1
      BY <1>1, <1>3, <2>2 DEF QueueOK
    <3>2. /\ Len(d.queue) = Len(c.queue) - 1 /\ Cardinality(d.slots) = Cardinality(c.slots)
          /\ d.capacity = c.capacity + 1
      BY <2>3, <2>4
    <3>3. QED BY <1>1, <3>1, <3>2, Balance
  <2>9. QueueOK(d)
    BY <2>4, <2>6, <2>7, <2>8 DEF QueueOK
  <2>10. QueueOK(ResolveNext(d)) /\ Serves(d, ResolveNext(d))
    BY <1>3, <2>4, <2>9, ResolveNextOK
  <2>11. \A r : Queues(d, r) => Queues(c, r)
    BY <2>5 DEF Queues
  <2>12. Serves(c, ResolveNext(d))
    BY <1>3, <2>4, <2>10, <2>11 DEF Serves
  <2>13. QED BY <2>1, <2>10, <2>12
<1>4. QED BY <1>2, <1>3

\* The shutdown: once disabled, the queue is left as it is.
LEMMA CloseQueueOK ==
  ASSUME NEW c, QueueOK(c), NEW X
  PROVE  LET d == [CloseQueue(c) EXCEPT !.slots = @ \ X] IN
         /\ QueueOK(d) /\ ~d.enabled /\ d.queue = c.queue /\ d.slots \subseteq c.slots
<1>1. c \in Controls /\ c.slots \subseteq Runs
  BY DEF QueueOK, Controls
<1>2. Disable(c) \in Controls /\ ~Disable(c).enabled
  BY <1>1 DEF Disable, Controls
<1>3. CloseQueue(c) = Disable(c)
  BY <1>2 DEF CloseQueue, RemoveAll
<1> DEFINE d == [CloseQueue(c) EXCEPT !.slots = @ \ X]
<1>4. /\ d \in Controls /\ ~d.enabled /\ d.capacity = c.capacity /\ d.queue = c.queue
      /\ d.slots = c.slots \ X
  BY <1>1, <1>2, <1>3 DEF Disable, Controls
<1> HIDE DEF d
<1>5. IsFiniteSet(d.slots)
  BY <1>4, FS_Subset DEF QueueOK
<1>6. QueueOK(d)
  BY <1>4, <1>5 DEF QueueOK
<1>7. QED BY <1>4, <1>6 DEF d

-----------------------------------------------------------------------------
\* Who queues is throttled, and who has a slot has been there.
PlacesOK ==
  /\ \A r : Queues(cc, r) => at[r] = "throttled"
  /\ \A r \in cc.slots : at[r] \notin {"none", "created"}

OthersTypes ==
  /\ status \in [Executions -> Statuses] /\ at \in [Runs -> Places]
  /\ entries \in [Executions -> Runs \cup {NoRun}]
  /\ parked \subseteq Runs /\ attached \subseteq Runs
  /\ promise \in [Runs -> {"pending", "rejected", "own", "other's"}]
  /\ stop \in [Executions -> {"no", "read", "acted", "done"}]

IInv == OthersTypes /\ QueueOK(cc) /\ PlacesOK

LEMMA TypesHold == IInv => TypeOK
<1> SUFFICES ASSUME IInv PROVE TypeOK
  OBVIOUS
<1>1. cc \in Controls /\ cc.capacity \in {n \in Int : n <= Limit}
  BY DEF IInv, QueueOK, Controls
<1>2. cc \in [enabled : BOOLEAN, capacity : {n \in Int : n <= Limit}, queue : Seq(Runs), slots : SUBSET Runs]
  BY <1>1 DEF Controls
<1>3. QED BY <1>2 DEF IInv, OthersTypes, TypeOK

\* A queued run is not one that has a slot.
LEMMA QueuesWithoutSlot ==
  ASSUME NEW c, QueueOK(c), NEW r, Queues(c, r)
  PROVE  r \notin c.slots /\ r \in Runs
BY DEF QueueOK, Queues, Controls

LEMMA InitInv == Init => IInv
<1> SUFFICES ASSUME Init PROVE IInv
  OBVIOUS
<1>1. /\ cc.enabled /\ cc.capacity = Limit /\ cc.queue = <<>> /\ cc.slots = {}
      /\ cc \in Controls
  BY ConcurrencyAssumption DEF Init, Controls
<1>2. IsFiniteSet(cc.slots) /\ Cardinality(cc.slots) = 0 /\ Len(cc.queue) = 0
  BY <1>1, FS_EmptySet
<1>3. Limit \in Nat
  BY ConcurrencyAssumption
<1>4. QueueOK(cc) /\ PlacesOK
  BY <1>1, <1>2, <1>3 DEF QueueOK, PlacesOK, Queues
<1>5. OthersTypes
  BY DEF Init, OthersTypes, Statuses, Places
<1>6. QED BY <1>4, <1>5 DEF IInv

\* Where runs are, after a step that serves the queue.
LEMMA Served ==
  ASSUME IInv, OthersTypes', QueueOK(cc'), Serves(cc, cc'),
         \A r \in Runs :
           /\ at[r] = "throttled" /\ r \notin cc.slots => at'[r] = "throttled"
           /\ at[r] \notin {"none", "created"} => at'[r] \notin {"none", "created"}
  PROVE  IInv'
<1>1. \A r : Queues(cc', r) => at'[r] = "throttled"
  <2> SUFFICES ASSUME NEW r, Queues(cc', r) PROVE at'[r] = "throttled"
    OBVIOUS
  <2>1. Queues(cc, r)
    BY DEF Serves
  <2>2. r \in Runs /\ r \notin cc.slots /\ at[r] = "throttled"
    BY <2>1, QueuesWithoutSlot DEF IInv, PlacesOK
  <2>3. QED BY <2>2
<1>2. \A r \in cc'.slots : at'[r] \notin {"none", "created"}
  <2> SUFFICES ASSUME NEW r \in cc'.slots PROVE at'[r] \notin {"none", "created"}
    OBVIOUS
  <2>1. r \in cc.slots \/ Queues(cc, r)
    BY DEF Serves
  <2>2. r \in Runs /\ at[r] \notin {"none", "created"}
    BY <2>1, QueuesWithoutSlot DEF IInv, PlacesOK, QueueOK, Controls
  <2>3. QED BY <2>2
<1>3. PlacesOK' /\ QueueOK(cc)'
  BY <1>1, <1>2 DEF PlacesOK, Queues, QueueOK
<1>4. QED BY <1>3 DEF IInv

LEMMA RunFacts ==
  /\ \A r \in Runs : ExecutionOf(r) \in Executions
  /\ \A e \in Executions : <<e, 1>> \in Runs
BY ConcurrencyAssumption DEF Runs, ExecutionOf

LEMMA ServesNone == ASSUME NEW c PROVE Serves(c, c)
BY DEF Serves

\* A run goes on from where it is, unless it queues.
LEMMA GoesOn ==
  ASSUME IInv, NEW r \in Runs, NEW pc \in Places, Goto(r, pc),
         at[r] # "throttled" \/ r \in cc.slots,
         pc \notin {"none", "created"} \/ at[r] = "none"
  PROVE  /\ at' \in [Runs -> Places]
         /\ \A q \in Runs :
              /\ at[q] = "throttled" /\ q \notin cc.slots => at'[q] = "throttled"
              /\ at[q] \notin {"none", "created"} => at'[q] \notin {"none", "created"}
<1>1. at \in [Runs -> Places]
  BY DEF IInv, OthersTypes
<1>2. at' = [at EXCEPT ![r] = pc]
  BY DEF Goto
<1>3. at' \in [Runs -> Places] /\ \A q \in Runs : at'[q] = IF q = r THEN pc ELSE at[q]
  BY <1>1, <1>2
<1>4. QED BY <1>3

\* Steps of a run that leave the queue alone.
LEMMA QuietRunSteps ==
  ASSUME IInv, NEW r \in Runs,
         \/ r[2] = 1 /\ Create(ExecutionOf(r)) /\ r = <<ExecutionOf(r), 1>>
         \/ Resume(r) \/ Register(r) \/ PreflightFails(r) \/ SetRunning(r) \/ Abandon(r)
         \/ StartWorkflow(r) \/ StartFails(r) \/ WorkflowRejects(r) \/ Park(r) \/ SaveRun(r)
  PROVE  IInv' /\ Serves(cc, cc')
<1>1. ExecutionOf(r) \in Executions /\ OthersTypes
  BY RunFacts DEF IInv
<1>2. UNCHANGED cc
  BY DEF Create, Resume, Register, PreflightFails, SetRunning, Abandon, StartWorkflow, StartFails,
     WorkflowRejects, Park, SaveRun
<1>3. /\ at' \in [Runs -> Places]
      /\ \A q \in Runs :
           /\ at[q] = "throttled" /\ q \notin cc.slots => at'[q] = "throttled"
           /\ at[q] \notin {"none", "created"} => at'[q] \notin {"none", "created"}
  <2>1. PICK pc \in Places : /\ Goto(r, pc) /\ at[r] # "throttled"
                             /\ pc \notin {"none", "created"} \/ at[r] = "none"
    <3>1. CASE Create(ExecutionOf(r)) /\ r = <<ExecutionOf(r), 1>>
      <4>1. Goto(r, "created") /\ at[r] = "none"
        BY <3>1 DEF Create
      <4>2. QED BY <4>1 DEF Places
    <3>2. CASE Resume(r)
      BY <3>2 DEF Resume, Places
    <3>3. CASE Register(r)
      BY <3>3 DEF Register, Places
    <3>4. CASE SetRunning(r)
      BY <3>4 DEF SetRunning, Places
    <3>5. CASE StartWorkflow(r)
      BY <3>5 DEF StartWorkflow, Places
    <3>6. CASE Park(r)
      BY <3>6 DEF Park, Places
    <3>7. CASE SaveRun(r)
      BY <3>7 DEF SaveRun, Places
    <3>8. CASE PreflightFails(r) \/ Abandon(r) \/ StartFails(r) \/ WorkflowRejects(r)
      BY <3>8 DEF PreflightFails, Abandon, StartFails, WorkflowRejects, Places
    <3>9. QED BY <3>1, <3>2, <3>3, <3>4, <3>5, <3>6, <3>7, <3>8
  <2>2. QED BY <2>1, GoesOn
<1>4. status' \in [Executions -> Statuses]
  BY <1>1 DEF Create, Resume, Register, PreflightFails, SetRunning, Abandon, StartWorkflow, StartFails,
     WorkflowRejects, Park, SaveRun, Save, SetStatus, Statuses, OthersTypes
<1>5. entries' \in [Executions -> Runs \cup {NoRun}]
  BY <1>1 DEF Create, Resume, Register, PreflightFails, SetRunning, Abandon, StartWorkflow, StartFails,
     WorkflowRejects, Park, SaveRun, OthersTypes
<1>6. parked' \subseteq Runs /\ attached' \subseteq Runs
  BY <1>1 DEF Create, Resume, Register, PreflightFails, SetRunning, Abandon, StartWorkflow, StartFails,
     WorkflowRejects, Park, SaveRun, OthersTypes
<1>7. UNCHANGED <<promise, stop>>
  BY DEF Create, Resume, Register, PreflightFails, SetRunning, Abandon, StartWorkflow, StartFails,
     WorkflowRejects, Park, SaveRun
<1>8. OthersTypes'
  BY <1>1, <1>3, <1>4, <1>5, <1>6, <1>7 DEF OthersTypes
<1>9. Serves(cc, cc') /\ QueueOK(cc')
  BY <1>2, ServesNone DEF IInv
<1>10. QED BY <1>3, <1>8, <1>9, Served

LEMMA ThrottleInv ==
  ASSUME IInv, NEW r \in Runs, Throttle(r)
  PROVE  /\ IInv' /\ \A q \in cc'.slots : q \in cc.slots \/ q = r
<1>1. at[r] = "created" /\ cc' = Enqueue(cc, r) /\ at' = [at EXCEPT ![r] = "throttled"]
  BY DEF Throttle, Goto
<1>2. QueueOK(cc) /\ ~Queues(cc, r) /\ r \notin cc.slots
  BY <1>1 DEF IInv, PlacesOK
<1>3. /\ QueueOK(cc') /\ \A q : Queues(cc', q) => Queues(cc, q) \/ q = r
      /\ \A q \in cc'.slots : q \in cc.slots \/ q = r
  BY <1>1, <1>2, EnqueueOK
<1>4. OthersTypes'
  BY <1>1 DEF IInv, OthersTypes, Throttle, Places
<1>5. /\ at'[r] = "throttled" /\ \A q \in Runs : q # r => at'[q] = at[q]
      /\ \A q : Queues(cc, q) => q \in Runs
      /\ cc.slots \subseteq Runs
  BY <1>1, <1>2, QueuesWithoutSlot DEF IInv, OthersTypes, QueueOK, Controls
<1>6. PlacesOK' /\ QueueOK(cc)'
  BY <1>3, <1>5 DEF IInv, PlacesOK, Queues, QueueOK
<1>7. QED BY <1>3, <1>4, <1>6 DEF IInv

LEMMA ClaimExecutionInv ==
  ASSUME IInv, NEW r \in Runs, ClaimExecution(r)
  PROVE  IInv' /\ Serves(cc, cc')
<1>1. r \in cc.slots /\ OthersTypes /\ QueueOK(cc) /\ ExecutionOf(r) \in Executions
  BY RunFacts DEF ClaimExecution, IInv
<1>2. PICK pc \in {"claimed", "over"} : Goto(r, pc)
  BY DEF ClaimExecution, GiveUp
<1>3. /\ at' \in [Runs -> Places]
      /\ \A q \in Runs :
           /\ at[q] = "throttled" /\ q \notin cc.slots => at'[q] = "throttled"
           /\ at[q] \notin {"none", "created"} => at'[q] \notin {"none", "created"}
  BY <1>1, <1>2, GoesOn DEF Places
<1>4. status' \in [Executions -> Statuses]
  BY <1>1 DEF ClaimExecution, SetStatus, OthersTypes, Statuses
<1>5. OthersTypes'
  BY <1>1, <1>3, <1>4 DEF ClaimExecution, OthersTypes
<1>6. cc' = cc \/ cc' = Release(cc, r)
  BY DEF ClaimExecution, GiveUp
<1>7. QueueOK(cc') /\ Serves(cc, cc')
  BY <1>1, <1>6, ReleaseOK, ServesNone
<1>8. QED BY <1>3, <1>5, <1>7, Served

LEMMA FinalizeInv ==
  ASSUME IInv, NEW r \in Runs, Finalize(r)
  PROVE  IInv' /\ Serves(cc, cc')
<1>1. OthersTypes /\ QueueOK(cc) /\ ExecutionOf(r) \in Executions
  BY RunFacts DEF IInv
<1>2. at[r] # "throttled" /\ (Goto(r, "over") \/ Goto(r, "unsaved"))
  BY DEF Finalize
<1>3. /\ at' \in [Runs -> Places]
      /\ \A q \in Runs :
           /\ at[q] = "throttled" /\ q \notin cc.slots => at'[q] = "throttled"
           /\ at[q] \notin {"none", "created"} => at'[q] \notin {"none", "created"}
  BY <1>1, <1>2, GoesOn DEF Places
<1>4. entries' \in [Executions -> Runs \cup {NoRun}]
  BY <1>1 DEF Finalize, OthersTypes
<1>5. promise' \in [Runs -> {"pending", "rejected", "own", "other's"}]
  BY <1>1 DEF Finalize, OthersTypes
<1>6. OthersTypes'
  BY <1>1, <1>3, <1>4, <1>5 DEF Finalize, OthersTypes
<1>7. cc' = cc \/ cc' = Release(cc, entries[ExecutionOf(r)])
  BY DEF Finalize
<1>8. QueueOK(cc') /\ Serves(cc, cc')
  BY <1>1, <1>7, ReleaseOK, ServesNone
<1>9. QED BY <1>3, <1>6, <1>8, Served

\* Stops: what they do to entries, promises and runs.
LEMMA StopExecutionsFacts ==
  ASSUME IInv, NEW S \in SUBSET Executions, StopExecutions(S)
  PROVE  /\ entries' \in [Executions -> Runs \cup {NoRun}]
         /\ promise' \in [Runs -> {"pending", "rejected", "own", "other's"}]
         /\ at' \in [Runs -> Places]
         /\ \A q \in Runs :
              /\ at[q] = "throttled" /\ q \notin cc.slots => at'[q] = "throttled"
              /\ at[q] \notin {"none", "created"} => at'[q] \notin {"none", "created"}
<1>1. OthersTypes
  BY DEF IInv
<1>2. entries' \in [Executions -> Runs \cup {NoRun}]
  BY <1>1 DEF StopExecutions, OthersTypes
<1>3. promise' \in [Runs -> {"pending", "rejected", "own", "other's"}]
  BY <1>1 DEF StopExecutions, OthersTypes
<1>4. \A q \in Runs : at'[q] = at[q] \/ (at[q] \in {"running", "saved"} /\ at'[q] = "cancelled")
  BY <1>1 DEF StopExecutions, OthersTypes
<1>5. at' = [q \in Runs |-> at'[q]]
  BY DEF StopExecutions
<1>6. at' \in [Runs -> Places]
  BY <1>1, <1>4, <1>5 DEF OthersTypes, Places
<1>7. QED BY <1>2, <1>3, <1>4, <1>6

LEMMA StopOneInv ==
  ASSUME IInv, NEW e \in Executions, StopOne(e), UNCHANGED <<status, parked, attached>>,
         stop' \in [Executions -> {"no", "read", "acted", "done"}]
  PROVE  IInv' /\ Serves(cc, cc')
<1>1. StopExecutions({e}) /\ {e} \in SUBSET Executions /\ OthersTypes /\ QueueOK(cc)
  BY DEF StopOne, IInv
<1>2. OthersTypes'
  BY <1>1, StopExecutionsFacts DEF OthersTypes
<1>3. cc' = cc \/ cc' = Release(cc, entries[e])
  BY DEF StopOne
<1>4. QueueOK(cc') /\ Serves(cc, cc')
  BY <1>1, <1>3, ReleaseOK, ServesNone
<1>5. QED BY <1>1, <1>2, <1>4, StopExecutionsFacts, Served

LEMMA StopStepsInv ==
  ASSUME IInv, NEW e \in Executions, ReadToStop(e) \/ StopInRegularMode(e) \/ WriteCanceled(e)
  PROVE  IInv' /\ Serves(cc, cc')
<1>1. OthersTypes /\ QueueOK(cc)
  BY DEF IInv
<1>2. stop' \in [Executions -> {"no", "read", "acted", "done"}]
  BY <1>1 DEF ReadToStop, StopInRegularMode, WriteCanceled, OthersTypes
<1>3. CASE ReadToStop(e) \/ WriteCanceled(e)
  <2>1. UNCHANGED <<at, cc, entries, parked, attached, promise>>
    BY <1>3 DEF ReadToStop, WriteCanceled
  <2>2. status' \in [Executions -> Statuses]
    BY <1>1, <1>3 DEF ReadToStop, WriteCanceled, SetStatus, OthersTypes, Statuses
  <2>3. OthersTypes'
    BY <1>1, <1>2, <2>1, <2>2 DEF OthersTypes
  <2>4. QueueOK(cc') /\ Serves(cc, cc')
    BY <1>1, <2>1, ServesNone
  <2>5. QED BY <2>1, <2>3, <2>4, Served
<1>4. CASE /\ cc' = RemoveQueued(cc, e) /\ UNCHANGED <<entries, promise, at>>
           /\ UNCHANGED <<status, parked, attached>>
  <2>1. OthersTypes'
    BY <1>1, <1>2, <1>4 DEF OthersTypes
  <2>2. QueueOK(cc') /\ Serves(cc, cc')
    BY <1>1, <1>4, RemoveQueuedOK
  <2>3. QED BY <1>4, <2>1, <2>2, Served
<1>5. CASE StopOne(e) /\ UNCHANGED <<status, parked, attached>>
  BY <1>2, <1>5, StopOneInv
<1>6. QED BY <1>3, <1>4, <1>5 DEF StopInRegularMode

LEMMA TimesOutInv ==
  ASSUME IInv, NEW r \in Runs, TimesOut(r)
  PROVE  IInv' /\ Serves(cc, cc')
<1>1. ExecutionOf(r) \in Executions /\ StopOne(ExecutionOf(r)) /\ UNCHANGED <<status, parked, attached, stop>>
  BY RunFacts DEF TimesOut
<1>2. stop' \in [Executions -> {"no", "read", "acted", "done"}]
  BY <1>1 DEF IInv, OthersTypes
<1>3. QED BY <1>1, <1>2, StopOneInv

LEMMA ShutdownInv ==
  ASSUME IInv, Shutdown
  PROVE  IInv' /\ cc'.slots \subseteq cc.slots
<1>1. OthersTypes /\ QueueOK(cc)
  BY DEF IInv
<1>2. PICK X : cc' = [CloseQueue(cc) EXCEPT !.slots = @ \ X]
  <2>1. CASE cc' = CloseQueue(cc)
    <3>1. [CloseQueue(cc) EXCEPT !.slots = @ \ {}] = CloseQueue(cc)
      <4>1. CloseQueue(cc) \in Controls
        <5>1. Disable(cc) \in Controls /\ ~Disable(cc).enabled
          BY <1>1 DEF Disable, Controls, QueueOK
        <5>2. QED BY <5>1 DEF CloseQueue, RemoveAll
      <4>2. QED BY <4>1 DEF Controls
    <3>2. QED BY <2>1, <3>1
  <2>2. QED BY <2>1 DEF Shutdown
<1>3. QueueOK(cc') /\ ~cc'.enabled /\ cc'.queue = cc.queue /\ cc'.slots \subseteq cc.slots
  BY <1>1, <1>2, CloseQueueOK
<1>4. /\ entries' \in [Executions -> Runs \cup {NoRun}]
      /\ promise' \in [Runs -> {"pending", "rejected", "own", "other's"}]
      /\ at' \in [Runs -> Places]
      /\ \A q \in Runs :
           /\ at[q] = "throttled" /\ q \notin cc.slots => at'[q] = "throttled"
           /\ at[q] \notin {"none", "created"} => at'[q] \notin {"none", "created"}
  <2>1. CASE StopExecutions(Executions)
    BY <2>1, StopExecutionsFacts
  <2>2. CASE /\ entries' = [e \in Executions |-> IF entries[e] \in parked THEN NoRun ELSE entries[e]]
             /\ UNCHANGED <<at, promise>>
    BY <1>1, <2>2 DEF OthersTypes
  <2>3. QED BY <2>1, <2>2 DEF Shutdown
<1>5. OthersTypes'
  BY <1>1, <1>4 DEF Shutdown, OthersTypes
<1>6. \A r : Queues(cc', r) => Queues(cc, r) /\ r \in Runs /\ r \notin cc.slots
  BY <1>1, <1>3, QueuesWithoutSlot DEF Queues
<1>7. PlacesOK'
  <2>1. \A r : Queues(cc', r) => at'[r] = "throttled"
    BY <1>4, <1>6 DEF IInv, PlacesOK
  <2>2. \A r \in cc'.slots : at'[r] \notin {"none", "created"}
    BY <1>1, <1>3, <1>4 DEF IInv, PlacesOK, QueueOK, Controls
  <2>3. QED BY <2>1, <2>2 DEF PlacesOK, Queues
<1>8. QED BY <1>3, <1>5, <1>7 DEF IInv, QueueOK

-----------------------------------------------------------------------------
\* Every step but a shutdown and a throttle serves the queue.
LEMMA NextSteps ==
  ASSUME IInv, [Next]_vars
  PROVE  /\ IInv'
         /\ \/ Serves(cc, cc')
            \/ \E r \in Runs : at[r] = "created" /\ \A q \in cc'.slots : q \in cc.slots \/ q = r
            \/ cc'.slots \subseteq cc.slots
<1>1. CASE UNCHANGED vars
  <2>1. UNCHANGED <<status, at, cc, entries, parked, attached, promise, stop>>
    BY <1>1 DEF vars
  <2>2. OthersTypes' /\ QueueOK(cc') /\ Serves(cc, cc')
    BY <2>1, ServesNone DEF IInv, OthersTypes
  <2>3. QED BY <2>1, <2>2, Served
<1>2. ASSUME NEW e \in Executions, Create(e) PROVE IInv' /\ Serves(cc, cc')
  <2>1. <<e, 1>> \in Runs /\ ExecutionOf(<<e, 1>>) = e /\ <<e, 1>>[2] = 1
    BY RunFacts DEF ExecutionOf
  <2>2. QED BY <1>2, <2>1, QuietRunSteps
<1>3. ASSUME NEW e \in Executions, ReadToStop(e) \/ StopInRegularMode(e) \/ WriteCanceled(e)
      PROVE  IInv' /\ Serves(cc, cc')
  BY <1>3, StopStepsInv
<1>4. ASSUME NEW r \in Runs, Throttle(r)
      PROVE  /\ IInv' /\ at[r] = "created" /\ \A q \in cc'.slots : q \in cc.slots \/ q = r
  BY <1>4, ThrottleInv DEF Throttle
<1>5. ASSUME NEW r \in Runs,
             \/ Register(r) \/ PreflightFails(r) \/ SetRunning(r) \/ Abandon(r) \/ StartWorkflow(r)
             \/ StartFails(r) \/ WorkflowRejects(r) \/ SaveRun(r) \/ Resume(r) \/ Park(r)
      PROVE  IInv' /\ Serves(cc, cc')
  BY <1>5, QuietRunSteps
<1>6. ASSUME NEW r \in Runs, ClaimExecution(r) \/ Finalize(r) \/ TimesOut(r)
      PROVE  IInv' /\ Serves(cc, cc')
  BY <1>6, ClaimExecutionInv, FinalizeInv, TimesOutInv
<1>7. CASE Shutdown
  BY <1>7, ShutdownInv
<1>8. QED BY <1>1, <1>2, <1>3, <1>4, <1>5, <1>6, <1>7 DEF Next, RunNext

THEOREM InvHolds == Spec => []IInv
BY InitInv, NextSteps, PTL DEF Spec

\* The database's statuses, the runs, the queue, the slots and the registry keep their
\* types, and capacity never exceeds the limit.
THEOREM TypeCorrect == Spec => []TypeOK
BY InvHolds, TypesHold, PTL

\* Until the shutdown every unit of capacity is free, with a run that has a slot, or owed
\* to a run that queues, for any number of executions and any limit.
THEOREM CapacityIsConserved == Spec => []CapacityConserved
<1>1. IInv => CapacityConserved
  BY DEF IInv, QueueOK, CapacityConserved
<1>2. QED BY <1>1, InvHolds, PTL

\* A run that was queued when the shutdown began never starts in this process, whatever
\* ends or is cancelled meanwhile.
THEOREM ShutdownStartsNothing == Spec => NothingStartsInShutdown
<1>1. IInv /\ [Next]_vars =>
        [\A i \in DOMAIN cc.queue : ~cc'.enabled => cc.queue[i] \notin cc'.slots]_vars
  <2> SUFFICES ASSUME IInv, [Next]_vars, NEW i \in DOMAIN cc.queue, ~cc'.enabled
               PROVE  cc.queue[i] \notin cc'.slots
    OBVIOUS
  <2> DEFINE q == cc.queue[i]
  <2>1. Queues(cc, q)
    BY DEF IInv, QueueOK, Controls, Queues
  <2>2. q \notin cc.slots /\ at[q] = "throttled"
    BY <2>1, QueuesWithoutSlot DEF IInv, PlacesOK
  <2> HIDE DEF q
  <2>3. CASE Serves(cc, cc')
    <3>1. \A r \in cc'.slots : r \in cc.slots \/ cc.enabled
      BY <2>3 DEF Serves
    <3>2. cc'.enabled = cc.enabled
      BY <2>3 DEF Serves
    <3>3. ~cc.enabled
      BY <3>2
    <3>4. QED BY <2>2, <3>1, <3>3 DEF q
  <2>4. QED BY <2>2, <2>3, NextSteps DEF q
<1>2. QED BY <1>1, InvHolds, PTL DEF Spec, NothingStartsInShutdown

-----------------------------------------------------------------------------
(***************************************************************************)
(* Who holds a slot.                                                       *)
(***************************************************************************)
Early == {"none", "created", "throttled"}
Registered == {"starting", "started", "failing", "running", "parking", "erred", "abandoned"}
Active == {"claimed"} \cup Registered
Late == Registered \cup {"cancelled", "detached", "unsaved", "saved", "over"}

\* An execution has one active run at most, none while its row waits, and its first run
\* comes before the others.
OneActive ==
  /\ \A r, q \in Runs : ExecutionOf(r) = ExecutionOf(q) /\ at[r] \in Active /\ at[q] \in Active => r = q
  /\ \A r \in Runs : at[r] \in Active => status[ExecutionOf(r)] # "waiting"
  /\ \A r \in Runs : r[2] = 1 /\ at[r] \in Early =>
       /\ status[ExecutionOf(r)] # "waiting"
       /\ \A q \in Runs : ExecutionOf(q) = ExecutionOf(r) /\ q # r => at[q] = "none"

\* An entry is for a run that registered, and for none but the active one.
EntriesOK ==
  /\ \A e \in Executions : entries[e] # NoRun => ExecutionOf(entries[e]) = e /\ at[entries[e]] \in Late
  /\ \A r \in Runs : at[r] \in Registered => entries[ExecutionOf(r)] \in {r, NoRun}
  /\ \A r \in parked : at[r] \in {"parking", "erred", "unsaved", "abandoned", "saved", "over"}
  /\ \A r \in Runs : at[r] = "parking" => r \in parked
  /\ \A r \in Runs : promise[r] # "pending" => at[r] \in Late
  /\ \A r \in Runs : at[r] = "cancelled" => promise[r] # "pending"

\* A slot leaves its run with the run's promise, or with a wait that is cut short.
SlotsOK ==
  /\ \A r \in Runs : at[r] \in {"claimed", "starting", "started", "running"} /\ promise[r] = "pending" => r \in cc.slots
  /\ \A r \in cc.slots : promise[r] = "pending"
  /\ \A r \in cc.slots : at[r] \in Late /\ entries[ExecutionOf(r)] # r => r \in parked
  /\ \A r \in cc.slots : at[r] \in {"detached", "unsaved", "over"} => entries[ExecutionOf(r)] # r
  /\ \A r \in cc.slots : at[r] = "saved" /\ r \notin parked =>
       /\ status[ExecutionOf(r)] # "waiting"
       /\ \A q \in Runs : ExecutionOf(q) = ExecutionOf(r) => at[q] \notin Active

\* The invariant of the slots' holders.
SlotsInv == IInv /\ OneActive /\ EntriesOK /\ SlotsOK

-----------------------------------------------------------------------------
LEMMA FirstRun ==
  \A r \in Runs : /\ <<ExecutionOf(r), 1>> \in Runs /\ ExecutionOf(<<ExecutionOf(r), 1>>) = ExecutionOf(r)
                  /\ r # NoRun /\ (r[2] = 1 => r = <<ExecutionOf(r), 1>>)
BY ConcurrencyAssumption DEF Runs, ExecutionOf, NoRun

\* What the queue's operations do to the slots.
LEMMA ReleaseSlots ==
  ASSUME NEW c, QueueOK(c), NEW r
  PROVE  /\ \A q \in c.slots : q # r => q \in Release(c, r).slots
         /\ ~Queues(c, r) => r \notin Release(c, r).slots
<1>1. c \in Controls
  BY DEF QueueOK
<1>2. CASE r \in c.slots /\ c.enabled
  <2> DEFINE d == [c EXCEPT !.slots = @ \ {r}, !.capacity = @ + 1]
  <2>1. Release(c, r) = ResolveNext(d)
    BY <1>2 DEF Release
  <2>2. d.slots = c.slots \ {r} /\ d.queue = c.queue
    BY <1>1 DEF Controls
  <2>3. CASE d.queue = <<>>
    BY <2>1, <2>2, <2>3 DEF ResolveNext
  <2>4. CASE d.queue # <<>>
    <3>1. ResolveNext(d).slots = d.slots \cup {Head(d.queue)}
      BY <1>1, <2>4 DEF ResolveNext, Controls
    <3>2. Head(d.queue) = c.queue[1] /\ 1 \in 1..Len(c.queue)
      BY <1>1, <2>2, <2>4 DEF Controls
    <3>3. Queues(c, Head(d.queue))
      BY <3>2 DEF Queues
    <3> HIDE DEF d
    <3>4. QED BY <2>1, <2>2, <3>1, <3>3
  <2>5. QED BY <2>3, <2>4
<1>3. CASE ~(r \in c.slots /\ c.enabled)
  <2>1. Release(c, r).slots = c.slots \ {r}
    BY <1>1, <1>3 DEF Release, Controls
  <2>2. QED BY <2>1
<1>4. QED BY <1>2, <1>3

LEMMA RemoveQueuedSlots ==
  ASSUME NEW c, QueueOK(c), NEW e
  PROVE  c.slots \subseteq RemoveQueued(c, e).slots
<1>1. c \in Controls
  BY DEF QueueOK
<1>2. CASE ~(c.enabled /\ Queued(c, e) # {})
  BY <1>2 DEF RemoveQueued
<1>3. CASE c.enabled /\ Queued(c, e) # {}
  <2> DEFINE i == CHOOSE j \in Queued(c, e) : \A k \in Queued(c, e) : j <= k
             d == [c EXCEPT !.queue = RemoveAt(@, i), !.capacity = @ + 1]
  <2>1. RemoveQueued(c, e) = ResolveNext(d)
    BY <1>3 DEF RemoveQueued
  <2> HIDE DEF i
  <2>2. d.slots = c.slots /\ "slots" \in DOMAIN d
    BY <1>1 DEF Controls
  <2> HIDE DEF d
  <2>3. d.slots \subseteq ResolveNext(d).slots
    BY <2>2 DEF ResolveNext
  <2>4. QED BY <2>1, <2>2, <2>3
<1>4. QED BY <1>2, <1>3

LEMMA EnqueueSlots ==
  ASSUME NEW c, QueueOK(c), NEW r
  PROVE  c.slots \subseteq Enqueue(c, r).slots
BY DEF QueueOK, Controls, Enqueue

LEMMA CloseQueueSlots ==
  ASSUME NEW c, QueueOK(c), NEW X
  PROVE  /\ CloseQueue(c).slots = c.slots
         /\ [CloseQueue(c) EXCEPT !.slots = @ \ X].slots = c.slots \ X
<1>1. c \in Controls
  BY DEF QueueOK
<1>2. Disable(c) \in Controls /\ ~Disable(c).enabled /\ Disable(c).slots = c.slots
  BY <1>1 DEF Disable, Controls
<1>3. CloseQueue(c) = Disable(c)
  BY <1>2 DEF CloseQueue, RemoveAll
<1>4. QED BY <1>2, <1>3 DEF Controls

\* A run moves on, and the others stay.
LEMMA Moves ==
  ASSUME IInv, NEW r \in Runs, NEW pc, Goto(r, pc)
  PROVE  at'[r] = pc /\ \A q \in Runs : q # r => at'[q] = at[q]
BY DEF Goto, IInv, OthersTypes

LEMMA StatusSet ==
  ASSUME IInv, NEW e \in Executions, NEW s, SetStatus(e, s)
  PROVE  status'[e] = s /\ \A x \in Executions : x # e => status'[x] = status[x]
BY DEF SetStatus, IInv, OthersTypes

\* Slots pass, if at all, to runs that queued.
LEMMA Newcomers ==
  ASSUME IInv, EntriesOK, Serves(cc, cc')
  PROVE  \A q \in cc'.slots :
           /\ q \in Runs
           /\ \/ q \in cc.slots
              \/ q \notin cc.slots /\ Queues(cc, q) /\ at[q] = "throttled" /\ promise[q] = "pending"
<1> SUFFICES ASSUME NEW q \in cc'.slots, q \notin cc.slots
             PROVE  q \in Runs /\ Queues(cc, q) /\ at[q] = "throttled" /\ promise[q] = "pending"
  BY DEF IInv, QueueOK, Controls
<1>1. Queues(cc, q)
  BY DEF Serves
<1>2. q \in Runs /\ at[q] = "throttled"
  BY <1>1, QueuesWithoutSlot DEF IInv, PlacesOK
<1>3. QED BY <1>1, <1>2 DEF EntriesOK, Late, Registered

\* A run begins.
LEMMA BeginsKeeps ==
  ASSUME SlotsInv, NEW r \in Runs, at[r] = "none", Goto(r, "created"), UNCHANGED <<cc, entries, parked, promise>>,
         \A e \in Executions : e # ExecutionOf(r) => status'[e] = status[e],
         \/ r[2] = 1 /\ status'[ExecutionOf(r)] # "waiting"
         \/ r[2] # 1 /\ status[ExecutionOf(r)] = "waiting" /\ UNCHANGED status
  PROVE  OneActive' /\ EntriesOK' /\ SlotsOK'
<1>1. at'[r] = "created" /\ \A q \in Runs : q # r => at'[q] = at[q]
  BY Moves DEF SlotsInv
<1>2. \A q \in Runs : ExecutionOf(q) \in Executions
  BY RunFacts
<1>3. r[2] = 1 => \A q \in Runs : ExecutionOf(q) = ExecutionOf(r) /\ q # r => at[q] = "none"
  BY DEF SlotsInv, OneActive, Early
<1>4. \A q \in Runs : q[2] = 1 /\ r[2] = 1 /\ ExecutionOf(q) = ExecutionOf(r) => q = r
  BY FirstRun
<1>5. OneActive'
  <2>1. \A p, q \in Runs : ExecutionOf(p) = ExecutionOf(q) /\ at'[p] \in Active /\ at'[q] \in Active => p = q
    BY <1>1 DEF SlotsInv, OneActive, Active, Registered
  <2>2. \A q \in Runs : at'[q] \in Active => status'[ExecutionOf(q)] # "waiting"
    BY <1>1, <1>2 DEF SlotsInv, OneActive, Active, Registered
  <2>3. ASSUME NEW q \in Runs, q[2] = 1, at'[q] \in Early
        PROVE  /\ status'[ExecutionOf(q)] # "waiting"
               /\ \A p \in Runs : ExecutionOf(p) = ExecutionOf(q) /\ p # q => at'[p] = "none"
    <3>1. CASE q = r
      BY <1>1, <1>3, <2>3, <3>1
    <3>2. CASE q # r
      <4>1. at[q] \in Early
        BY <1>1, <2>3, <3>2
      <4>2. /\ status[ExecutionOf(q)] # "waiting"
            /\ \A p \in Runs : ExecutionOf(p) = ExecutionOf(q) /\ p # q => at[p] = "none"
        BY <2>3, <4>1 DEF SlotsInv, OneActive
      <4>3. ExecutionOf(q) # ExecutionOf(r)
        BY <1>4, <2>3, <3>2, <4>2
      <4>4. QED BY <1>1, <1>2, <4>2, <4>3
    <3>3. QED BY <3>1, <3>2
  <2>4. QED BY <2>1, <2>2, <2>3 DEF OneActive
<1>6. EntriesOK'
  BY <1>1 DEF SlotsInv, EntriesOK, Late, Registered, IInv, OthersTypes
<1>7. SlotsOK'
  <2>1. cc.slots \subseteq Runs /\ r \notin cc.slots
    BY DEF SlotsInv, IInv, PlacesOK, QueueOK, Controls
  <2>2. \A q \in cc.slots : at'[q] = at[q]
    BY <1>1, <2>1
  <2>3. \A q \in cc.slots : at[q] = "saved" /\ q \notin parked => status'[ExecutionOf(q)] # "waiting"
    BY <1>2, <1>3, <2>1 DEF SlotsInv, SlotsOK
  <2>4. \A q \in Runs : at'[q] \in Active => at[q] \in Active
    BY <1>1 DEF Active, Registered
  <2>5. \A q \in Runs : at'[q] \in {"claimed", "starting", "started", "running"} => at'[q] = at[q]
    BY <1>1
  <2>6. QED BY <2>1, <2>2, <2>3, <2>4, <2>5 DEF SlotsInv, SlotsOK
<1>8. QED BY <1>5, <1>6, <1>7

LEMMA CreateKeeps ==
  ASSUME SlotsInv, NEW e \in Executions, Create(e)
  PROVE  OneActive' /\ EntriesOK' /\ SlotsOK'
<1>1. <<e, 1>> \in Runs /\ ExecutionOf(<<e, 1>>) = e /\ <<e, 1>>[2] = 1
  BY RunFacts DEF ExecutionOf
<1>2. status'[e] = "new" /\ \A x \in Executions : x # e => status'[x] = status[x]
  BY StatusSet DEF Create, SlotsInv
<1>3. QED BY <1>1, <1>2, BeginsKeeps DEF Create

LEMMA ResumeKeeps ==
  ASSUME SlotsInv, NEW r \in Runs, Resume(r)
  PROVE  OneActive' /\ EntriesOK' /\ SlotsOK'
<1>1. r[2] # 1
  BY DEF Resume
<1>2. QED BY <1>1, BeginsKeeps DEF Resume

\* A run stays what it is to the others: no new run is active, no status becomes waiting.
LEMMA OneActiveKept ==
  ASSUME SlotsInv,
         \A r \in Runs : at'[r] \in Active => at[r] \in Active,
         \A r \in Runs : at'[r] \in Early => at[r] \in Early,
         \A r \in Runs : at[r] = "none" => at'[r] = "none",
         \A e \in Executions : status'[e] = "waiting" => status[e] = "waiting"
  PROVE  OneActive'
<1>1. \A r \in Runs : ExecutionOf(r) \in Executions
  BY RunFacts
<1>2. QED BY <1>1 DEF SlotsInv, OneActive

LEMMA ThrottleKeeps ==
  ASSUME SlotsInv, NEW r \in Runs, Throttle(r)
  PROVE  OneActive' /\ EntriesOK' /\ SlotsOK'
<1>1. /\ at[r] = "created" /\ at'[r] = "throttled" /\ \A q \in Runs : q # r => at'[q] = at[q]
      /\ UNCHANGED <<status, entries, parked, attached, promise, stop>>
  BY Moves DEF Throttle, SlotsInv
<1>2. OneActive'
  BY <1>1, OneActiveKept DEF Active, Registered, Early
<1>3. EntriesOK'
  BY <1>1 DEF SlotsInv, EntriesOK, Late, Registered, IInv, OthersTypes
<1>4. /\ cc.slots \subseteq cc'.slots /\ cc'.slots \subseteq Runs
      /\ \A q \in cc'.slots : q \in cc.slots \/ q = r
  <2>1. QueueOK(cc') /\ \A q \in cc'.slots : q \in cc.slots \/ q = r
    BY ThrottleInv DEF SlotsInv, IInv
  <2>2. QED BY <2>1, EnqueueSlots DEF Throttle, SlotsInv, IInv, QueueOK, Controls
<1>5. promise[r] = "pending"
  BY <1>1 DEF SlotsInv, EntriesOK, Late, Registered
<1>6. SlotsOK'
  BY <1>1, <1>4, <1>5 DEF SlotsInv, SlotsOK, Late, Registered, Active
<1>7. QED BY <1>2, <1>3, <1>6

LEMMA ClaimExecutionKeeps ==
  ASSUME SlotsInv, NEW r \in Runs, ClaimExecution(r)
  PROVE  OneActive' /\ EntriesOK' /\ SlotsOK'
<1>1. /\ at[r] = "throttled" /\ r \in cc.slots /\ ExecutionOf(r) \in Executions
      /\ UNCHANGED <<entries, parked, attached, promise>>
  BY RunFacts DEF ClaimExecution
<1>2. CASE /\ r[2] = 1 \/ status[ExecutionOf(r)] = "waiting"
           /\ SetStatus(ExecutionOf(r), "running") /\ Goto(r, "claimed") /\ UNCHANGED cc
  <2>1. /\ at'[r] = "claimed" /\ \A q \in Runs : q # r => at'[q] = at[q]
        /\ status'[ExecutionOf(r)] = "running"
        /\ \A e \in Executions : e # ExecutionOf(r) => status'[e] = status[e]
    BY <1>1, <1>2, Moves, StatusSet DEF SlotsInv
  <2>2. \A q \in Runs : ExecutionOf(q) = ExecutionOf(r) => at[q] \notin Active
    BY <1>1, <1>2 DEF SlotsInv, OneActive, Early, Active, Registered
  <2>3. \A q \in Runs : ExecutionOf(q) \in Executions
    BY RunFacts
  <2>4. OneActive'
    <3>1. \A p, q \in Runs : ExecutionOf(p) = ExecutionOf(q) /\ at'[p] \in Active /\ at'[q] \in Active => p = q
      BY <2>1, <2>2 DEF SlotsInv, OneActive
    <3>2. \A q \in Runs : status'[ExecutionOf(q)] = "waiting" => status[ExecutionOf(q)] = "waiting"
      BY <2>1, <2>3
    <3>3. \A q \in Runs : at'[q] \in Active => status'[ExecutionOf(q)] # "waiting"
      BY <2>1, <2>3 DEF SlotsInv, OneActive
    <3>4. \A q \in Runs : at'[q] \in Early => at[q] \in Early
      BY <2>1 DEF Early
    <3>5. \A q \in Runs : at[q] = "none" => at'[q] = "none"
      BY <1>1, <2>1
    <3>6. QED BY <3>1, <3>2, <3>3, <3>4, <3>5 DEF SlotsInv, OneActive
  <2>5. EntriesOK'
    BY <1>1, <2>1 DEF SlotsInv, EntriesOK, Late, Registered, IInv, OthersTypes
  <2>6. \A q \in cc.slots : ~(at[q] = "saved" /\ q \notin parked /\ ExecutionOf(q) = ExecutionOf(r))
    <3> SUFFICES ASSUME NEW q \in cc.slots, at[q] = "saved", q \notin parked, ExecutionOf(q) = ExecutionOf(r)
                 PROVE  FALSE
      OBVIOUS
    <3>1. status[ExecutionOf(r)] # "waiting"
      BY DEF SlotsInv, SlotsOK
    <3>2. q \in Runs /\ q # r /\ at[q] # "none"
      BY <1>1 DEF SlotsInv, IInv, QueueOK, Controls
    <3>3. QED BY <1>1, <1>2, <3>1, <3>2 DEF SlotsInv, OneActive, Early
  <2>7. SlotsOK'
    <3>0. cc.slots \subseteq Runs
      BY DEF SlotsInv, IInv, QueueOK, Controls
    <3>1. \A q \in cc.slots : at'[q] = "saved" /\ q \notin parked =>
            /\ status'[ExecutionOf(q)] # "waiting"
            /\ \A p \in Runs : ExecutionOf(p) = ExecutionOf(q) => at'[p] \notin Active
      BY <2>1, <2>3, <2>6, <3>0 DEF SlotsInv, SlotsOK
    <3>2. \A q \in cc.slots : at'[q] \in Late => at'[q] = at[q]
      BY <2>1, <3>0 DEF Late, Registered
    <3>3. \A q \in Runs : at'[q] \in {"claimed", "starting", "started", "running"} => q = r \/ at'[q] = at[q]
      BY <2>1
    <3>4. QED BY <1>1, <1>2, <3>1, <3>2, <3>3 DEF SlotsInv, SlotsOK, Late
  <2>8. QED BY <2>4, <2>5, <2>7
<1>3. CASE GiveUp(r) /\ UNCHANGED status
  <2>1. at'[r] = "over" /\ \A q \in Runs : q # r => at'[q] = at[q]
    BY <1>3, Moves DEF SlotsInv, GiveUp
  <2>2. OneActive'
    BY <1>1, <1>3, <2>1, OneActiveKept DEF Active, Registered, Early
  <2>3. EntriesOK'
    BY <1>1, <2>1 DEF SlotsInv, EntriesOK, Late, Registered, IInv, OthersTypes
  <2>4. /\ \A q \in cc.slots : q # r => q \in cc'.slots
        /\ r \notin cc'.slots
    <3>1. ~Queues(cc, r) /\ QueueOK(cc)
      BY <1>1, QueuesWithoutSlot DEF SlotsInv, IInv
    <3>2. QED BY <1>3, <3>1, ReleaseSlots DEF GiveUp
  <2>5. \A q \in cc'.slots :
          q \in Runs /\ q # r /\ (q \in cc.slots \/ (at[q] = "throttled" /\ promise[q] = "pending"))
    BY <2>4, Newcomers, ClaimExecutionInv DEF SlotsInv
  <2>6. SlotsOK'
    BY <1>1, <1>3, <2>1, <2>4, <2>5 DEF SlotsInv, SlotsOK, Late, Registered, Active
  <2>7. QED BY <2>2, <2>3, <2>6
<1>4. QED BY <1>2, <1>3 DEF ClaimExecution

LEMMA RegisterKeeps ==
  ASSUME SlotsInv, NEW r \in Runs, Register(r)
  PROVE  OneActive' /\ EntriesOK' /\ SlotsOK'
<1>1. /\ at[r] = "claimed" /\ at'[r] = "starting" /\ \A q \in Runs : q # r => at'[q] = at[q]
      /\ UNCHANGED <<status, cc, parked, attached, promise, stop>>
  BY Moves DEF Register, SlotsInv
<1>2. /\ entries'[ExecutionOf(r)] = r
      /\ \A e \in Executions : e # ExecutionOf(r) => entries'[e] = entries[e]
  BY RunFacts DEF Register, SlotsInv, IInv, OthersTypes
<1>3. /\ \A q \in Runs : ExecutionOf(q) \in Executions /\ q # NoRun
      /\ parked \subseteq Runs /\ cc.slots \subseteq Runs
      /\ \A e \in Executions : entries[e] \in Runs \cup {NoRun}
  BY RunFacts, FirstRun DEF SlotsInv, IInv, OthersTypes, QueueOK, Controls
<1>4. OneActive'
  BY <1>1, OneActiveKept DEF Active, Registered, Early
<1>5. EntriesOK'
  <2>1. \A e \in Executions : entries'[e] # NoRun => ExecutionOf(entries'[e]) = e /\ at'[entries'[e]] \in Late
    BY <1>1, <1>2, <1>3 DEF SlotsInv, EntriesOK, Late, Registered
  <2>2. \A q \in Runs : at'[q] \in Registered => entries'[ExecutionOf(q)] \in {q, NoRun}
    <3> SUFFICES ASSUME NEW q \in Runs, at'[q] \in Registered, q # r
                 PROVE  entries'[ExecutionOf(q)] \in {q, NoRun}
      BY <1>2
    <3>1. at[q] \in Registered
      BY <1>1
    <3>2. ExecutionOf(q) # ExecutionOf(r)
      BY <1>1, <3>1 DEF SlotsInv, OneActive, Active
    <3>3. QED BY <1>2, <1>3, <3>1, <3>2 DEF SlotsInv, EntriesOK
  <2>3. QED BY <1>1, <1>3, <2>1, <2>2 DEF SlotsInv, EntriesOK, Late, Registered
<1>6. SlotsOK'
  <2>1. ASSUME NEW q \in cc.slots, at'[q] \in Late, entries'[ExecutionOf(q)] # q PROVE q \in parked
    <3>1. q # r /\ q \in Runs /\ at[q] \in Late
      BY <1>1, <1>2, <1>3, <2>1
    <3>2. CASE entries[ExecutionOf(q)] # q
      BY <3>1, <3>2 DEF SlotsInv, SlotsOK
    <3>3. CASE entries[ExecutionOf(q)] = q
      <4>1. ExecutionOf(q) = ExecutionOf(r)
        BY <1>2, <1>3, <2>1, <3>1, <3>3
      <4>2. at[q] \in {"cancelled", "detached", "unsaved", "saved", "over"}
        BY <1>1, <3>1, <4>1 DEF SlotsInv, OneActive, Active, Registered, Late
      <4>3. at[q] = "saved"
        BY <3>1, <3>3, <4>2 DEF SlotsInv, SlotsOK, EntriesOK
      <4>4. QED BY <1>1, <4>1, <4>3 DEF SlotsInv, SlotsOK, Active
    <3>4. QED BY <3>2, <3>3
  <2>2. \A q \in cc.slots : at'[q] \in {"detached", "unsaved", "over"} => entries'[ExecutionOf(q)] # q
    BY <1>1, <1>2, <1>3 DEF SlotsInv, SlotsOK
  <2>3. \A q \in Runs : at'[q] \in Active => at[q] \in Active
    BY <1>1 DEF Active, Registered
  <2>4. QED BY <1>1, <1>3, <2>1, <2>2, <2>3 DEF SlotsInv, SlotsOK
<1>7. QED BY <1>4, <1>5, <1>6

\* The entry that a parking run's execution has is its own.
LEMMA ParkKeeps ==
  ASSUME SlotsInv, NEW r \in Runs, Park(r)
  PROVE  OneActive' /\ EntriesOK' /\ SlotsOK'
<1>1. /\ at[r] = "running" /\ at'[r] = "parking" /\ \A q \in Runs : q # r => at'[q] = at[q]
      /\ UNCHANGED <<status, cc, entries, attached, promise, stop>>
      /\ parked' = parked \cup {entries[ExecutionOf(r)]}
  BY Moves DEF Park, SlotsInv
<1>2. entries[ExecutionOf(r)] = r
  BY <1>1 DEF Park, SlotsInv, EntriesOK, Registered
<1>3. OneActive'
  BY <1>1, OneActiveKept DEF Active, Registered, Early
<1>4. EntriesOK'
  BY <1>1, <1>2 DEF SlotsInv, EntriesOK, Late, Registered, IInv, OthersTypes
<1>5. SlotsOK'
  <2>1. cc.slots \subseteq Runs
    BY DEF SlotsInv, IInv, QueueOK, Controls
  <2>2. \A q \in Runs : at'[q] \in Active => at[q] \in Active
    BY <1>1 DEF Active, Registered
  <2>3. QED BY <1>1, <1>2, <2>1, <2>2 DEF SlotsInv, SlotsOK, Late, Registered
<1>6. QED BY <1>3, <1>4, <1>5

\* A registered run goes on, or fails, and leaves entries, promises and slots alone.
LEMMA RegisteredMoves ==
  ASSUME SlotsInv, NEW r \in Runs, at[r] \in Registered, NEW pc \in Registered \ {"parking"}, Goto(r, pc),
         pc \in {"starting", "started", "running"} => at[r] \in {"starting", "started", "running"},
         pc \in {"erred", "abandoned"} \/ at[r] \in {"starting", "started"},
         UNCHANGED <<cc, entries, parked, promise>>,
         \A e \in Executions : status'[e] = "waiting" => status[e] = "waiting"
  PROVE  OneActive' /\ EntriesOK' /\ SlotsOK'
<1>1. at'[r] = pc /\ \A q \in Runs : q # r => at'[q] = at[q]
  BY Moves DEF SlotsInv
<1>2. OneActive'
  BY <1>1, OneActiveKept DEF Active, Registered, Early
<1>3. EntriesOK'
  <2>1. r \in parked => pc \in {"erred", "abandoned"}
    BY DEF SlotsInv, EntriesOK
  <2>2. QED BY <1>1, <2>1 DEF SlotsInv, EntriesOK, Late, Registered, IInv, OthersTypes
<1>4. SlotsOK'
  <2>1. cc.slots \subseteq Runs /\ \A q \in Runs : ExecutionOf(q) \in Executions
    BY RunFacts DEF SlotsInv, IInv, QueueOK, Controls
  <2>2. \A q \in Runs : at'[q] \in Active => at[q] \in Active
    BY <1>1 DEF Active
  <2>3. QED BY <1>1, <2>1, <2>2 DEF SlotsInv, SlotsOK, Late, Registered
<1>5. QED BY <1>2, <1>3, <1>4

LEMMA SetRunningKeeps ==
  ASSUME SlotsInv, NEW r \in Runs, SetRunning(r)
  PROVE  OneActive' /\ EntriesOK' /\ SlotsOK'
<1>1. \A e \in Executions : status'[e] = "waiting" => status[e] = "waiting"
  BY RunFacts, StatusSet DEF SetRunning, SlotsInv
<1>2. QED BY <1>1, RegisteredMoves DEF SetRunning, Registered

\* The ways a run fails between its registration and its end.
LEMMA FailuresKeep ==
  ASSUME SlotsInv, NEW r \in Runs,
         PreflightFails(r) \/ Abandon(r) \/ StartFails(r) \/ WorkflowRejects(r)
  PROVE  OneActive' /\ EntriesOK' /\ SlotsOK'
<1>1. UNCHANGED <<status, cc, entries, parked, promise>>
  BY DEF PreflightFails, Abandon, StartFails, WorkflowRejects
<1>2. CASE Abandon(r) \/ WorkflowRejects(r)
  BY <1>1, <1>2, RegisteredMoves DEF Abandon, WorkflowRejects, Registered
<1>3. CASE PreflightFails(r) \/ StartFails(r)
  BY <1>1, <1>3, RegisteredMoves DEF PreflightFails, StartFails, Registered
<1>4. QED BY <1>2, <1>3

\* A run whose entry is gone has no slot any more.
LEMMA StartWorkflowKeeps ==
  ASSUME SlotsInv, NEW r \in Runs, StartWorkflow(r)
  PROVE  OneActive' /\ EntriesOK' /\ SlotsOK'
<1>1. at[r] = "started" /\ UNCHANGED <<status, cc, entries, parked, promise>>
  BY DEF StartWorkflow
<1>2. CASE Goto(r, "running")
  BY <1>1, <1>2, RegisteredMoves DEF Registered
<1>3. CASE entries[ExecutionOf(r)] = NoRun /\ Goto(r, "detached")
  <2>1. /\ at'[r] = "detached" /\ \A q \in Runs : q # r => at'[q] = at[q]
        /\ r \notin parked /\ r # NoRun
    BY <1>1, <1>3, Moves, FirstRun DEF SlotsInv, EntriesOK
  <2>2. OneActive'
    BY <1>1, <2>1, OneActiveKept DEF Active, Registered, Early
  <2>3. EntriesOK'
    BY <1>1, <2>1 DEF SlotsInv, EntriesOK, Late, Registered, IInv, OthersTypes
  <2>4. SlotsOK'
    <3>1. cc.slots \subseteq Runs /\ entries[ExecutionOf(r)] # r
      BY <1>3, <2>1 DEF SlotsInv, IInv, QueueOK, Controls
    <3>2. \A q \in Runs : at'[q] \in Active => at[q] \in Active
      BY <2>1 DEF Active, Registered
    <3>3. QED BY <1>1, <2>1, <3>1, <3>2 DEF SlotsInv, SlotsOK, Late, Registered
  <2>5. QED BY <2>2, <2>3, <2>4
<1>4. QED BY <1>2, <1>3 DEF StartWorkflow

\* A run saved once its promise is settled, or never attached.
LEMMA SaveEndedKeeps ==
  ASSUME SlotsInv, NEW r \in Runs, SaveRun(r), at[r] \in {"cancelled", "unsaved", "detached"}
  PROVE  OneActive' /\ EntriesOK' /\ SlotsOK'
<1>1. /\ at'[r] \in {"saved", "over"} /\ (at'[r] = "saved" <=> at[r] = "cancelled")
      /\ \A q \in Runs : q # r => at'[q] = at[q]
      /\ UNCHANGED <<cc, entries, parked, attached, promise, stop>>
  BY Moves DEF SaveRun, SlotsInv
<1>2. \A e \in Executions : status'[e] = "waiting" => status[e] = "waiting"
  BY RunFacts, StatusSet DEF SaveRun, Save, SlotsInv
<1>3. at[r] = "cancelled" => r \notin cc.slots
  BY DEF SlotsInv, EntriesOK, SlotsOK
<1>4. OneActive'
  BY <1>1, <1>2, OneActiveKept DEF Active, Registered, Early
<1>5. EntriesOK'
  BY <1>1 DEF SlotsInv, EntriesOK, Late, Registered, IInv, OthersTypes
<1>6. SlotsOK'
  <2>1. cc.slots \subseteq Runs /\ \A q \in Runs : ExecutionOf(q) \in Executions
    BY RunFacts DEF SlotsInv, IInv, QueueOK, Controls
  <2>2. \A q \in Runs : at'[q] \in Active => at[q] \in Active
    BY <1>1 DEF Active, Registered
  <2>3. \A q \in cc.slots : at'[q] = "saved" => at[q] = "saved"
    BY <1>1, <1>3, <2>1
  <2>4. \A q \in cc.slots : at'[q] \in Late => at[q] \in Late
    BY <1>1, <2>1 DEF Late
  <2>5. \A q \in cc.slots : at'[q] \in {"detached", "unsaved", "over"} => at[q] \in {"detached", "unsaved", "over"}
    BY <1>1, <1>3, <2>1
  <2>6. \A q \in Runs : at'[q] \in {"claimed", "starting", "started", "running"} => at'[q] = at[q]
    BY <1>1
  <2>7. QED BY <1>1, <1>2, <2>1, <2>2, <2>3, <2>4, <2>5, <2>6 DEF SlotsInv, SlotsOK
<1>7. QED BY <1>4, <1>5, <1>6

\* Any other that saves was the only active one: its execution waits only if it was
\* parked.
LEMMA SaveActiveKeeps ==
  ASSUME SlotsInv, NEW r \in Runs, SaveRun(r), at[r] \notin {"cancelled", "unsaved", "detached"}
  PROVE  OneActive' /\ EntriesOK' /\ SlotsOK'
<1>1. /\ at[r] \in {"running", "parking", "failing"} /\ at'[r] = "saved"
      /\ \A q \in Runs : q # r => at'[q] = at[q]
      /\ UNCHANGED <<cc, entries, parked, attached, promise, stop>>
  BY Moves DEF SaveRun, SlotsInv
<1>2. /\ \A e \in Executions : e # ExecutionOf(r) => status'[e] = status[e]
      /\ at[r] # "parking" => status'[ExecutionOf(r)] # "waiting"
  <2>1. CASE UNCHANGED status
    BY <1>1, <2>1 DEF SlotsInv, OneActive, Active, Registered
  <2>2. CASE SetStatus(ExecutionOf(r), "done")
    BY <2>2, RunFacts, StatusSet DEF SlotsInv
  <2>3. CASE at[r] = "parking" /\ SetStatus(ExecutionOf(r), "waiting")
    BY <2>3, RunFacts, StatusSet DEF SlotsInv
  <2>4. QED BY <1>1, <2>1, <2>2, <2>3 DEF SaveRun, Save
<1>3. /\ \A q \in Runs : ExecutionOf(q) = ExecutionOf(r) /\ q # r => at[q] \notin Active
      /\ at[r] \in Active
  BY <1>1 DEF SlotsInv, OneActive, Active, Registered
<1>4. \A q \in Runs : q[2] = 1 /\ at[q] \in Early => ExecutionOf(q) # ExecutionOf(r)
  BY <1>1 DEF SlotsInv, OneActive, Early
<1>5. cc.slots \subseteq Runs /\ \A q \in Runs : ExecutionOf(q) \in Executions
  BY RunFacts DEF SlotsInv, IInv, QueueOK, Controls
<1>6. \A q \in Runs : at'[q] \in Active => at[q] \in Active /\ q # r
  BY <1>1 DEF Active, Registered
<1>7. OneActive'
  <2>1. \A q \in Runs : at'[q] \in Active => status'[ExecutionOf(q)] # "waiting"
    BY <1>2, <1>3, <1>5, <1>6 DEF SlotsInv, OneActive
  <2>2. \A q \in Runs : at'[q] \in Early => at[q] \in Early
    BY <1>1 DEF Early
  <2>3. \A q \in Runs : at[q] = "none" => at'[q] = "none"
    BY <1>1
  <2>4. \A q \in Runs : q[2] = 1 /\ at'[q] \in Early => status'[ExecutionOf(q)] # "waiting"
    BY <1>2, <1>4, <1>5, <2>2 DEF SlotsInv, OneActive
  <2>5. QED BY <1>6, <2>1, <2>2, <2>3, <2>4 DEF SlotsInv, OneActive
<1>8. EntriesOK'
  BY <1>1 DEF SlotsInv, EntriesOK, Late, Registered, IInv, OthersTypes
<1>9. SlotsOK'
  <2>1. ASSUME NEW q \in cc.slots, at'[q] = "saved", q \notin parked
        PROVE  /\ status'[ExecutionOf(q)] # "waiting"
               /\ \A p \in Runs : ExecutionOf(p) = ExecutionOf(q) => at'[p] \notin Active
    <3>1. CASE q = r
      <4>1. at[r] # "parking"
        BY <2>1, <3>1 DEF SlotsInv, EntriesOK
      <4>2. QED BY <1>2, <1>3, <1>6, <3>1, <4>1
    <3>2. CASE q # r
      <4>1. at[q] = "saved" /\ q \in Runs
        BY <1>1, <1>5, <2>1, <3>2
      <4>2. /\ status[ExecutionOf(q)] # "waiting"
            /\ \A p \in Runs : ExecutionOf(p) = ExecutionOf(q) => at[p] \notin Active
        BY <2>1, <4>1 DEF SlotsInv, SlotsOK
      <4>3. ExecutionOf(q) # ExecutionOf(r)
        BY <1>3, <4>2
      <4>4. QED BY <1>2, <1>5, <1>6, <4>1, <4>2, <4>3
    <3>3. QED BY <3>1, <3>2
  <2>2. QED BY <1>1, <1>5, <2>1 DEF SlotsInv, SlotsOK, Late, Registered
<1>10. QED BY <1>7, <1>8, <1>9

LEMMA SaveRunKeeps ==
  ASSUME SlotsInv, NEW r \in Runs, SaveRun(r)
  PROVE  OneActive' /\ EntriesOK' /\ SlotsOK'
BY SaveEndedKeeps, SaveActiveKeeps

\* The promise that is resolved and the slot that is released are the same run's.
LEMMA FinalizeKeeps ==
  ASSUME SlotsInv, NEW r \in Runs, Finalize(r)
  PROVE  OneActive' /\ EntriesOK' /\ SlotsOK'
<1> DEFINE e == ExecutionOf(r)
           b == entries[e]
<1>1. /\ at[r] \in {"saved", "erred"} /\ at'[r] \in {"unsaved", "over"}
      /\ \A q \in Runs : q # r => at'[q] = at[q]
      /\ UNCHANGED <<status, parked, attached, stop>>
  BY Moves DEF Finalize, SlotsInv
<1>2. /\ \A q \in Runs : ExecutionOf(q) \in Executions /\ q # NoRun
      /\ cc.slots \subseteq Runs /\ e \in Executions
  BY RunFacts, FirstRun DEF SlotsInv, IInv, QueueOK, Controls
<1>3. OneActive'
  BY <1>1, OneActiveKept DEF Active, Registered, Early
<1>4. CASE b # NoRun /\ promise[b] = "pending"
  <2>1. /\ cc' = Release(cc, b)
        /\ entries' = IF b \in parked THEN entries ELSE [entries EXCEPT ![e] = NoRun]
        /\ promise' = [promise EXCEPT ![b] = IF b = r THEN "own" ELSE "other's"]
    BY <1>4 DEF Finalize
  <2>2. b \in Runs /\ ExecutionOf(b) = e /\ at[b] \in Late
    BY <1>2, <1>4 DEF SlotsInv, IInv, OthersTypes, EntriesOK
  <2> HIDE DEF b
  <2>3. /\ promise'[b] # "pending" /\ \A q \in Runs : q # b => promise'[q] = promise[q]
        /\ \A x \in Executions : entries'[x] = entries[x] \/ (x = e /\ b \notin parked /\ entries'[x] = NoRun)
    BY <2>1, <2>2, <1>2 DEF SlotsInv, IInv, OthersTypes
  <2>4. ~Queues(cc, b) /\ QueueOK(cc)
    BY <2>2 DEF SlotsInv, IInv, PlacesOK, Late, Registered
  <2>5. b \notin cc'.slots /\ \A q \in cc.slots : q # b => q \in cc'.slots
    BY <2>1, <2>4, ReleaseSlots
  <2>6. \A q \in cc'.slots :
          q \in Runs /\ q # b /\ (q \in cc.slots \/ (at[q] = "throttled" /\ promise[q] = "pending"))
    BY <2>5, Newcomers, FinalizeInv DEF SlotsInv
  <2>7. EntriesOK'
    <3>1. \A x \in Executions : entries'[x] # NoRun => ExecutionOf(entries'[x]) = x /\ at'[entries'[x]] \in Late
      <4> SUFFICES ASSUME NEW x \in Executions, entries'[x] # NoRun
                   PROVE  ExecutionOf(entries'[x]) = x /\ at'[entries'[x]] \in Late
        OBVIOUS
      <4>1. entries'[x] = entries[x] /\ entries[x] \in Runs
        BY <2>3 DEF SlotsInv, IInv, OthersTypes
      <4>2. ExecutionOf(entries[x]) = x /\ at[entries[x]] \in Late
        BY <4>1 DEF SlotsInv, EntriesOK
      <4>3. QED BY <1>1, <4>1, <4>2 DEF Late
    <3>2. \A q \in Runs : at'[q] \in Registered => entries'[ExecutionOf(q)] \in {q, NoRun}
      BY <1>1, <1>2, <2>3 DEF SlotsInv, EntriesOK, Registered
    <3>3. \A q \in Runs : promise'[q] # "pending" => at'[q] \in Late
      BY <1>1, <2>2, <2>3 DEF SlotsInv, EntriesOK, Late
    <3>4. \A q \in parked : at'[q] \in {"parking", "erred", "unsaved", "abandoned", "saved", "over"}
      BY <1>1 DEF SlotsInv, EntriesOK, IInv, OthersTypes
    <3>5. \A q \in Runs : at'[q] = "parking" => q \in parked
      BY <1>1 DEF SlotsInv, EntriesOK
    <3>6. \A q \in Runs : at'[q] = "cancelled" => promise'[q] # "pending"
      BY <1>1, <2>2, <2>3 DEF SlotsInv, EntriesOK
    <3>7. QED BY <1>1, <3>1, <3>2, <3>3, <3>4, <3>5, <3>6 DEF EntriesOK
  <2>8. SlotsOK'
    <3>1. \A q \in Runs :
            at'[q] \in {"claimed", "starting", "started", "running"} /\ promise'[q] = "pending" => q \in cc'.slots
      BY <1>1, <2>3, <2>5 DEF SlotsInv, SlotsOK
    <3>2. \A q \in cc'.slots : promise'[q] = "pending"
      BY <2>3, <2>6 DEF SlotsInv, SlotsOK
    <3>3. \A q \in cc'.slots : at'[q] \in Late => q \in cc.slots /\ at[q] \in Late
      BY <1>1, <2>6 DEF Late, Registered
    <3>4. \A q \in cc'.slots : entries'[ExecutionOf(q)] # q => entries[ExecutionOf(q)] # q
      BY <1>2, <2>3, <2>6 DEF b
    <3>5. \A q \in cc'.slots : at'[q] \in {"detached", "unsaved", "over"} => entries'[ExecutionOf(q)] # q
      <4> SUFFICES ASSUME NEW q \in cc'.slots, at'[q] \in {"detached", "unsaved", "over"},
                          entries'[ExecutionOf(q)] = q
                   PROVE  FALSE
        OBVIOUS
      <4>1. q \in cc.slots /\ q \in Runs /\ q # b
        BY <2>6, <3>3 DEF Late
      <4>2. entries[ExecutionOf(q)] = q
        BY <1>2, <2>3, <4>1
      <4>3. q # r
        BY <4>1, <4>2 DEF b
      <4>4. QED BY <1>1, <4>1, <4>2, <4>3 DEF SlotsInv, SlotsOK
    <3>6. \A q \in cc'.slots : at'[q] = "saved" => q \in cc.slots /\ at[q] = "saved"
      BY <1>1, <2>6
    <3>7. \A q \in Runs : at'[q] \in Active => at[q] \in Active
      BY <1>1 DEF Active, Registered
    <3>8. QED BY <1>1, <3>1, <3>2, <3>3, <3>4, <3>5, <3>6, <3>7 DEF SlotsInv, SlotsOK
  <2>9. QED BY <1>3, <2>7, <2>8
<1>5. CASE ~(b # NoRun /\ promise[b] = "pending")
  <2>1. UNCHANGED <<promise, cc, entries>>
    BY <1>5 DEF Finalize
  <2>2. EntriesOK'
    BY <1>1, <2>1 DEF SlotsInv, EntriesOK, Late, Registered, IInv, OthersTypes
  <2>3. \A q \in cc.slots : at'[q] \in {"detached", "unsaved", "over"} => entries[ExecutionOf(q)] # q
    BY <1>1, <1>2, <1>5 DEF SlotsInv, SlotsOK
  <2>4. \A q \in Runs : at'[q] \in Active => at[q] \in Active
    BY <1>1 DEF Active, Registered
  <2>5. SlotsOK'
    BY <1>1, <1>2, <2>1, <2>3, <2>4 DEF SlotsInv, SlotsOK, Late, Registered
  <2>6. QED BY <1>3, <2>2, <2>5
<1>6. QED BY <1>4, <1>5

\* Stops take the slots of the runs whose promises they reject.
LEMMA StopsKeep ==
  ASSUME SlotsInv, NEW S \in SUBSET Executions, StopExecutions(S), UNCHANGED <<status, parked>>,
         \A q \in cc'.slots :
           /\ q \in Runs
           /\ \/ q \in cc.slots /\ \A e \in S : q = entries[e] => q \in parked
              \/ at[q] = "throttled" /\ promise[q] = "pending",
         \A q \in cc.slots : q \in cc'.slots \/ \E e \in S : q = entries[e]
  PROVE  OneActive' /\ EntriesOK' /\ SlotsOK'
<1> DEFINE hit == {entries[e] : e \in S} \ ({NoRun} \cup parked)
<1>1. /\ \A q \in Runs : ExecutionOf(q) \in Executions /\ q # NoRun
      /\ parked \subseteq Runs /\ S \subseteq Executions /\ cc.slots \subseteq Runs
      /\ \A e \in Executions : entries[e] \in Runs \cup {NoRun}
  BY RunFacts, FirstRun DEF SlotsInv, IInv, OthersTypes, QueueOK, Controls
<1>2. /\ \A e \in Executions : entries'[e] = IF e \in S THEN NoRun ELSE entries[e]
      /\ \A q \in Runs : promise'[q] = "pending" <=> promise[q] = "pending" /\ q \notin hit
      /\ \A q \in Runs : at'[q] = at[q] \/ (q \in hit /\ at[q] \in {"running", "saved"} /\ at'[q] = "cancelled")
  BY DEF StopExecutions
<1>3. \A q \in hit : q \in Runs /\ at[q] \in Late /\ \E e \in S : q = entries[e]
  BY <1>1 DEF SlotsInv, EntriesOK
<1>4. \A e \in S : entries[e] \in hit \/ entries[e] = NoRun \/ entries[e] \in parked
  OBVIOUS
<1>5. \A q \in hit : q \notin parked
  OBVIOUS
<1> HIDE DEF hit
<1>6. OneActive'
  BY <1>2, OneActiveKept DEF Active, Registered, Early
<1>7. EntriesOK'
  <2>1. \A e \in Executions : entries'[e] # NoRun => ExecutionOf(entries'[e]) = e /\ at'[entries'[e]] \in Late
    BY <1>1, <1>2 DEF SlotsInv, EntriesOK, Late, Registered
  <2>2. \A q \in Runs : at'[q] \in Registered => entries'[ExecutionOf(q)] \in {q, NoRun}
    BY <1>1, <1>2 DEF SlotsInv, EntriesOK, Registered
  <2>3. \A q \in Runs : promise'[q] # "pending" => at'[q] \in Late
    BY <1>2, <1>3 DEF SlotsInv, EntriesOK, Late, Registered
  <2>4. \A q \in parked : at'[q] = at[q]
    BY <1>1, <1>2, <1>5
  <2>5. \A q \in Runs : at'[q] = "parking" => at[q] = "parking"
    BY <1>2
  <2>6. \A q \in Runs : at'[q] = "cancelled" => promise'[q] # "pending"
    BY <1>2 DEF SlotsInv, EntriesOK
  <2>7. QED BY <2>1, <2>2, <2>3, <2>4, <2>5, <2>6 DEF SlotsInv, EntriesOK
<1>8. SlotsOK'
  <2>1. ASSUME NEW q \in Runs, at'[q] \in {"claimed", "starting", "started", "running"}, promise'[q] = "pending"
        PROVE  q \in cc'.slots
    <3>1. at[q] = at'[q] /\ promise[q] = "pending" /\ q \notin hit
      BY <1>2, <2>1
    <3>2. q \in cc.slots /\ q \notin parked
      BY <2>1, <3>1 DEF SlotsInv, SlotsOK, EntriesOK
    <3>3. QED BY <1>1, <1>4, <3>1, <3>2
  <2>2. \A q \in cc'.slots : q \notin hit
    BY <1>3, <1>5 DEF Late, Registered
  <2>3. \A q \in cc'.slots : promise'[q] = "pending"
    BY <1>2, <2>2 DEF SlotsInv, SlotsOK
  <2>4. \A q \in cc'.slots : at'[q] \in Late =>
          /\ q \in cc.slots /\ at[q] \in Late
          /\ at'[q] = "saved" => at[q] = "saved"
          /\ at'[q] \in {"detached", "unsaved", "over"} => at[q] = at'[q]
    BY <1>2 DEF Late, Registered
  <2>5. \A q \in cc'.slots : at'[q] \in Late /\ entries'[ExecutionOf(q)] # q => q \in parked
    <3> SUFFICES ASSUME NEW q \in cc'.slots, at'[q] \in Late, entries'[ExecutionOf(q)] # q
                 PROVE  q \in parked
      OBVIOUS
    <3>1. q \in cc.slots /\ at[q] \in Late /\ q \in Runs /\ ExecutionOf(q) \in Executions /\ at[q] # "throttled"
      BY <1>1, <2>4 DEF Late, Registered
    <3>2. CASE entries[ExecutionOf(q)] # q
      BY <3>1, <3>2 DEF SlotsInv, SlotsOK
    <3>3. CASE entries[ExecutionOf(q)] = q
      BY <1>2, <3>1, <3>3
    <3>4. QED BY <3>2, <3>3
  <2>6. \A q \in cc'.slots : at'[q] \in {"detached", "unsaved", "over"} => entries'[ExecutionOf(q)] # q
    <3> SUFFICES ASSUME NEW q \in cc'.slots, at'[q] \in {"detached", "unsaved", "over"}
                 PROVE  entries'[ExecutionOf(q)] # q
      OBVIOUS
    <3>1. q \in cc.slots /\ at[q] \in {"detached", "unsaved", "over"} /\ ExecutionOf(q) \in Executions /\ q # NoRun
      BY <1>1, <2>4 DEF Late
    <3>2. QED BY <1>2, <3>1 DEF SlotsInv, SlotsOK
  <2>7. \A q \in Runs : at'[q] \in Active => at[q] \in Active
    BY <1>2 DEF Active, Registered
  <2>8. \A q \in cc'.slots : at'[q] = "saved" /\ q \notin parked =>
          /\ status'[ExecutionOf(q)] # "waiting"
          /\ \A p \in Runs : ExecutionOf(p) = ExecutionOf(q) => at'[p] \notin Active
    BY <2>4, <2>7 DEF SlotsInv, SlotsOK, Late
  <2>9. parked' = parked
    OBVIOUS
  <2>10. QED BY <2>1, <2>3, <2>5, <2>6, <2>8, <2>9 DEF SlotsOK
<1>9. QED BY <1>6, <1>7, <1>8

LEMMA StopOneKeeps ==
  ASSUME SlotsInv, NEW e \in Executions, StopOne(e), UNCHANGED <<status, parked, attached>>,
         stop' \in [Executions -> {"no", "read", "acted", "done"}]
  PROVE  OneActive' /\ EntriesOK' /\ SlotsOK'
<1>1. StopExecutions({e}) /\ {e} \in SUBSET Executions /\ QueueOK(cc) /\ Serves(cc, cc')
  BY StopOneInv DEF StopOne, SlotsInv, IInv
<1>2. CASE entries[e] \in Runs \ parked
  <2>1. cc' = Release(cc, entries[e])
    BY <1>2 DEF StopOne
  <2>2. ~Queues(cc, entries[e])
    BY <1>2, FirstRun DEF SlotsInv, IInv, PlacesOK, EntriesOK, Late, Registered
  <2>3. entries[e] \notin cc'.slots /\ \A q \in cc.slots : q # entries[e] => q \in cc'.slots
    BY <1>1, <2>1, <2>2, ReleaseSlots
  <2>4. \A q \in cc'.slots : q \in Runs /\ (q \in cc.slots \/ (at[q] = "throttled" /\ promise[q] = "pending"))
    BY <1>1, Newcomers DEF SlotsInv
  <2>5. QED BY <1>1, <2>3, <2>4, StopsKeep
<1>3. CASE entries[e] \notin Runs \ parked
  <2>1. cc' = cc
    BY <1>3 DEF StopOne
  <2>2. \A q \in cc.slots : q \in Runs /\ (q = entries[e] => q \in parked)
    BY <1>3 DEF SlotsInv, IInv, QueueOK, Controls
  <2>3. QED BY <1>1, <2>1, <2>2, StopsKeep
<1>4. QED BY <1>2, <1>3

\* Steps on the queue or on the row alone.
LEMMA QueueStepKeeps ==
  ASSUME SlotsInv, UNCHANGED <<at, entries, parked, promise>>, Serves(cc, cc'), cc.slots \subseteq cc'.slots,
         \A e \in Executions : status'[e] = "waiting" => status[e] = "waiting"
  PROVE  OneActive' /\ EntriesOK' /\ SlotsOK'
<1>1. OneActive'
  BY OneActiveKept
<1>2. EntriesOK'
  BY DEF SlotsInv, EntriesOK
<1>3. \A q \in cc'.slots : q \in Runs /\ (q \in cc.slots \/ (at[q] = "throttled" /\ promise[q] = "pending"))
  BY Newcomers DEF SlotsInv
<1>4. \A q \in Runs : ExecutionOf(q) \in Executions
  BY RunFacts
<1>5. SlotsOK'
  BY <1>3, <1>4 DEF SlotsInv, SlotsOK, Late, Registered
<1>6. QED BY <1>1, <1>2, <1>5

LEMMA StopStepsKeep ==
  ASSUME SlotsInv, NEW e \in Executions, ReadToStop(e) \/ StopInRegularMode(e) \/ WriteCanceled(e)
  PROVE  OneActive' /\ EntriesOK' /\ SlotsOK'
<1>1. CASE ReadToStop(e) \/ WriteCanceled(e)
  <2>1. UNCHANGED <<at, cc, entries, parked, promise>>
    BY <1>1 DEF ReadToStop, WriteCanceled
  <2>2. \A x \in Executions : status'[x] = "waiting" => status[x] = "waiting"
    BY <1>1, StatusSet DEF ReadToStop, WriteCanceled, SlotsInv
  <2>3. Serves(cc, cc') /\ cc.slots \subseteq cc'.slots
    BY <2>1, ServesNone
  <2>4. QED BY <2>1, <2>2, <2>3, QueueStepKeeps
<1>2. CASE /\ cc' = RemoveQueued(cc, e) /\ UNCHANGED <<entries, promise, at>>
           /\ UNCHANGED <<status, parked, attached>>
  <2>1. Serves(cc, cc') /\ cc.slots \subseteq cc'.slots
    BY <1>2, RemoveQueuedOK, RemoveQueuedSlots DEF SlotsInv, IInv
  <2>2. QED BY <1>2, <2>1, QueueStepKeeps
<1>3. CASE StopOne(e) /\ UNCHANGED <<status, parked, attached>> /\ stop' = [stop EXCEPT ![e] = "acted"]
  <2>1. stop' \in [Executions -> {"no", "read", "acted", "done"}]
    BY <1>3 DEF SlotsInv, IInv, OthersTypes
  <2>2. QED BY <1>3, <2>1, StopOneKeeps
<1>4. QED BY <1>1, <1>2, <1>3 DEF StopInRegularMode

LEMMA TimesOutKeeps ==
  ASSUME SlotsInv, NEW r \in Runs, TimesOut(r)
  PROVE  OneActive' /\ EntriesOK' /\ SlotsOK'
<1>1. ExecutionOf(r) \in Executions /\ StopOne(ExecutionOf(r)) /\ UNCHANGED <<status, parked, attached, stop>>
  BY RunFacts DEF TimesOut
<1>2. stop' \in [Executions -> {"no", "read", "acted", "done"}]
  BY <1>1 DEF SlotsInv, IInv, OthersTypes
<1>3. QED BY <1>1, <1>2, StopOneKeeps

LEMMA ShutdownKeeps ==
  ASSUME SlotsInv, Shutdown
  PROVE  OneActive' /\ EntriesOK' /\ SlotsOK'
<1>1. QueueOK(cc) /\ cc.slots \subseteq Runs /\ UNCHANGED <<status, parked, attached, stop>>
  BY DEF SlotsInv, IInv, QueueOK, Controls, Shutdown
<1>2. CASE /\ StopExecutions(Executions)
           /\ cc' = [CloseQueue(cc) EXCEPT !.slots = @ \ {entries[e] : e \in Executions}]
  <2>1. cc'.slots = cc.slots \ {entries[e] : e \in Executions}
    BY <1>1, <1>2, CloseQueueSlots
  <2>2. QED BY <1>1, <1>2, <2>1, StopsKeep
<1>3. CASE /\ entries' = [e \in Executions |-> IF entries[e] \in parked THEN NoRun ELSE entries[e]]
           /\ cc' = CloseQueue(cc) /\ UNCHANGED <<at, promise>>
  <2>1. cc'.slots = cc.slots
    BY <1>1, <1>3, CloseQueueSlots
  <2>2. OneActive'
    BY <1>1, <1>3, OneActiveKept
  <2>3. \A q \in Runs : ExecutionOf(q) \in Executions /\ q # NoRun
    BY RunFacts, FirstRun
  <2>4. \A e \in Executions : entries'[e] = IF entries[e] \in parked THEN NoRun ELSE entries[e]
    BY <1>3
  <2>5. EntriesOK'
    <3>1. \A e \in Executions : entries'[e] # NoRun => ExecutionOf(entries'[e]) = e /\ at[entries'[e]] \in Late
      BY <2>4 DEF SlotsInv, EntriesOK
    <3>2. \A q \in Runs : at[q] \in Registered => entries'[ExecutionOf(q)] \in {q, NoRun}
      BY <2>3, <2>4 DEF SlotsInv, EntriesOK
    <3>3. QED BY <1>1, <1>3, <3>1, <3>2 DEF SlotsInv, EntriesOK
  <2>6. SlotsOK'
    BY <1>1, <1>3, <2>1, <2>3, <2>4 DEF SlotsInv, SlotsOK
  <2>7. QED BY <2>2, <2>5, <2>6
<1>4. QED BY <1>2, <1>3 DEF Shutdown

LEMMA InitSlotsInv == Init => SlotsInv
<1> SUFFICES ASSUME Init PROVE SlotsInv
  OBVIOUS
<1>1. \A r \in Runs : at[r] = "none" /\ promise[r] = "pending" /\ ExecutionOf(r) \in Executions
  BY RunFacts DEF Init
<1>2. \A e \in Executions : status[e] = "none" /\ entries[e] = NoRun
  BY DEF Init
<1>3. cc.slots = {} /\ parked = {}
  BY DEF Init
<1>4. OneActive /\ EntriesOK /\ SlotsOK
  BY <1>1, <1>2, <1>3 DEF OneActive, EntriesOK, SlotsOK, Active, Early, Late, Registered
<1>5. QED BY <1>4, InitInv DEF SlotsInv

LEMMA NextSlotsInv == SlotsInv /\ [Next]_vars => SlotsInv'
<1> SUFFICES ASSUME SlotsInv, [Next]_vars PROVE OneActive' /\ EntriesOK' /\ SlotsOK'
  BY NextSteps DEF SlotsInv
<1>1. CASE UNCHANGED vars
  <2>1. UNCHANGED <<status, at, cc, entries, parked, promise>>
    BY <1>1 DEF vars
  <2>2. QED BY <2>1, QueueStepKeeps, ServesNone
<1>2. ASSUME NEW e \in Executions, Create(e) \/ ReadToStop(e) \/ StopInRegularMode(e) \/ WriteCanceled(e)
      PROVE  OneActive' /\ EntriesOK' /\ SlotsOK'
  BY <1>2, CreateKeeps, StopStepsKeep
<1>3. ASSUME NEW r \in Runs, RunNext(r)
      PROVE  OneActive' /\ EntriesOK' /\ SlotsOK'
  BY <1>3, ThrottleKeeps, ClaimExecutionKeeps, RegisterKeeps, FailuresKeep, SetRunningKeeps,
     StartWorkflowKeeps, SaveRunKeeps, FinalizeKeeps DEF RunNext
<1>4. ASSUME NEW r \in Runs, Resume(r) \/ Park(r) \/ TimesOut(r)
      PROVE  OneActive' /\ EntriesOK' /\ SlotsOK'
  BY <1>4, ResumeKeeps, ParkKeeps, TimesOutKeeps
<1>5. CASE Shutdown
  BY <1>5, ShutdownKeeps
<1>6. QED BY <1>1, <1>2, <1>3, <1>4, <1>5 DEF Next

LEMMA HoldersInvariant == Spec => []SlotsInv
BY InitSlotsInv, NextSlotsInv, PTL DEF Spec

\* A workflow that runs, its execution registered and not told to stop, has its slot,
\* for any number of executions, runs and stops.
THEOREM RunsHoldTheirSlots == Spec => []RunsHoldSlots
<1>1. SlotsInv => RunsHoldSlots
  BY DEF SlotsInv, IInv, OthersTypes, SlotsOK, RunsHoldSlots
<1>2. QED BY <1>1, HoldersInvariant, PTL

\* However runs end, their slots come back, but those of waits cut short and of runs the
\* runner has abandoned with their entry: when nothing runs any more, a slot that is still
\* held is one of these.
THEOREM SlotsAreReturned == Spec => []SlotsComeBack
<1>1. SlotsInv => SlotsComeBack
  <2> SUFFICES ASSUME SlotsInv, Quiet, NEW r \in cc.slots PROVE Lost(r)
    BY DEF SlotsComeBack
  <2>1. r \in Runs /\ at[r] # "none"
    BY DEF SlotsInv, IInv, QueueOK, Controls, PlacesOK
  <2>2. at[r] \in {"abandoned", "over"}
    BY <2>1 DEF Quiet, Removed
  <2>3. at[r] = "over" => entries[ExecutionOf(r)] # r /\ r \in parked
    BY DEF SlotsInv, SlotsOK, Late
  <2>4. QED BY <2>2, <2>3 DEF Lost, Abandoned, Stranded
<1>2. QED BY <1>1, HoldersInvariant, PTL
=============================================================================
