------------------------ MODULE EngineRuntimeProofs ------------------------
(***************************************************************************)
(* Proofs about EngineRuntime, for any workers and sizes: messages are     *)
(* handed over once and in order, the workers are quiet when the publisher *)
(* is told to stop, and no event is lost short of the deadline.            *)
(***************************************************************************)
EXTENDS EngineRuntime, SequenceTheorems, TLAPS

Queue == [published : Nat, pending : Seq(Nat), handed : Seq(Nat), consumer : BOOLEAN,
          dispatching : BOOLEAN, running : {0, 1}, stop : {"none", "waiting", "returned"}]

\* What a queue handed over and what it keeps are the messages published, in order.
Ordered(s) ==
  /\ s \in Queue
  /\ Len(s.handed) + Len(s.pending) = s.published
  /\ \A i \in 1..Len(s.handed) : s.handed[i] = i
  /\ \A i \in 1..Len(s.pending) : s.pending[i] = Len(s.handed) + i

\* One handler call at a time, by a loop that is recorded; none once stopped.
QueueOK(s) ==
  /\ Ordered(s)
  /\ s.dispatching <=> s.running = 1
  /\ s.stop # "none" => ~s.consumer
  /\ s.stop = "returned" => s.running = 0

Hosts == {"built", "started", "stopping", "draining", "stopped"}

QueuesOK ==
  /\ queues = [q \in Publishers |-> queues[q]]
  /\ \A q \in Publishers :
       /\ QueueOK(queues[q])
       /\ host \in {"built", "started"} => queues[q].stop = "none"
       /\ host \in {"draining", "stopped"} => queues[q].stop = "returned"

\* The publisher: nothing is left when its loop has ended for good, and what is handed
\* over and kept is what was accepted, unless stop() gave up.
PublisherOK ==
  /\ published \in Nat /\ accepted \in Seq(Nat) /\ pending \in Seq(Nat) /\ handed \in Seq(Nat)
  /\ stopping \in {"no", "waiting", "returned"} /\ host \in Hosts
  /\ abandoned \in BOOLEAN /\ (abandoned => stopping = "returned")
  /\ stopping # "no" => host \in {"draining", "stopped"}
  /\ host = "stopped" => stopping = "returned"
  /\ drain = "closing" /\ (resting = {} \/ stopping # "no") => pending = <<>>
  /\ stopping = "returned" /\ ~abandoned => pending = <<>>
  /\ \/ handed \o pending = accepted
     \/ abandoned /\ pending = <<>> /\ IsPrefix(handed, accepted)

IInv == QueuesOK /\ PublisherOK

-----------------------------------------------------------------------------
\* The operations of a queue.
LEMMA QueueTypes ==
  ASSUME NEW s \in Queue
  PROVE  /\ s.pending \in Seq(Nat) /\ s.handed \in Seq(Nat) /\ s.published \in Nat
         /\ Len(s.pending) \in Nat /\ Len(s.handed) \in Nat /\ s.running \in {0, 1}
         /\ s.consumer \in BOOLEAN /\ s.dispatching \in BOOLEAN
         /\ s.stop \in {"none", "waiting", "returned"}
BY DEF Queue

\* Records that differ in nothing Ordered looks at.
LEMMA OrderedStays ==
  ASSUME NEW s, Ordered(s), NEW d \in Queue,
         d.published = s.published, d.pending = s.pending, d.handed = s.handed
  PROVE  Ordered(d)
BY DEF Ordered

LEMMA TakeOK ==
  ASSUME NEW s, Ordered(s), s.pending # <<>>
  PROVE  LET d == WorkQueue!Take(s) IN
         /\ Ordered(d) /\ d.consumer = s.consumer /\ d.dispatching = s.dispatching
         /\ d.running = s.running /\ d.stop = s.stop
<1> DEFINE d == WorkQueue!Take(s)
           m == Len(s.handed)
           n == Len(s.pending)
<1>1. /\ s \in Queue /\ s.pending \in Seq(Nat) /\ s.handed \in Seq(Nat) /\ s.published \in Nat
      /\ n \in Nat \ {0} /\ m \in Nat /\ m + n = s.published
      /\ \A i \in 1..m : s.handed[i] = i
      /\ \A i \in 1..n : s.pending[i] = m + i
  <2>1. s \in Queue
    BY DEF Ordered
  <2>2. s.pending \in Seq(Nat) /\ s.handed \in Seq(Nat) /\ s.published \in Nat /\ m \in Nat
    BY <2>1, QueueTypes
  <2>3. n \in Nat \ {0}
    BY <2>2
  <2>4. QED BY <2>1, <2>2, <2>3 DEF Ordered
<1>2. /\ Head(s.pending) = m + 1
      /\ Tail(s.pending) \in Seq(Nat) /\ Len(Tail(s.pending)) = n - 1
      /\ \A i \in 1..n - 1 : Tail(s.pending)[i] = s.pending[i + 1] /\ i + 1 \in 1..n
  BY <1>1
<1>3. /\ Append(s.handed, m + 1) \in Seq(Nat)
      /\ Len(Append(s.handed, m + 1)) = m + 1
      /\ \A i \in 1..m + 1 : Append(s.handed, m + 1)[i] = IF i <= m THEN s.handed[i] ELSE m + 1
  BY <1>1
<1>4. /\ d.pending = Tail(s.pending) /\ d.handed = Append(s.handed, m + 1)
      /\ d.published = s.published
  BY <1>1, <1>2, <1>3 DEF WorkQueue!Take, Queue
<1>5. /\ d.consumer = s.consumer /\ d.dispatching = s.dispatching
      /\ d.running = s.running /\ d.stop = s.stop /\ d \in Queue
  BY <1>1, <1>2, <1>3 DEF WorkQueue!Take, Queue
<1>6. Len(d.handed) = m + 1 /\ Len(d.pending) = n - 1
  BY <1>2, <1>3, <1>4
<1> HIDE DEF d, m, n
<1>7. Len(d.handed) + Len(d.pending) = d.published
  <2>1. (m + 1) + (n - 1) = s.published
    <3>1. \A x, y \in Nat : (x + 1) + (y - 1) = x + y
      OBVIOUS
    <3>2. QED BY <1>1, <3>1
  <2>2. QED BY <1>4, <1>6, <2>1
<1>8. \A i \in 1..m + 1 : d.handed[i] = i
  BY <1>1, <1>3, <1>4
<1>9. \A i \in 1..n - 1 : d.pending[i] = (m + 1) + i
  BY <1>1, <1>2, <1>4
<1>10. Ordered(d)
  BY <1>5, <1>6, <1>7, <1>8, <1>9 DEF Ordered
<1>11. QED BY <1>5, <1>10 DEF d

LEMMA StartDispatchLoopOK ==
  ASSUME NEW s, QueueOK(s)
  PROVE  /\ QueueOK(WorkQueue!StartDispatchLoop(s))
         /\ WorkQueue!StartDispatchLoop(s).stop = s.stop
<1>1. CASE ~s.dispatching /\ s.consumer /\ s.pending # <<>>
  <2> DEFINE d == WorkQueue!Take(s)
             x == [d EXCEPT !.dispatching = TRUE, !.running = @ + 1]
  <2>1. /\ Ordered(d) /\ d \in Queue /\ d.consumer = s.consumer /\ d.stop = s.stop
        /\ d.running = 0
    <3>1. s.running \in {0, 1} /\ s.running # 1
      BY <1>1, QueueTypes DEF QueueOK, Ordered
    <3>2. Ordered(s)
      BY DEF QueueOK
    <3>3. QED BY <1>1, <3>1, <3>2, TakeOK DEF Ordered
  <2> HIDE DEF d
  <2>2. /\ x \in Queue /\ x.published = d.published /\ x.pending = d.pending /\ x.handed = d.handed
        /\ x.consumer = d.consumer /\ x.stop = d.stop /\ x.running = 1 /\ x.dispatching
    <3>1. d.running + 1 = 1
      BY <2>1
    <3>2. x = [d EXCEPT !.dispatching = TRUE, !.running = 1]
      BY <3>1
    <3>3. QED BY <2>1, <3>2 DEF Queue
  <2>3. WorkQueue!StartDispatchLoop(s) = x
    BY <1>1 DEF WorkQueue!StartDispatchLoop, d
  <2> HIDE DEF x
  <2>4. Ordered(x)
    BY <2>1, <2>2, OrderedStays
  <2>5. x.stop = s.stop /\ x.stop = "none"
    BY <1>1, <2>1, <2>2 DEF QueueOK
  <2>6. QED BY <2>2, <2>3, <2>4, <2>5 DEF QueueOK
<1>2. CASE ~(~s.dispatching /\ s.consumer /\ s.pending # <<>>)
  BY <1>2 DEF WorkQueue!StartDispatchLoop
<1>3. QED BY <1>1, <1>2

LEMMA EndLoopOK ==
  ASSUME NEW s, QueueOK(s), s.running > 0
  PROVE  /\ QueueOK(WorkQueue!EndLoop(s))
         /\ s.stop \in {"none", "returned"} => WorkQueue!EndLoop(s).stop = s.stop
<1> DEFINE x == WorkQueue!EndLoop(s)
<1>1. Ordered(s) /\ s \in Queue /\ s.running = 1
  <2>1. Ordered(s) /\ s \in Queue
    BY DEF QueueOK, Ordered
  <2>2. s.running \in {0, 1}
    BY <2>1, QueueTypes
  <2>3. QED BY <2>1, <2>2
<1>2. /\ x \in Queue /\ x.published = s.published /\ x.pending = s.pending /\ x.handed = s.handed
      /\ x.consumer = s.consumer /\ x.running = 0 /\ ~x.dispatching
      /\ x.stop = IF s.stop = "waiting" THEN "returned" ELSE s.stop
  <2> DEFINE after == IF s.stop = "waiting" THEN "returned" ELSE s.stop
  <2>1. after \in {"none", "waiting", "returned"}
    BY <1>1 DEF Queue
  <2>2. s.running - 1 = 0
    BY <1>1
  <2>3. x = [s EXCEPT !.dispatching = FALSE, !.running = 0, !.stop = after]
    BY <2>2 DEF WorkQueue!EndLoop
  <2> HIDE DEF after, x
  <2>4. /\ x \in Queue /\ x.published = s.published /\ x.pending = s.pending /\ x.handed = s.handed
        /\ x.consumer = s.consumer /\ x.running = 0 /\ ~x.dispatching /\ x.stop = after
    BY <1>1, <2>1, <2>3 DEF Queue
  <2>5. QED BY <2>4 DEF after
<1> HIDE DEF x
<1>3. Ordered(x)
  BY <1>1, <1>2, OrderedStays
<1>4. x.stop # "none" => ~x.consumer
  BY <1>2 DEF QueueOK
<1>5. QED BY <1>2, <1>3, <1>4 DEF QueueOK, x

LEMMA PublishedOK ==
  ASSUME NEW s, QueueOK(s)
  PROVE  LET d == [s EXCEPT !.published = @ + 1, !.pending = Append(@, s.published + 1)] IN
         QueueOK(d) /\ d.stop = s.stop
<1> DEFINE d == [s EXCEPT !.published = @ + 1, !.pending = Append(@, s.published + 1)]
           m == Len(s.handed)
           n == Len(s.pending)
<1>1. /\ s \in Queue /\ s.pending \in Seq(Nat) /\ s.handed \in Seq(Nat) /\ s.published \in Nat
      /\ n \in Nat /\ m \in Nat /\ m + n = s.published
      /\ \A i \in 1..m : s.handed[i] = i
      /\ \A i \in 1..n : s.pending[i] = m + i
  <2>1. s \in Queue
    BY DEF QueueOK, Ordered
  <2>2. s.pending \in Seq(Nat) /\ s.handed \in Seq(Nat) /\ s.published \in Nat /\ m \in Nat /\ n \in Nat
    BY <2>1, QueueTypes
  <2>3. QED BY <2>1, <2>2 DEF QueueOK, Ordered
<1>2. /\ Append(s.pending, s.published + 1) \in Seq(Nat) /\ s.published + 1 \in Nat
      /\ Len(Append(s.pending, s.published + 1)) = n + 1
      /\ \A i \in 1..n + 1 :
           Append(s.pending, s.published + 1)[i] = IF i <= n THEN s.pending[i] ELSE s.published + 1
  BY <1>1
<1>3. /\ d.pending = Append(s.pending, s.published + 1) /\ d.handed = s.handed
      /\ d.published = s.published + 1
  BY <1>1, <1>2 DEF Queue
<1>4. /\ d.consumer = s.consumer /\ d.dispatching = s.dispatching
      /\ d.running = s.running /\ d.stop = s.stop /\ d \in Queue
  BY <1>1, <1>2 DEF Queue
<1>5. Len(d.handed) = m /\ Len(d.pending) = n + 1
  BY <1>2, <1>3
<1> HIDE DEF d, m, n
<1>6. Len(d.handed) + Len(d.pending) = d.published
  <2>1. m + (n + 1) = (m + n) + 1
    BY <1>1
  <2>2. QED BY <1>1, <1>3, <1>5, <2>1
<1>7. \A i \in 1..n + 1 : d.pending[i] = m + i
  BY <1>1, <1>2, <1>3
<1>8. Ordered(d)
  BY <1>1, <1>3, <1>4, <1>5, <1>6, <1>7 DEF Ordered
<1>9. QED BY <1>4, <1>8 DEF d, QueueOK

LEMMA StartedOK ==
  ASSUME NEW s, QueueOK(s), s.stop = "none"
  PROVE  QueueOK(WorkQueue!Started(s)) /\ WorkQueue!Started(s).stop = "none"
<1> DEFINE d == [s EXCEPT !.consumer = TRUE]
<1>1. Ordered(s) /\ s \in Queue
  BY DEF QueueOK, Ordered
<1>2. /\ d \in Queue /\ d.published = s.published /\ d.pending = s.pending /\ d.handed = s.handed
      /\ d.dispatching = s.dispatching /\ d.running = s.running /\ d.stop = s.stop
  BY <1>1 DEF Queue
<1>3. WorkQueue!Started(s) = WorkQueue!StartDispatchLoop(d)
  BY DEF WorkQueue!Started
<1> HIDE DEF d
<1>4. Ordered(d)
  BY <1>1, <1>2, OrderedStays
<1>5. QueueOK(d)
  BY <1>2, <1>4 DEF QueueOK
<1>6. QED BY <1>2, <1>3, <1>5, StartDispatchLoopOK

LEMMA StoppedOK ==
  ASSUME NEW s, QueueOK(s)
  PROVE  QueueOK(WorkQueue!Stopped(s))
<1> DEFINE after == IF s.dispatching THEN "waiting" ELSE "returned"
           d == [s EXCEPT !.consumer = FALSE, !.stop = after]
<1>1. Ordered(s) /\ s \in Queue
  BY DEF QueueOK, Ordered
<1>2. s.running \in {0, 1} /\ after \in {"none", "waiting", "returned"}
  BY <1>1, QueueTypes
<1>3. after = "returned" => s.running = 0
  BY <1>2 DEF QueueOK
<1>4. WorkQueue!Stopped(s) = d
  BY DEF WorkQueue!Stopped
<1> HIDE DEF after
<1>5. /\ d \in Queue /\ d.published = s.published /\ d.pending = s.pending /\ d.handed = s.handed
      /\ d.dispatching = s.dispatching /\ d.running = s.running /\ d.stop = after /\ ~d.consumer
  BY <1>1, <1>2 DEF Queue
<1> HIDE DEF d
<1>6. Ordered(d)
  BY <1>1, <1>5, OrderedStays
<1>7. QED BY <1>3, <1>4, <1>5, <1>6 DEF QueueOK

LEMMA SettlesOK ==
  ASSUME NEW s, QueueOK(s), s.running > 0
  PROVE  LET d == IF s.consumer /\ s.pending # <<>> THEN WorkQueue!Take(s) ELSE WorkQueue!EndLoop(s)
         IN  QueueOK(d) /\ (s.stop \in {"none", "returned"} => d.stop = s.stop)
<1>1. CASE s.consumer /\ s.pending # <<>>
  <2> DEFINE d == WorkQueue!Take(s)
  <2>1. Ordered(s)
    BY DEF QueueOK
  <2>2. /\ Ordered(d) /\ d.consumer = s.consumer /\ d.dispatching = s.dispatching
        /\ d.running = s.running /\ d.stop = s.stop
    BY <1>1, <2>1, TakeOK
  <2> HIDE DEF d
  <2>3. QueueOK(d)
    BY <2>2 DEF QueueOK
  <2>4. QED BY <1>1, <2>2, <2>3 DEF d
<1>2. CASE ~(s.consumer /\ s.pending # <<>>)
  BY <1>2, EndLoopOK
<1>3. QED BY <1>1, <1>2

-----------------------------------------------------------------------------
\* Sequences: a batch and the rest are the buffer, and what was begun is a prefix.
LEMMA BatchAndRest ==
  ASSUME NEW p \in Seq(Nat), BatchSize \in Nat \ {0}
  PROVE  /\ Batch(p).batch \in Seq(Nat) /\ Batch(p).rest \in Seq(Nat)
         /\ Batch(p).batch \o Batch(p).rest = p
<1> DEFINE size == IF Len(p) < BatchSize THEN Len(p) ELSE BatchSize
<1>1. size \in 0..Len(p) /\ Len(p) \in Nat
  OBVIOUS
<1>2. Batch(p).batch = SubSeq(p, 1, size) /\ Batch(p).rest = SubSeq(p, size + 1, Len(p))
  BY DEF Batch
<1> HIDE DEF size
<1>3. SubSeq(p, 1, size) \in Seq(Nat) /\ SubSeq(p, size + 1, Len(p)) \in Seq(Nat)
  BY <1>1
<1>4. SubSeq(p, 1, size) \o SubSeq(p, size + 1, Len(p)) = SubSeq(p, 1, Len(p))
  <2>1. 1 \in 1..Len(p) + 1 /\ size \in (1 - 1)..Len(p) /\ Len(p) \in size..Len(p)
    BY <1>1
  <2>2. QED BY ONLY <2>1, p \in Seq(Nat), ConcatAdjacentSubSeq
<1>5. SubSeq(p, 1, Len(p)) = p
  BY <1>1
<1>6. QED BY <1>2, <1>3, <1>4, <1>5

LEMMA ConcatOfThree ==
  \A s, t, u \in Seq(Nat) : (s \o t) \o u = s \o (t \o u)
<1> TAKE s, t, u \in Seq(Nat)
<1> QED BY ONLY s \in Seq(Nat), t \in Seq(Nat), u \in Seq(Nat), ConcatAssociative, SMTT(30)

LEMMA PrefixOfConcat ==
  ASSUME NEW s \in Seq(Nat), NEW t \in Seq(Nat)
  PROVE  IsPrefix(s, s \o t)
<1>1. /\ s \o t \in Seq(Nat) /\ Len(s \o t) = Len(s) + Len(t)
      /\ \A i \in 1..Len(s) : (s \o t)[i] = s[i]
  BY ConcatProperties
<1>2. SubSeq(s, 1, Len(s)) = SubSeq(s \o t, 1, Len(s))
  BY <1>1
<1>3. QED BY <1>1, <1>2 DEF IsPrefix

-----------------------------------------------------------------------------
\* The initial states.
LEMMA InitInv == RuntimeInit => IInv
<1> SUFFICES ASSUME RuntimeInit
             PROVE  IInv
  OBVIOUS
<1> DEFINE s == WorkQueue!EmptyQueue
<1>1. /\ s \in Queue /\ s.published = 0 /\ s.pending = <<>> /\ s.handed = <<>>
      /\ ~s.consumer /\ ~s.dispatching /\ s.running = 0 /\ s.stop = "none"
  BY DEF WorkQueue!EmptyQueue, Queue
<1>2. queues = [q \in Publishers |-> s] /\ host = "built" /\ Init
  BY DEF RuntimeInit, WorkQueue!Init
<1> HIDE DEF s
<1>3. Ordered(s)
  BY <1>1 DEF Ordered
<1>4. QueueOK(s)
  BY <1>1, <1>3 DEF QueueOK
<1>5. QueuesOK
  BY <1>1, <1>2, <1>4 DEF QueuesOK
<1>6. PublisherOK
  <2>1. <<>> \in Seq(Nat) /\ <<>> \o <<>> = <<>>
    BY ConcatEmptySeq
  <2>2. QED BY <1>2, <2>1 DEF PublisherOK, Init, Hosts, loop
<1>7. QED BY <1>5, <1>6 DEF IInv

-----------------------------------------------------------------------------
\* What a step does to one side when it leaves the other alone.
LEMMA QueuesKept ==
  ASSUME QueuesOK, UNCHANGED <<queues, host>>
  PROVE  QueuesOK'
BY DEF QueuesOK

LEMMA PublisherKept ==
  ASSUME PublisherOK, UNCHANGED vars, UNCHANGED host
  PROVE  PublisherOK'
BY DEF PublisherOK, vars, loop

\* A queue changes to one that is in order and no further or nearer its stop.
LEMMA OneQueueChanges ==
  ASSUME QueuesOK, NEW q \in Publishers, NEW d, QueueOK(d),
         queues[q].stop \in {"none", "returned"} => d.stop = queues[q].stop,
         queues' = [queues EXCEPT ![q] = d], UNCHANGED host
  PROVE  QueuesOK'
<1>1. queues' = [u \in Publishers |-> IF u = q THEN d ELSE queues[u]]
  BY DEF QueuesOK
<1>2. QED BY <1>1 DEF QueuesOK

LEMMA PublishKeepsQueues ==
  ASSUME QueuesOK, NEW q \in Publishers, WorkQueue!Publish(q), UNCHANGED host
  PROVE  QueuesOK'
<1> DEFINE c == [queues[q] EXCEPT !.published = @ + 1,
                                  !.pending = Append(@, queues[q].published + 1)]
           d == WorkQueue!StartDispatchLoop(c)
<1>1. QueueOK(queues[q])
  BY DEF QueuesOK
<1>2. QueueOK(c) /\ c.stop = queues[q].stop
  BY <1>1, PublishedOK
<1>3. queues' = [queues EXCEPT ![q] = d]
  BY DEF WorkQueue!Publish
<1> HIDE DEF c
<1>4. QueueOK(d) /\ d.stop = c.stop
  BY <1>2, StartDispatchLoopOK
<1> HIDE DEF d
<1>5. QED BY <1>2, <1>3, <1>4, OneQueueChanges

LEMMA SettleKeepsQueues ==
  ASSUME QueuesOK, NEW q \in Publishers, WorkQueue!HandlerSettles(q), UNCHANGED host
  PROVE  QueuesOK'
<1> DEFINE s == queues[q]
           d == IF s.consumer /\ s.pending # <<>> THEN WorkQueue!Take(s) ELSE WorkQueue!EndLoop(s)
<1>1. QueueOK(s) /\ s.running > 0 /\ queues' = [queues EXCEPT ![q] = d]
  BY DEF QueuesOK, WorkQueue!HandlerSettles
<1>2. QueueOK(d) /\ (s.stop \in {"none", "returned"} => d.stop = s.stop)
  BY <1>1, SettlesOK
<1> HIDE DEF d
<1>3. QED BY <1>1, <1>2, OneQueueChanges

-----------------------------------------------------------------------------
\* The steps of the publisher, one by one.
LEMMA PublishKeeps ==
  ASSUME PublisherOK, NEW w, Publish(w), UNCHANGED host
  PROVE  PublisherOK'
<1>1. /\ published \in Nat /\ published' = published + 1 /\ published + 1 \in Nat
      /\ accepted \in Seq(Nat) /\ pending \in Seq(Nat) /\ handed \in Seq(Nat)
      /\ stopping = "no" /\ ~abandoned
      /\ UNCHANGED <<handed, stopping, abandoned, host>>
  BY DEF PublisherOK, Publish
<1>2. handed \o pending = accepted
  BY <1>1 DEF PublisherOK
<1>3. CASE UNCHANGED <<accepted, pending, loop>>
  <2>1. drain' = "closing" /\ resting' = {} => pending' = <<>>
    BY <1>1, <1>3 DEF PublisherOK, Publish, loop
  <2>2. QED BY <1>1, <1>2, <1>3, <2>1 DEF PublisherOK
<1>4. CASE /\ accepted' = Append(accepted, published + 1)
           /\ pending' = Append(pending, published + 1)
           /\ IF Len(pending) + 1 >= BatchSize THEN StartDraining ELSE Arm
  <2>1. accepted' \in Seq(Nat) /\ pending' \in Seq(Nat)
    BY <1>1, <1>4
  <2>2. handed' \o pending' = accepted'
    <3>1. /\ accepted' = accepted \o <<published + 1>> /\ pending' = pending \o <<published + 1>>
          /\ <<published + 1>> \in Seq(Nat)
      <4>1. \A p \in Seq(Nat), n \in Nat : Append(p, n) = p \o <<n>> /\ <<n>> \in Seq(Nat)
        BY ONLY AppendIsConcat
      <4>2. QED BY <1>1, <1>4, <4>1, Zenon
    <3>2. handed \o (pending \o <<published + 1>>) = (handed \o pending) \o <<published + 1>>
      BY <1>1, <3>1, ConcatOfThree
    <3>3. QED BY <1>1, <1>2, <3>1, <3>2
  <2>3. drain' = "closing" => resting' # {}
    <3>1. drain' = "closing" => drain = "closing"
      BY <1>4 DEF StartDraining, Arm
    <3>2. QED BY <3>1 DEF Publish
  <2>4. QED BY <1>1, <2>1, <2>2, <2>3 DEF PublisherOK
<1>5. QED BY <1>3, <1>4 DEF Publish

LEMMA TimerKeeps ==
  ASSUME PublisherOK, TimerFires, UNCHANGED host
  PROVE  PublisherOK'
<1>1. drain' # "closing"
  BY DEF TimerFires, StartDraining
<1>2. QED BY <1>1 DEF PublisherOK, TimerFires

LEMMA NextBatchKeeps ==
  ASSUME SizesAssumption, PublisherOK, NextBatch, UNCHANGED host
  PROVE  PublisherOK'
<1>1. /\ accepted \in Seq(Nat) /\ pending \in Seq(Nat) /\ handed \in Seq(Nat)
      /\ UNCHANGED <<published, accepted, timer, resting, stopping, abandoned, host>>
  BY DEF PublisherOK, NextBatch
<1>2. CASE /\ GoesOn
           /\ handed' = handed \o Batch(pending).batch
           /\ pending' = Batch(pending).rest
           /\ drain' = "send"
  <2>1. /\ Batch(pending).batch \in Seq(Nat) /\ Batch(pending).rest \in Seq(Nat)
        /\ Batch(pending).batch \o Batch(pending).rest = pending
    BY <1>1, BatchAndRest DEF SizesAssumption
  <2>2. handed' \in Seq(Nat) /\ pending' \in Seq(Nat)
    BY <1>1, <1>2, <2>1, ConcatProperties
  <2>3. ~abandoned /\ pending # <<>> /\ stopping # "returned"
    BY <1>2 DEF GoesOn, PublisherOK
  <2>4. handed' \o pending' = accepted'
    <3>1. (handed \o Batch(pending).batch) \o Batch(pending).rest
            = handed \o (Batch(pending).batch \o Batch(pending).rest)
      BY <1>1, <2>1, ConcatOfThree
    <3>2. handed \o pending = accepted
      BY <2>3 DEF PublisherOK
    <3>3. QED BY <1>1, <1>2, <2>1, <3>1, <3>2, Zenon
  <2>5. QED BY <1>1, <1>2, <2>2, <2>3, <2>4 DEF PublisherOK
<1>3. CASE /\ ~GoesOn /\ pending' = <<>> /\ drain' = "closing" /\ UNCHANGED handed
  <2>1. CASE ~abandoned
    <3>1. pending = <<>>
      BY <1>3, <2>1 DEF GoesOn
    <3>2. QED BY <1>1, <1>3, <2>1, <3>1 DEF PublisherOK
  <2>2. CASE abandoned
    <3>1. IsPrefix(handed, accepted)
      BY <1>1, PrefixOfConcat DEF PublisherOK
    <3>2. <<>> \in Seq(Nat)
      OBVIOUS
    <3>3. QED BY <1>1, <1>3, <2>2, <3>1, <3>2 DEF PublisherOK
  <2>3. QED BY <2>1, <2>2
<1>4. QED BY <1>2, <1>3 DEF NextBatch

LEMMA LoopEndsKeeps ==
  ASSUME PublisherOK, LoopEnds, UNCHANGED host
  PROVE  PublisherOK'
<1>1. stopping = "waiting" => pending = <<>>
  BY DEF PublisherOK, LoopEnds
<1>2. QED BY <1>1 DEF PublisherOK, LoopEnds

LEMMA StopKeeps ==
  ASSUME PublisherOK, Stop, host' = "draining"
  PROVE  PublisherOK'
<1>1. drain' = "closing" => pending' = <<>>
  BY DEF PublisherOK, Stop, StartDraining
<1>2. QED BY <1>1 DEF PublisherOK, Stop, Hosts

LEMMA DeadlineKeeps ==
  ASSUME PublisherOK, StopDeadline, UNCHANGED host
  PROVE  PublisherOK'
BY DEF PublisherOK, StopDeadline, loop

LEMMA PublisherRunsKeeps ==
  ASSUME SizesAssumption, PublisherOK, PublisherRuns
  PROVE  PublisherOK'
<1>1. CASE TimerFires
  BY <1>1, TimerKeeps DEF PublisherRuns
<1>2. CASE Resume \/ SendSettles
  BY <1>2, NextBatchKeeps DEF PublisherRuns, Resume, SendSettles
<1>3. CASE LoopEnds
  BY <1>3, LoopEndsKeeps DEF PublisherRuns
<1>4. CASE StopDeadline
  BY <1>4, DeadlineKeeps DEF PublisherRuns
<1>5. QED BY <1>1, <1>2, <1>3, <1>4 DEF PublisherRuns

-----------------------------------------------------------------------------
\* Start and stop of the runtime: every queue at once.
LEMMA StartKeeps ==
  ASSUME IInv, StartRuntime
  PROVE  IInv'
<1>1. \A q \in Publishers : QueueOK(queues[q]) /\ queues[q].stop = "none"
  BY DEF IInv, QueuesOK, StartRuntime
<1>2. \A q \in Publishers :
        QueueOK(WorkQueue!Started(queues[q])) /\ WorkQueue!Started(queues[q]).stop = "none"
  BY <1>1, StartedOK
<1>3. /\ queues' = [q \in Publishers |-> WorkQueue!Started(queues[q])]
      /\ \A q \in Publishers : queues'[q] = WorkQueue!Started(queues[q])
      /\ host' = "started"
  BY DEF StartRuntime
<1>4. QueuesOK'
  BY <1>2, <1>3 DEF QueuesOK
<1>5. PublisherOK'
  BY DEF IInv, PublisherOK, StartRuntime, vars, loop, Hosts
<1>6. QED BY <1>4, <1>5 DEF IInv

LEMMA StopWorkersKeeps ==
  ASSUME IInv, StopWorkers
  PROVE  IInv'
<1>1. \A q \in Publishers : QueueOK(WorkQueue!Stopped(queues[q]))
  BY StoppedOK DEF IInv, QueuesOK
<1>2. /\ queues' = [q \in Publishers |-> WorkQueue!Stopped(queues[q])]
      /\ \A q \in Publishers : queues'[q] = WorkQueue!Stopped(queues[q])
      /\ host' = "stopping"
  BY DEF StopWorkers
<1>3. QueuesOK'
  BY <1>1, <1>2 DEF QueuesOK
<1>4. PublisherOK'
  BY DEF IInv, PublisherOK, StopWorkers, vars, loop, Hosts
<1>5. QED BY <1>3, <1>4 DEF IInv

LEMMA StopPublisherKeeps ==
  ASSUME IInv, StopPublisher
  PROVE  IInv'
<1>1. QueuesOK'
  BY DEF IInv, QueuesOK, StopPublisher, WorkersStopped
<1>2. PublisherOK'
  BY StopKeeps DEF IInv, StopPublisher
<1>3. QED BY <1>1, <1>2 DEF IInv

LEMMA StoppedKeeps ==
  ASSUME IInv, RuntimeStopped
  PROVE  IInv'
<1>1. QueuesOK'
  BY DEF IInv, QueuesOK, RuntimeStopped
<1>2. PublisherOK'
  BY DEF IInv, PublisherOK, RuntimeStopped, vars, loop, Hosts
<1>3. QED BY <1>1, <1>2 DEF IInv

-----------------------------------------------------------------------------
\* Every step.
LEMMA NextInv ==
  ASSUME IInv, [RuntimeNext]_runtimeVars
  PROVE  IInv'
<1>1. CASE StartExecution
  BY <1>1, WorkersAssumption, PublishKeepsQueues, PublisherKept DEF IInv, StartExecution
<1>2. CASE StartRuntime
  BY <1>2, StartKeeps
<1>3. CASE StopWorkers
  BY <1>3, StopWorkersKeeps
<1>4. CASE StopPublisher
  BY <1>4, StopPublisherKeeps
<1>5. CASE RuntimeStopped
  BY <1>5, StoppedKeeps
<1>6. ASSUME NEW w \in Publishers, HandlerPublishes(w)
      PROVE  IInv'
  <2>1. PICK q \in Feeds(w) : WorkQueue!Publish(q)
    BY <1>6 DEF HandlerPublishes
  <2>2. q \in Publishers
    BY WorkersAssumption DEF Feeds
  <2>3. UNCHANGED <<vars, host>>
    BY <1>6 DEF HandlerPublishes
  <2>4. QueuesOK'
    BY <2>1, <2>2, <2>3, PublishKeepsQueues DEF IInv
  <2>5. PublisherOK'
    BY <2>3, PublisherKept DEF IInv
  <2>6. QED BY <2>4, <2>5 DEF IInv
<1>7. ASSUME NEW w \in Publishers, HandlerEmits(w)
      PROVE  IInv'
  BY <1>7, PublishKeeps, QueuesKept DEF IInv, HandlerEmits
<1>8. ASSUME NEW w \in Publishers, HandlerSettles(w)
      PROVE  IInv'
  BY <1>8, SettleKeepsQueues, PublisherKept DEF IInv, HandlerSettles
<1>9. CASE PublisherRuns
  <2>1. UNCHANGED <<queues, host>>
    BY <1>9 DEF PublisherRuns
  <2>2. QED BY <1>9, <2>1, SizesAssumption, PublisherRunsKeeps, QueuesKept DEF IInv
<1>10. CASE UNCHANGED runtimeVars
  BY <1>10, QueuesKept, PublisherKept DEF IInv, runtimeVars
<1>11. QED BY <1>1, <1>2, <1>3, <1>4, <1>5, <1>6, <1>7, <1>8, <1>9, <1>10 DEF RuntimeNext

\* The invariant, in every reachable state.
THEOREM InvHolds == RuntimeSpec => []IInv
<1>1. RuntimeInit => IInv
  BY InitInv
<1>2. IInv /\ [RuntimeNext]_runtimeVars => IInv'
  BY NextInv
<1>3. QED BY <1>1, <1>2, PTL DEF RuntimeSpec

-----------------------------------------------------------------------------
\* A queue whose messages are in order has handed over and kept exactly what was
\* published.
LEMMA OrderedInFull ==
  ASSUME NEW s, Ordered(s)
  PROVE  s.handed \o s.pending = [n \in 1..s.published |-> n]
<1> DEFINE m == Len(s.handed)
           both == s.handed \o s.pending
<1>1. /\ s.pending \in Seq(Nat) /\ s.handed \in Seq(Nat) /\ s.published \in Nat
      /\ m \in Nat /\ Len(s.pending) \in Nat
  <2>1. s \in Queue
    BY DEF Ordered
  <2>2. QED BY <2>1, QueueTypes
<1>2. /\ m + Len(s.pending) = s.published
      /\ \A i \in 1..m : s.handed[i] = i
      /\ \A i \in 1..Len(s.pending) : s.pending[i] = m + i
  BY DEF Ordered
<1>3. /\ both \in Seq(Nat) /\ Len(both) = s.published
      /\ \A i \in 1..s.published : both[i] = IF i <= m THEN s.handed[i] ELSE s.pending[i - m]
  BY <1>1, <1>2, ConcatProperties
<1> HIDE DEF m, both
<1>4. ASSUME NEW i \in 1..s.published
      PROVE  both[i] = i
  <2>1. CASE i <= m
    <3>1. i \in 1..m
      BY <1>1, <2>1
    <3>2. QED BY <1>2, <1>3, <2>1, <3>1
  <2>2. CASE ~(i <= m)
    <3>1. i - m \in 1..Len(s.pending) /\ m + (i - m) = i
      BY <1>1, <1>2, <2>2
    <3>2. QED BY <1>2, <1>3, <2>2, <3>1
  <2>3. QED BY <2>1, <2>2
<1>5. both = [i \in 1..s.published |-> both[i]]
  BY <1>3
<1>6. both = [n \in 1..s.published |-> n]
  BY <1>4, <1>5, Zenon
<1>7. QED BY <1>6 DEF both

\* Every message handed to a handler was published, in the order of publication and
\* once, and no worker runs two handlers at a time: the dispatch loop of the in-memory
\* queue, whatever is published from whichever side and however handlers end.
THEOREM MessagesOnceInOrder == RuntimeSpec => []HandedOnceInOrder
<1>1. IInv => HandedOnceInOrder
  <2> SUFFICES ASSUME IInv, NEW q \in Publishers
               PROVE  /\ queues[q].handed \o queues[q].pending = [n \in 1..queues[q].published |-> n]
                      /\ queues[q].running <= 1
    BY DEF HandedOnceInOrder
  <2>1. Ordered(queues[q])
    BY DEF IInv, QueuesOK, QueueOK
  <2>2. queues[q].running <= 1
    BY <2>1, QueueTypes DEF Ordered
  <2>3. queues[q].handed \o queues[q].pending = [n \in 1..queues[q].published |-> n]
    BY <2>1, OrderedInFull
  <2>4. QED BY <2>2, <2>3
<1>2. QED BY <1>1, InvHolds, PTL

\* The runtime tells the publisher to stop only when both workers are quiet, so no
\* handler can report an event to a publisher that is stopping.
THEOREM WorkersQuietFirst == RuntimeSpec => []QuietBeforeDraining
<1>1. IInv => QuietBeforeDraining
  <2> SUFFICES ASSUME IInv, stopping # "no", NEW w \in Publishers
               PROVE  ~HandlerRuns(w)
    BY DEF QuietBeforeDraining
  <2>1. queues[w].running = 0
    BY DEF IInv, QueuesOK, QueueOK, PublisherOK
  <2>2. QED BY <2>1 DEF HandlerRuns
<1>2. QED BY <1>1, InvHolds, PTL

\* When the runtime has stopped, the host has been handed every event the buffer took,
\* in order, unless the publisher's stop gave up on a callback; then what it was handed
\* and what is left are a prefix.
THEOREM NoEventLost == RuntimeSpec => []LastEventsReachHost
<1>1. IInv => LastEventsReachHost
  <2> SUFFICES ASSUME IInv
               PROVE  LastEventsReachHost
    OBVIOUS
  <2>1. accepted \in Seq(Nat) /\ handed \in Seq(Nat) /\ pending \in Seq(Nat)
    BY DEF IInv, PublisherOK
  <2>2. CASE handed \o pending = accepted
    <3>1. IsPrefix(handed \o pending, accepted)
      <4>1. <<>> \in Seq(Nat)
        OBVIOUS
      <4>2. accepted \o <<>> = accepted
        BY ONLY <2>1, ConcatEmptySeq
      <4>3. IsPrefix(accepted, accepted \o <<>>)
        BY <2>1, <4>1, PrefixOfConcat, Zenon
      <4>4. QED BY <2>2, <4>2, <4>3
    <3>2. ~abandoned /\ host = "stopped" => pending = <<>>
      BY DEF IInv, PublisherOK
    <3>3. QED BY <2>2, <3>1, <3>2 DEF LastEventsReachHost
  <2>3. CASE abandoned /\ pending = <<>> /\ IsPrefix(handed, accepted)
    <3>1. handed \o pending = handed
      BY <2>1, <2>3, ConcatEmptySeq
    <3>2. QED BY <2>3, <3>1 DEF LastEventsReachHost
  <2>4. QED BY <2>2, <2>3 DEF IInv, PublisherOK
<1>2. QED BY <1>1, InvHolds, PTL

\* The host's callback is not called once the publisher's stop has returned: the loop
\* that was given up on throws away what is left, and a timer that is still armed finds
\* an empty buffer.
THEOREM CallbackSilent == RuntimeSpec => SilentOnceStopped
<1>1. IInv /\ [RuntimeNext]_runtimeVars => [stopping = "returned" => handed' = handed]_vars
  <2> SUFFICES ASSUME IInv, [RuntimeNext]_runtimeVars, stopping = "returned"
               PROVE  handed' = handed
    BY DEF vars
  <2>1. ~GoesOn
    BY DEF IInv, PublisherOK, GoesOn
  <2>2. CASE PublisherRuns
    <3>1. CASE TimerFires \/ LoopEnds \/ StopDeadline
      BY <3>1 DEF TimerFires, LoopEnds, StopDeadline
    <3>2. CASE Resume \/ SendSettles
      BY <2>1, <3>2 DEF Resume, SendSettles, NextBatch
    <3>3. QED BY <2>2, <3>1, <3>2 DEF PublisherRuns
  <2>3. CASE UNCHANGED vars
    BY <2>3 DEF vars
  <2>4. CASE StopPublisher \/ \E w \in Publishers : HandlerEmits(w)
    BY <2>4 DEF StopPublisher, Stop, HandlerEmits, Publish
  <2>5. QED
    BY <2>2, <2>3, <2>4 DEF RuntimeNext, runtimeVars, StartExecution, StartRuntime, StopWorkers,
       RuntimeStopped, HandlerPublishes, HandlerSettles
<1>2. QED BY <1>1, InvHolds, PTL DEF RuntimeSpec, SilentOnceStopped
=============================================================================
