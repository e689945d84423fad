-------------------------- MODULE EngineWorkQueue --------------------------
(***************************************************************************)
(* The in-memory work queues (packages/@n8n/engine/src/queue/              *)
(* in-memory-work-queue.ts): publish, start and stop against the dispatch  *)
(* loop, which yields only while a handler runs.  Everything between two   *)
(* awaits is one step.  The n-th message published to a queue is the       *)
(* number n.                                                               *)
(***************************************************************************)
EXTENDS Naturals, Sequences

CONSTANTS
  Queues,        \* the queues, each with one consumer
  MaxMessages    \* bound: messages published to one queue

\* For each queue: how many messages were published, those that wait, those handed to a
\* handler in order; whether a handler is registered, whether the dispatch loop runs,
\* the handler calls under way; and what stop() has come to.
VARIABLE queues

EmptyQueue ==
  [published |-> 0, pending |-> <<>>, handed |-> <<>>,
   consumer |-> FALSE, dispatching |-> FALSE, running |-> 0, stop |-> "none"]

Init == queues = [q \in Queues |-> EmptyQueue]

\* The loop cuts the first message off and calls the handler with it.
Take(s) == [s EXCEPT !.pending = Tail(@), !.handed = Append(@, Head(s.pending))]

\* Mutated: a loop that already runs is not noticed.
StartAnotherLoop(s) ==
  IF s.consumer /\ s.pending # <<>>
  THEN [Take(s) EXCEPT !.dispatching = TRUE, !.running = @ + 1]
  ELSE s

StartDispatchLoop(s) ==
  IF ~s.dispatching /\ s.consumer /\ s.pending # <<>>
  THEN [Take(s) EXCEPT !.dispatching = TRUE, !.running = @ + 1]
  ELSE s

Publish(q) ==
  LET s == queues[q] IN
  /\ s.published < MaxMessages
  /\ queues' = [queues EXCEPT ![q] =
       StartDispatchLoop([s EXCEPT !.published = @ + 1, !.pending = Append(@, s.published + 1)])]

Started(s) == StartDispatchLoop([s EXCEPT !.consumer = TRUE])

\* Mutated: the message in flight is not awaited.
StoppedAtOnce(s) == [s EXCEPT !.consumer = FALSE, !.stop = "returned"]

Stopped(s) == [s EXCEPT !.consumer = FALSE, !.stop = IF s.dispatching THEN "waiting" ELSE "returned"]

\* Mutated: the waiters are not told.
EndLoopSilently(s) == [s EXCEPT !.dispatching = FALSE, !.running = @ - 1]

EndLoop(s) ==
  [s EXCEPT !.dispatching = FALSE, !.running = @ - 1,
            !.stop = IF @ = "waiting" THEN "returned" ELSE @]

\* Mutated: the loop ends with the handler that throws.
HandlerSettlesOrBreaks(q) ==
  LET s == queues[q] IN
  /\ s.running > 0
  /\ \/ queues' = [queues EXCEPT ![q] = EndLoop(s)]
     \/ s.consumer /\ s.pending # <<>> /\ queues' = [queues EXCEPT ![q] = Take(s)]

\* A handler returns or throws, the error contained; the loop goes on with the next
\* message as long as there is a consumer.
HandlerSettles(q) ==
  LET s == queues[q] IN
  /\ s.running > 0
  /\ queues' = [queues EXCEPT ![q] = IF s.consumer /\ s.pending # <<>> THEN Take(s) ELSE EndLoop(s)]
=============================================================================
