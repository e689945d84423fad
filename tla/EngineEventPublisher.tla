------------------------ MODULE EngineEventPublisher ------------------------
(***************************************************************************)
(* The batching lifecycle event publisher (packages/@n8n/engine/src/       *)
(* lifecycle-events/batching-lifecycle-event-publisher.ts): a buffer of    *)
(* bounded size, a flush timer, a drain loop that hands batches to the     *)
(* host's callback, and a stop with a deadline.                            *)
(*                                                                         *)
(* The loop is recorded as running until the reaction to its promise has   *)
(* run ("closing"), so an event may be published between its last look at  *)
(* the buffer and that moment.  Only microtasks run then: no timer fires,  *)
(* and a worker that publishes does so once, as it has to be resumed       *)
(* before it can go on.  The n-th event published is the number n.         *)
(***************************************************************************)
EXTENDS Naturals, FiniteSets, SequencesExt

CONSTANTS
  Publishers,    \* the engine's workers
  BatchSize,     \* events a batch holds at most
  MaxPending,    \* events the buffer holds at most
  MaxEvents      \* bound: events published in all

\* createEngineRuntime has two workers, and a batch holds 500 events.
ASSUME SizesAssumption ==
  /\ {BatchSize, MaxPending, MaxEvents} \subseteq Nat \ {0}
  /\ IsFiniteSet(Publishers) /\ Cardinality(Publishers) < BatchSize

VARIABLES
  published,   \* how many events were published
  accepted,    \* the events taken into the buffer
  pending,     \* the buffer
  handed,      \* the events handed to the callback, in order
  dropped,     \* the events dropped at the cap and not yet reported
  timer,       \* whether the flush timer is armed
  drain,       \* where the drain loop is
  resting,     \* the workers that published while the loop was closing
  stopping,    \* what stop() has come to
  abandoned    \* whether stop() gave up waiting

loop == <<timer, drain>>
vars == <<published, accepted, pending, handed, dropped, loop, resting, stopping, abandoned>>

Init ==
  /\ published = 0 /\ accepted = <<>> /\ pending = <<>> /\ handed = <<>> /\ dropped = 0
  /\ timer = FALSE /\ drain = "none" /\ resting = {}
  /\ stopping = "no" /\ abandoned = FALSE

Full(p) == Len(p) >= MaxPending

StartDraining ==
  /\ timer' = FALSE
  /\ drain' = IF drain = "none" THEN "yield" ELSE drain

\* Mutated: the timer is not armed while the loop is recorded.
ArmWhenIdle == timer' = (drain = "none") /\ UNCHANGED drain

Arm == timer' = TRUE /\ UNCHANGED drain

Publish(w) ==
  /\ stopping = "no"
  /\ published < MaxEvents /\ w \notin resting
  /\ published' = published + 1
  /\ resting' = IF drain = "closing" THEN resting \cup {w} ELSE resting
  /\ \/ /\ Full(pending)
        /\ dropped' = dropped + 1
        /\ UNCHANGED <<accepted, pending, loop>>
     \/ /\ ~Full(pending)
        /\ accepted' = Append(accepted, published + 1)
        /\ pending' = Append(pending, published + 1)
        /\ IF Len(pending) + 1 >= BatchSize THEN StartDraining ELSE Arm
        /\ UNCHANGED dropped
  /\ UNCHANGED <<handed, stopping, abandoned>>

TimerFires ==
  /\ timer /\ drain \in {"none", "send"}
  /\ StartDraining
  /\ UNCHANGED <<published, accepted, pending, handed, dropped, resting, stopping, abandoned>>

\* Mutated: the newest events go first.
BatchOfLast(p) ==
  LET kept == IF Len(p) < BatchSize THEN 0 ELSE Len(p) - BatchSize
  IN  [batch |-> SubSeq(p, kept + 1, Len(p)), rest |-> SubSeq(p, 1, kept)]

\* The first events of the buffer, cut off it.
Batch(p) ==
  LET size == IF Len(p) < BatchSize THEN Len(p) ELSE BatchSize
  IN  [batch |-> SubSeq(p, 1, size), rest |-> SubSeq(p, size + 1, Len(p))]

\* Mutated: the loop goes on after stop() has given up.
GoesOnAfterAll == pending # <<>>

GoesOn == pending # <<>> /\ ~abandoned

\* The loop hands over the next batch, or leaves and throws away what is left.
NextBatch ==
  /\ \/ /\ GoesOn
        /\ handed' = handed \o Batch(pending).batch
        /\ pending' = Batch(pending).rest
        /\ dropped' = 0
        /\ drain' = "send"
     \/ /\ ~GoesOn
        /\ pending' = <<>>
        /\ drain' = "closing"
        /\ UNCHANGED <<handed, dropped>>
  /\ UNCHANGED <<published, accepted, timer, resting, stopping, abandoned>>

Resume == drain = "yield" /\ NextBatch

\* The callback returns, throws or outlives its deadline.
SendSettles == drain = "send" /\ NextBatch

\* The reaction to the loop's promise, which stop() waits for.
LoopEnds ==
  /\ drain = "closing"
  /\ drain' = "none"
  /\ resting' = {}
  /\ stopping' = IF stopping = "waiting" THEN "returned" ELSE stopping
  /\ dropped' = IF stopping = "waiting" THEN 0 ELSE dropped
  /\ UNCHANGED <<published, accepted, pending, handed, timer, abandoned>>

\* Called once the workers are quiet.
Stop ==
  /\ stopping = "no" /\ resting = {}
  /\ stopping' = "waiting"
  /\ StartDraining
  /\ UNCHANGED <<published, accepted, pending, handed, dropped, resting, abandoned>>

\* The deadline of stop(): it gives up on a callback under way.
StopDeadline ==
  /\ stopping = "waiting" /\ drain = "send"
  /\ stopping' = "returned" /\ abandoned' = TRUE /\ dropped' = 0
  /\ UNCHANGED <<published, accepted, pending, handed, loop, resting>>

-----------------------------------------------------------------------------
\* Once stop() has returned the callback is not called any more ("The loop then
\* abandons what is left").
SilentOnceStopped == [][stopping = "returned" => handed' = handed]_vars

\* No event is stranded: each leaves the buffer, also one published as the drain
\* loop ends.
EveryEventLeaves == \A n \in 1..MaxEvents : n \in ToSet(pending) ~> n \notin ToSet(pending)
=============================================================================
