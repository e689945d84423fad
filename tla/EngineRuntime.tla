--------------------------- MODULE EngineRuntime ---------------------------
(***************************************************************************)
(* The engine's runtime (packages/@n8n/engine/src/runtime/                 *)
(* create-engine-runtime.ts): two workers, each fed by a work queue, the   *)
(* lifecycle event publisher their handlers share, the API that publishes  *)
(* the first message of an execution, and the order of start and stop.     *)
(*                                                                         *)
(* What a handler does is left open: while it runs it may publish messages *)
(* to the queues its worker knows, and events, and then it settles.        *)
(***************************************************************************)
EXTENDS EngineEventPublisher

CONSTANT MaxMessages   \* bound: messages published to one queue

\* The workers of createEngineRuntime, each with a queue of its name.
ASSUME WorkersAssumption == {"orchestration", "step"} \subseteq Publishers

VARIABLES
  queues,   \* the work queues of the two workers
  host      \* what the host has called: "built", "started", "stopping", "draining" or "stopped"

runtimeVars == <<vars, queues, host>>

WorkQueue == INSTANCE EngineWorkQueue WITH Queues <- Publishers

RuntimeInit == Init /\ WorkQueue!Init /\ host = "built"

\* The queues a worker's handlers publish to: a step worker knows the orchestration
\* queue alone.
Feeds(w) == IF w = "step" THEN {"orchestration"} ELSE {"orchestration", "step"}

HandlerRuns(w) == queues[w].running > 0

\* StartExecutionService, which the server may call whatever the host has called.
StartExecution ==
  /\ WorkQueue!Publish("orchestration")
  /\ UNCHANGED <<vars, host>>

HandlerPublishes(w) ==
  /\ HandlerRuns(w) /\ \E q \in Feeds(w) : WorkQueue!Publish(q)
  /\ UNCHANGED <<vars, host>>

HandlerEmits(w) ==
  /\ HandlerRuns(w) /\ Publish(w)
  /\ UNCHANGED <<queues, host>>

HandlerSettles(w) ==
  /\ WorkQueue!HandlerSettles(w)
  /\ UNCHANGED <<vars, host>>

StartRuntime ==
  /\ host = "built" /\ host' = "started"
  /\ queues' = [q \in Publishers |-> WorkQueue!Started(queues[q])]
  /\ UNCHANGED vars

\* stop(): both workers at once.
StopWorkers ==
  /\ host = "started" /\ host' = "stopping"
  /\ queues' = [q \in Publishers |-> WorkQueue!Stopped(queues[q])]
  /\ UNCHANGED vars

WorkersStopped == \A q \in Publishers : queues[q].stop = "returned"

\* Then the publisher.
StopPublisher ==
  /\ host = "stopping" /\ WorkersStopped
  /\ Stop /\ host' = "draining"
  /\ UNCHANGED queues

RuntimeStopped ==
  /\ host = "draining" /\ stopping = "returned"
  /\ host' = "stopped"
  /\ UNCHANGED <<vars, queues>>

PublisherRuns ==
  /\ TimerFires \/ Resume \/ SendSettles \/ LoopEnds \/ StopDeadline
  /\ UNCHANGED <<queues, host>>

RuntimeNext ==
  \/ StartExecution \/ StartRuntime \/ StopWorkers \/ StopPublisher \/ RuntimeStopped
  \/ \E w \in Publishers : HandlerPublishes(w) \/ HandlerEmits(w) \/ HandlerSettles(w)
  \/ PublisherRuns

PublisherGoesOn ==
  /\ TimerFires \/ Resume \/ SendSettles \/ LoopEnds
  /\ UNCHANGED <<queues, host>>

\* Handlers settle, microtasks and timers run, and a callback has a deadline.
RuntimeSpec ==
  /\ RuntimeInit /\ [][RuntimeNext]_runtimeVars
  /\ WF_runtimeVars(PublisherGoesOn) /\ WF_runtimeVars(StopPublisher) /\ WF_runtimeVars(RuntimeStopped)
  /\ \A w \in Publishers : WF_runtimeVars(HandlerSettles(w))

-----------------------------------------------------------------------------
\* Every message is handed over once, in the order of publication, or still waits its
\* turn, one handler call of a worker at a time ("dispatches messages sequentially").
HandedOnceInOrder ==
  \A q \in Publishers :
    LET s == queues[q]
    IN  s.handed \o s.pending = [n \in 1..s.published |-> n] /\ s.running <= 1

\* No handler runs once the publisher is told to stop ("After the workers are quiet, so
\* the last events still reach the host").
QuietBeforeDraining == stopping # "no" => \A w \in Publishers : ~HandlerRuns(w)

\* When stop() of the runtime has returned, everything the handlers reported has been
\* handed to the host, unless the host outlived the deadline; then what is missing is a
\* tail ("in the order the events were produced").
LastEventsReachHost ==
  IF abandoned THEN IsPrefix(handed \o pending, accepted)
  ELSE handed \o pending = accepted /\ (host = "stopped" => pending = <<>>)

\* stop() of the runtime returns, with messages behind a handler, a hung callback and a
\* backlog alike.
RuntimeStops == host = "stopping" ~> host = "stopped"

\* Whatever is published while the workers are up is handed over, also what was
\* published before they came and behind handlers that throw.
MessagesAreConsumed ==
  \A q \in Publishers :
    queues[q].pending # <<>> /\ host = "started" ~> queues[q].pending = <<>> \/ host # "started"
=============================================================================
