------------------------- MODULE WaitTrackingProofs -------------------------
(***************************************************************************)
(* Proofs about WaitTracking, for any number of mains, executions, waits   *)
(* and takeovers: an execution is never run twice at a time.               *)
(***************************************************************************)
EXTENDS WaitTracking, TLAPS

\* The types, split by whom the variables belong to.
ExecutionsOK ==
  /\ status \in [Executions -> {"waiting", "running", "ended"}]
  /\ wait \in [Executions -> 1..MaxWaits]
  /\ time \in [Waits -> {"far", "soon", "over"}]
  /\ copies \in [Executions -> Nat]
  /\ canceling \subseteq Executions

TrackerOK ==
  /\ polls \in [Hosts -> SUBSET SUBSET Waits] /\ timers \in [Hosts -> SUBSET Waits]
  /\ listed \in [Hosts -> SUBSET Executions] /\ resumes \in [Hosts -> SUBSET Executions]

MainsOK ==
  leads \in [Hosts -> BOOLEAN] /\ led \in [Hosts -> 0..MaxLeads] /\ faults \in 0..MaxFaults

IInv == ExecutionsOK /\ TrackerOK /\ MainsOK /\ ResumedOnce

LEMMA InitInv == Init => IInv
<1> SUFFICES ASSUME Init PROVE IInv
  OBVIOUS
<1>1. 1 \in 1..MaxWaits /\ 0 \in 0..MaxLeads /\ 0 \in 0..MaxFaults
  BY WaitsAssumption
<1>2. QED BY <1>1 DEF Init, IInv, ExecutionsOK, TrackerOK, MainsOK, ResumedOnce

LEMMA CurrentIsWait ==
  ASSUME ExecutionsOK, NEW e \in Executions
  PROVE  Current(e) \in Waits
<1>1. wait[e] \in 1..MaxWaits
  BY DEF ExecutionsOK
<1>2. QED BY <1>1 DEF Current, Waits

LEMMA FaultsBounded == MainsOK /\ Fault => faults' \in 0..MaxFaults
BY WaitsAssumption DEF Fault, MainsOK

\* An execution found waiting is resumed, and then has one run.
LEMMA RunInv ==
  ASSUME ExecutionsOK, ResumedOnce, NEW e \in Executions, status[e] = "waiting", Run(e),
         UNCHANGED <<wait, time, canceling>>
  PROVE  ExecutionsOK' /\ ResumedOnce'
BY DEF ExecutionsOK, ResumedOnce, Run

-----------------------------------------------------------------------------
\* What the trackers do but for resuming leaves the executions alone.
LEMMA TrackerInv ==
  ASSUME IInv, NEW h \in Hosts,
         TakeOver(h) \/ StepDown(h) \/ Poll(h) \/ SetTimers(h) \/ TimerFires(h) \/ PollFails(h) \/ Crash(h)
  PROVE  IInv'
<1>1. UNCHANGED executions
  BY DEF TakeOver, StepDown, Poll, SetTimers, TimerFires, PollFails, Crash
<1>2. ExecutionsOK' /\ ResumedOnce'
  BY <1>1 DEF IInv, ExecutionsOK, ResumedOnce, executions
<1>3. MainsOK'
  <2>1. CASE TakeOver(h)
    BY <2>1, WaitsAssumption DEF TakeOver, IInv, MainsOK
  <2>2. CASE StepDown(h)
    BY <2>2 DEF StepDown, IInv, MainsOK
  <2>3. CASE PollFails(h) \/ Crash(h)
    BY <2>3, FaultsBounded DEF PollFails, Crash, IInv, MainsOK
  <2>4. CASE Poll(h) \/ SetTimers(h) \/ TimerFires(h)
    BY <2>4 DEF Poll, SetTimers, TimerFires, IInv, MainsOK
  <2>5. QED BY <2>1, <2>2, <2>3, <2>4
<1>4. TrackerOK'
  <2>1. CASE TakeOver(h) \/ StepDown(h) \/ PollFails(h) \/ Crash(h)
    BY <2>1 DEF TakeOver, StepDown, PollFails, Crash, tracker, IInv, TrackerOK
  <2>2. CASE Poll(h)
    <3>1. EndingSoon \subseteq Waits
      BY CurrentIsWait DEF EndingSoon, IInv
    <3>2. QED BY <2>2, <3>1 DEF Poll, IInv, TrackerOK
  <2>3. CASE SetTimers(h)
    <3>1. PICK found \in polls[h] :
            LET new == {w \in found : w[1] \notin listed[h]} IN
            /\ polls' = [polls EXCEPT ![h] = @ \ {found}]
            /\ timers' = [timers EXCEPT ![h] = @ \cup new]
            /\ listed' = [listed EXCEPT ![h] = @ \cup {w[1] : w \in new}]
            /\ UNCHANGED resumes
      BY <2>3 DEF SetTimers
    <3>2. found \subseteq Waits
      BY DEF IInv, TrackerOK
    <3>3. {w \in found : w[1] \notin listed[h]} \subseteq Waits
      BY <3>2
    <3>4. {w[1] : w \in {w \in found : w[1] \notin listed[h]}} \subseteq Executions
      BY <3>3 DEF Waits
    <3>5. QED BY <3>1, <3>3, <3>4 DEF IInv, TrackerOK
  <2>4. CASE TimerFires(h)
    <3>1. PICK w \in timers[h] :
            /\ timers' = [timers EXCEPT ![h] = @ \ {w}]
            /\ listed' = [listed EXCEPT ![h] = @ \ {w[1]}]
            /\ resumes' = [resumes EXCEPT ![h] = @ \cup {w[1]}]
            /\ UNCHANGED polls
      BY <2>4 DEF TimerFires, Unlist
    <3>2. w[1] \in Executions
      BY <3>1 DEF IInv, TrackerOK, Waits
    <3>3. QED BY <3>1, <3>2 DEF IInv, TrackerOK
  <2>5. QED BY <2>1, <2>2, <2>3, <2>4
<1>5. QED BY <1>2, <1>3, <1>4 DEF IInv

\* startExecution resumes what it finds waiting and nothing else.
LEMMA StartExecutionInv ==
  ASSUME IInv, NEW h \in Hosts, StartExecution(h)
  PROVE  IInv'
<1>1. PICK e \in resumes[h] :
        /\ resumes' = [resumes EXCEPT ![h] = @ \ {e}]
        /\ \/ Resumable(e) /\ Run(e) /\ UNCHANGED faults
           \/ ~Resumable(e) /\ UNCHANGED <<status, copies, faults>>
           \/ Fault /\ UNCHANGED <<status, copies>>
        /\ UNCHANGED <<wait, time, canceling, leads, led, polls, listed, timers>>
  BY DEF StartExecution
<1>2. e \in Executions /\ TrackerOK'
  BY <1>1 DEF IInv, TrackerOK
<1>3. MainsOK'
  BY <1>1, FaultsBounded DEF IInv, MainsOK
<1>4. ExecutionsOK' /\ ResumedOnce'
  <2>1. CASE Resumable(e) /\ Run(e)
    BY <1>1, <1>2, <2>1, RunInv DEF IInv, Resumable
  <2>2. CASE UNCHANGED <<status, copies>>
    BY <1>1, <2>2 DEF IInv, ExecutionsOK, ResumedOnce
  <2>3. QED BY <1>1, <2>1, <2>2
<1>5. QED BY <1>2, <1>3, <1>4 DEF IInv

\* A run that ends was the only one.
LEMMA RunEndsInv ==
  ASSUME IInv, NEW e \in Executions, RunEnds(e)
  PROVE  IInv'
<1>1. copies[e] = 1 /\ copies' = [copies EXCEPT ![e] = 0]
  <2>1. copies \in [Executions -> Nat] /\ copies[e] \in {0, 1}
    BY DEF IInv, ExecutionsOK, ResumedOnce
  <2>2. copies[e] > 0 /\ copies' = [copies EXCEPT ![e] = copies[e] - 1]
    BY DEF RunEnds
  <2>3. copies[e] = 1 /\ 1 - 1 = 0
    BY <2>1, <2>2
  <2>4. QED BY <2>2, <2>3
<1>2. PICK s \in {"ended", "waiting"} : status' = [status EXCEPT ![e] = s]
  BY DEF RunEnds
<1>3. UNCHANGED <<time, canceling, leads, led, tracker, faults>>
  BY DEF RunEnds
<1>4. wait' \in [Executions -> 1..MaxWaits]
  BY WaitsAssumption DEF RunEnds, IInv, ExecutionsOK
<1>5. ExecutionsOK' /\ ResumedOnce'
  BY <1>1, <1>2, <1>3, <1>4 DEF IInv, ExecutionsOK, ResumedOnce
<1>6. TrackerOK' /\ MainsOK'
  BY <1>3 DEF IInv, TrackerOK, MainsOK, tracker
<1>7. QED BY <1>5, <1>6 DEF IInv

\* A cancellation does not touch the runs, and leaves nothing waiting.
LEMMA CancelInv ==
  ASSUME IInv, NEW e \in Executions,
         WriteCanceled(e) \/ \E h \in Hosts : CancelWaiting(h, e)
  PROVE  IInv'
<1>1. CASE WriteCanceled(e)
  BY <1>1 DEF WriteCanceled, tracker, IInv, ExecutionsOK, TrackerOK, MainsOK, ResumedOnce
<1>2. CASE \E h \in Hosts : CancelWaiting(h, e)
  <2>1. PICK h \in Hosts : CancelWaiting(h, e)
    BY <1>2
  <2>2. timers' \in [Hosts -> SUBSET Waits]
    <3>1. timers \in [Hosts -> SUBSET Waits]
      BY DEF IInv, TrackerOK
    <3>2. \/ timers' = [timers EXCEPT ![h] = timers[h] \ OfExecution(timers[h], e)]
          \/ timers' = [timers EXCEPT ![h] = timers[h]]
      BY <2>1 DEF CancelWaiting
    <3>3. QED BY <3>1, <3>2
  <2>3. QED
    BY <2>1, <2>2 DEF CancelWaiting, Unlist, IInv, ExecutionsOK, TrackerOK, MainsOK, ResumedOnce
<1>3. QED BY <1>1, <1>2

LEMMA TimeInv ==
  ASSUME IInv, NEW w \in Waits, TimePasses(w)
  PROVE  IInv'
BY DEF TimePasses, tracker, IInv, ExecutionsOK, TrackerOK, MainsOK, ResumedOnce

LEMMA NextInv == IInv /\ [Next]_vars => IInv'
<1> SUFFICES ASSUME IInv, [Next]_vars PROVE IInv'
  OBVIOUS
<1>1. CASE \E h \in Hosts : TakeOver(h) \/ StepDown(h) \/ TrackerNext(h) \/ PollFails(h) \/ Crash(h)
  BY <1>1, TrackerInv, StartExecutionInv DEF TrackerNext
<1>2. CASE \E e \in Executions : ResumedByWebhook(e)
  BY <1>2, RunInv DEF ResumedByWebhook, tracker, IInv, ExecutionsOK, TrackerOK, MainsOK
<1>3. CASE \E e \in Executions : \/ RunEnds(e) \/ WriteCanceled(e)
                                 \/ \E h \in Hosts : CancelWaiting(h, e)
  BY <1>3, RunEndsInv, CancelInv
<1>4. CASE \E w \in Waits : TimePasses(w)
  BY <1>4, TimeInv
<1>5. CASE UNCHANGED vars
  BY <1>5 DEF vars, executions, tracker, IInv, ExecutionsOK, TrackerOK, MainsOK, ResumedOnce
<1>6. QED BY <1>1, <1>2, <1>3, <1>4, <1>5 DEF Next

\* The state keeps its types: a poll, a list and the timers name executions and waits.
THEOREM TypeCorrect == Spec => []TypeOK
<1>1. IInv => TypeOK
  BY DEF IInv, ExecutionsOK, TrackerOK, MainsOK, TypeOK
<1>2. QED BY <1>1, InitInv, NextInv, PTL DEF Spec

\* However many mains have a timer for it, and whoever else resumes or cancels it, an
\* execution is never run twice at a time (startExecution with expectedStatus waiting).
THEOREM RunOnceAtATime == Spec => []ResumedOnce
<1>1. IInv => ResumedOnce
  BY DEF IInv
<1>2. QED BY <1>1, InitInv, NextInv, PTL DEF Spec
=============================================================================
