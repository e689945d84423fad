---------------------------- MODULE WaitTracking ----------------------------
(***************************************************************************)
(* The wait tracker of several mains (packages/cli/src/wait-tracker.ts):   *)
(* polls of the waits that end soon, a timer for each, and the resumption  *)
(* of the execution, while webhooks resume executions too, users cancel    *)
(* them, and leadership moves between the mains, which may both take       *)
(* themselves for the leader for a while (LeaderElection).                 *)
(*                                                                         *)
(* Time is what the tracker can tell of a wait: far off, within the window *)
(* of a poll, or over.                                                     *)
(***************************************************************************)
EXTENDS Naturals, FiniteSets

CONSTANTS
  Hosts,       \* the mains
  Executions,  \* executions that wait
  MaxWaits,    \* bound: waits of one execution, one after the other
  MaxLeads,    \* bound: how often one main takes over
  MaxFaults    \* bound: failed calls of the database and crashes, in all

ASSUME WaitsAssumption == {MaxWaits, MaxLeads} \subseteq Nat \ {0} /\ MaxFaults \in Nat

VARIABLES
  status,    \* each execution in the database: "waiting", "running" or "ended"
  wait,      \* the number of the wait it is in, or was in last
  time,      \* each wait's time: "far", "soon" or "over"
  copies,    \* runs of the execution under way
  leads,     \* each main's isLeader
  led,       \* how often it took over
  polls,     \* the results of polls under way: sets of waits
  listed,    \* the keys of waitingExecutions
  timers,    \* the timers armed, each for the wait it was computed from
  resumes,   \* calls of startExecution under way
  canceling, \* the executions a user has canceled and whose row does not say so yet
  faults     \* faults so far

executions == <<status, wait, time, copies, canceling>>
tracker == <<polls, listed, timers, resumes>>
vars == <<executions, leads, led, tracker, faults>>

Waits == Executions \X (1..MaxWaits)
Current(e) == <<e, wait[e]>>

Init ==
  /\ status = [e \in Executions |-> "waiting"]
  /\ wait = [e \in Executions |-> 1]
  /\ time = [w \in Waits |-> "far"]
  /\ copies = [e \in Executions |-> 0]
  /\ leads = [h \in Hosts |-> FALSE] /\ led = [h \in Hosts |-> 0]
  /\ polls = [h \in Hosts |-> {}] /\ listed = [h \in Hosts |-> {}]
  /\ timers = [h \in Hosts |-> {}] /\ resumes = [h \in Hosts |-> {}]
  /\ canceling = {} /\ faults = 0

Fault == faults < MaxFaults /\ faults' = faults + 1
OfExecution(ws, e) == {w \in ws : w[1] = e}

-----------------------------------------------------------------------------
(***************************************************************************)
(* WaitTracker.                                                            *)
(***************************************************************************)
\* startTracking, on leader takeover: the interval starts, and polls from then on.
TakeOver(h) ==
  /\ ~leads[h] /\ led[h] < MaxLeads
  /\ leads' = [leads EXCEPT ![h] = TRUE] /\ led' = [led EXCEPT ![h] = @ + 1]
  /\ UNCHANGED <<executions, tracker, faults>>

\* stopTracking, on leader stepdown: the interval and the timers are cleared; the list of
\* executions is not.
StepDown(h) ==
  /\ leads[h]
  /\ leads' = [leads EXCEPT ![h] = FALSE]
  /\ timers' = [timers EXCEPT ![h] = {}]
  /\ UNCHANGED <<executions, led, polls, listed, resumes, faults>>

\* getWaitingExecutions of the repository: what waits and ends within the window.
EndingSoon == {Current(e) : e \in {d \in Executions : status[d] = "waiting" /\ time[Current(d)] # "far"}}

\* A poll of a main that leads reads the database.
Poll(h) ==
  /\ leads[h] /\ EndingSoon # {} /\ polls[h] = {}
  /\ polls' = [polls EXCEPT ![h] = {EndingSoon}]
  /\ UNCHANGED <<executions, leads, led, listed, timers, resumes, faults>>

\* It goes on, whether the main still leads or not: a timer for each execution that is
\* not listed yet.
SetTimers(h) ==
  \E found \in polls[h] :
    LET new == {w \in found : w[1] \notin listed[h]} IN
    /\ polls' = [polls EXCEPT ![h] = @ \ {found}]
    /\ timers' = [timers EXCEPT ![h] = @ \cup new]
    /\ listed' = [listed EXCEPT ![h] = @ \cup {w[1] : w \in new}]
    /\ UNCHANGED <<executions, leads, led, resumes, faults>>

\* Mutated: the execution stays listed.
StaysListed(h, e) == UNCHANGED listed

Unlist(h, e) == listed' = [listed EXCEPT ![h] = @ \ {e}]

\* A timer calls startExecution.
TimerFires(h) ==
  \E w \in timers[h] :
    /\ time[w] = "over"
    /\ timers' = [timers EXCEPT ![h] = @ \ {w}]
    /\ Unlist(h, w[1])
    /\ resumes' = [resumes EXCEPT ![h] = @ \cup {w[1]}]
    /\ UNCHANGED <<executions, leads, led, polls, faults>>

\* Mutated: whatever the row says, the execution is resumed.
ResumableUnlessEnded(e) == status[e] # "ended"

\* workflowRunner.run with expectedStatus waiting: one update decides.
Resumable(e) == status[e] = "waiting"

Run(e) == /\ status' = [status EXCEPT ![e] = "running"]
          /\ copies' = [copies EXCEPT ![e] = @ + 1]

\* startExecution goes on: the execution is resumed, or another one has been faster, it
\* has ended, or a call of the database fails.
StartExecution(h) ==
  \E e \in resumes[h] :
    /\ resumes' = [resumes EXCEPT ![h] = @ \ {e}]
    /\ \/ Resumable(e) /\ Run(e) /\ UNCHANGED faults
       \/ ~Resumable(e) /\ UNCHANGED <<status, copies, faults>>
       \/ Fault /\ UNCHANGED <<status, copies>>
    /\ UNCHANGED <<wait, time, canceling, leads, led, polls, listed, timers>>

\* A poll whose query fails is over; the interval goes on.
PollFails(h) ==
  /\ polls[h] # {} /\ Fault
  /\ polls' = [polls EXCEPT ![h] = {}]
  /\ UNCHANGED <<executions, leads, led, listed, timers, resumes>>

\* stopExecution of the tracker, for a user who cancels the execution at this main: other
\* mains keep their timers.
CancelWaiting(h, e) ==
  /\ status[e] # "ended" /\ e \notin canceling
  /\ canceling' = canceling \cup {e}
  /\ Unlist(h, e)
  /\ timers' = [timers EXCEPT ![h] = IF e \in listed[h] THEN @ \ OfExecution(@, e) ELSE @]
  /\ UNCHANGED <<status, wait, time, copies, leads, led, polls, resumes, faults>>

\* stopDuringRun then writes the row, whatever it has come to say.
WriteCanceled(e) ==
  /\ e \in canceling /\ canceling' = canceling \ {e}
  /\ status' = [status EXCEPT ![e] = "ended"]
  /\ UNCHANGED <<wait, time, copies, leads, led, tracker, faults>>

\* A main crashes and forgets everything.
Crash(h) ==
  /\ Fault
  /\ leads' = [leads EXCEPT ![h] = FALSE]
  /\ polls' = [polls EXCEPT ![h] = {}] /\ listed' = [listed EXCEPT ![h] = {}]
  /\ timers' = [timers EXCEPT ![h] = {}] /\ resumes' = [resumes EXCEPT ![h] = {}]
  /\ UNCHANGED <<executions, led>>

-----------------------------------------------------------------------------
(***************************************************************************)
(* Executions and time.                                                    *)
(***************************************************************************)
\* A webhook or a form resumes the execution before its wait is over.
ResumedByWebhook(e) ==
  /\ status[e] = "waiting" /\ Run(e)
  /\ UNCHANGED <<wait, time, canceling, leads, led, tracker, faults>>

\* A run ends, or puts the execution to wait again: a worker's save says so even of an
\* execution that was canceled meanwhile.
RunEnds(e) ==
  /\ copies[e] > 0 /\ copies' = [copies EXCEPT ![e] = @ - 1]
  /\ \/ status' = [status EXCEPT ![e] = "ended"] /\ UNCHANGED wait
     \/ /\ wait[e] < MaxWaits
        /\ wait' = [wait EXCEPT ![e] = @ + 1]
        /\ status' = [status EXCEPT ![e] = "waiting"]
  /\ UNCHANGED <<time, canceling, leads, led, tracker, faults>>

TimePasses(w) ==
  /\ w[2] <= wait[w[1]] /\ time[w] # "over"
  /\ time' = [time EXCEPT ![w] = IF @ = "far" THEN "soon" ELSE "over"]
  /\ UNCHANGED <<status, wait, copies, canceling, leads, led, tracker, faults>>

TrackerNext(h) == Poll(h) \/ SetTimers(h) \/ TimerFires(h) \/ StartExecution(h)

Next ==
  \/ \E h \in Hosts : TakeOver(h) \/ StepDown(h) \/ TrackerNext(h) \/ PollFails(h) \/ Crash(h)
  \/ \E e \in Executions : \/ ResumedByWebhook(e) \/ RunEnds(e) \/ WriteCanceled(e)
                           \/ \E h \in Hosts : CancelWaiting(h, e)
  \/ \E w \in Waits : TimePasses(w)

\* Time passes, the interval polls, and what it began goes on.
Fairness ==
  /\ \A w \in Waits : WF_vars(TimePasses(w))
  /\ \A h \in Hosts :
       WF_vars(Poll(h)) /\ WF_vars(SetTimers(h)) /\ WF_vars(TimerFires(h)) /\ WF_vars(StartExecution(h))

Spec == Init /\ [][Next]_vars /\ Fairness

-----------------------------------------------------------------------------
\* Type correctness.
TypeOK ==
  /\ status \in [Executions -> {"waiting", "running", "ended"}]
  /\ wait \in [Executions -> 1..MaxWaits]
  /\ time \in [Waits -> {"far", "soon", "over"}]
  /\ copies \in [Executions -> Nat]
  /\ leads \in [Hosts -> BOOLEAN] /\ led \in [Hosts -> 0..MaxLeads]
  /\ polls \in [Hosts -> SUBSET SUBSET Waits] /\ timers \in [Hosts -> SUBSET Waits]
  /\ listed \in [Hosts -> SUBSET Executions] /\ resumes \in [Hosts -> SUBSET Executions]
  /\ canceling \subseteq Executions /\ faults \in 0..MaxFaults

\* However many mains have a timer for it, and whoever else resumes or cancels it, an
\* execution is never run twice at a time, and what waits is not run at all.
ResumedOnce ==
  \A e \in Executions : copies[e] \in {0, 1} /\ (status[e] = "waiting" => copies[e] = 0)

\* "Add timers for each waiting execution that they get started at the correct time"
\* (getWaitingExecutions): while some main leads, a wait whose time has come ends.
WaitsEnd ==
  \A w \in Waits :
    Current(w[1]) = w /\ status[w[1]] = "waiting" ~>
      \/ Current(w[1]) # w \/ status[w[1]] # "waiting"
      \/ \A h \in Hosts : ~leads[h]
=============================================================================
