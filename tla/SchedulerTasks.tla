--------------------------- MODULE SchedulerTasks ---------------------------
(***************************************************************************)
(* The executor and the reaper of the durable scheduler over the task      *)
(* table they share (packages/@n8n/scheduler/src/core/executor/,           *)
(* core/reaper/reap.ts, and the guarded updates of packages/@n8n/db/src/   *)
(* repositories/scheduled-task.repository.ts).  Every main runs both.      *)
(*                                                                         *)
(* Every await on the store is an action of its own.  Time is what it lets *)
(* the code tell apart: whether a task is due, past its deadline, and      *)
(* whether its lease has run out.                                          *)
(***************************************************************************)
EXTENDS Integers, FiniteSets

CONSTANTS
  Tasks,         \* tasks that wait to be run
  Hosts,         \* the mains
  MaxAttempts,   \* maxAttempts of a task
  Deadlined,     \* the tasks with a missedAfter
  Removable,     \* the tasks whose row may be deleted
  MaxOutages     \* bound: crashes, shutdowns, passes timed out or late, and failed calls of the store, in all

ASSUME TasksAssumption ==
  /\ MaxAttempts \in Nat \ {0}
  /\ Deadlined \subseteq Tasks /\ Removable \subseteq Tasks
  /\ MaxOutages \in Nat

VARIABLES
  rows,      \* the table: one row per task
  phase,     \* each main's executor: "up", its loops stopped, torn down, or the process gone
  ticks,     \* claims the store granted that a claim pass has not seen yet
  armed,     \* precision timers, each with the claim it will fire
  held,      \* claimedTaskById: the claims stop() would release
  releases,  \* claims on their way back
  fires,     \* fires under way
  sweep,     \* the expired rows a reaper sweep has read and not yet decided
  begun,     \* history: the <<task, epoch>> under which a handler was called
  done,      \* history: the <<task, epoch>> under which a handler did its work
  outages    \* crashes, shutdowns, timeouts and failures so far

memory == <<ticks, armed, held, releases, fires, sweep>>
history == <<begun, done>>
vars == <<rows, phase, memory, history, outages>>

Claims == [task : Tasks, epoch : Nat, attempts : 0..MaxAttempts]
NoHost == "nobody"

InitialRow ==
  [status |-> "pending", attempts |-> 0, epoch |-> 0, owner |-> NoHost, lease |-> "none",
   started |-> FALSE, marked |-> FALSE, due |-> FALSE, late |-> FALSE]

Init ==
  /\ rows = [t \in Tasks |-> InitialRow]
  /\ phase = [h \in Hosts |-> "up"]
  /\ ticks = [h \in Hosts |-> {}] /\ armed = [h \in Hosts |-> {}]
  /\ held = [h \in Hosts |-> {}] /\ releases = [h \in Hosts |-> {}]
  /\ fires = [h \in Hosts |-> {}] /\ sweep = [h \in Hosts |-> {}]
  /\ begun = {} /\ done = {} /\ outages = 0

Alive(h) == phase[h] # "down"
Outage == outages < MaxOutages /\ outages' = outages + 1
SetRow(t, row) == rows' = [rows EXCEPT ![t] = row]
Put(f, h, x) == [f EXCEPT ![h] = @ \cup {x}]
Drop(f, h, x) == [f EXCEPT ![h] = @ \ {x}]

\* Mutated: a guard without the fence on the epoch.
OwnsWhateverEpoch(h, c) == rows[c.task].status = "running" /\ rows[c.task].owner = h

\* runGuardedUpdate: the row is still the one this claim took.
Owns(h, c) ==
  /\ rows[c.task].status = "running" /\ rows[c.task].owner = h
  /\ rows[c.task].epoch = c.epoch

\* An update guarded on the claim; 0 rows affected is benign.
GuardedUpdate(h, c, row) == IF Owns(h, c) THEN SetRow(c.task, row) ELSE UNCHANGED rows

BackToPending(row) ==
  [row EXCEPT !.status = "pending", !.owner = NoHost, !.lease = "none",
              !.started = FALSE, !.marked = FALSE]

-----------------------------------------------------------------------------
(***************************************************************************)
(* The executor's tick: claimAndSchedule.                                  *)
(***************************************************************************)
\* Mutated: a deadline stops every attempt.
ClaimableBeforeDeadline(t) == rows[t].status = "pending" /\ rows[t].due /\ ~rows[t].late

\* claimableSql: a deadline stops a first attempt only.
Claimable(t) ==
  /\ rows[t].status = "pending" /\ rows[t].due
  /\ ~rows[t].late \/ rows[t].attempts > 0

\* Mutated: the epoch stays.
ClaimedRowSameEpoch(h, row) == [row EXCEPT !.status = "running", !.owner = h, !.lease = "live"]

ClaimedRow(h, row) ==
  [row EXCEPT !.status = "running", !.owner = h, !.lease = "live", !.epoch = row.epoch + 1]

\* claimDueTasks: one statement that takes a batch, skipping rows others have locked.
\* No tick starts once the loops stop, but a claim asked for before may be granted
\* after (the bound counts those).
ClaimDueTasks(h) ==
  /\ \/ phase[h] = "up" /\ UNCHANGED outages
     \/ phase[h] \in {"draining", "stopped"} /\ Outage
  /\ \E batch \in (SUBSET {t \in Tasks : Claimable(t)}) \ {{}} :
       /\ rows' = [t \in Tasks |-> IF t \in batch THEN ClaimedRow(h, rows[t]) ELSE rows[t]]
       /\ ticks' = [ticks EXCEPT ![h] = @ \cup
            {[task |-> t, epoch |-> rows'[t].epoch, attempts |-> rows[t].attempts] : t \in batch}]
  /\ UNCHANGED <<phase, armed, held, releases, fires, sweep, history>>

\* The map is keyed by task: a claim replaces an earlier one of the same task.
Hold(claims, batch) == {c \in claims : \A d \in batch : d.task # c.task} \cup batch

\* A pass that was aborted, or whose executor is stopping, hands its batch back; any
\* other schedules it.
ScheduleOrHandBack(h, batch, aborted) ==
  IF aborted \/ phase[h] = "stopped"
  THEN /\ releases' = [releases EXCEPT ![h] = @ \cup batch]
       /\ UNCHANGED <<held, armed>>
  ELSE /\ held' = [held EXCEPT ![h] = Hold(@, batch)]
       /\ armed' = [armed EXCEPT ![h] = @ \cup batch]
       /\ UNCHANGED releases

\* A pass goes on after its one await.  Draining loops have aborted it, and so has
\* its timeout.
ResolveClaim(h) ==
  /\ Alive(h)
  /\ \E batch \in (SUBSET ticks[h]) \ {{}} :
       /\ \/ ScheduleOrHandBack(h, batch, phase[h] = "draining") /\ UNCHANGED outages
          \/ ScheduleOrHandBack(h, batch, TRUE) /\ Outage
       /\ ticks' = [ticks EXCEPT ![h] = @ \ batch]
  /\ UNCHANGED <<rows, phase, fires, sweep, history>>

\* releaseClaim, best effort.
ReleaseClaim(h) ==
  /\ Alive(h)
  /\ \E c \in releases[h] :
       /\ \/ GuardedUpdate(h, c, BackToPending(rows[c.task])) /\ UNCHANGED outages
          \/ Outage /\ UNCHANGED rows
       /\ releases' = Drop(releases, h, c)
  /\ UNCHANGED <<phase, ticks, armed, held, fires, sweep, history>>

-----------------------------------------------------------------------------
(***************************************************************************)
(* A fire: runFire.                                                        *)
(***************************************************************************)
NewFire(c) == [claim |-> c, pc |-> "begin", mark |-> "none"]

\* The timer's callback drops the task from the map, whichever claim it holds.
TimerFires(h) ==
  /\ Alive(h)
  /\ \E c \in armed[h] :
       /\ armed' = Drop(armed, h, c)
       /\ held' = [held EXCEPT ![h] = {d \in @ : d.task # c.task}]
       /\ fires' = Put(fires, h, NewFire(c))
  /\ UNCHANGED <<rows, phase, ticks, releases, sweep, history, outages>>

FireAt(h, f, pc) == Alive(h) /\ f \in fires[h] /\ f.pc = pc
Move(h, f, g) == fires' = [fires EXCEPT ![h] = (@ \ {f}) \cup {g}]
FireEnds(h, f) == fires' = Drop(fires, h, f)

StartedRow(row) == [row EXCEPT !.started = TRUE, !.lease = "live"]

\* beginDispatch: one compare-and-set takes the right to run the handler under this
\* lease and refreshes the lease.
BeginDispatch(h, f) ==
  LET mayBegin == Owns(h, f.claim) /\ ~rows[f.claim.task].started
      begins == SetRow(f.claim.task, StartedRow(rows[f.claim.task])) IN
  /\ FireAt(h, f, "begin")
  /\ \/ /\ mayBegin /\ begins /\ UNCHANGED outages
        /\ Move(h, f, [f EXCEPT !.pc = "run"])
        /\ begun' = begun \cup {<<f.claim.task, f.claim.epoch>>}
     \/ /\ \/ ~mayBegin /\ UNCHANGED <<rows, outages>>
           \/ Outage /\ UNCHANGED rows
           \/ mayBegin /\ Outage /\ begins
        /\ FireEnds(h, f)
        /\ UNCHANGED begun
  /\ UNCHANGED <<phase, ticks, armed, held, releases, sweep, done>>

\* The handler hands its effect off and reports it, which issues the marker write.
ReportDispatched(h, f) ==
  /\ FireAt(h, f, "run") /\ f.mark = "none"
  /\ Move(h, f, [f EXCEPT !.mark = "issued"])
  /\ done' = done \cup {<<f.claim.task, f.claim.epoch>>}
  /\ UNCHANGED <<rows, phase, ticks, armed, held, releases, sweep, begun, outages>>

\* markDispatched settles, written or failed.
MarkDispatched(h, f) ==
  /\ Alive(h) /\ f \in fires[h] /\ f.mark = "issued"
  /\ \/ GuardedUpdate(h, f.claim, [rows[f.claim.task] EXCEPT !.marked = TRUE]) /\ UNCHANGED outages
     \/ Outage /\ UNCHANGED rows
  /\ Move(h, f, [f EXCEPT !.mark = "settled"])
  /\ UNCHANGED <<phase, ticks, armed, held, releases, sweep, history>>

\* A handler that returns is taken to have done its work, reported or not.
HandlerReturns(h, f) ==
  /\ FireAt(h, f, "run")
  /\ Move(h, f, [f EXCEPT !.pc = "returned", !.mark = IF @ = "none" THEN "issued" ELSE @])
  /\ done' = done \cup {<<f.claim.task, f.claim.epoch>>}
  /\ UNCHANGED <<rows, phase, ticks, armed, held, releases, sweep, begun, outages>>

HandlerThrows(h, f) ==
  /\ FireAt(h, f, "run")
  /\ Move(h, f, [f EXCEPT !.pc = "threw"])
  /\ UNCHANGED <<rows, phase, ticks, armed, held, releases, sweep, history, outages>>

LastAttempt(attempts) == attempts + 1 >= MaxAttempts

SucceededRow(row) == [row EXCEPT !.status = "succeeded"]
FailedRow(row) == [row EXCEPT !.status = "failed", !.attempts = row.attempts + 1]
RescheduledRow(row) ==
  [BackToPending(row) EXCEPT !.attempts = row.attempts + 1, !.due = FALSE]

\* Mutated: a last attempt that throws fails, whatever it handed off.
OutcomeThrownFails(f, row) ==
  IF f.pc = "returned" THEN SucceededRow(row)
  ELSE IF LastAttempt(f.claim.attempts) THEN FailedRow(row)
  ELSE RescheduledRow(row)

\* completeTask, failTaskTerminal or rescheduleTask.
Outcome(f, row) ==
  IF f.pc = "returned" \/ (LastAttempt(f.claim.attempts) /\ f.mark # "none") THEN SucceededRow(row)
  ELSE IF LastAttempt(f.claim.attempts) THEN FailedRow(row)
  ELSE RescheduledRow(row)

\* The outcome is written once the marker write has settled.
RecordOutcome(h, f) ==
  /\ Alive(h) /\ f \in fires[h] /\ f.pc \in {"returned", "threw"} /\ f.mark # "issued"
  /\ \/ GuardedUpdate(h, f.claim, Outcome(f, rows[f.claim.task])) /\ UNCHANGED outages
     \/ Outage /\ UNCHANGED rows
  /\ FireEnds(h, f)
  /\ UNCHANGED <<phase, ticks, armed, held, releases, sweep, history>>

Fire(h) ==
  \E f \in fires[h] :
    \/ BeginDispatch(h, f) \/ ReportDispatched(h, f) \/ MarkDispatched(h, f)
    \/ HandlerReturns(h, f) \/ HandlerThrows(h, f) \/ RecordOutcome(h, f)

-----------------------------------------------------------------------------
(***************************************************************************)
(* The reaper: reap.                                                       *)
(***************************************************************************)
\* retireMissedPending, in one statement for a batch.
RetireMissedPending(h) ==
  /\ phase[h] = "up"
  /\ \E batch \in (SUBSET {t \in Tasks : /\ rows[t].status = "pending" /\ rows[t].late
                                         /\ rows[t].attempts = 0}) \ {{}} :
       rows' = [t \in Tasks |->
                 IF t \in batch THEN [rows[t] EXCEPT !.status = "missed"] ELSE rows[t]]
  /\ UNCHANGED <<phase, memory, history, outages>>

Expired(t) == rows[t].status = "running" /\ rows[t].lease = "expired"

\* findExpiredLeases, without locks.
FindExpiredLeases(h) ==
  /\ phase[h] = "up" /\ sweep[h] = {}
  /\ \E batch \in (SUBSET {t \in Tasks : Expired(t)}) \ {{}} :
       sweep' = [sweep EXCEPT ![h] =
         {[task |-> t, epoch |-> rows[t].epoch, attempts |-> rows[t].attempts,
           marked |-> rows[t].marked] : t \in batch}]
  /\ UNCHANGED <<rows, phase, ticks, armed, held, releases, fires, history, outages>>

\* Mutated: the expiry is not asserted again.
ReaperGuardNoExpiry(s) ==
  /\ rows[s.task].status = "running" /\ rows[s.task].epoch = s.epoch
  /\ rows[s.task].marked = s.marked

\* runReaperUpdate: still running, at the epoch read, expired, and on the same side of
\* the dispatch marker.
ReaperGuard(s) == /\ Expired(s.task) /\ rows[s.task].epoch = s.epoch
                  /\ rows[s.task].marked = s.marked

\* completeExpired, deadLetterExpired or reclaimExpired.
Recovered(s, row) ==
  IF s.marked THEN SucceededRow(row)
  ELSE IF LastAttempt(s.attempts) THEN FailedRow(row)
  ELSE [RescheduledRow(row) EXCEPT !.epoch = row.epoch + 1]

\* One row of the sweep; one that throws is skipped.  A stop aborts the sweep, which
\* then ends with the row it is at.
RecoverRow(h) ==
  /\ Alive(h)
  /\ \E s \in sweep[h] :
       /\ \/ /\ IF ReaperGuard(s) THEN SetRow(s.task, Recovered(s, rows[s.task])) ELSE UNCHANGED rows
             /\ UNCHANGED outages
          \/ Outage /\ UNCHANGED rows
       /\ sweep' = [sweep EXCEPT ![h] = IF phase[h] = "up" THEN @ \ {s} ELSE {}]
  /\ UNCHANGED <<phase, ticks, armed, held, releases, fires, history>>

\* A sweep that is aborted, by a stop or at its timeout, stops before the next row.
AbandonSweep(h) ==
  /\ Alive(h) /\ sweep[h] # {}
  /\ \/ phase[h] # "up" /\ UNCHANGED outages
     \/ Outage
  /\ sweep' = [sweep EXCEPT ![h] = {}]
  /\ UNCHANGED <<rows, phase, ticks, armed, held, releases, fires, history>>

-----------------------------------------------------------------------------
(***************************************************************************)
(* Starting, stopping, crashing; and time.                                 *)
(***************************************************************************)
\* The loops stop: no tick starts, passes in flight are aborted and waited for, or
\* abandoned at their timeout.
StopLoops(h) ==
  /\ phase[h] = "up" /\ Outage
  /\ phase' = [phase EXCEPT ![h] = "draining"]
  /\ UNCHANGED <<rows, memory, history>>

\* Executor.stop: timers are cancelled and the claims in the map released.
ReleaseHeld(h) ==
  /\ armed' = [armed EXCEPT ![h] = {}] /\ held' = [held EXCEPT ![h] = {}]
  /\ releases' = [releases EXCEPT ![h] = @ \cup held[h]]

StopExecutor(h) ==
  /\ phase[h] = "draining"
  /\ phase' = [phase EXCEPT ![h] = "stopped"]
  /\ ReleaseHeld(h)
  /\ UNCHANGED <<rows, ticks, fires, sweep, history, outages>>

\* The process exits after its stop, or dies at any moment, and forgets everything.
ProcessEnds(h) ==
  /\ \/ phase[h] \in {"draining", "stopped"} /\ UNCHANGED outages
     \/ phase[h] = "up" /\ Outage
  /\ phase' = [phase EXCEPT ![h] = "down"]
  /\ ticks' = [ticks EXCEPT ![h] = {}] /\ armed' = [armed EXCEPT ![h] = {}]
  /\ held' = [held EXCEPT ![h] = {}] /\ releases' = [releases EXCEPT ![h] = {}]
  /\ fires' = [fires EXCEPT ![h] = {}] /\ sweep' = [sweep EXCEPT ![h] = {}]
  /\ UNCHANGED <<rows, history>>

\* A container that restarts keeps its host id.
ProcessStarts(h) ==
  /\ phase[h] = "down"
  /\ phase' = [phase EXCEPT ![h] = "up"]
  /\ UNCHANGED <<rows, memory, history, outages>>

\* A lease runs out, a task comes due, a deadline passes.
LeaseExpires(t) == /\ rows[t].status = "running" /\ rows[t].lease = "live"
                   /\ SetRow(t, [rows[t] EXCEPT !.lease = "expired"])

ComesDue(t) == rows[t].status = "pending" /\ ~rows[t].due /\ SetRow(t, [rows[t] EXCEPT !.due = TRUE])

DeadlinePasses(t) == /\ t \in Deadlined /\ rows[t].due /\ ~rows[t].late
                     /\ rows[t].status \in {"pending", "running"}
                     /\ SetRow(t, [rows[t] EXCEPT !.late = TRUE])

TimePasses(t) ==
  /\ LeaseExpires(t) \/ ComesDue(t) \/ DeadlinePasses(t)
  /\ UNCHANGED <<phase, memory, history, outages>>

\* The row goes with its job, whatever its status (ON DELETE CASCADE); a pending one also
\* with a new schedule of the job (deletePendingByJobIds), a finished one by retention
\* (deleteFinishedOlderThan).
RemoveRow(t) ==
  /\ t \in Removable /\ rows[t].status # "gone"
  /\ SetRow(t, [rows[t] EXCEPT !.status = "gone"])
  /\ UNCHANGED <<phase, memory, history, outages>>

Next ==
  \/ \E h \in Hosts :
       \/ ClaimDueTasks(h) \/ ResolveClaim(h) \/ ReleaseClaim(h) \/ TimerFires(h) \/ Fire(h)
       \/ RetireMissedPending(h) \/ FindExpiredLeases(h) \/ RecoverRow(h) \/ AbandonSweep(h)
       \/ StopLoops(h) \/ StopExecutor(h) \/ ProcessEnds(h) \/ ProcessStarts(h)
  \/ \E t \in Tasks : TimePasses(t) \/ RemoveRow(t)

Spec == Init /\ [][Next]_vars

FireProgress(h) ==
  \E f \in fires[h] : BeginDispatch(h, f) \/ MarkDispatched(h, f) \/ RecordOutcome(h, f)

\* Time passes, and a main's loops, timers and calls go on.  A handler may hang, and
\* nobody has to restart a main.
Fairness ==
  /\ \A t \in Tasks : WF_vars(TimePasses(t))
  /\ \A h \in Hosts :
       /\ WF_vars(ClaimDueTasks(h)) /\ WF_vars(ResolveClaim(h)) /\ WF_vars(ReleaseClaim(h))
       /\ WF_vars(TimerFires(h)) /\ WF_vars(FireProgress(h)) /\ WF_vars(RetireMissedPending(h))
       /\ WF_vars(FindExpiredLeases(h)) /\ WF_vars(RecoverRow(h))

FairSpec == Spec /\ Fairness

-----------------------------------------------------------------------------
FirePcs == {"begin", "run", "returned", "threw"}
Marks == {"none", "issued", "settled"}
Leases == {"none", "live", "expired"}
Statuses == {"pending", "running", "succeeded", "failed", "missed", "gone"}
Ended == {"succeeded", "failed", "missed", "gone"}

Rows == [status : Statuses, attempts : 0..MaxAttempts, epoch : Nat, owner : Hosts \cup {NoHost},
         lease : Leases, started : BOOLEAN, marked : BOOLEAN, due : BOOLEAN, late : BOOLEAN]
Fires == [claim : Claims, pc : FirePcs, mark : Marks]
Sightings == [task : Tasks, epoch : Nat, attempts : 0..MaxAttempts, marked : BOOLEAN]

\* Type correctness; no task is attempted more often than it may be.
TypeOK ==
  /\ rows \in [Tasks -> Rows]
  /\ phase \in [Hosts -> {"up", "draining", "stopped", "down"}]
  /\ ticks \in [Hosts -> SUBSET Claims] /\ armed \in [Hosts -> SUBSET Claims]
  /\ held \in [Hosts -> SUBSET Claims] /\ releases \in [Hosts -> SUBSET Claims]
  /\ fires \in [Hosts -> SUBSET Fires] /\ sweep \in [Hosts -> SUBSET Sightings]
  /\ begun \subseteq Tasks \X Nat /\ done \subseteq Tasks \X Nat
  /\ outages \in 0..MaxOutages

\* beginDispatch lets the handler be called at most once under one lease, across mains
\* that come back with the same host id, claims handed back and late timers.
OncePerLease ==
  [][\A t \in Tasks : ~rows[t].started /\ rows'[t].started => <<t, rows[t].epoch>> \notin begun]_vars

\* A task whose effect is marked is never recorded as failed, neither by the main that
\* ran it nor by a reaper that read the row before the marker landed.
DispatchedNeverFailed == \A t \in Tasks : rows[t].status = "failed" => ~rows[t].marked

\* No reaper takes a task from a lease that is running, whatever it read before the
\* lease was refreshed.
LiveLeaseIsLeftAlone ==
  [][\A t \in Tasks :
       rows[t].status = "running" /\ rows[t].lease = "live" /\ rows'[t].status \in Ended \cup {"pending"}
       => UNCHANGED sweep]_vars

\* Whatever the mains do, each task goes through the life the README's diagram gives it.
Lifecycle == INSTANCE TaskLifecycle WITH
  life <- [t \in Tasks |-> [status |-> rows[t].status, attempts |-> rows[t].attempts,
                            lease |-> rows[t].epoch, marked |-> rows[t].marked]]
ImplementsLifecycle == Lifecycle!Spec

\* Every task comes to an end, though handlers hang, passes are abandoned and mains
\* crash, as long as one main stays.
EveryTaskEnds == \A t \in Tasks : <>(rows[t].status \in Ended)
=============================================================================
