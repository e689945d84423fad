--------------------------- MODULE TaskLifecycle ---------------------------
(***************************************************************************)
(* What the durable scheduler promises about one concrete run, a task,     *)
(* whatever its instances do (packages/@n8n/scheduler): the states a task  *)
(* goes through, how attempts are counted, and which lease an outcome      *)
(* belongs to.  SchedulerTasks implements it.                              *)
(***************************************************************************)
EXTENDS Integers

CONSTANTS
  Tasks,        \* the tasks
  MaxAttempts   \* how many attempts a task is given

VARIABLES
  life,   \* each task's status, attempts counted, lease and dispatch marker
  done    \* the <<task, lease>> pairs under which the handler did its work

\* Nothing writes the status cancelled; a deleted task is gone.
TaskStatuses == {"pending", "running", "succeeded", "failed", "missed", "gone"}

Init ==
  /\ life = [t \in Tasks |-> [status |-> "pending", attempts |-> 0, lease |-> 0, marked |-> FALSE]]
  /\ done = {}

Becomes(t, row) == life'[t] = row

\* A task that waits is claimed, under a lease no earlier claim had.
Claim(t) ==
  /\ life[t].status = "pending"
  /\ Becomes(t, [life[t] EXCEPT !.status = "running", !.lease = life[t].lease + 1])

\* The marker records work done under the lease that holds the task.
Mark(t) ==
  /\ life[t].status = "running" /\ <<t, life[t].lease>> \in done
  /\ Becomes(t, [life[t] EXCEPT !.marked = TRUE])

\* A task succeeds for work done under the lease that holds it.
Succeed(t) ==
  /\ life[t].status = "running" /\ <<t, life[t].lease>> \in done
  /\ Becomes(t, [life[t] EXCEPT !.status = "succeeded"])

\* A task fails on its last attempt, and not once its work is marked.
Fail(t) ==
  /\ life[t].status = "running" /\ ~life[t].marked /\ life[t].attempts + 1 = MaxAttempts
  /\ Becomes(t, [life[t] EXCEPT !.status = "failed", !.attempts = MaxAttempts])

\* An attempt that failed, or whose lease was lost, is counted; losing the lease
\* also uses up its number.
Retry(t) ==
  /\ life[t].status = "running" /\ life[t].attempts + 1 < MaxAttempts
  /\ \E n \in {life[t].lease, life[t].lease + 1} :
       Becomes(t, [status |-> "pending", attempts |-> life[t].attempts + 1,
                   lease |-> n, marked |-> FALSE])

\* A claim that was not used is given back and counts for nothing.
GiveBack(t) ==
  /\ life[t].status = "running" /\ ~life[t].marked
  /\ Becomes(t, [life[t] EXCEPT !.status = "pending"])

\* A task never attempted is too late to be worth running.
Miss(t) ==
  /\ life[t].status = "pending" /\ life[t].attempts = 0
  /\ Becomes(t, [life[t] EXCEPT !.status = "missed"])

\* The task is deleted: with its job, while pending for a new schedule, or when finished.
Remove(t) == Becomes(t, [life[t] EXCEPT !.status = "gone"])

TaskStep(t) ==
  Claim(t) \/ Mark(t) \/ Succeed(t) \/ Fail(t) \/ Retry(t) \/ GiveBack(t) \/ Miss(t) \/ Remove(t)

\* One statement of the store may take several tasks a step further.
Step ==
  /\ DOMAIN life' = Tasks
  /\ \A t \in Tasks : TaskStep(t) \/ Becomes(t, life[t])
  /\ UNCHANGED done

\* The handler does its work under a lease, which may be over by then.
Work ==
  /\ \E t \in Tasks : \E n \in 1..life[t].lease : done' = done \cup {<<t, n>>}
  /\ UNCHANGED life

Spec == Init /\ [][Step \/ Work]_<<life, done>>
=============================================================================
