-------------------------- MODULE EngineStepStore --------------------------
(***************************************************************************)
(* The step store's transactions on one execution (packages/@n8n/engine/   *)
(* src/database/typeorm-step-store.ts), statement by statement, on         *)
(* PostgreSQL at READ COMMITTED.                                           *)
(*                                                                         *)
(* A statement reads what is committed when it starts.  A row another      *)
(* session wrote and has not committed makes an insert of that key or an   *)
(* update of that row wait; the update then looks at the row again, but    *)
(* not at the other rows its condition names.  The lock on the execution   *)
(* row is shared by planners and claims and exclusive to a failure.  A     *)
(* session may lose its transaction at any moment, to an error or as the   *)
(* victim of a deadlock between two planners.                              *)
(*                                                                         *)
(* A key's row has a status only; a planner's skipped rows are left out.   *)
(***************************************************************************)
EXTENDS Sequences

CONSTANTS
  Keys,       \* the step keys of the execution
  Plans,      \* the sequences of keys a planner may ask to create
  Sessions    \* the database sessions of the workers

ASSUME PlansAssumption == Plans \subseteq Seq(Keys) \ {<<>>}

VARIABLES
  rows,       \* the committed status of each key's row, "none" where there is none
  tx,         \* each session's transaction
  swept       \* whether a cancellation sweep has committed

vars == <<rows, tx, swept>>

Statuses == {"none", "queued", "running", "completed", "failed", "cancelled"}

NoWrites == [k \in Keys |-> "none"]

NoTx == [pc |-> "idle", lock |-> "none", todo |-> <<>>, targets |-> {}, writes |-> NoWrites]

Init ==
  /\ rows = [k \in Keys |-> "none"]
  /\ tx = [s \in Sessions |-> NoTx]
  /\ swept = FALSE

AnyFailed == \E k \in Keys : rows[k] = "failed"

At(s, pc) == tx[s].pc = pc

Goto(s, pc) == tx' = [tx EXCEPT ![s].pc = pc]

\* The transaction ends, and gives up its locks and whatever it has not committed.
Done(s) == tx' = [tx EXCEPT ![s] = NoTx]

Begin(s, pc, todo, targets) ==
  /\ At(s, "idle")
  /\ tx' = [tx EXCEPT ![s] = [NoTx EXCEPT !.pc = pc, !.todo = todo, !.targets = targets]]

\* Another session wrote k's row and has not committed.
WrittenByOther(s, k) == \E t \in Sessions \ {s} : tx[t].writes[k] # "none"

Write(s, pc, k, status) ==
  tx' = [tx EXCEPT ![s].pc = pc, ![s].writes[k] = status]

\* Mutated: the shared lock is not taken.
LockSharedNot(s, from, to) == At(s, from) /\ Goto(s, to)

\* SELECT ... FOR SHARE on the execution row.
LockShared(s, from, to) ==
  /\ At(s, from)
  /\ \A t \in Sessions \ {s} : tx[t].lock # "exclusive"
  /\ tx' = [tx EXCEPT ![s].pc = to, ![s].lock = "share"]

\* Mutated: a failure does not wait for the claims and plans under way.
LockExclusiveNot(s, from, to) == At(s, from) /\ Goto(s, to)

\* SELECT ... FOR NO KEY UPDATE on the execution row.
LockExclusive(s, from, to) ==
  /\ At(s, from)
  /\ \A t \in Sessions \ {s} : tx[t].lock = "none"
  /\ tx' = [tx EXCEPT ![s].pc = to, ![s].lock = "exclusive"]

-----------------------------------------------------------------------------
(***************************************************************************)
(* createSteps.                                                            *)
(***************************************************************************)
BeginCreate(s) == \E plan \in Plans : Begin(s, "lockCreate", plan, {})

LockCreate(s) == LockShared(s, "lockCreate", "checkFailed")

CheckFailed(s) ==
  /\ At(s, "checkFailed")
  /\ IF AnyFailed THEN Done(s) ELSE Goto(s, "insert")

\* INSERT ... ON CONFLICT DO NOTHING, one row after the other.
InsertRow(s) ==
  LET k == Head(tx[s].todo)
      left == Tail(tx[s].todo)
  IN  /\ At(s, "insert")
      /\ ~WrittenByOther(s, k)
      /\ tx' = [tx EXCEPT ![s].pc = IF left = <<>> THEN "commit" ELSE "insert",
                          ![s].todo = left,
                          ![s].writes[k] = IF rows[k] = "none" THEN "queued" ELSE @]

-----------------------------------------------------------------------------
(***************************************************************************)
(* claimStep.                                                              *)
(***************************************************************************)
BeginClaim(s) == \E k \in Keys : rows[k] # "none" /\ Begin(s, "lockClaim", <<>>, {k})

LockClaim(s) == LockShared(s, "lockClaim", "matchClaim")

\* The update's condition, over the snapshot its statement takes.
MatchClaim(s) ==
  /\ At(s, "matchClaim")
  /\ IF ~AnyFailed /\ \A k \in tx[s].targets : rows[k] = "queued"
     THEN Goto(s, "claimRow") ELSE Done(s)

ClaimRow(s) ==
  /\ At(s, "claimRow")
  /\ \E k \in tx[s].targets :
       /\ ~WrittenByOther(s, k)
       /\ IF rows[k] = "queued" THEN Write(s, "commit", k, "running") ELSE Done(s)

-----------------------------------------------------------------------------
(***************************************************************************)
(* failStep and completeStep.                                              *)
(***************************************************************************)
BeginFail(s) == \E k \in Keys : rows[k] = "running" /\ Begin(s, "lockFail", <<>>, {k})

LockFail(s) == LockExclusive(s, "lockFail", "failRow")

FailRow(s) ==
  /\ At(s, "failRow")
  /\ \E k \in tx[s].targets :
       /\ ~WrittenByOther(s, k)
       /\ IF rows[k] = "running" THEN Write(s, "commit", k, "failed") ELSE Done(s)

CompleteStep(s) ==
  /\ At(s, "idle")
  /\ \E k \in Keys :
       /\ rows[k] = "running" /\ ~WrittenByOther(s, k)
       /\ rows' = [rows EXCEPT ![k] = "completed"]
  /\ UNCHANGED <<tx, swept>>

-----------------------------------------------------------------------------
(***************************************************************************)
(* cancelQueuedSteps, called once a handler has seen a failed step: one    *)
(* update of the rows queued in its snapshot.                              *)
(***************************************************************************)
BeginSweep(s) ==
  /\ AnyFailed
  /\ LET queued == {k \in Keys : rows[k] = "queued"}
     IN  Begin(s, IF queued = {} THEN "commitSweep" ELSE "sweep", <<>>, queued)

SweepRow(s) ==
  /\ At(s, "sweep")
  /\ \E k \in tx[s].targets :
       /\ ~WrittenByOther(s, k)
       /\ tx' = [tx EXCEPT ![s].pc = IF tx[s].targets = {k}
                                     THEN "commitSweep" ELSE "sweep",
                           ![s].targets = @ \ {k},
                           ![s].writes[k] = IF rows[k] = "queued" THEN "cancelled" ELSE @]

-----------------------------------------------------------------------------
CommitWrites(s) ==
  /\ rows' = [k \in Keys |-> IF tx[s].writes[k] = "none" THEN rows[k] ELSE tx[s].writes[k]]
  /\ Done(s)

Commit(s) == At(s, "commit") /\ CommitWrites(s) /\ UNCHANGED swept

CommitSweep(s) == At(s, "commitSweep") /\ CommitWrites(s) /\ swept' = TRUE

Abort(s) == ~At(s, "idle") /\ Done(s) /\ UNCHANGED <<rows, swept>>

Statement(s) ==
  \/ BeginCreate(s) \/ LockCreate(s) \/ CheckFailed(s) \/ InsertRow(s)
  \/ BeginClaim(s) \/ LockClaim(s) \/ MatchClaim(s) \/ ClaimRow(s)
  \/ BeginFail(s) \/ LockFail(s) \/ FailRow(s)
  \/ BeginSweep(s) \/ SweepRow(s)

Next ==
  \E s \in Sessions :
    \/ Statement(s) /\ UNCHANGED <<rows, swept>>
    \/ CompleteStep(s) \/ Commit(s) \/ CommitSweep(s) \/ Abort(s)

Spec == Init /\ [][Next]_vars

-----------------------------------------------------------------------------
(***************************************************************************)
(* Properties.                                                             *)
(***************************************************************************)
\* No step is left queued behind the sweep that follows a failure, whatever was
\* being planned or claimed meanwhile (createSteps: "rows land before the failure
\* (its sweep cancels them) or not at all").
SweepLeavesNothing == swept => \A k \in Keys : rows[k] # "queued"

\* The transactions come to operations that happen at once: a plan lands whole,
\* and neither a claim nor a plan lands once a failure has (claimStep: "no step
\* starts running once its execution has a failed step").
Table == INSTANCE EngineStepTable
ImplementsStepTable == Table!Spec
=============================================================================
