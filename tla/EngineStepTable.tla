-------------------------- MODULE EngineStepTable --------------------------
(***************************************************************************)
(* What the step store promises the handlers about one execution's table:  *)
(* each operation happens at once, against the table as it stands.  This   *)
(* is the table EngineExecution is written over.                           *)
(***************************************************************************)
EXTENDS Sequences

CONSTANTS
  Keys,     \* the step keys of the execution
  Plans     \* the sequences of keys a planner may ask to create

VARIABLE rows   \* the status of each key's row, "none" where there is none

AnyFailed == \E k \in Keys : rows[k] = "failed"

KeysOf(plan) == {plan[i] : i \in DOMAIN plan}

Init == rows = [k \in Keys |-> "none"]

\* A plan lands whole, but for the rows that exist, or not at all.
CreateSteps ==
  /\ ~AnyFailed
  /\ \E plan \in Plans :
       rows' = [k \in Keys |-> IF k \in KeysOf(plan) /\ rows[k] = "none" THEN "queued" ELSE rows[k]]

ClaimStep ==
  /\ ~AnyFailed
  /\ \E k \in Keys : rows[k] = "queued" /\ rows' = [rows EXCEPT ![k] = "running"]

SettleStep ==
  \E k \in Keys, status \in {"completed", "failed"} :
    rows[k] = "running" /\ rows' = [rows EXCEPT ![k] = status]

CancelQueuedSteps ==
  /\ AnyFailed
  /\ rows' = [k \in Keys |-> IF rows[k] = "queued" THEN "cancelled" ELSE rows[k]]

Next == CreateSteps \/ ClaimStep \/ SettleStep \/ CancelQueuedSteps

Spec == Init /\ [][Next]_rows
=============================================================================
