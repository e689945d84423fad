----------------------- MODULE MCExecutionConcurrency -----------------------
(***************************************************************************)
(* Small instances of ExecutionConcurrency.                                *)
(***************************************************************************)
EXTENDS ExecutionConcurrency

CONSTANTS e1, e2, e3

OneExecution == {e1}
TwoExecutions == {e1, e2}
ThreeExecutions == {e1, e2, e3}
=============================================================================
