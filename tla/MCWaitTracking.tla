--------------------------- MODULE MCWaitTracking ---------------------------
(***************************************************************************)
(* Small instances of WaitTracking.                                        *)
(***************************************************************************)
EXTENDS WaitTracking

CONSTANTS h1, h2, e1, e2

OneHost == {h1}
TwoHosts == {h1, h2}
OneExecution == {e1}
TwoExecutions == {e1, e2}
=============================================================================
