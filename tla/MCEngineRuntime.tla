--------------------------- MODULE MCEngineRuntime ---------------------------
(***************************************************************************)
(* A small instance of EngineRuntime: its two workers.                     *)
(***************************************************************************)
EXTENDS EngineRuntime

TwoWorkers == {"orchestration", "step"}
=============================================================================
