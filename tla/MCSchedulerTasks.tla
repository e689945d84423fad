-------------------------- MODULE MCSchedulerTasks --------------------------
(***************************************************************************)
(* A small instance of SchedulerTasks.                                      *)
(***************************************************************************)
EXTENDS SchedulerTasks

CONSTANTS h1, h2, t1

OneTask == {t1}
TwoHosts == {h1, h2}
=============================================================================
