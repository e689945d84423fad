-------------------------- MODULE MCLeaderElection --------------------------
(***************************************************************************)
(* A small instance of LeaderElection.                                     *)
(***************************************************************************)
EXTENDS LeaderElection

CONSTANTS h1, h2, h3

TwoHosts == {h1, h2}
ThreeHosts == {h1, h2, h3}
=============================================================================
