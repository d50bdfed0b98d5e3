-------------------------- MODULE MCLeaderElection --------------------------
(* TLC instances of LeaderElection. *)
EXTENDS LeaderElection, TLC

CONSTANTS i1, i2

=============================================================================
