---------------------------- MODULE MCExecution ----------------------------
(* TLC instance of Execution. *)
EXTENDS Execution

CONSTANTS r1, r2, t1, t2, s1, known, unknown
=============================================================================
