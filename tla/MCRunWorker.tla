---------------------------- MODULE MCRunWorker ----------------------------
(* TLC instances of RunWorker. *)
EXTENDS RunWorker, TLC

CONSTANTS r1, r2, r3, w1, w2, w3, j1, general, gpu

(* Two slots of "general", one of "gpu". *)
TwoPools == w1 :> general @@ w2 :> general @@ w3 :> gpu

(* j1 is retried once. *)
RetryJ1 == j1 :> 1
=============================================================================
