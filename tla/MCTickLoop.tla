----------------------------- MODULE MCTickLoop -----------------------------
(* TLC instances of TickLoop. *)
EXTENDS TickLoop, TLC

CONSTANTS cron, once, c1, c2

(* A cron job that fires at 2, 4, ... and a run-once job due at 1. *)
MCKind == [j \in Jobs |-> IF j = once THEN "run_once" ELSE "cron"]
MCPeriod == [j \in Jobs |-> 2]
MCFirstFire == [j \in Jobs |-> IF j = once THEN 1 ELSE 2]
One == [j \in Jobs |-> 1]

(* No misfire gating; or a window of one second, in which a missed cron    *)
(* fire is given up and a missed run-once fire is made up for.             *)
NoWindow == [j \in Jobs |-> 0]
ShortWindow == [j \in Jobs |-> 1]
OnceOnly == [j \in Jobs |-> j = once]

CoordinatorSymmetry == Permutations({c1, c2})
=============================================================================
