----------------------------- MODULE MCJobAdmin -----------------------------
(* Two clients, two job ids, two names; a script that is registered and    *)
(* one that is not.                                                        *)
EXTENDS JobAdmin

Q(n, m, s, k, a, e, b) ==
    [name |-> n, to |-> m, script |-> s, kind |-> k, actor |-> a, on |-> e, bump |-> b]

(* Over HTTP: a cron job, the same with a privileged actor, a run-once     *)
(* job, and a script nobody registered.                                    *)
MCHttpUpserts == {Q("n1", "n1", "s1", "cron", "null", TRUE, TRUE),
                  Q("n1", "n1", "s1", "run_once", "system", TRUE, TRUE),
                  Q("n1", "n1", "s1", "run_once", "null", TRUE, TRUE),
                  Q("n1", "n1", "s2", "cron", "null", TRUE, TRUE)}

(* In-process: a run-once job with a time, and a paused manual job by the  *)
(* system that a later upsert renames, keeping its revision number.        *)
MCHostUpserts == {Q("n1", "n1", "s1", "run_once", "null", TRUE, TRUE),
                  Q("n2", "n1", "s2", "manual", "system", FALSE, FALSE)}
=============================================================================
