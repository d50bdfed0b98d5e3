------------------------------ MODULE Adapters ------------------------------
(***************************************************************************)
(* The in-memory store and the SQL store side by side: the same calls are  *)
(* made on both, any calls of the port with any arguments, in any order.   *)
(***************************************************************************)
EXTENDS Store

VARIABLES
    mem,     \* the in-memory store
    sql      \* the SQL store

----------------------------------------------------------------------------
(* The calls of the port.                                                  *)

Stamps == Nat \cup {Null}
Instances == STRING \ {NoOne}
RunStatuses == {"queued", "claimed", "running", "success", "failed", "canceled", "timeout"}

(* run_once_claimed_by and run_once_claim_expires_at are set and cleared   *)
(* together.                                                               *)
PortJobs ==
    {j \in [name : STRING, kind : {"cron", "run_once", "manual"}, enabled : BOOLEAN,
            next : Stamps, part : Nat, tick : Stamps, by : Instances \cup {NoOne},
            until : Stamps, done : BOOLEAN, rev : Nat] : j.by = NoOne <=> j.until = Null}
PortRuns == [job : STRING, pool : STRING, sched : Nat, status : RunStatuses,
             by : Instances \cup {NoOne}, lease : Stamps]

JobCalls ==
    [op : {"upsert_job"}, id : STRING, row : PortJobs]
    \cup [op : {"get_job", "delete_job", "mark_run_once", "release_tick", "list_revisions"},
          id : STRING]
    \cup [op : {"list_jobs"}]
    \cup [op : {"by_name"}, name : STRING]
    \cup [op : {"set_enabled"}, id : STRING, on : BOOLEAN]
    \cup [op : {"persist"}, id : STRING, next : Stamps]
    \cup [op : {"claim_tick"}, id : STRING, now : Nat, ttl : Nat]
    \cup [op : {"try_claim_run_once", "release_run_once"}, id : STRING, by : Instances,
          now : Nat, ttl : Nat]
    \cup [op : {"find_due"}, id : STRING, parts : SUBSET Nat, now : Nat]
    \cup [op : {"due_jobs"}, id : STRING, now : Nat]
    \cup [op : {"min_next"}, parts : SUBSET Nat]
    \cup [op : {"append_revision"}, id : STRING, rev : Nat]

RunCalls ==
    [op : {"create_run"}, id : STRING, row : PortRuns]
    \cup [op : {"update_run"}, id : STRING, status : RunStatuses, lease : Stamps]
    \cup [op : {"get_run"}, id : STRING]
    \cup [op : {"list_runs"}, job : STRING, status : STRING, offset : Nat, limit : Nat]
    \cup [op : {"claim_next", "claim_by_id"}, id : STRING, pool : STRING, by : Instances,
          now : Nat, ttl : Nat]
    \cup [op : {"renew_run"}, id : STRING, by : Instances, now : Nat, ttl : Nat]
    \cup [op : {"reclaim"}, now : Nat]

RestCalls ==
    [op : {"acquire_leader", "renew_leader"}, by : Instances, now : Nat, ttl : Nat]
    \cup [op : {"get_leader", "list_parts"}]
    \cup [op : {"register_worker", "heartbeat"}, id : STRING, now : Nat]
    \cup [op : {"upsert_script"}, id : STRING, hash : STRING]
    \cup [op : {"get_script"}, id : STRING]
    \cup [op : {"assign"}, id : STRING, by : Instances, now : Nat, ttl : Nat]

(* The calls that may be made next.  A run id is a new UUID.  Neither      *)
(* store says which of two runs of the same time it takes or lists first,  *)
(* so that no two runs have the same.  list_runs_for_job is list_runs      *)
(* without a status and an offset; claim_runs_by_ids, which goes through a *)
(* list in the one store and is one statement in the other, is left to     *)
(* StoreContract.                                                          *)
PortCalls ==
    {c \in JobCalls \cup RunCalls \cup RestCalls :
        c.op = "create_run" =>
            /\ ~Has(sql.runs, c.id)
            /\ \A r \in DOMAIN sql.runs : sql.runs[r].sched # c.row.sched}

----------------------------------------------------------------------------
(* The stores for SQLite and PostgreSQL forward each call to the SQL store *)
(* they wrap.                                                              *)
Delegated(s, c) == SqlReply(s, c)

OnBoth(c) ==
    /\ mem' = MemReply(mem, c).store
    /\ sql' = Delegated(sql, c).store

AdapterSpec ==
    /\ mem = Empty /\ sql = Empty
    /\ [][\E c \in PortCalls : OnBoth(c)]_<<mem, sql>>

----------------------------------------------------------------------------
(* The in-memory name index is the inverse of the job table after any      *)
(* sequence of creates, renames and deletes.                               *)
NameIndexExact ==
    /\ \A i \in DOMAIN mem.jobs :
          Has(mem.names, mem.jobs[i].name) /\ mem.names[mem.jobs[i].name] = i
    /\ \A n \in DOMAIN mem.names : Has(mem.jobs, mem.names[n]) /\ mem.jobs[mem.names[n]].name = n

(* Whatever was called before, the adapters hold the same rows, and the    *)
(* in-memory one an index that goes with them (InMemorySchedulerStore,     *)
(* SqlSchedulerStore).                                                     *)
AdaptersAgree == [mem EXCEPT !.names = <<>>] = sql /\ NameIndexExact

(* The calls that SQL makes on a job that is gone without noticing, where  *)
(* the in-memory store answers JobNotFound.                                *)
Blind(c) == c.op \in {"mark_run_once", "release_run_once", "release_tick", "persist"}
                /\ ~Has(sql.jobs, c.id)

(* A call is answered alike, a Blind one apart; revisions are listed in    *)
(* the order appended or by number, the runs claimed together in the order *)
(* asked for or in none.                                                   *)
AnsweredAlike(c) ==
    LET m == MemReply(mem, c).answer
        q == Delegated(sql, c).answer
    IN  \/ m = q
        \/ Blind(c)
        \/ c.op \in {"list_revisions", "claim_by_ids"} /\ ToSet(m) = ToSet(q)
=============================================================================
