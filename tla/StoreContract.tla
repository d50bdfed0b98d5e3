--------------------------- MODULE StoreContract ---------------------------
(***************************************************************************)
(* The adapters of module Store under test.  The same calls are made on    *)
(* the in-memory store, the SQL store and the composite, in one of the     *)
(* modes                                                                   *)
(*   - "contract": the checks of chronon-testkit/src/store_contract.rs,    *)
(*     one after another, each a list of calls and the answers it asserts; *)
(*   - "jobs", "runs", "rest": any calls on one group of tables;           *)
(*   - "race": workers claim from a PostgreSQL table concurrently, with    *)
(*     the row locks of the claim statement;                               *)
(*   - "boot": processes open a SQL store, as in module Schema.            *)
(***************************************************************************)
EXTENDS Adapters, StoreComposite, Schema

CONSTANTS MaxCalls,    \* calls made in the modes "jobs", "runs" and "rest"
          Horizon,     \* the clock stops here in those modes
          Racers       \* the workers of the race

VARIABLES
    mode,    \* which calls are made
    plan,    \* contract: the checks still to run, the current one first
    at,      \* contract: the next step of the current check
    comp,    \* the composite: its SQL store and its Redis queue
    now,     \* the clock
    calls,   \* calls made so far
    raced,   \* race: the runs, as a SQL table
    lock,    \* race: the row each worker's statement has locked
    got      \* race: the claims each worker was given

storeVars == <<mode, plan, at, mem, sql, comp, now, calls, raced, lock, got>>
vars == <<storeVars, bootVars>>

----------------------------------------------------------------------------
(* The checks.  A step is a call and what is asserted of its answer: that  *)
(* it is a given one, that an id is in it or is not, or nothing.  t is the *)
(* time the check starts.                                                  *)

Step(c, want) == [call |-> c, how |-> "is", want |-> want]
Holding(c, id) == [call |-> c, how |-> "has", want |-> <<id>>]
Lacking(c, id) == [call |-> c, how |-> "lacks", want |-> <<id>>]
Unlooked(c) == [call |-> c, how |-> "any", want |-> <<>>]

Meets(step, answer) ==
    CASE step.how = "is" -> answer = step.want
      [] step.how = "has" -> step.want[1] \in Range(answer)
      [] step.how = "lacks" -> step.want[1] \notin Range(answer)
      [] step.how = "any" -> TRUE

Upsert(id, row) == [op |-> "upsert_job", id |-> id, row |-> row]
OnJob(op, id) == [op |-> op, id |-> id]
ByName(name) == [op |-> "by_name", name |-> name]
Enabled(id, on) == [op |-> "set_enabled", id |-> id, on |-> on]
DueNow(id, t) == [op |-> "due_jobs", id |-> id, now |-> t]
FindDue(id, parts, t) == [op |-> "find_due", id |-> id, parts |-> parts, now |-> t]
ClaimTick(id, t) == [op |-> "claim_tick", id |-> id, now |-> t, ttl |-> 60]
TryOnce(id, by, t) == [op |-> "try_claim_run_once", id |-> id, by |-> by, now |-> t, ttl |-> 60]
Create(id, row) == [op |-> "create_run", id |-> id, row |-> row]
ClaimNext(pool, by, t, ttl) ==
    [op |-> "claim_next", id |-> NoOne, pool |-> pool, by |-> by, now |-> t, ttl |-> ttl]
Renew(id, by, t, ttl) == [op |-> "renew_run", id |-> id, by |-> by, now |-> t, ttl |-> ttl]
Reclaim(t) == [op |-> "reclaim", now |-> t]
Append_(id, rev) == [op |-> "append_revision", id |-> id, rev |-> rev]
Acquire(by, t) == [op |-> "acquire_leader", by |-> by, now |-> t, ttl |-> 30]

UpsertJobRoundtripByName(t) ==
    << Step(Upsert("j1", Job("nightly")), Ok),
       Step(OnJob("get_job", "j1"), <<"nightly", "on", 1>>),
       Step(ByName("nightly"), <<"j1">>) >>

UpsertJobRejectsTakenName(t) ==
    << Step(Upsert("j2", Due("name-taken", 0, t)), Ok),
       Step(Upsert("j2", [Due("name-taken", 0, t) EXCEPT !.rev = 2]), Ok),
       Step(OnJob("get_job", "j2"), <<"name-taken", "on", 2>>),
       Step(Upsert("j3", Due("name-taken", 0, t)), <<"taken", "j2">>),
       Step(OnJob("get_job", "j3"), <<>>),
       Step(ByName("name-taken"), <<"j2">>),
       Step(OnJob("delete_job", "j2"), <<"yes">>) >>

DeleteJobFreesName(t) ==
    << Step(Upsert("j4", Due("delete-me", 0, t)), Ok),
       Step(Append_("j4", 1), Ok),
       Step(OnJob("delete_job", "j4"), <<"yes">>),
       Step(OnJob("get_job", "j4"), <<>>),
       Step(ByName("delete-me"), <<>>),
       Step(DueNow("j4", t), <<"no">>),
       Step(OnJob("list_revisions", "j4"), <<>>),
       Step(OnJob("delete_job", "j4"), <<"no">>),
       Step(Upsert("j5", Due("delete-me", 0, t)), Ok),
       Step(ByName("delete-me"), <<"j5">>),
       Step(OnJob("delete_job", "j5"), <<"yes">>) >>

ListDueJobsRespectsEnabled(t) ==
    << Step(Upsert("j6", Due("due", 0, t)), Ok),
       Step(Upsert("j7", [Job("future") EXCEPT !.next = t + 60]), Ok),
       Step(Upsert("j8", [Due("paused", 0, t) EXCEPT !.enabled = FALSE]), Ok),
       Step(DueNow("j6", t), <<"yes">>),
       Step(DueNow("j7", t), <<"no">>),
       Step(DueNow("j8", t), <<"no">>) >>

ClaimJobForTickExclusive(t) ==
    << Step(Upsert("j9", Due("tick-job", 0, t)), Ok),
       Step(ClaimTick("j9", t), <<"yes">>),
       Step(ClaimTick("j9", t), <<"no">>),
       Step(OnJob("release_tick", "j9"), Ok),
       Step(ClaimTick("j9", t), <<"yes">>) >>

FindDueRespectsPartitions(t) ==
    << Step(Upsert("j10", Due("partitioned", 2, t)), Ok),
       Step(FindDue("j10", {2}, t), <<"yes">>),
       Step(FindDue("j10", {0, 1, 3}, t), <<"no">>) >>

FindDueSkipsCompleted(t) ==
    << Step(Upsert("j11", [Due("run-once", 1, t) EXCEPT !.kind = "run_once"]), Ok),
       Step(OnJob("mark_run_once", "j11"), Ok),
       Step(FindDue("j11", {1}, t), <<"no">>) >>

TryClaimRunOnceContention(t) ==
    << Step(Upsert("j12", [Job("once") EXCEPT !.kind = "run_once"]), Ok),
       Step(TryOnce("j12", "coord-a", t), <<"yes">>),
       Step(TryOnce("j12", "coord-b", t), <<"no">>),
       Step(OnJob("mark_run_once", "j12"), Ok),
       Step(TryOnce("j12", "coord-c", t), <<"no">>) >>

ClaimNextOrdersAndFilters(t) ==
    << Step(Create("late", Run("job-1", "workers", t - 3)), Ok),
       Step(Create("early", Run("job-1", "workers", t - 6)), Ok),
       Step(Create("other", Run("job-1", "other", t - 9)), Ok),
       Step(ClaimNext("workers", "worker-1", t, 30), <<"early">>),
       Step(Create("general", Run("job-2", "none", t)), Ok),
       Step(ClaimNext("general", "worker-2", t, 30), <<"general">>) >>

RenewRequiresMatchingWorker(t) ==
    << Step(Create("renew", Run("job-1", "pool", t)), Ok),
       Unlooked(ClaimNext("pool", "worker-a", t, 30)),
       Step(Renew("renew", "worker-a", t, 60), <<"yes">>),
       Step(Renew("renew", "worker-b", t, 60), <<"no">>) >>

ReclaimExpiredAllowsReclaim(t) ==
    << Step(Create("reclaim", Run("job-reclaim", "pool", t)), Ok),
       Step(ClaimNext("pool", "worker-a", t, 30), <<"reclaim">>),
       Step([op |-> "update_run", id |-> "reclaim", status |-> "running", lease |-> t - 1], Ok),
       Holding(Reclaim(t), "reclaim"),
       Step(ClaimNext("pool", "worker-b", t, 30), <<"reclaim">>) >>

ReclaimSkipsActive(t) ==
    << Step(Create("active", Run("job-active-lease", "pool", t)), Ok),
       Unlooked(ClaimNext("pool", "worker-a", t, 300)),
       Lacking(Reclaim(t), "active"),
       Step(Renew("active", "worker-a", t, 300), <<"yes">>) >>

LeaderBlocksSecond(t) ==
    << Step(Acquire("inst-a", t), <<"yes">>),
       Step(Acquire("inst-b", t), <<"no">>),
       Step([op |-> "renew_leader", by |-> "inst-a", now |-> t, ttl |-> 30], Ok),
       Step([op |-> "get_leader"], <<"inst-a">>) >>

PauseAndResume(t) ==
    << Step(Upsert("j13", Job("pausable")), Ok),
       Step(Enabled("j13", FALSE), Ok),
       Step(OnJob("get_job", "j13"), <<"pausable", "off", 1>>),
       Step(Enabled("j13", TRUE), Ok),
       Step(OnJob("get_job", "j13"), <<"pausable", "on", 1>>) >>

ScriptRoundtrip(t) ==
    << Step([op |-> "upsert_script", id |-> "cleanup", hash |-> "hash-v1"], Ok),
       Step([op |-> "get_script", id |-> "cleanup"], <<"hash-v1">>) >>

RevisionAppendAndList(t) ==
    << Step(Upsert("j14", Job("rev-job")), Ok),
       Step(Append_("j14", 1), Ok),
       Step(OnJob("list_revisions", "j14"), <<1>>) >>

WorkerRegisterAndHeartbeat(t) ==
    << Step([op |-> "register_worker", id |-> "worker-1", now |-> t], Ok),
       Step([op |-> "heartbeat", id |-> "worker-1", now |-> t + 5], Ok) >>

RunOnceDoubleClaimRejected(t) ==
    << Step(Upsert("j15", [Job("once-claim") EXCEPT !.kind = "run_once"]), Ok),
       Step(TryOnce("j15", "coord-a", t), <<"yes">>),
       Step(TryOnce("j15", "coord-b", t), <<"no">>) >>

(* The sequential part of the check with concurrent workers, for 2 runs:   *)
(* each is handed out once and then there is none.                         *)
ConcurrentClaims(t) ==
    << Step(Create("c0", Run("concurrent-job", "general", t)), Ok),
       Step(Create("c1", Run("concurrent-job", "general", t - 1)), Ok),
       Step(ClaimNext("general", "concurrent-worker-0", t, 30), <<"c1">>),
       Step(ClaimNext("general", "concurrent-worker-1", t, 30), <<"c0">>),
       Step(ClaimNext("general", "concurrent-worker-0", t, 30), <<>>) >>

Checks(t) ==
    << UpsertJobRoundtripByName(t), UpsertJobRejectsTakenName(t), DeleteJobFreesName(t),
       ListDueJobsRespectsEnabled(t), ClaimJobForTickExclusive(t), FindDueRespectsPartitions(t),
       FindDueSkipsCompleted(t), TryClaimRunOnceContention(t), ClaimNextOrdersAndFilters(t),
       RenewRequiresMatchingWorker(t), ReclaimExpiredAllowsReclaim(t), ReclaimSkipsActive(t),
       LeaderBlocksSecond(t), PauseAndResume(t), ScriptRoundtrip(t), RevisionAppendAndList(t),
       WorkerRegisterAndHeartbeat(t), RunOnceDoubleClaimRejected(t), ConcurrentClaims(t) >>

(* The order of run_store_contract, the reverse, and any two checks. *)
InOrder == [i \in 1..Len(Checks(0)) |-> i]
Plans == {InOrder, Reverse(InOrder)}
            \cup {p \in (DOMAIN InOrder) \X (DOMAIN InOrder) : p[1] # p[2]}

----------------------------------------------------------------------------
(* The calls of the other modes, two keys of each kind.  Run ids are new   *)
(* UUIDs, so a run is created once; a run is updated by its holder.        *)

Ids == {"a", "b"}
RunKeys == {"r1", "r2"}
Sched == [r \in RunKeys |-> IF r = "r1" THEN 1 ELSE 2]

SomeJobCalls ==
    {Upsert(i, [Job(n) EXCEPT !.kind = "run_once", !.next = 1]) : i \in Ids, n \in {"x", "y"}}
    \cup {OnJob(op, i) : op \in {"delete_job", "mark_run_once", "release_tick"}, i \in Ids}
    \cup {Enabled(i, on) : i \in Ids, on \in BOOLEAN}
    \cup {[op |-> "persist", id |-> i, next |-> n] : i \in Ids, n \in {Null, 2}}
    \cup {[op |-> "claim_tick", id |-> i, now |-> now, ttl |-> 1] : i \in Ids}
    \cup {[op |-> op, id |-> i, by |-> b, now |-> now, ttl |-> 1] :
             op \in {"try_claim_run_once", "release_run_once"}, i \in Ids, b \in {"p", "q"}}

Together == {<<"r2", "r1">>, <<"r1", "r1">>}
ClaimTogether(ids, t) == [op |-> "claim_by_ids", id |-> NoOne, ids |-> ids, pool |-> "general",
                          by |-> "w", now |-> t, ttl |-> 1]

SomeRunCalls ==
    {Create(r, Run("a", p, Sched[r])) :
        r \in RunKeys \ DOMAIN sql.runs, p \in {"none", "general", "pool"}}
    \cup {ClaimNext(p, w, now, 1) : p \in {"general", "pool"}, w \in {"v", "w"}}
    \cup {[op |-> "claim_by_id", id |-> r, pool |-> p, by |-> "w", now |-> now, ttl |-> 1] :
             r \in RunKeys, p \in {"general", "pool"}}
    \cup {ClaimTogether(ids, now) : ids \in Together}
    \cup {Renew(r, w, now, 1) : r \in RunKeys, w \in {"v", "w"}}
    \cup {[op |-> "update_run", id |-> r, status |-> st, lease |-> sql.runs[r].lease] :
             r \in {q \in DOMAIN sql.runs : Held(sql.runs[q])}, st \in {"running", "success"}}
    \cup {Reclaim(now)}

SomeRestCalls ==
    {[op |-> op, by |-> i, now |-> now, ttl |-> 1] :
        op \in {"acquire_leader", "renew_leader"}, i \in Ids}
    \cup {[op |-> op, id |-> "w", now |-> now] : op \in {"register_worker", "heartbeat"}}
    \cup {Append_("a", n) : n \in 1..2}
    \cup {OnJob("delete_job", "a"), Upsert("a", Job("x"))}
    \cup {[op |-> "upsert_script", id |-> "s", hash |-> h] : h \in {"h1", "h2"}}
    \cup {[op |-> "assign", id |-> "0", by |-> i, now |-> now, ttl |-> 1] : i \in Ids}

Calls == CASE mode = "jobs" -> SomeJobCalls
           [] mode = "runs" -> SomeRunCalls
           [] mode = "rest" -> SomeRestCalls
           [] OTHER -> {}

(* Lookups, made on every state those calls reach. *)
Lookups == IF mode = "contract" THEN {} ELSE
    {OnJob(op, i) : op \in {"get_job", "list_revisions"}, i \in Ids}
    \cup {[op |-> op] : op \in {"list_jobs", "list_parts"}}
    \cup {[op |-> "get_run", id |-> r] : r \in RunKeys}
    \cup {ByName(n) : n \in {"x", "y"}}
    \cup {FindDue(i, {0}, now) : i \in Ids}
    \cup {DueNow(i, now) : i \in Ids}
    \cup {[op |-> "min_next", parts |-> {0}]}
    \cup {[op |-> "list_runs", job |-> j, status |-> st, offset |-> o, limit |-> l] :
             j \in {"any", "a", "b"}, st \in {"any", "queued", "claimed"}, o \in 0..2, l \in 0..2}

----------------------------------------------------------------------------
Init ==
    /\ mode \in {"contract", "jobs", "runs", "rest", "race", "boot"}
    /\ IF mode = "boot" THEN BootInit ELSE BootIdle
    /\ IF mode = "contract" THEN plan \in Plans ELSE plan = <<>>
    /\ at = 1
    /\ mem = Empty
    /\ comp = EmptyComp
    /\ sql = Empty
    /\ raced = IF mode = "race" THEN [r \in RunKeys |-> Run("a", "general", Sched[r])] ELSE <<>>
    /\ now = IF mode = "contract" THEN 10 ELSE IF mode = "race" THEN 2 ELSE 1
    /\ calls = 0
    /\ lock = [w \in Racers |-> NoOne]
    /\ got = [w \in Racers |-> <<>>]

(* One call, on every adapter. *)
Do(c) == OnBoth(c) /\ comp' = CompReply(comp, c).store

Check == Checks(now)[plan[1]]

ContractStep ==
    /\ mode = "contract" /\ plan # <<>>
    /\ Do(Check[at].call)
    /\ IF at < Len(Check)
       THEN at' = at + 1 /\ UNCHANGED <<plan, now>>
       ELSE at' = 1 /\ plan' = Tail(plan) /\ now' = now + 1
    /\ UNCHANGED <<mode, calls, raced, lock, got>>

AnyCall ==
    /\ calls < MaxCalls
    /\ \E c \in Calls : Do(c)
    /\ calls' = calls + 1
    /\ UNCHANGED <<mode, plan, at, now, raced, lock, got>>

Clock ==
    /\ mode \in {"jobs", "runs", "rest"} /\ now < Horizon
    /\ now' = now + 1
    /\ UNCHANGED <<mode, plan, at, mem, sql, comp, calls, raced, lock, got>>

(* FOR UPDATE SKIP LOCKED: the rows another statement has locked are       *)
(* passed over.                                                            *)
Lockable(w, c) ==
    {r \in DOMAIN raced : SqlClaimable(raced[r], c)} \ {lock[v] : v \in Racers \ {w}}

Racing(w) == mode = "race" /\ NoOne \notin Range(got[w])

(* The inner SELECT: lock the first row, or find none, which ends the      *)
(* worker's loop.                                                          *)
SelectForUpdate(w) ==
    LET ids == Lockable(w, ClaimNext("general", w, now, 30)) IN
    /\ Racing(w) /\ lock[w] = NoOne
    /\ IF ids = {} THEN got' = [got EXCEPT ![w] = Append(@, NoOne)] /\ UNCHANGED lock
       ELSE lock' = [lock EXCEPT ![w] = First(raced, ids)] /\ UNCHANGED got
    /\ UNCHANGED <<mode, plan, at, mem, sql, comp, now, calls, raced>>

(* The outer UPDATE and the commit. *)
UpdateLocked(w) ==
    /\ Racing(w) /\ lock[w] # NoOne
    /\ raced' = [raced EXCEPT ![lock[w]] = Taken(@, ClaimNext("general", w, now, 30))]
    /\ got' = [got EXCEPT ![w] = Append(@, lock[w])]
    /\ lock' = [lock EXCEPT ![w] = NoOne]
    /\ UNCHANGED <<mode, plan, at, mem, sql, comp, now, calls>>

StoreNext ==
    \/ ContractStep
    \/ AnyCall
    \/ Clock
    \/ \E w \in Racers : SelectForUpdate(w) \/ UpdateLocked(w)

Next ==
    \/ StoreNext /\ UNCHANGED bootVars
    \/ BootNext /\ UNCHANGED storeVars

Spec == Init /\ [][Next]_vars

----------------------------------------------------------------------------
(* Every adapter passes every check, in the order of run_store_contract,   *)
(* in the reverse order and after any other check on the same store: what  *)
(* a check leaves behind (jobs, queued runs, leases) disturbs no other.    *)
ChecksHold ==
    mode = "contract" /\ plan # <<>> =>
        LET step == Check[at] IN
            /\ Meets(step, MemReply(mem, step.call).answer)
            /\ Meets(step, SqlReply(sql, step.call).answer)
            /\ Meets(step, CompReply(comp, step.call).answer)

(* The adapters are interchangeable: whatever was called before, they give *)
(* the next call of the port the same answer, and the composite's SQL      *)
(* store has the rows of the others (InMemorySchedulerStore,               *)
(* SqlSchedulerStore, PostgresRedisSchedulerStore).                        *)
AnswersAgree ==
    /\ comp.sql = sql
    /\ \A c \in Calls \cup Lookups :
          /\ c \in PortCalls \/ c.op = "claim_by_ids"
          /\ AnsweredAlike(c)
          /\ CompReply(comp, c).answer = SqlReply(sql, c).answer

(* "Run claims must be atomic: at most one worker holds a claimed run at a *)
(* time" (store.rs), for claim statements that overlap in PostgreSQL: each *)
(* run is given to one worker, and when all workers have stopped, none is  *)
(* left.                                                                   *)
RaceClaimsEachOnce ==
    mode = "race" =>
        /\ \A v, w \in Racers : \A i \in DOMAIN got[v], j \in DOMAIN got[w] :
              got[v][i] = got[w][j] /\ got[v][i] # NoOne => v = w /\ i = j
        /\ (\A w \in Racers : ~Racing(w)) => \A r \in DOMAIN raced : Held(raced[r])

(* The contract of the testkit holds of every adapter, and it does not     *)
(* matter which one is behind the port: one call after the other and, for  *)
(* concurrent claims, with the statements of PostgreSQL overlapping        *)
(* (run_store_contract, SchedulerStore, claim_next_queued).                *)
ContractHolds == ChecksHold /\ AnswersAgree /\ RaceClaimsEachOnce
=============================================================================
