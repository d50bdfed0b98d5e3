------------------------------- MODULE Store -------------------------------
(***************************************************************************)
(* The persistence port of chronon, SchedulerStore (chronon-core/src/      *)
(* store.rs), and two of its adapters: the in-memory store and the SQL     *)
(* store behind SQLite and PostgreSQL.  Each call is translated once per   *)
(* adapter, as a function from a store and a call to the store after it    *)
(* and the answer.  A table is a function whose domain is the set of keys  *)
(* present.  Answers are sequences or sets.  Times are integers; Null   *)
(* stands for NULL and for None.                                           *)
(* Columns that no call reads back for a decision (payloads, updated_at,   *)
(* claim_lease_id) are left out.                                           *)
(***************************************************************************)
EXTENDS Integers, Sequences, FiniteSets, SequencesExt

Null == -1
NoOne == "no one"

----------------------------------------------------------------------------
(* Tables and answers. *)

Put(t, k, row) == [x \in DOMAIN t \cup {k} |-> IF x = k THEN row ELSE t[x]]
Without(t, k) == [x \in DOMAIN t \ {k} |-> t[x]]
Has(t, k) == k \in DOMAIN t

Reply(s, a) == [store |-> s, answer |-> a]
Ok == <<"ok">>
YesNo(b) == IF b THEN <<"yes">> ELSE <<"no">>
Missing == <<"not found">>

(* The rows: Job, Run and the leader row, as far as the port's calls read them. *)
Job(name) == [name |-> name, kind |-> "cron", enabled |-> TRUE, next |-> Null, part |-> 0,
              tick |-> Null, by |-> NoOne, until |-> Null, done |-> FALSE, rev |-> 1]
Due(name, part, t) == [Job(name) EXCEPT !.next = t - 1, !.part = part]
Run(job, pool, sched) == [job |-> job, pool |-> pool, sched |-> sched, status |-> "queued",
                          by |-> NoOne, lease |-> Null]

Empty == [jobs |-> <<>>, names |-> <<>>, runs |-> <<>>, revs |-> <<>>, workers |-> <<>>,
          leader |-> <<>>, scripts |-> <<>>, parts |-> <<>>]

Held(run) == run.status \in {"claimed", "running"}
Taken(run, c) == [run EXCEPT !.status = "claimed", !.by = c.by, !.lease = c.now + c.ttl]

(* The run scheduled first among some runs: scheduled_for tells runs apart. *)
First(runs, ids) == CHOOSE r \in ids : \A q \in ids : runs[r].sched <= runs[q].sched

(* The ids a reclaim returns come in no order that a caller may rely on:   *)
(* one is fixed here for all adapters.                                     *)
EarliestFirst(runs, ids) == SetToSortSeq(ids, LAMBDA a, b : runs[a].sched < runs[b].sched)

----------------------------------------------------------------------------
(* The in-memory store. *)

(* Mutant: a renamed job keeps its old name in the index. *)
MemUpsertJob_KeepsName(s, c) ==
    IF Has(s.names, c.row.name) /\ s.names[c.row.name] # c.id
    THEN Reply(s, <<"taken", s.names[c.row.name]>>)
    ELSE Reply([s EXCEPT !.jobs = Put(@, c.id, c.row), !.names = Put(@, c.row.name, c.id)], Ok)

(* The name index follows the jobs by hand. *)
MemUpsertJob(s, c) ==
    LET held == Has(s.names, c.row.name) /\ s.names[c.row.name] # c.id
        renamed == Has(s.jobs, c.id) /\ s.jobs[c.id].name # c.row.name
        names == IF renamed THEN Without(s.names, s.jobs[c.id].name) ELSE s.names
    IN  IF held THEN Reply(s, <<"taken", s.names[c.row.name]>>)
        ELSE Reply([s EXCEPT !.jobs = Put(@, c.id, c.row), !.names = Put(names, c.row.name, c.id)],
                   Ok)

MemDeleteJob(s, c) ==
    IF ~Has(s.jobs, c.id) THEN Reply(s, <<"no">>)
    ELSE Reply([s EXCEPT !.jobs = Without(@, c.id), !.revs = Without(@, c.id),
                         !.names = Without(@, s.jobs[c.id].name)], <<"yes">>)

(* The row becomes `row`, which is built from the row the call is about. *)
MutateJob(s, c, row) ==
    IF Has(s.jobs, c.id) THEN Reply([s EXCEPT !.jobs[c.id] = row], Ok)
    ELSE Reply(s, Missing)

MemSetEnabled(s, c) == MutateJob(s, c, [s.jobs[c.id] EXCEPT !.enabled = c.on])

MemTryClaimRunOnce(s, c) ==
    LET j == s.jobs[c.id]
        free == /\ ~j.done
                /\ ~(j.by # NoOne /\ j.until > c.now /\ j.by # c.by)
    IN  IF ~Has(s.jobs, c.id) \/ ~free THEN Reply(s, <<"no">>)
        ELSE Reply([s EXCEPT !.jobs[c.id].by = c.by, !.jobs[c.id].until = c.now + c.ttl],
                   <<"yes">>)

MemMarkRunOnce(s, c) ==
    MutateJob(s, c, [s.jobs[c.id] EXCEPT !.done = TRUE, !.by = NoOne, !.until = Null])

MemReleaseRunOnce(s, c) ==
    LET j == s.jobs[c.id]
    IN  MutateJob(s, c, IF j.by # c.by THEN j ELSE [j EXCEPT !.by = NoOne, !.until = Null])

MemFindDue(s, c) ==
    {i \in DOMAIN s.jobs :
        LET j == s.jobs[i] IN
            /\ j.enabled /\ j.kind # "manual"
            /\ j.next # Null /\ j.next <= c.now
            /\ j.part \in c.parts
            /\ ~(j.tick # Null /\ j.tick >= c.now)
            /\ j.kind # "run_once" \/ ~j.done}

MemMinNext(s, c) ==
    LET times == {s.jobs[i].next : i \in {k \in DOMAIN s.jobs :
                    s.jobs[k].enabled /\ s.jobs[k].kind # "manual" /\ s.jobs[k].part \in c.parts}}
    IN  {t \in times \ {Null} : \A u \in times \ {Null} : t <= u}

MemClaimTick(s, c) ==
    LET j == s.jobs[c.id] IN
    IF ~Has(s.jobs, c.id) \/ ~j.enabled \/ (j.tick # Null /\ j.tick >= c.now)
    THEN Reply(s, <<"no">>)
    ELSE Reply([s EXCEPT !.jobs[c.id].tick = c.now + c.ttl], <<"yes">>)

MemReleaseTick(s, c) == MutateJob(s, c, [s.jobs[c.id] EXCEPT !.tick = Null])
MemPersist(s, c) == MutateJob(s, c, [s.jobs[c.id] EXCEPT !.next = c.next, !.tick = Null])

MemCreateRun(s, c) == Reply([s EXCEPT !.runs = Put(@, c.id, c.row)], Ok)

(* The caller read the row and writes it back with another status and lease. *)
MemUpdateRun(s, c) ==
    IF ~Has(s.runs, c.id) THEN Reply(s, Missing)
    ELSE Reply([s EXCEPT !.runs[c.id].status = c.status, !.runs[c.id].lease = c.lease], Ok)

(* list_runs_filtered and, without a status or an offset, list_runs_for_job: *)
(* the runs that match, latest first, a page of them.  "any" is no filter.   *)
NthLatest(runs, ids, n) ==
    CHOOSE r \in ids : Cardinality({q \in ids : runs[q].sched > runs[r].sched}) = n - 1
LatestFirst(runs, ids) == [n \in 1..Cardinality(ids) |-> NthLatest(runs, ids, n)]
MemListRuns(s, c) ==
    LET ids == {r \in DOMAIN s.runs : /\ c.job \in {"any", s.runs[r].job}
                                      /\ c.status \in {"any", s.runs[r].status}}
        rest == LET all == LatestFirst(s.runs, ids) IN SubSeq(all, c.offset + 1, Len(all))
    IN  SubSeq(rest, 1, IF Len(rest) < c.limit THEN Len(rest) ELSE c.limit)

MemClaimable(run, c) ==
    /\ run.status = "queued"
    /\ run.sched <= c.now
    /\ ~(run.lease # Null /\ run.lease > c.now)
    /\ run.pool = c.pool \/ (c.pool = "general" /\ run.pool \in {"none", "general"})

MemClaimNext(s, c) ==
    LET ids == {r \in DOMAIN s.runs : MemClaimable(s.runs[r], c)} IN
    IF ids = {} THEN Reply(s, <<>>)
    ELSE LET r == First(s.runs, ids) IN Reply([s EXCEPT !.runs[r] = Taken(@, c)], <<r>>)

MemClaimById(s, c) ==
    IF Has(s.runs, c.id) /\ MemClaimable(s.runs[c.id], c)
    THEN Reply([s EXCEPT !.runs[c.id] = Taken(@, c)], <<c.id>>)
    ELSE Reply(s, <<>>)

(* claim_runs_by_ids, as the port does it: one id after the other. *)
MemClaimByIds(s, c) ==
    FoldLeft(LAMBDA r, i : LET one == MemClaimById(r.store, [c EXCEPT !.id = i])
                           IN  Reply(one.store, r.answer \o one.answer),
             Reply(s, <<>>), c.ids)

MemRenewRun(s, c) ==
    LET holds == Has(s.runs, c.id) /\ s.runs[c.id].by = c.by /\ Held(s.runs[c.id]) IN
    Reply(IF holds THEN [s EXCEPT !.runs[c.id].lease = c.now + c.ttl] ELSE s, YesNo(holds))

MemReclaim(s, c) ==
    LET ids == {r \in DOMAIN s.runs : Held(s.runs[r]) /\ s.runs[r].lease # Null
                                        /\ s.runs[r].lease <= c.now}
    IN  Reply([s EXCEPT !.runs = [r \in DOMAIN s.runs |->
                  IF r \in ids THEN [s.runs[r] EXCEPT !.status = "queued", !.by = NoOne,
                                                      !.lease = Null]
                  ELSE s.runs[r]]],
              EarliestFirst(s.runs, ids))

MemAppendRevision(s, c) ==
    Reply([s EXCEPT !.revs = Put(@, c.id, (IF Has(@, c.id) THEN @[c.id] ELSE <<>>) \o <<c.rev>>)],
          Ok)
MemListRevisions(s, c) == IF Has(s.revs, c.id) THEN s.revs[c.id] ELSE <<>>

MemAcquireLeader(s, c) ==
    LET row == s.leader["leader"] IN
    IF Has(s.leader, "leader") /\ row.until > c.now /\ row.by # c.by THEN Reply(s, <<"no">>)
    ELSE Reply([s EXCEPT !.leader = Put(@, "leader", [by |-> c.by, until |-> c.now + c.ttl])],
               <<"yes">>)

MemRenewLeader(s, c) ==
    Reply(IF ~Has(s.leader, "leader") \/ s.leader["leader"].by # c.by THEN s
          ELSE [s EXCEPT !.leader["leader"].until = c.now + c.ttl], Ok)

MemHeartbeat(s, c) ==
    IF ~Has(s.workers, c.id) THEN Reply(s, Missing)
    ELSE Reply([s EXCEPT !.workers[c.id] = c.now], Ok)

----------------------------------------------------------------------------
(* The SQL store: one statement a call, with its WHERE clause; the number  *)
(* of rows it touched is the answer.  A comparison with NULL is not true.  *)

Lt(t, bound) == t # Null /\ t < bound
Le(t, bound) == t # Null /\ t <= bound

(* UPDATE job SET (the columns that differ in `row`) WHERE job_id = ? AND  *)
(* `where`.                                                                *)
UpdateJob(s, c, where, row) ==
    LET hit == Has(s.jobs, c.id) /\ where IN
    Reply(IF hit THEN [s EXCEPT !.jobs[c.id] = row] ELSE s, YesNo(hit))

(* INSERT ... ON CONFLICT (job_id) DO UPDATE, under UNIQUE (job_name); the *)
(* violation is turned into an answer by reading the row with that name.   *)
SqlUpsertJob(s, c) ==
    LET other == {i \in DOMAIN s.jobs : s.jobs[i].name = c.row.name /\ i # c.id} IN
    IF other # {} THEN Reply(s, <<"taken", CHOOSE i \in other : TRUE>>)
    ELSE Reply([s EXCEPT !.jobs = Put(@, c.id, c.row)], Ok)

SqlDeleteJob(s, c) ==
    IF ~Has(s.jobs, c.id) THEN Reply(s, <<"no">>)
    ELSE Reply([s EXCEPT !.revs = Without(@, c.id), !.jobs = Without(@, c.id)], <<"yes">>)

SqlSetEnabled(s, c) ==
    LET r == UpdateJob(s, c, TRUE, [s.jobs[c.id] EXCEPT !.enabled = c.on]) IN
    Reply(r.store, IF Has(s.jobs, c.id) THEN Ok ELSE Missing)

SqlTryClaimRunOnce(s, c) ==
    LET j == s.jobs[c.id]
    IN  UpdateJob(s, c, ~j.done /\ (j.by = NoOne \/ Le(j.until, c.now) \/ j.by = c.by),
                        [j EXCEPT !.by = c.by, !.until = c.now + c.ttl])

SqlMarkRunOnce(s, c) ==
    Reply(UpdateJob(s, c, TRUE, [s.jobs[c.id] EXCEPT !.done = TRUE, !.by = NoOne,
                                                     !.until = Null]).store, Ok)

SqlReleaseRunOnce(s, c) ==
    LET j == s.jobs[c.id]
    IN  Reply(UpdateJob(s, c, j.by = c.by, [j EXCEPT !.by = NoOne, !.until = Null]).store, Ok)

SqlFindDue(s, c) ==
    {i \in DOMAIN s.jobs :
        LET j == s.jobs[i] IN
            /\ j.enabled /\ j.kind # "manual"
            /\ Le(j.next, c.now) /\ j.part \in c.parts
            /\ j.tick = Null \/ Lt(j.tick, c.now)
            /\ j.kind # "run_once" \/ ~j.done}

SqlMinNext(s, c) ==
    LET times == {s.jobs[i].next : i \in {k \in DOMAIN s.jobs :
                    /\ s.jobs[k].enabled /\ s.jobs[k].kind # "manual"
                    /\ s.jobs[k].next # Null /\ s.jobs[k].part \in c.parts}}
    IN  {t \in times : \A u \in times : t <= u}

SqlClaimTick(s, c) ==
    LET j == s.jobs[c.id]
    IN  UpdateJob(s, c, j.enabled /\ (j.tick = Null \/ Lt(j.tick, c.now)),
                        [j EXCEPT !.tick = c.now + c.ttl])

SqlReleaseTick(s, c) ==
    Reply(UpdateJob(s, c, TRUE, [s.jobs[c.id] EXCEPT !.tick = Null]).store, Ok)
SqlPersist(s, c) ==
    Reply(UpdateJob(s, c, TRUE, [s.jobs[c.id] EXCEPT !.next = c.next, !.tick = Null]).store, Ok)

(* run_id is the primary key. *)
SqlCreateRun(s, c) ==
    IF Has(s.runs, c.id) THEN Reply(s, <<"duplicate">>)
    ELSE Reply([s EXCEPT !.runs = Put(@, c.id, c.row)], Ok)

SqlUpdateRun(s, c) ==
    IF ~Has(s.runs, c.id) THEN Reply(s, Missing)
    ELSE Reply([s EXCEPT !.runs[c.id] = [@ EXCEPT !.status = c.status, !.lease = c.lease]], Ok)

(* One statement for each combination of filters, with LIMIT and OFFSET. *)
SqlListRuns(s, c) ==
    LET ids == CASE c.job # "any" /\ c.status # "any" ->
                      {r \in DOMAIN s.runs : s.runs[r].job = c.job /\ s.runs[r].status = c.status}
                 [] c.job # "any" /\ c.status = "any" ->
                      {r \in DOMAIN s.runs : s.runs[r].job = c.job}
                 [] c.job = "any" /\ c.status # "any" ->
                      {r \in DOMAIN s.runs : s.runs[r].status = c.status}
                 [] OTHER -> DOMAIN s.runs
        all == LatestFirst(s.runs, ids)
        last == c.offset + c.limit
    IN  SubSeq(all, c.offset + 1, IF last < Len(all) THEN last ELSE Len(all))

SqlClaimable(run, c) ==
    /\ run.status = "queued" /\ run.sched <= c.now
    /\ run.lease = Null \/ Le(run.lease, c.now)
    /\ run.pool = c.pool \/ (c.pool = "general" /\ run.pool \in {"none", "general"})

SqlClaimNext(s, c) ==
    LET ids == {r \in DOMAIN s.runs : SqlClaimable(s.runs[r], c)} IN
    IF ids = {} THEN Reply(s, <<>>)
    ELSE LET r == First(s.runs, ids) IN Reply([s EXCEPT !.runs[r] = Taken(@, c)], <<r>>)

SqlClaimById(s, c) ==
    LET hit == Has(s.runs, c.id) /\ SqlClaimable(s.runs[c.id], c) IN
    Reply(IF hit THEN [s EXCEPT !.runs[c.id] = Taken(@, c)] ELSE s,
          IF hit THEN <<c.id>> ELSE <<>>)

(* UPDATE ... WHERE run_id = ANY(ids) ... RETURNING, of PostgreSQL; SQLite *)
(* claims one id after the other.                                          *)
SqlClaimByIds(s, c) ==
    LET ids == {r \in ToSet(c.ids) : Has(s.runs, r) /\ SqlClaimable(s.runs[r], c)} IN
    Reply([s EXCEPT !.runs = [r \in DOMAIN s.runs |->
              IF r \in ids THEN Taken(s.runs[r], c) ELSE s.runs[r]]],
          EarliestFirst(s.runs, ids))

SqlRenewRun(s, c) ==
    LET hit == Has(s.runs, c.id) /\ s.runs[c.id].by = c.by /\ Held(s.runs[c.id]) IN
    Reply(IF hit THEN [s EXCEPT !.runs[c.id].lease = c.now + c.ttl] ELSE s, YesNo(hit))

SqlReclaim(s, c) ==
    LET ids == {r \in DOMAIN s.runs : Held(s.runs[r]) /\ Le(s.runs[r].lease, c.now)}
        freed == [r \in ids |-> [s.runs[r] EXCEPT !.status = "queued", !.by = NoOne,
                                                  !.lease = Null]]
    IN  Reply([s EXCEPT !.runs = [r \in DOMAIN s.runs |->
                  IF r \in ids THEN freed[r] ELSE s.runs[r]]],
              EarliestFirst(s.runs, ids))

SqlAppendRevision(s, c) ==
    Reply([s EXCEPT !.revs = Put(@, c.id, (IF Has(@, c.id) THEN @[c.id] ELSE <<>>) \o <<c.rev>>)],
          Ok)
(* ORDER BY revision_number. *)
SqlListRevisions(s, c) ==
    IF Has(s.revs, c.id) THEN SortSeq(s.revs[c.id], LAMBDA a, b : a < b) ELSE <<>>

(* INSERT ... ON CONFLICT (leader_id) DO UPDATE ... WHERE ... RETURNING. *)
SqlAcquireLeader(s, c) ==
    LET row == s.leader["leader"]
        hit == ~Has(s.leader, "leader") \/ Le(row.until, c.now) \/ row.by = c.by
    IN  Reply(IF ~hit THEN s
              ELSE [s EXCEPT !.leader = Put(@, "leader", [by |-> c.by, until |-> c.now + c.ttl])],
              YesNo(hit))

SqlRenewLeader(s, c) ==
    Reply(IF Has(s.leader, "leader") /\ s.leader["leader"].by = c.by
          THEN [s EXCEPT !.leader["leader"].until = c.now + c.ttl] ELSE s, Ok)

SqlHeartbeat(s, c) ==
    LET hit == Has(s.workers, c.id) IN
    Reply(IF hit THEN [s EXCEPT !.workers = Put(@, c.id, c.now)] ELSE s,
          IF hit THEN Ok ELSE Missing)

----------------------------------------------------------------------------
(* Calls that the adapters answer alike from their tables: lookups, and    *)
(* inserts that replace the row.  The lists are sets here: SQL sorts them  *)
(* (list_jobs by created_at, list_due_jobs by next_run_at, the partitions  *)
(* by id), the in-memory store has them in no order, and the port promises *)
(* none.  list_due_jobs is asked job by job.                               *)

SharedReply(s, c) ==
    CASE c.op = "get_job" ->
            Reply(s, IF ~Has(s.jobs, c.id) THEN <<>>
                     ELSE <<s.jobs[c.id].name, IF s.jobs[c.id].enabled THEN "on" ELSE "off",
                            s.jobs[c.id].rev>>)
      [] c.op = "due_jobs" ->
            Reply(s, YesNo(/\ Has(s.jobs, c.id) /\ s.jobs[c.id].enabled
                           /\ Le(s.jobs[c.id].next, c.now)))
      [] c.op = "list_jobs" -> Reply(s, DOMAIN s.jobs)
      [] c.op = "get_run" ->
            Reply(s, IF Has(s.runs, c.id) THEN <<s.runs[c.id].status, s.runs[c.id].by>> ELSE <<>>)
      [] c.op = "list_parts" -> Reply(s, {<<p, s.parts[p].by>> : p \in DOMAIN s.parts})
      [] c.op = "register_worker" -> Reply([s EXCEPT !.workers = Put(@, c.id, c.now)], Ok)
      [] c.op = "upsert_script" -> Reply([s EXCEPT !.scripts = Put(@, c.id, c.hash)], Ok)
      [] c.op = "get_script" -> Reply(s, IF Has(s.scripts, c.id) THEN <<s.scripts[c.id]>> ELSE <<>>)
      [] c.op = "get_leader" ->
            Reply(s, IF Has(s.leader, "leader") THEN <<s.leader["leader"].by>> ELSE <<>>)
      [] c.op = "assign" ->
            Reply([s EXCEPT !.parts = Put(@, c.id, [by |-> c.by, until |-> c.now + c.ttl])], Ok)

MemReply(s, c) ==
    CASE c.op = "upsert_job" -> MemUpsertJob(s, c)
      [] c.op = "by_name" -> Reply(s, IF Has(s.names, c.name) THEN <<s.names[c.name]>> ELSE <<>>)
      [] c.op = "delete_job" -> MemDeleteJob(s, c)
      [] c.op = "set_enabled" -> MemSetEnabled(s, c)
      [] c.op = "try_claim_run_once" -> MemTryClaimRunOnce(s, c)
      [] c.op = "mark_run_once" -> MemMarkRunOnce(s, c)
      [] c.op = "release_run_once" -> MemReleaseRunOnce(s, c)
      [] c.op = "find_due" -> Reply(s, YesNo(c.id \in MemFindDue(s, c)))
      [] c.op = "min_next" -> Reply(s, MemMinNext(s, c))
      [] c.op = "claim_tick" -> MemClaimTick(s, c)
      [] c.op = "release_tick" -> MemReleaseTick(s, c)
      [] c.op = "persist" -> MemPersist(s, c)
      [] c.op = "create_run" -> MemCreateRun(s, c)
      [] c.op = "update_run" -> MemUpdateRun(s, c)
      [] c.op = "list_runs" -> Reply(s, MemListRuns(s, c))
      [] c.op = "claim_next" -> MemClaimNext(s, c)
      [] c.op = "claim_by_id" -> MemClaimById(s, c)
      [] c.op = "claim_by_ids" -> MemClaimByIds(s, c)
      [] c.op = "renew_run" -> MemRenewRun(s, c)
      [] c.op = "reclaim" -> MemReclaim(s, c)
      [] c.op = "append_revision" -> MemAppendRevision(s, c)
      [] c.op = "list_revisions" -> Reply(s, MemListRevisions(s, c))
      [] c.op = "acquire_leader" -> MemAcquireLeader(s, c)
      [] c.op = "renew_leader" -> MemRenewLeader(s, c)
      [] c.op = "heartbeat" -> MemHeartbeat(s, c)
      [] OTHER -> SharedReply(s, c)

SqlReply(s, c) ==
    CASE c.op = "upsert_job" -> SqlUpsertJob(s, c)
      [] c.op = "by_name" ->
            LET ids == {i \in DOMAIN s.jobs : s.jobs[i].name = c.name} IN
            Reply(s, IF ids = {} THEN <<>> ELSE <<CHOOSE i \in ids : TRUE>>)
      [] c.op = "delete_job" -> SqlDeleteJob(s, c)
      [] c.op = "set_enabled" -> SqlSetEnabled(s, c)
      [] c.op = "try_claim_run_once" -> SqlTryClaimRunOnce(s, c)
      [] c.op = "mark_run_once" -> SqlMarkRunOnce(s, c)
      [] c.op = "release_run_once" -> SqlReleaseRunOnce(s, c)
      [] c.op = "find_due" -> Reply(s, YesNo(c.id \in SqlFindDue(s, c)))
      [] c.op = "min_next" -> Reply(s, SqlMinNext(s, c))
      [] c.op = "claim_tick" -> SqlClaimTick(s, c)
      [] c.op = "release_tick" -> SqlReleaseTick(s, c)
      [] c.op = "persist" -> SqlPersist(s, c)
      [] c.op = "create_run" -> SqlCreateRun(s, c)
      [] c.op = "update_run" -> SqlUpdateRun(s, c)
      [] c.op = "list_runs" -> Reply(s, SqlListRuns(s, c))
      [] c.op = "claim_next" -> SqlClaimNext(s, c)
      [] c.op = "claim_by_id" -> SqlClaimById(s, c)
      [] c.op = "claim_by_ids" -> SqlClaimByIds(s, c)
      [] c.op = "renew_run" -> SqlRenewRun(s, c)
      [] c.op = "reclaim" -> SqlReclaim(s, c)
      [] c.op = "append_revision" -> SqlAppendRevision(s, c)
      [] c.op = "list_revisions" -> Reply(s, SqlListRevisions(s, c))
      [] c.op = "acquire_leader" -> SqlAcquireLeader(s, c)
      [] c.op = "renew_leader" -> SqlRenewLeader(s, c)
      [] c.op = "heartbeat" -> SqlHeartbeat(s, c)
      [] OTHER -> SharedReply(s, c)
=============================================================================
