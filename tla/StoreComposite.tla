--------------------------- MODULE StoreComposite ---------------------------
(***************************************************************************)
(* The third adapter of the persistence port, PostgresRedisSchedulerStore: *)
(* runs are rows of the SQL store, and the ready queue of a pool is a      *)
(* Redis sorted set of run ids by scheduled_for.                           *)
(***************************************************************************)
EXTENDS Store, TLC

EmptyComp == [sql |-> Empty, zset |-> <<>>]

PoolKey(pool) == IF pool = "none" THEN "general" ELSE pool

Enqueued(z, id, run) == Put(z, <<PoolKey(run.pool), id>>, run.sched)

CompCreateRun(s, c) ==
    LET r == SqlCreateRun(s.sql, c) IN
    Reply([sql |-> r.store,
           zset |-> IF r.answer = Ok /\ c.row.status = "queued" THEN Enqueued(s.zset, c.id, c.row)
                    ELSE s.zset],
          r.answer)

(* requeue_mismatch: what becomes of a popped id that could not be claimed. *)
PutBack(z, runs, id, c) ==
    IF Has(runs, id) /\ runs[id].status = "queued"
         /\ (runs[id].sched > c.now \/ PoolKey(runs[id].pool) # c.pool
                \/ (runs[id].lease # Null /\ runs[id].lease > c.now))
    THEN Enqueued(z, id, runs[id]) ELSE z

(* The earliest due entries are popped one by one until one can be claimed,*)
(* or the attempts are used up.                                            *)
RECURSIVE CompClaimNext(_, _, _)
CompClaimNext(s, c, attempts) ==
    LET due == {e \in DOMAIN s.zset : e[1] = c.pool /\ s.zset[e] <= c.now} IN
    IF due = {} \/ attempts = 0 THEN Reply(s, <<>>)
    ELSE LET e == CHOOSE x \in due : \A y \in due : s.zset[x] <= s.zset[y]
             r == SqlClaimById(s.sql, [c EXCEPT !.id = e[2]])
             left == Without(s.zset, e)
         IN  IF r.answer # <<>> THEN Reply([sql |-> r.store, zset |-> left], r.answer)
             ELSE CompClaimNext([sql |-> s.sql, zset |-> PutBack(left, s.sql.runs, e[2], c)],
                                c, attempts - 1)

(* Mutant: reclaimed runs are not put back into the queue. *)
CompReclaim_SqlOnly(s, c) ==
    LET r == SqlReclaim(s.sql, c) IN Reply([s EXCEPT !.sql = r.store], r.answer)

CompReclaim(s, c) ==
    LET r == SqlReclaim(s.sql, c)
        back == [e \in {<<PoolKey(r.store.runs[i].pool), i>> : i \in Range(r.answer)} |->
                    r.store.runs[e[2]].sched]
    IN  Reply([sql |-> r.store, zset |-> back @@ s.zset], r.answer)

MaxAttempts == 64

(* Every other call is forwarded to the SQL store and leaves the queue.    *)
CompForward(s, c) ==
    LET r == SqlReply(s.sql, c) IN Reply([s EXCEPT !.sql = r.store], r.answer)

CompReply(s, c) ==
    CASE c.op = "create_run" -> CompCreateRun(s, c)
      [] c.op = "claim_next" -> CompClaimNext(s, c, MaxAttempts)
      [] c.op = "reclaim" -> CompReclaim(s, c)
      [] OTHER -> CompForward(s, c)
=============================================================================
