----------------------------- MODULE RedisQueue -----------------------------
(***************************************************************************)
(* The Postgres + Redis composite store (chronon-backend-redis).           *)
(*                                                                         *)
(* The run table is in SQL; which runs are ready is kept a second time, in *)
(* one Redis sorted set per pool.  create_run inserts the row and then     *)
(* adds the id; claim_next_queued pops ids and then claims their rows;     *)
(* reclaim_expired_run_leases requeues rows and then adds their ids.  No   *)
(* transaction spans the two stores, so this module is about what is in    *)
(* between: every step is one call on one of them.                         *)
(*                                                                         *)
(* The score of an entry is scheduled_for in whole milliseconds, the row   *)
(* has it in full, and SubMilli clock ticks make a millisecond: an id can  *)
(* be popped before its row is due, and is then put back.  Times are       *)
(* relative to the clock (see RunWorker); `phase` is where the clock is in *)
(* its millisecond and `age` how long ago a worker read it: the whole      *)
(* claim loop works with the `now` of its start.                           *)
(***************************************************************************)
EXTENDS Integers, FiniteSets, FiniteSetsExt

CONSTANTS
    RunIds,      \* identifiers of runs
    Workers,     \* worker slots, one identity each
    NoWorker,    \* claimed_by = None
    NoRunId,     \* a slot that works on no run
    Pools,       \* execution pools, the sorted sets
    General,     \* the pool named "general"
    NoPool,      \* pool_id = None
    WorkerPool,  \* the pool each slot drains
    EnqueuePools, \* pool_id values of the runs that get created
    Batches,     \* values CHRONON_CLAIM_BATCH may have
    Spins,       \* MAX_ATTEMPTS of the claim loop
    TTL,         \* CHRONON_RUN_LEASE_SECS, in ticks
    SubMilli,    \* clock ticks per millisecond
    MaxAhead,    \* bound: how far ahead a run is scheduled
    MaxAge,      \* bound: ticks that pass during one claim
    MaxFaults    \* bound: crashes and lost calls

ASSUME QueueAssumption ==
    /\ NoWorker \notin Workers /\ NoRunId \notin RunIds
    /\ General \in Pools /\ NoPool \notin Pools
    /\ WorkerPool \in [Workers -> Pools]
    /\ EnqueuePools \subseteq Pools \cup {NoPool}
    /\ Batches \subseteq Nat \ {0}
    /\ {Spins, TTL, SubMilli} \subseteq Nat \ {0}
    /\ {MaxAhead, MaxAge, MaxFaults} \subseteq Nat

VARIABLES
    rows,      \* SQL: the run table
    zset,      \* Redis: the ids in the sorted set of each pool
    batch,     \* CHRONON_CLAIM_BATCH
    phase,     \* ticks since the clock's last whole millisecond
    slot,      \* each slot: where it is, what it popped, what it works on
    creating,  \* runs whose create_run is between SQL and Redis
    requeuing, \* reclaimed runs whose id is not back in Redis yet
    faults,    \* faults so far
    lost,      \* history: runs whose id was in a call that failed
    reclaimed  \* history: has the run ever been reclaimed?

vars == <<rows, zset, batch, phase, slot, creating, requeuing, faults, lost, reclaimed>>

NoLease == -1 - MaxAge

Row == [status : {"none", "queued", "claimed", "running", "ended"},
        pool   : Pools \cup {NoPool},
        sched  : -MaxAge..MaxAhead,
        by     : Workers \cup {NoWorker},
        lease  : {NoLease} \cup (-MaxAge..TTL)]

(* pc of a slot: "sleep" after a claim that brought nothing, "idle" before *)
(* the next, "pop" back at the head of the claim loop, "claim" with popped *)
(* ids in hand, "look" before get_run of the next unclaimed one, "add"     *)
(* before it is put back, "start" with a claimed run and "work" once that  *)
(* is marked running.                                                      *)
Slot == [pc   : {"sleep", "idle", "pop", "claim", "look", "add", "start", "work"},
         hand : SUBSET RunIds,
         got  : SUBSET RunIds,
         run  : RunIds \cup {NoRunId},
         left : 0..Spins,
         age  : 0..MaxAge,
         copy : {NoLease} \cup (-MaxAge..TTL)]

Idle == [pc |-> "idle", hand |-> {}, got |-> {}, run |-> NoRunId, left |-> 0,
         age |-> 0, copy |-> NoLease]

(* claim_next_queued gave None or an error: the slot sleeps for 50 ms. *)
Asleep == [Idle EXCEPT !.pc = "sleep"]

Held(row) == row.status \in {"claimed", "running"}

(* run_pool_key: the sorted set of a run without a pool is "general". *)
PoolKey(pool) == IF pool = NoPool THEN General ELSE pool

(* timestamp_millis of the score and of `now`, both relative to the clock's*)
(* whole millisecond.                                                      *)
Score(r) == (phase + rows[r].sched) \div SubMilli
NowMilli(w) == (phase - slot[w].age) \div SubMilli

(* claim_next_run_ids: up to `batch` ids of the pool with score <= now,    *)
(* the earliest first; ids of equal score come in any order.               *)
DueIds(w) == {r \in zset[WorkerPool[w]] : Score(r) <= NowMilli(w)}
Earliest(S, D) == \A r \in S, q \in D \ S : Score(r) <= Score(q)

(* The claim trusts Redis about what is due. *)
Claimable_TrustsScore(w, r) ==
    /\ rows[r].status = "queued"
    /\ rows[r].lease = NoLease \/ rows[r].lease <= -slot[w].age
    /\ PoolKey(rows[r].pool) = WorkerPool[w]

(* The WHERE clause of claim_run_by_id and claim_runs_by_ids. *)
Claimable(w, r) ==
    /\ rows[r].status = "queued"
    /\ rows[r].sched <= -slot[w].age
    /\ rows[r].lease = NoLease \/ rows[r].lease <= -slot[w].age
    /\ PoolKey(rows[r].pool) = WorkerPool[w]

----------------------------------------------------------------------------
(* create_run: the row, then the id.                                       *)

CreateRun(r, pool, ahead) ==
    /\ rows[r].status = "none"
    /\ rows' = [rows EXCEPT ![r] = [status |-> "queued", pool |-> pool, sched |-> ahead,
                                    by |-> NoWorker, lease |-> NoLease]]
    /\ creating' = creating \cup {r}
    /\ UNCHANGED <<zset, batch, phase, slot, requeuing, faults, lost, reclaimed>>

EnqueueRun(r) == zset' = [zset EXCEPT ![PoolKey(rows[r].pool)] = @ \cup {r}]

CreateEnqueue(r) ==
    /\ r \in creating
    /\ EnqueueRun(r)
    /\ creating' = creating \ {r}
    /\ UNCHANGED <<rows, batch, phase, slot, requeuing, faults, lost, reclaimed>>

----------------------------------------------------------------------------
(* claim_next_queued.                                                      *)

(* ZREM of the ids a pop returns. *)
Remove(w, S) == zset' = [zset EXCEPT ![WorkerPool[w]] = @ \ S]

(* claim_next_run_ids, one Lua script: the ids are read and removed at     *)
(* once.  The first call of the loop goes with the reading of the clock.   *)
Pop(w) ==
    /\ slot[w].pc \in {"idle", "pop"}
    /\ \E S \in SUBSET DueIds(w) :
         /\ Cardinality(S) = Min({batch, Cardinality(DueIds(w))})
         /\ Earliest(S, DueIds(w))
         /\ Remove(w, S)
         /\ slot' = [slot EXCEPT ![w] =
                IF S = {} THEN Asleep
                ELSE [slot[w] EXCEPT !.pc = "claim", !.hand = S,
                                     !.left = IF slot[w].pc = "idle" THEN Spins ELSE slot[w].left]]
    /\ UNCHANGED <<rows, batch, phase, creating, requeuing, faults, lost, reclaimed>>

(* Where the claim loop goes when the ids in `hand` are still to be put    *)
(* back: to the next of them, out with a claimed run, or round again.  Of  *)
(* a batch of claimed runs the first is returned; nobody works on the      *)
(* others until their leases lapse.                                        *)
Onward(w, s) ==
    \/ s.hand # {} /\ slot' = [slot EXCEPT ![w] = [s EXCEPT !.pc = "look"]]
    \/ s.hand = {} /\ \E r \in s.got :
         slot' = [slot EXCEPT ![w] = [Idle EXCEPT !.pc = "start", !.run = r,
                                                  !.copy = TTL - s.age]]
    \/ s.hand = {} /\ s.got = {} /\
         slot' = [slot EXCEPT ![w] = IF s.left = 1 THEN Asleep
                                     ELSE [s EXCEPT !.pc = "pop", !.left = @ - 1]]

(* claim_runs_by_ids: one UPDATE ... RETURNING for everything popped. *)
SqlClaim(w) ==
    /\ slot[w].pc = "claim"
    /\ LET got == {r \in slot[w].hand : Claimable(w, r)} IN
       /\ rows' = [r \in RunIds |-> IF r \notin got THEN rows[r] ELSE
                     [rows[r] EXCEPT !.status = "claimed", !.by = w,
                                     !.lease = TTL - slot[w].age]]
       /\ Onward(w, [slot[w] EXCEPT !.hand = @ \ got, !.got = got])
    /\ UNCHANGED <<zset, batch, phase, creating, requeuing, faults, lost, reclaimed>>

(* A popped id that is not due yet is not put back. *)
PutBack_DropsFuture(w, r) ==
    /\ rows[r].status = "queued"
    /\ PoolKey(rows[r].pool) # WorkerPool[w]

(* requeue_mismatch, its decision: is the unclaimed id put back? *)
PutBack(w, r) ==
    /\ rows[r].status = "queued"
    /\ \/ rows[r].sched > -slot[w].age
       \/ PoolKey(rows[r].pool) # WorkerPool[w]
       \/ rows[r].lease # NoLease /\ rows[r].lease > -slot[w].age

(* requeue_mismatch of one id, its get_run. *)
Look(w) ==
    /\ slot[w].pc = "look"
    /\ \E r \in slot[w].hand :
         IF PutBack(w, r)
         THEN slot' = [slot EXCEPT ![w].pc = "add", ![w].run = r]
         ELSE Onward(w, [slot[w] EXCEPT !.hand = @ \ {r}])
    /\ UNCHANGED <<rows, zset, batch, phase, creating, requeuing, faults, lost, reclaimed>>

(* requeue_mismatch of one id, its enqueue_run. *)
Add(w) ==
    /\ slot[w].pc = "add"
    /\ EnqueueRun(slot[w].run)
    /\ Onward(w, [slot[w] EXCEPT !.hand = @ \ {slot[w].run}, !.run = NoRunId])
    /\ UNCHANGED <<rows, batch, phase, creating, requeuing, faults, lost, reclaimed>>

----------------------------------------------------------------------------
(* The slot's own writes go to SQL alone, and replace the whole row.       *)

MarkRunning(w) ==
    /\ slot[w].pc = "start"
    /\ rows' = [rows EXCEPT ![slot[w].run].status = "running", ![slot[w].run].by = w,
                            ![slot[w].run].lease = slot[w].copy]
    /\ slot' = [slot EXCEPT ![w].pc = "work", ![w].copy = NoLease]
    /\ UNCHANGED <<zset, batch, phase, creating, requeuing, faults, lost, reclaimed>>

RenewLease(w) ==
    /\ slot[w].pc = "work"
    /\ Held(rows[slot[w].run]) /\ rows[slot[w].run].by = w
    /\ rows' = [rows EXCEPT ![slot[w].run].lease = TTL]
    /\ UNCHANGED <<zset, batch, phase, slot, creating, requeuing, faults, lost, reclaimed>>

(* The slot's copy replaces the row; the lease it leaves on an ended run,  *)
(* which nothing reads, is left out.                                       *)
Finish(w) ==
    /\ slot[w].pc = "work"
    /\ rows' = [rows EXCEPT ![slot[w].run].status = "ended", ![slot[w].run].by = w,
                            ![slot[w].run].lease = NoLease]
    /\ slot' = [slot EXCEPT ![w] = Idle]
    /\ UNCHANGED <<zset, batch, phase, creating, requeuing, faults, lost, reclaimed>>

----------------------------------------------------------------------------
(* reclaim_expired_run_leases: the rows in one statement, then the ids one *)
(* by one, whatever has become of their rows.                              *)

(* No lease counts as a lapsed one, and ended runs are not left out. *)
Expired_NoLease(row) == row.status \notin {"none", "queued"} /\ row.lease <= 0

Expired(row) == Held(row) /\ row.lease # NoLease /\ row.lease <= 0

(* Only the rows are requeued: the ids stay out of Redis. *)
Reclaim_SqlOnly ==
    /\ \E r \in RunIds : Expired(rows[r])
    /\ rows' = [r \in RunIds |-> IF ~Expired(rows[r]) THEN rows[r] ELSE
                  [rows[r] EXCEPT !.status = "queued", !.by = NoWorker, !.lease = NoLease]]
    /\ reclaimed' = [r \in RunIds |-> reclaimed[r] \/ Expired(rows[r])]
    /\ UNCHANGED <<zset, batch, phase, slot, creating, requeuing, faults, lost>>

Reclaim ==
    /\ \E r \in RunIds : Expired(rows[r])
    /\ LET S == {r \in RunIds : Expired(rows[r])} IN
       /\ rows' = [r \in RunIds |-> IF r \notin S THEN rows[r] ELSE
                     [rows[r] EXCEPT !.status = "queued", !.by = NoWorker, !.lease = NoLease]]
       /\ requeuing' = requeuing \cup S
       /\ reclaimed' = [r \in RunIds |-> reclaimed[r] \/ r \in S]
    /\ UNCHANGED <<zset, batch, phase, slot, creating, faults, lost>>

ReclaimEnqueue(r) ==
    /\ r \in requeuing
    /\ EnqueueRun(r)
    /\ requeuing' = requeuing \ {r}
    /\ UNCHANGED <<rows, batch, phase, slot, creating, faults, lost, reclaimed>>

----------------------------------------------------------------------------
(* Faults: a call on either store fails or its process dies.  Nothing goes *)
(* back to repair what the call left half done.                            *)

Faulty == faults < MaxFaults /\ faults' = faults + 1

CreateFails(r) ==
    /\ r \in creating /\ Faulty
    /\ creating' = creating \ {r}
    /\ lost' = lost \cup {r}
    /\ UNCHANGED <<rows, zset, batch, phase, slot, requeuing, reclaimed>>

SlotFails(w) ==
    /\ slot[w].pc \notin {"sleep", "idle"} /\ Faulty
    /\ lost' = lost \cup slot[w].hand
    /\ slot' = [slot EXCEPT ![w] = Asleep]
    /\ UNCHANGED <<rows, zset, batch, phase, creating, requeuing, reclaimed>>

(* An error ends the whole loop over the reclaimed ids. *)
ReclaimFails ==
    /\ requeuing # {} /\ Faulty
    /\ lost' = lost \cup requeuing
    /\ requeuing' = {}
    /\ UNCHANGED <<rows, zset, batch, phase, slot, creating, reclaimed>>

----------------------------------------------------------------------------
Down(t, floor) == IF t > floor THEN t - 1 ELSE t
LeaseDown(t) == IF t = NoLease THEN t ELSE Down(t, -MaxAge)

Claiming(w) == slot[w].pc \in {"pop", "claim", "look", "add"}

(* Nothing reads the times of a run that has ended, and they are left alone. *)
Advance ==
    /\ \A w \in Workers : Claiming(w) => slot[w].age < MaxAge
    /\ phase' = (phase + 1) % SubMilli
    /\ rows' = [r \in RunIds |-> IF rows[r].status \in {"none", "ended"} THEN rows[r] ELSE
                  [rows[r] EXCEPT !.sched = Down(@, -MaxAge), !.lease = LeaseDown(@)]]
    /\ slot' = [w \in Workers |-> [slot[w] EXCEPT
                  !.pc = IF @ = "sleep" THEN "idle" ELSE @,
                  !.age = IF Claiming(w) THEN @ + 1 ELSE @,
                  !.copy = LeaseDown(@)]]
    /\ UNCHANGED <<zset, batch, creating, requeuing, lost, reclaimed>>

(* A slot in time marks its run and renews its lease before that lapses;   *)
(* one that stalls past it is a fault.                                     *)
InTime == \A w \in Workers :
    /\ slot[w].pc = "start" => slot[w].copy > 1
    /\ slot[w].pc = "work" =>
         LET row == rows[slot[w].run] IN Held(row) /\ row.by = w => row.lease > 1

Tick == InTime /\ Advance /\ UNCHANGED faults
Stall == ~InTime /\ Advance /\ Faulty

Init ==
    /\ rows = [r \in RunIds |-> [status |-> "none", pool |-> NoPool, sched |-> -MaxAge,
                                 by |-> NoWorker, lease |-> NoLease]]
    /\ zset = [p \in Pools |-> {}]
    /\ batch \in Batches
    /\ phase = 0
    /\ slot = [w \in Workers |-> Idle]
    /\ creating = {} /\ requeuing = {}
    /\ faults = 0
    /\ lost = {}
    /\ reclaimed = [r \in RunIds |-> FALSE]

ClaimStep(w) == Pop(w) \/ SqlClaim(w) \/ Look(w) \/ Add(w)
SlotStep(w) == ClaimStep(w) \/ MarkRunning(w) \/ Finish(w)

Next ==
    \/ \E r \in RunIds, p \in EnqueuePools, d \in 0..MaxAhead : CreateRun(r, p, d)
    \/ \E r \in RunIds : CreateEnqueue(r) \/ ReclaimEnqueue(r) \/ CreateFails(r)
    \/ \E w \in Workers : SlotStep(w) \/ RenewLease(w) \/ SlotFails(w)
    \/ Reclaim
    \/ ReclaimFails
    \/ Tick
    \/ Stall

Spec == Init /\ [][Next]_vars

(* The loops keep running and the calls they make return; a script ends.   *)
(* Nothing obliges anybody to create a run or to fail.                     *)
Fairness ==
    /\ WF_vars(Tick)
    /\ WF_vars(Reclaim)
    /\ \A r \in RunIds : WF_vars(CreateEnqueue(r)) /\ WF_vars(ReclaimEnqueue(r))
    /\ \A w \in Workers : WF_vars(SlotStep(w))

FairSpec == Spec /\ Fairness

----------------------------------------------------------------------------
(* The variables have their types, and the ids in hand are told apart from *)
(* the runs obtained.                                                      *)
TypeOK ==
    /\ rows \in [RunIds -> Row]
    /\ zset \in [Pools -> SUBSET RunIds]
    /\ batch \in Batches
    /\ phase \in 0..(SubMilli - 1)
    /\ slot \in [Workers -> Slot]
    /\ creating \subseteq RunIds /\ requeuing \subseteq RunIds
    /\ faults \in 0..MaxFaults
    /\ lost \subseteq RunIds
    /\ reclaimed \in [RunIds -> BOOLEAN]

(* No run is forgotten while nothing fails: a queued row's id is in the    *)
(* sorted set of its pool, or in the hands of somebody who is about to put *)
(* it there or to claim it (create_run, requeue_mismatch,                  *)
(* reclaim_expired_run_leases: the SQL half is never left without the      *)
(* Redis half).                                                            *)
QueuedIsIndexed ==
    \A r \in RunIds :
        rows[r].status = "queued" =>
            \/ r \in zset[PoolKey(rows[r].pool)]
            \/ r \in creating \cup requeuing \cup lost
            \/ \E w \in Workers : r \in slot[w].hand

(* An id is never handed out twice (the Lua script and the conditional     *)
(* UPDATE): unless the run was reclaimed, one worker at most works on it,  *)
(* and none while its id is still on its way to a worker.                  *)
HandedOutOnce ==
    \A r \in RunIds : ~reclaimed[r] =>
        /\ Cardinality({w \in Workers : slot[w].run = r \/ r \in slot[w].hand}) <= 1
        /\ (\E w \in Workers : slot[w].pc \in {"start", "work"} /\ slot[w].run = r)
             => \A p \in Pools : r \notin zset[p]

(* The sorted sets and the run table stay one queue although they are      *)
(* written one after the other: no queued run is out of reach, none is in  *)
(* two hands (create_run, pop_and_claim, requeue_mismatch).                *)
QueueSound == TypeOK /\ QueuedIsIndexed /\ HandedOutOnce

(* No run starts before scheduled_for although Redis compares whole        *)
(* milliseconds: the claim in SQL looks again (claim_run_by_id).           *)
NeverEarly ==
    [][\A r \in RunIds :
        rows[r].status = "queued" /\ rows'[r].status = "claimed" => rows[r].sched <= 0]_vars

(* Every run that was created ends, with any batch size, although the runs *)
(* of a batch beyond the first are dropped under a lease nobody renews     *)
(* (claim_next_queued, reclaim_expired_run_leases) and workers die, unless *)
(* a call that carried its id failed.                                      *)
AllRunsServed ==
    \A r \in RunIds : rows[r].status = "queued" ~> rows[r].status = "ended" \/ r \in lost

(* The composite is a run store: it implements the life of a run. *)
life == [r \in RunIds |-> IF Held(rows[r]) THEN "held" ELSE rows[r].status]
owner == [r \in RunIds |-> rows[r].by]

Promise == INSTANCE RunLife WITH
    Runs <- RunIds, Owners <- Workers, NoOwner <- NoWorker,
    life <- life, owner <- owner, contested <- reclaimed

(* Every step of the composite is a step of RunLife: one worker takes a    *)
(* run and ends it, until the run is reclaimed.                            *)
KeepsThePromise == Promise!Spec
=============================================================================
