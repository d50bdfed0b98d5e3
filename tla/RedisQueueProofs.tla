-------------------------- MODULE RedisQueueProofs --------------------------
(***************************************************************************)
(* Proofs about RedisQueue, for every number of runs and workers, every    *)
(* batch size and every resolution of the clock: the run table and the     *)
(* sorted sets stay one queue, no run is claimed early, and the composite  *)
(* implements RunLife.                                                     *)
(***************************************************************************)
EXTENDS RedisQueue, FiniteSetTheorems, TLAPS

----------------------------------------------------------------------------
(* The inductive invariant.                                                *)

(* What a slot holds in each state: ids in hand only in the claim loop, a  *)
(* run only when it has one, and a round of the loop left while it is in   *)
(* it.                                                                     *)
SlotOk(s) ==
    /\ s.pc = "add" => s.run \in s.hand
    /\ s.pc \in {"start", "work"} => s.run \in RunIds
    /\ s.pc \notin {"add", "start", "work"} => s.run = NoRunId
    /\ s.pc \in {"pop", "claim", "look", "add"} => s.left >= 1
    /\ s.pc \notin {"claim", "look", "add"} => s.hand = {}
    /\ s.pc \notin {"look", "add"} => s.got = {}

(* A slot works on the run, or has claimed it in the batch in hand. *)
Has(w, r) ==
    \/ r \in slot[w].got
    \/ slot[w].pc \in {"start", "work"} /\ slot[w].run = r

(* The id of a run is in one place, until the run is reclaimed: on its way *)
(* into Redis, in Redis, or in one hand, and then the run is queued; or    *)
(* gone, and then the run is held by the one slot that has it.             *)
OnePlace(r) == ~reclaimed[r] =>
    /\ r \in creating => /\ rows[r].status = "queued"
                         /\ \A p \in Pools : r \notin zset[p]
                         /\ \A w \in Workers : r \notin slot[w].hand
    /\ \A p \in Pools : r \in zset[p] => /\ rows[r].status = "queued"
                                         /\ \A w \in Workers : r \notin slot[w].hand
    /\ \A w \in Workers : r \in slot[w].hand =>
         /\ rows[r].status = "queued"
         /\ \A v \in Workers : r \in slot[v].hand => v = w
    /\ \A w \in Workers : Has(w, r) => Held(rows[r]) /\ rows[r].by = w

(* The slot that holds the id will claim the run or put the id back. *)
InGoodHands(w, r) ==
    /\ r \in slot[w].hand
    /\ slot[w].pc = "claim" \/ PutBack(w, r)

(* A queued run can be reached. *)
Reachable(r) == rows[r].status = "queued" =>
    \/ r \in zset[PoolKey(rows[r].pool)]
    \/ r \in creating \cup requeuing \cup lost
    \/ \E w \in Workers : InGoodHands(w, r)

(* Only a run that was created is reclaimed, and only its id is put back   *)
(* by the reclaim loop; a queued run has no lease; an id is in no sorted   *)
(* set but that of its run's pool.                                         *)
RowOk(r) ==
    /\ reclaimed[r] => rows[r].status # "none"
    /\ r \in requeuing => reclaimed[r]
    /\ rows[r].status = "queued" => rows[r].lease = NoLease
    /\ \A p \in Pools : r \in zset[p] => p = PoolKey(rows[r].pool)

RunOk(r) == RowOk(r) /\ OnePlace(r) /\ Reachable(r)

QueueInv ==
    /\ TypeOK
    /\ \A w \in Workers : SlotOk(slot[w])
    /\ \A r \in RunIds : RunOk(r)

----------------------------------------------------------------------------
(* Types.                                                                  *)

(* No lease is a number of its own, below every lease. *)
LEMMA NoLeaseType == NoLease \in Int /\ NoLease < -MaxAge /\ MaxAge \in Nat /\ TTL \in Nat
BY QueueAssumption DEF NoLease

(* A slot that waits holds nothing. *)
LEMMA IdleType ==
  /\ Idle \in Slot /\ SlotOk(Idle)
  /\ Idle.pc = "idle" /\ Idle.hand = {} /\ Idle.got = {} /\ Idle.run = NoRunId
  /\ Asleep \in Slot /\ SlotOk(Asleep)
  /\ Asleep.pc = "sleep" /\ Asleep.hand = {} /\ Asleep.got = {} /\ Asleep.run = NoRunId
<1>1. Spins \in Nat /\ 0 \in 0..Spins /\ 0 \in 0..MaxAge
  BY QueueAssumption
<1>2. Idle \in Slot
  BY <1>1 DEF Idle, Slot
<1>3. /\ Idle.pc = "idle" /\ Idle.hand = {} /\ Idle.got = {} /\ Idle.run = NoRunId
  BY DEF Idle
<1>4. Asleep \in Slot
  BY <1>2 DEF Asleep, Slot
<1>5. /\ Asleep.pc = "sleep" /\ Asleep.hand = {} /\ Asleep.got = {} /\ Asleep.run = NoRunId
  BY <1>3, <1>2 DEF Asleep, Slot
<1>6. QED
  BY <1>2, <1>3, <1>4, <1>5 DEF SlotOk

(* Where the claim loop goes, the slot keeps its shape and nobody else     *)
(* moves: on to the next id in hand, out with a run of the batch, or with  *)
(* nothing.                                                                *)
LEMMA OnwardEffect ==
  ASSUME slot \in [Workers -> Slot], NEW w \in Workers, NEW s \in Slot,
         s.run = NoRunId, s.left >= 1, Onward(w, s)
  PROVE  /\ slot' \in [Workers -> Slot]
         /\ SlotOk(slot'[w])
         /\ \A v \in Workers : v # w => slot'[v] = slot[v]
         /\ slot'[w].hand = s.hand
         /\ \/ /\ slot'[w].pc = "look" /\ slot'[w].got = s.got
               /\ slot'[w].run = NoRunId /\ slot'[w].age = s.age
            \/ /\ slot'[w].pc = "start" /\ slot'[w].run \in s.got
               /\ slot'[w].got = {} /\ s.hand = {}
            \/ /\ slot'[w].pc \in {"sleep", "pop"} /\ slot'[w].got = {}
               /\ slot'[w].run = NoRunId /\ s.hand = {}
<1> DEFINE look == [s EXCEPT !.pc = "look"]
           pop == [s EXCEPT !.pc = "pop", !.left = @ - 1]
<1>1. CASE s.hand # {} /\ slot' = [slot EXCEPT ![w] = look]
  <2>1. /\ look \in Slot /\ look.pc = "look" /\ look.hand = s.hand /\ look.got = s.got
        /\ look.run = s.run /\ look.left = s.left /\ look.age = s.age
    BY DEF Slot
  <2> HIDE DEF look
  <2>2. SlotOk(look)
    BY <2>1 DEF SlotOk
  <2>3. QED
    BY <1>1, <2>1, <2>2
<1>2. ASSUME s.hand = {}, NEW r \in s.got,
             slot' = [slot EXCEPT ![w] = [Idle EXCEPT !.pc = "start", !.run = r,
                                                      !.copy = TTL - s.age]]
      PROVE  /\ slot' \in [Workers -> Slot]
             /\ SlotOk(slot'[w])
             /\ \A v \in Workers : v # w => slot'[v] = slot[v]
             /\ slot'[w].hand = s.hand
             /\ slot'[w].pc = "start" /\ slot'[w].run \in s.got
             /\ slot'[w].got = {}
  <2> DEFINE start == [Idle EXCEPT !.pc = "start", !.run = r, !.copy = TTL - s.age]
  <2>1. TTL - s.age \in -MaxAge..TTL
    BY NoLeaseType DEF Slot
  <2>2. r \in RunIds
    BY <1>2 DEF Slot
  <2>3. start \in Slot
    BY <2>1, <2>2, IdleType DEF Slot
  <2>4. start.pc = "start" /\ start.run = r /\ start.hand = {} /\ start.got = {}
    BY IdleType DEF Slot
  <2> HIDE DEF start
  <2>5. SlotOk(start)
    BY <2>2, <2>4 DEF SlotOk
  <2>6. slot' = [slot EXCEPT ![w] = start]
    BY <1>2 DEF start
  <2>7. QED
    BY <1>2, <2>3, <2>4, <2>5, <2>6
<1>3. CASE s.hand = {} /\ s.got = {} /\ s.left = 1 /\ slot' = [slot EXCEPT ![w] = Asleep]
  BY <1>3, IdleType
<1>4. CASE s.hand = {} /\ s.got = {} /\ s.left # 1 /\ slot' = [slot EXCEPT ![w] = pop]
  <2>1. s.left - 1 \in 0..Spins /\ s.left - 1 >= 1
    BY <1>4, QueueAssumption DEF Slot
  <2>2. /\ pop \in Slot /\ pop.pc = "pop" /\ pop.hand = s.hand /\ pop.got = s.got
        /\ pop.run = s.run /\ pop.left >= 1
    BY <2>1 DEF Slot
  <2> HIDE DEF pop
  <2>3. SlotOk(pop)
    BY <1>4, <2>2 DEF SlotOk
  <2>4. QED
    BY <1>4, <2>2, <2>3
<1>5. QED
  BY <1>1, <1>2, <1>3, <1>4 DEF Onward

----------------------------------------------------------------------------
(* Every step keeps the invariant: first the steps that leave the slots    *)
(* alone.                                                                  *)

(* create_run, the row: it is new, and nobody has heard of its id. *)
LEMMA CreateRunStep ==
  ASSUME QueueInv, NEW q \in RunIds, NEW pool \in EnqueuePools, NEW ahead \in 0..MaxAhead,
         CreateRun(q, pool, ahead)
  PROVE  QueueInv'
<1> DEFINE row == [status |-> "queued", pool |-> pool, sched |-> ahead,
                   by |-> NoWorker, lease |-> NoLease]
<1>1. row \in Row
  <2>1. pool \in Pools \cup {NoPool} /\ ahead \in -MaxAge..MaxAhead
    BY QueueAssumption
  <2>2. QED
    BY <2>1 DEF Row
<1>2. row.status = "queued" /\ row.lease = NoLease /\ row.pool = pool
  OBVIOUS
<1> HIDE DEF row
<1>3. /\ rows' = [rows EXCEPT ![q] = row] /\ rows[q].status = "none"
      /\ creating' = creating \cup {q}
      /\ UNCHANGED <<zset, batch, phase, slot, requeuing, faults, lost, reclaimed>>
  BY DEF CreateRun, row
<1>4. TypeOK'
  BY <1>1, <1>3 DEF QueueInv, TypeOK
<1>5. rows'[q] = row /\ \A r \in RunIds : r # q => rows'[r] = rows[r]
  BY <1>3 DEF QueueInv, TypeOK
<1>6. ASSUME NEW r \in RunIds PROVE RunOk(r)'
  <2>1. RunOk(r) /\ RunOk(q)
    BY DEF QueueInv
  <2>2. CASE r # q
    <3>1. rows'[r] = rows[r] /\ (r \in creating' <=> r \in creating)
      BY <1>3, <1>5, <2>2
    <3>2. QED
      BY <1>3, <2>1, <3>1 DEF RunOk, RowOk, OnePlace, Reachable, InGoodHands, PutBack, Has
  <2>3. CASE r = q
    <3>1. ~reclaimed[q] /\ q \notin requeuing
      BY <1>3, <2>1 DEF RunOk, RowOk
    <3>2. /\ \A p \in Pools : q \notin zset[p]
          /\ \A w \in Workers : q \notin slot[w].hand /\ ~Has(w, q)
      BY <1>3, <2>1, <3>1 DEF RunOk, OnePlace, Held
    <3>3. QED
      BY <1>2, <1>3, <1>5, <2>3, <3>1, <3>2 DEF RunOk, RowOk, OnePlace, Reachable, Has
  <2>4. QED
    BY <2>2, <2>3
<1>7. QED
  BY <1>3, <1>4, <1>6 DEF QueueInv

(* enqueue_run adds an id to the sorted set of its run's pool. *)
LEMMA EnqueueEffect ==
  ASSUME TypeOK, NEW q \in RunIds, EnqueueRun(q)
  PROVE  /\ PoolKey(rows[q].pool) \in Pools
         /\ zset' \in [Pools -> SUBSET RunIds]
         /\ q \in zset'[PoolKey(rows[q].pool)]
         /\ \A p \in Pools : \A r \in RunIds :
              r \in zset'[p] <=> r \in zset[p] \/ (r = q /\ p = PoolKey(rows[q].pool))
<1>1. PoolKey(rows[q].pool) \in Pools
  BY QueueAssumption DEF TypeOK, Row, PoolKey
<1>2. QED
  BY <1>1 DEF TypeOK, EnqueueRun

(* create_run, the id. *)
LEMMA CreateEnqueueStep ==
  ASSUME QueueInv, NEW q \in RunIds, CreateEnqueue(q)
  PROVE  QueueInv'
<1>1. /\ q \in creating /\ EnqueueRun(q) /\ creating' = creating \ {q}
      /\ UNCHANGED <<rows, batch, phase, slot, requeuing, faults, lost, reclaimed>>
  BY DEF CreateEnqueue
<1>2. TypeOK
  BY DEF QueueInv
<1>3. TypeOK'
  BY <1>1, <1>2, EnqueueEffect DEF TypeOK
<1>4. ASSUME NEW r \in RunIds PROVE RunOk(r)'
  <2>1. RunOk(r)
    BY DEF QueueInv
  <2>2. CASE r # q
    <3>1. \A p \in Pools : r \in zset'[p] <=> r \in zset[p]
      BY <1>1, <1>2, <2>2, EnqueueEffect
    <3>2. PoolKey(rows[r].pool) \in Pools
      BY <1>2, QueueAssumption DEF TypeOK, Row, PoolKey
    <3>3. QED
      BY <1>1, <2>1, <2>2, <3>1, <3>2
      DEF RunOk, RowOk, OnePlace, Reachable, InGoodHands, PutBack, Has
  <2>3. CASE r = q
    <3>1. /\ \A p \in Pools : q \in zset'[p] => p = PoolKey(rows[q].pool)
          /\ q \in zset'[PoolKey(rows[q].pool)]
      <4>1. \A p \in Pools : q \in zset[p] => p = PoolKey(rows[q].pool)
        BY <2>1, <2>3 DEF RunOk, RowOk
      <4>2. QED
        BY <1>1, <1>2, <4>1, EnqueueEffect
    <3>2. QED
      BY <1>1, <2>1, <2>3, <3>1 DEF RunOk, RowOk, OnePlace, Reachable, Has
  <2>4. QED
    BY <2>2, <2>3
<1>5. QED
  BY <1>1, <1>3, <1>4 DEF QueueInv

(* The id of a reclaimed run goes back to Redis. *)
LEMMA ReclaimEnqueueStep ==
  ASSUME QueueInv, NEW q \in RunIds, ReclaimEnqueue(q)
  PROVE  QueueInv'
<1>1. /\ q \in requeuing /\ EnqueueRun(q) /\ requeuing' = requeuing \ {q}
      /\ UNCHANGED <<rows, batch, phase, slot, creating, faults, lost, reclaimed>>
  BY DEF ReclaimEnqueue
<1>2. TypeOK
  BY DEF QueueInv
<1>3. TypeOK'
  BY <1>1, <1>2, EnqueueEffect DEF TypeOK
<1>4. ASSUME NEW r \in RunIds PROVE RunOk(r)'
  <2>1. RunOk(r)
    BY DEF QueueInv
  <2>2. CASE r # q
    <3>1. \A p \in Pools : r \in zset'[p] <=> r \in zset[p]
      BY <1>1, <1>2, <2>2, EnqueueEffect
    <3>2. PoolKey(rows[r].pool) \in Pools
      BY <1>2, QueueAssumption DEF TypeOK, Row, PoolKey
    <3>3. QED
      BY <1>1, <2>1, <2>2, <3>1, <3>2
      DEF RunOk, RowOk, OnePlace, Reachable, InGoodHands, PutBack, Has
  <2>3. CASE r = q
    <3>1. /\ \A p \in Pools : q \in zset'[p] => p = PoolKey(rows[q].pool)
          /\ q \in zset'[PoolKey(rows[q].pool)]
      <4>1. \A p \in Pools : q \in zset[p] => p = PoolKey(rows[q].pool)
        BY <2>1, <2>3 DEF RunOk, RowOk
      <4>2. QED
        BY <1>1, <1>2, <4>1, EnqueueEffect
    <3>2. reclaimed[q]
      BY <1>1, <2>1, <2>3 DEF RunOk, RowOk
    <3>3. QED
      BY <1>1, <2>1, <2>3, <3>1, <3>2 DEF RunOk, RowOk, OnePlace, Reachable
  <2>4. QED
    BY <2>2, <2>3
<1>5. QED
  BY <1>1, <1>3, <1>4 DEF QueueInv

(* A fault is counted up to its bound. *)
LEMMA FaultyType == TypeOK /\ Faulty => faults' \in 0..MaxFaults
BY QueueAssumption DEF TypeOK, Faulty

(* A call of create_run or of the reclaim loop fails: its ids are lost. *)
LEMMA CallFailsStep ==
  ASSUME QueueInv, (\E q \in RunIds : CreateFails(q)) \/ ReclaimFails
  PROVE  QueueInv'
<1>1. /\ UNCHANGED <<rows, zset, batch, phase, slot, reclaimed>> /\ Faulty
      /\ creating' \subseteq creating /\ requeuing' \subseteq requeuing
      /\ lost' \subseteq RunIds
      /\ creating \cup requeuing \cup lost \subseteq creating' \cup requeuing' \cup lost'
  BY DEF QueueInv, TypeOK, CreateFails, ReclaimFails
<1>2. TypeOK'
  BY <1>1, FaultyType DEF QueueInv, TypeOK
<1>3. ASSUME NEW r \in RunIds PROVE RunOk(r)'
  <2>1. RunOk(r)
    BY DEF QueueInv
  <2>2. QED
    BY <1>1, <2>1 DEF RunOk, RowOk, OnePlace, Reachable, InGoodHands, PutBack, Has
<1>4. QED
  BY <1>1, <1>2, <1>3 DEF QueueInv

(* reclaim_expired_run_leases, the rows: what it takes is reclaimed, and   *)
(* its id is on its way.                                                   *)
LEMMA ReclaimStep ==
  ASSUME QueueInv, Reclaim
  PROVE  QueueInv'
<1> DEFINE S == {r \in RunIds : Expired(rows[r])}
           back(r) == [rows[r] EXCEPT !.status = "queued", !.by = NoWorker, !.lease = NoLease]
<1>1. /\ rows' = [r \in RunIds |-> IF r \notin S THEN rows[r] ELSE back(r)]
      /\ requeuing' = requeuing \cup S
      /\ reclaimed' = [r \in RunIds |-> reclaimed[r] \/ r \in S]
      /\ UNCHANGED <<zset, batch, phase, slot, creating, faults, lost>>
  BY DEF Reclaim
<1>2. ASSUME NEW r \in RunIds
      PROVE  /\ back(r) \in Row /\ back(r).status = "queued"
             /\ back(r).lease = NoLease /\ back(r).pool = rows[r].pool
  <2>1. rows[r] \in Row
    BY DEF QueueInv, TypeOK
  <2>2. QED
    BY <2>1 DEF Row
<1> HIDE DEF back
<1>3. TypeOK'
  <2>1. rows' \in [RunIds -> Row]
    BY <1>1, <1>2 DEF QueueInv, TypeOK
  <2>2. QED
    BY <1>1, <2>1 DEF QueueInv, TypeOK
<1>4. ASSUME NEW r \in RunIds PROVE RunOk(r)'
  <2>1. RunOk(r)
    BY DEF QueueInv
  <2>2. CASE r \notin S
    <3>1. rows'[r] = rows[r] /\ (r \in requeuing' <=> r \in requeuing)
          /\ (reclaimed'[r] <=> reclaimed[r])
      BY <1>1, <2>2
    <3>2. QED
      BY <1>1, <2>1, <3>1 DEF RunOk, RowOk, OnePlace, Reachable, InGoodHands, PutBack, Has
  <2>3. CASE r \in S
    <3>1. rows'[r] = back(r) /\ r \in requeuing' /\ reclaimed'[r]
      BY <1>1, <2>3
    <3>2. QED
      BY <1>1, <1>2, <2>1, <3>1 DEF RunOk, RowOk, OnePlace, Reachable
  <2>4. QED
    BY <2>2, <2>3
<1>5. QED
  BY <1>1, <1>3, <1>4 DEF QueueInv

----------------------------------------------------------------------------
(* The writes of a slot that has its run.                                  *)

(* A write of the whole row by the slot that has the run, or by one that   *)
(* lost it, leaves the others' ids where they are; unless the run was      *)
(* reclaimed the slot is its holder.                                       *)
LEMMA OwnWriteStep ==
  ASSUME QueueInv, TypeOK', NEW w \in Workers, slot[w].pc \in {"start", "work"},
         UNCHANGED <<zset, creating, requeuing, lost, reclaimed>>,
         \A r \in RunIds : r # slot[w].run => rows'[r] = rows[r],
         rows'[slot[w].run].status \in {"running", "ended"},
         rows'[slot[w].run].by = w,
         rows'[slot[w].run].pool = rows[slot[w].run].pool,
         \A v \in Workers : v # w => slot'[v] = slot[v],
         SlotOk(slot'[w]), slot'[w].hand = {}, slot'[w].got = {},
         \/ slot'[w].pc = "work" /\ slot'[w].run = slot[w].run
              /\ rows'[slot[w].run].status = "running"
         \/ slot'[w].pc = "idle"
  PROVE  QueueInv'
<1>q. PICK q \in RunIds : q = slot[w].run
  BY DEF QueueInv, SlotOk
<1>1. slot[w].hand = {} /\ slot[w].got = {}
  BY DEF QueueInv, SlotOk
<1>2. \A v \in Workers : SlotOk(slot'[v])
  BY DEF QueueInv
<1>3. \A v \in Workers : slot'[v].hand = slot[v].hand
  BY <1>1
<1>4. \A v \in Workers, r \in RunIds : Has(v, r)' => Has(v, r)
  BY <1>1 DEF Has
<1>5. ASSUME NEW r \in RunIds PROVE RunOk(r)'
  <2>1. RunOk(r)
    BY DEF QueueInv
  <2>2. CASE r # q
    <3>1. rows'[r] = rows[r]
      BY <1>q, <2>2
    <3>2. RowOk(r)' /\ OnePlace(r)'
      BY <1>3, <1>4, <2>1, <3>1 DEF RunOk, RowOk, OnePlace
    <3>3. \A v \in Workers : InGoodHands(v, r) => InGoodHands(v, r)'
      BY <1>1, <3>1 DEF InGoodHands, PutBack
    <3>4. QED
      BY <2>1, <3>1, <3>2, <3>3 DEF RunOk, Reachable
  <2>3. CASE r = q
    <3>1. Has(w, q)
      BY <1>q DEF Has
    <3>2. ~reclaimed[q] => Held(rows[q]) /\ rows[q].by = w
      BY <2>1, <2>3, <3>1 DEF RunOk, OnePlace
    <3>3. ~reclaimed[q] => /\ q \notin creating
                           /\ \A p \in Pools : q \notin zset[p]
                           /\ \A v \in Workers : q \notin slot[v].hand
                           /\ \A v \in Workers : v # w => ~Has(v, q)
      BY <2>1, <2>3, <3>2 DEF RunOk, OnePlace, Held
    <3>4. \A v \in Workers : Has(v, q)' /\ v = w => rows'[q].status = "running"
      BY <1>q, <1>1 DEF Has
    <3>5. RowOk(r)' /\ Reachable(r)'
      BY <1>q, <2>1, <2>3 DEF RunOk, RowOk, Reachable
    <3>6. OnePlace(r)'
      BY <1>q, <1>3, <1>4, <2>3, <3>3, <3>4 DEF OnePlace, Held
    <3>7. QED
      BY <3>5, <3>6 DEF RunOk
  <2>4. QED
    BY <2>2, <2>3
<1>6. QED
  BY <1>2, <1>5 DEF QueueInv

(* A worker marks its run running. *)
LEMMA MarkRunningStep ==
  ASSUME QueueInv, NEW w \in Workers, MarkRunning(w)
  PROVE  QueueInv'
<1>1. PICK q \in RunIds : q = slot[w].run
  BY DEF QueueInv, SlotOk, MarkRunning
<1> DEFINE row == [rows[q] EXCEPT !.status = "running", !.by = w, !.lease = slot[w].copy]
           new == [slot[w] EXCEPT !.pc = "work", !.copy = NoLease]
<1>2. /\ slot[w].pc = "start"
      /\ rows' = [rows EXCEPT ![q] = row] /\ slot' = [slot EXCEPT ![w] = new]
      /\ UNCHANGED <<zset, batch, phase, creating, requeuing, faults, lost, reclaimed>>
  BY <1>1 DEF MarkRunning, QueueInv, TypeOK
<1>3. rows[q] \in Row /\ slot[w] \in Slot
  BY DEF QueueInv, TypeOK
<1>4. row \in Row /\ row.status = "running" /\ row.by = w /\ row.pool = rows[q].pool
  BY <1>3 DEF Row, Slot
<1>5. /\ new \in Slot /\ new.pc = "work" /\ new.hand = slot[w].hand /\ new.got = slot[w].got
      /\ new.run = slot[w].run
  BY <1>3 DEF Slot
<1> HIDE DEF row, new
<1>6. TypeOK'
  BY <1>2, <1>4, <1>5 DEF QueueInv, TypeOK
<1>7. slot[w].hand = {} /\ slot[w].got = {}
  BY <1>2 DEF QueueInv, SlotOk
<1>8. SlotOk(new)
  BY <1>1, <1>5, <1>7 DEF SlotOk
<1>9. rows'[q] = row /\ (\A r \in RunIds : r # q => rows'[r] = rows[r])
      /\ slot'[w] = new /\ \A v \in Workers : v # w => slot'[v] = slot[v]
  BY <1>2 DEF QueueInv, TypeOK
<1>10. QED
  BY <1>1, <1>2, <1>4, <1>5, <1>6, <1>7, <1>8, <1>9, OwnWriteStep

(* A worker writes the outcome of its run. *)
LEMMA FinishStep ==
  ASSUME QueueInv, NEW w \in Workers, Finish(w)
  PROVE  QueueInv'
<1>1. PICK q \in RunIds : q = slot[w].run
  BY DEF QueueInv, SlotOk, Finish
<1> DEFINE row == [rows[q] EXCEPT !.status = "ended", !.by = w, !.lease = NoLease]
<1>2. /\ slot[w].pc = "work"
      /\ rows' = [rows EXCEPT ![q] = row] /\ slot' = [slot EXCEPT ![w] = Idle]
      /\ UNCHANGED <<zset, batch, phase, creating, requeuing, faults, lost, reclaimed>>
  BY <1>1 DEF Finish, QueueInv, TypeOK
<1>3. rows[q] \in Row
  BY DEF QueueInv, TypeOK
<1>4. row \in Row /\ row.status = "ended" /\ row.by = w /\ row.pool = rows[q].pool
  BY <1>3 DEF Row
<1> HIDE DEF row
<1>6. TypeOK'
  BY <1>2, <1>4, IdleType DEF QueueInv, TypeOK
<1>9. rows'[q] = row /\ (\A r \in RunIds : r # q => rows'[r] = rows[r])
      /\ slot'[w] = Idle /\ \A v \in Workers : v # w => slot'[v] = slot[v]
  BY <1>2 DEF QueueInv, TypeOK
<1>10. QED
  BY <1>1, <1>2, <1>4, <1>6, <1>9, IdleType, OwnWriteStep

(* A renewal moves the lease of a run that is held, and nothing else. *)
LEMMA RenewLeaseStep ==
  ASSUME QueueInv, NEW w \in Workers, RenewLease(w)
  PROVE  QueueInv'
<1>1. PICK q \in RunIds : q = slot[w].run
  BY DEF QueueInv, SlotOk, RenewLease
<1> DEFINE row == [rows[q] EXCEPT !.lease = TTL]
<1>2. /\ rows' = [rows EXCEPT ![q] = row] /\ Held(rows[q])
      /\ UNCHANGED <<zset, batch, phase, slot, creating, requeuing, faults, lost, reclaimed>>
  BY <1>1 DEF RenewLease, QueueInv, TypeOK
<1>3. rows[q] \in Row
  BY DEF QueueInv, TypeOK
<1>4. /\ row \in Row /\ row.status = rows[q].status /\ row.by = rows[q].by
      /\ row.pool = rows[q].pool
  <2>1. TTL \in -MaxAge..TTL
    BY NoLeaseType
  <2>2. QED
    BY <1>3, <2>1 DEF Row
<1> HIDE DEF row
<1>5. TypeOK'
  BY <1>2, <1>4 DEF QueueInv, TypeOK
<1>6. ASSUME NEW r \in RunIds PROVE RunOk(r)'
  <2>1. RunOk(r)
    BY DEF QueueInv
  <2>2. CASE r # q
    <3>1. rows'[r] = rows[r]
      BY <1>2, <2>2
    <3>2. QED
      BY <1>2, <2>1, <3>1 DEF RunOk, RowOk, OnePlace, Reachable, InGoodHands, PutBack, Has
  <2>3. CASE r = q
    <3>1. rows'[q] = row /\ rows[q].status # "queued"
      BY <1>2, <1>3 DEF QueueInv, TypeOK, Held
    <3>2. QED
      BY <1>2, <1>4, <2>1, <2>3, <3>1 DEF RunOk, RowOk, OnePlace, Reachable, Has, Held
  <2>4. QED
    BY <2>2, <2>3
<1>7. QED
  BY <1>2, <1>5, <1>6 DEF QueueInv

----------------------------------------------------------------------------
(* The claim loop.                                                         *)

(* Popped ids move from the sorted set of the pool into the hand. *)
LEMMA PopStep ==
  ASSUME QueueInv, NEW w \in Workers, Pop(w)
  PROVE  QueueInv'
<1>1. PICK S \in SUBSET DueIds(w) :
        /\ Remove(w, S)
        /\ slot' = [slot EXCEPT ![w] =
              IF S = {} THEN Asleep
              ELSE [slot[w] EXCEPT !.pc = "claim", !.hand = S,
                                   !.left = IF slot[w].pc = "idle" THEN Spins ELSE slot[w].left]]
  BY DEF Pop
<1>2. /\ slot[w].pc \in {"idle", "pop"}
      /\ UNCHANGED <<rows, batch, phase, creating, requeuing, faults, lost, reclaimed>>
  BY DEF Pop
<1>3. /\ slot[w] \in Slot /\ slot[w].hand = {} /\ slot[w].got = {} /\ slot[w].run = NoRunId
      /\ slot[w].pc = "pop" => slot[w].left >= 1
  BY <1>2 DEF QueueInv, TypeOK, SlotOk
<1> DEFINE left == IF slot[w].pc = "idle" THEN Spins ELSE slot[w].left
           claim == [slot[w] EXCEPT !.pc = "claim", !.hand = S, !.left = left]
           new == IF S = {} THEN Asleep ELSE claim
<1>4. left \in 0..Spins /\ left >= 1
  BY <1>2, <1>3, QueueAssumption DEF Slot
<1> HIDE DEF left
<1>5. S \subseteq zset[WorkerPool[w]] /\ WorkerPool[w] \in Pools /\ S \subseteq RunIds
  BY QueueAssumption DEF QueueInv, TypeOK, DueIds
<1>6. /\ claim \in Slot /\ claim.pc = "claim" /\ claim.hand = S /\ claim.got = {}
      /\ claim.run = NoRunId /\ claim.left >= 1
  BY <1>3, <1>4, <1>5 DEF Slot
<1> HIDE DEF claim
<1>7. /\ new \in Slot /\ SlotOk(new) /\ new.hand = S /\ new.got = {}
      /\ new.pc \in {"sleep", "claim"} /\ (S # {} => new.pc = "claim")
  BY <1>6, IdleType DEF SlotOk
<1>8. slot' = [slot EXCEPT ![w] = new]
  BY <1>1 DEF new, claim, left
<1> HIDE DEF new
<1>9. /\ slot' \in [Workers -> Slot] /\ slot'[w] = new
      /\ \A v \in Workers : v # w => slot'[v] = slot[v]
  BY <1>7, <1>8 DEF QueueInv, TypeOK
<1>10. /\ zset' \in [Pools -> SUBSET RunIds]
       /\ \A p \in Pools : \A r \in RunIds :
            r \in zset'[p] <=> r \in zset[p] /\ ~(p = WorkerPool[w] /\ r \in S)
  BY <1>1, <1>5 DEF QueueInv, TypeOK, Remove
<1>11. TypeOK'
  BY <1>2, <1>9, <1>10 DEF QueueInv, TypeOK
<1>12. \A v \in Workers, r \in RunIds : Has(v, r)' => Has(v, r)
  BY <1>7, <1>9 DEF Has
<1>13. ASSUME NEW r \in RunIds PROVE RunOk(r)'
  <2>1. RunOk(r)
    BY DEF QueueInv
  <2>2. RowOk(r)'
    BY <1>2, <1>10, <2>1 DEF RunOk, RowOk
  <2>3. CASE r \notin S
    <3>1. \A p \in Pools : r \in zset'[p] <=> r \in zset[p]
      BY <1>10, <2>3
    <3>2. \A v \in Workers : r \in slot'[v].hand <=> r \in slot[v].hand
      BY <1>3, <1>7, <1>9, <2>3
    <3>3. OnePlace(r)'
      BY <1>2, <1>12, <2>1, <3>1, <3>2 DEF RunOk, OnePlace
    <3>4. \A v \in Workers : InGoodHands(v, r) => InGoodHands(v, r)'
      BY <1>2, <1>3, <1>9 DEF InGoodHands, PutBack
    <3>5. PoolKey(rows[r].pool) \in Pools
      BY QueueAssumption DEF QueueInv, TypeOK, Row, PoolKey
    <3>6. Reachable(r)'
      BY <1>2, <2>1, <3>1, <3>4, <3>5 DEF RunOk, Reachable
    <3>7. QED
      BY <2>2, <3>3, <3>6 DEF RunOk
  <2>4. CASE r \in S
    <3>1. r \in zset[WorkerPool[w]]
      BY <1>5, <2>4
    <3>2. \A p \in Pools : r \notin zset'[p]
      BY <1>5, <1>10, <2>1, <2>4, <3>1 DEF RunOk, RowOk
    <3>3. ~reclaimed[r] => /\ rows[r].status = "queued" /\ r \notin creating
                           /\ \A v \in Workers : r \notin slot[v].hand
      BY <1>5, <2>1, <3>1 DEF RunOk, OnePlace
    <3>4. ~reclaimed[r] => \A v \in Workers : ~Has(v, r)
      BY <2>1, <3>3 DEF RunOk, OnePlace, Held
    <3>5. OnePlace(r)'
      BY <1>2, <1>9, <1>12, <3>2, <3>3, <3>4 DEF OnePlace
    <3>6. InGoodHands(w, r)'
      BY <1>7, <1>9, <2>4 DEF InGoodHands
    <3>7. QED
      BY <2>2, <3>5, <3>6 DEF RunOk, Reachable
  <2>5. QED
    BY <2>3, <2>4
<1>14. QED
  BY <1>7, <1>9, <1>11, <1>13 DEF QueueInv

(* The claim in SQL: what it gets is held by the slot and out of its hand, *)
(* what is queued and not claimed is to be put back.                       *)
LEMMA SqlClaimStep ==
  ASSUME QueueInv, NEW w \in Workers, SqlClaim(w)
  PROVE  QueueInv'
<1>1. PICK got \in SUBSET RunIds : got = {r \in slot[w].hand : Claimable(w, r)}
  BY DEF QueueInv, TypeOK, Slot
<1> DEFINE row(r) == [rows[r] EXCEPT !.status = "claimed", !.by = w, !.lease = TTL - slot[w].age]
           s == [slot[w] EXCEPT !.hand = @ \ got, !.got = got]
<1>2. /\ slot[w].pc = "claim"
      /\ rows' = [r \in RunIds |-> IF r \notin got THEN rows[r] ELSE row(r)]
      /\ Onward(w, s)
      /\ UNCHANGED <<zset, batch, phase, creating, requeuing, faults, lost, reclaimed>>
  BY <1>1 DEF SqlClaim
<1>3. /\ slot[w] \in Slot /\ slot[w].got = {} /\ slot[w].run = NoRunId /\ slot[w].left >= 1
  BY <1>2 DEF QueueInv, TypeOK, SlotOk
<1>4. /\ s \in Slot /\ s.hand = slot[w].hand \ got /\ s.got = got /\ s.run = NoRunId
      /\ s.left >= 1 /\ s.age = slot[w].age
  BY <1>3 DEF Slot
<1> HIDE DEF s
<1>5. ASSUME NEW r \in RunIds
      PROVE  /\ row(r) \in Row /\ row(r).status = "claimed"
             /\ row(r).by = w /\ row(r).pool = rows[r].pool
  <2>1. TTL - slot[w].age \in -MaxAge..TTL
    BY <1>3, NoLeaseType DEF Slot
  <2>2. rows[r] \in Row
    BY DEF QueueInv, TypeOK
  <2>3. QED
    BY <2>1, <2>2 DEF Row
<1> HIDE DEF row
<1>6. slot \in [Workers -> Slot]
  BY DEF QueueInv, TypeOK
<1>7. /\ slot' \in [Workers -> Slot] /\ SlotOk(slot'[w])
      /\ \A v \in Workers : v # w => slot'[v] = slot[v]
      /\ slot'[w].hand = slot[w].hand \ got
      /\ \/ /\ slot'[w].pc = "look" /\ slot'[w].got = got
            /\ slot'[w].age = slot[w].age
         \/ /\ slot'[w].pc = "start" /\ slot'[w].run \in got
            /\ slot'[w].got = {} /\ slot'[w].hand = {}
         \/ /\ slot'[w].pc \in {"sleep", "pop"} /\ slot'[w].got = {}
            /\ slot'[w].hand = {}
  BY <1>2, <1>4, <1>6, OnwardEffect
<1>8. TypeOK'
  <2>1. rows' \in [RunIds -> Row]
    BY <1>2, <1>5 DEF QueueInv, TypeOK
  <2>2. QED
    BY <1>2, <1>7, <2>1 DEF QueueInv, TypeOK
<1>9. ASSUME NEW r \in RunIds PROVE RunOk(r)'
  <2>1. RunOk(r)
    BY DEF QueueInv
  <2>2. \A v \in Workers : r \in slot'[v].hand => r \in slot[v].hand
    BY <1>7
  <2>3. CASE r \notin got
    <3>1. rows'[r] = rows[r]
      BY <1>2, <2>3
    <3>2. \A v \in Workers : Has(v, r)' => Has(v, r)
      BY <1>7, <2>3 DEF Has
    <3>3. RowOk(r)' /\ OnePlace(r)'
      BY <1>2, <2>1, <2>2, <3>1, <3>2 DEF RunOk, RowOk, OnePlace
    <3>4. ASSUME rows[r].status = "queued", NEW v \in Workers, InGoodHands(v, r)
          PROVE  InGoodHands(v, r)'
      <4>1. CASE v # w
        BY <1>7, <3>1, <3>4, <4>1 DEF InGoodHands, PutBack
      <4>2. CASE v = w
        <5>1. r \in slot[w].hand /\ r \in slot'[w].hand
          BY <1>7, <2>3, <3>4, <4>2 DEF InGoodHands
        <5>2. ~Claimable(w, r)
          BY <1>1, <2>3, <5>1
        <5>3. slot'[w].pc = "look" /\ slot'[w].age = slot[w].age
          BY <1>7, <5>1
        <5>4. PutBack(w, r)
          <6>1. rows[r] \in Row
            BY DEF QueueInv, TypeOK
          <6>2. /\ rows[r].sched \in Int /\ rows[r].lease \in Int /\ slot[w].age \in Int
            BY <1>3, <6>1, NoLeaseType DEF Row, Slot
          <6>3. QED
            BY <3>4, <5>2, <6>2 DEF PutBack, Claimable
        <5>5. QED
          BY <3>1, <4>2, <5>1, <5>3, <5>4 DEF InGoodHands, PutBack
      <4>3. QED
        BY <4>1, <4>2
    <3>5. Reachable(r)'
      BY <1>2, <2>1, <3>1, <3>4 DEF RunOk, Reachable
    <3>6. QED
      BY <3>3, <3>5 DEF RunOk
  <2>4. CASE r \in got
    <3>1. rows'[r] = row(r) /\ rows[r].status = "queued" /\ r \in slot[w].hand
      BY <1>1, <1>2, <2>4 DEF Claimable
    <3>2. RowOk(r)' /\ Reachable(r)'
      BY <1>2, <1>5, <2>1, <3>1 DEF RunOk, RowOk, Reachable
    <3>3. ~reclaimed[r] => /\ r \notin creating
                           /\ \A p \in Pools : r \notin zset[p]
                           /\ \A v \in Workers : v # w => r \notin slot[v].hand
                           /\ \A v \in Workers : ~Has(v, r)
      BY <2>1, <3>1 DEF RunOk, OnePlace, Held
    <3>4. \A v \in Workers : v # w => (Has(v, r)' <=> Has(v, r))
      BY <1>7 DEF Has
    <3>5. r \notin slot'[w].hand
      BY <1>7, <2>4
    <3>6. OnePlace(r)'
      BY <1>2, <1>5, <2>2, <3>1, <3>3, <3>4, <3>5 DEF OnePlace, Held
    <3>7. QED
      BY <3>2, <3>6 DEF RunOk
  <2>5. QED
    BY <2>3, <2>4
<1>10. QED
  BY <1>7, <1>8, <1>9 DEF QueueInv

(* get_run of the next id in hand: it is going to be put back, or dropped  *)
(* because its run is no longer queued or can be reached otherwise.        *)
LEMMA LookStep ==
  ASSUME QueueInv, NEW w \in Workers, Look(w)
  PROVE  QueueInv'
<1>1. PICK q \in slot[w].hand :
        IF PutBack(w, q)
        THEN slot' = [slot EXCEPT ![w].pc = "add", ![w].run = q]
        ELSE Onward(w, [slot[w] EXCEPT !.hand = @ \ {q}])
  BY DEF Look
<1>2. /\ slot[w].pc = "look"
      /\ UNCHANGED <<rows, zset, batch, phase, creating, requeuing, faults, lost, reclaimed>>
  BY DEF Look
<1>3. /\ slot[w] \in Slot /\ slot[w].run = NoRunId /\ slot[w].left >= 1
      /\ slot \in [Workers -> Slot] /\ q \in RunIds
  BY <1>2 DEF QueueInv, TypeOK, SlotOk, Slot
<1> DEFINE add == [slot[w] EXCEPT !.pc = "add", !.run = q]
           s == [slot[w] EXCEPT !.hand = @ \ {q}]
<1>4. /\ add \in Slot /\ add.pc = "add" /\ add.run = q /\ add.hand = slot[w].hand
      /\ add.got = slot[w].got /\ add.left = slot[w].left /\ add.age = slot[w].age
  BY <1>3 DEF Slot
<1>5. /\ s \in Slot /\ s.hand = slot[w].hand \ {q} /\ s.got = slot[w].got
      /\ s.run = NoRunId /\ s.left >= 1 /\ s.age = slot[w].age
  BY <1>3 DEF Slot
<1>6. IF PutBack(w, q) THEN slot' = [slot EXCEPT ![w] = add] ELSE Onward(w, s)
  BY <1>1, <1>3
<1> HIDE DEF add, s
<1>7. /\ slot' \in [Workers -> Slot] /\ SlotOk(slot'[w])
      /\ \A v \in Workers : v # w => slot'[v] = slot[v]
      /\ \A r \in RunIds : r \in slot'[w].hand => r \in slot[w].hand
      /\ \A r \in RunIds : r \in slot[w].hand /\ (r # q \/ PutBack(w, q)) =>
            r \in slot'[w].hand /\ slot'[w].age = slot[w].age
      /\ \A r \in RunIds : Has(w, r)' => Has(w, r)
  <2>1. CASE PutBack(w, q)
    <3>1. slot'[w] = add
      BY <1>3, <1>6, <2>1
    <3>2. SlotOk(add)
      BY <1>3, <1>4 DEF SlotOk
    <3>3. QED
      BY <1>3, <1>4, <1>6, <2>1, <3>1, <3>2 DEF Has
  <2>2. CASE ~PutBack(w, q)
    <3>1. Onward(w, s)
      BY <1>6, <2>2
    <3>2. /\ slot' \in [Workers -> Slot] /\ SlotOk(slot'[w])
          /\ \A v \in Workers : v # w => slot'[v] = slot[v]
          /\ slot'[w].hand = s.hand
          /\ \/ /\ slot'[w].pc = "look" /\ slot'[w].got = s.got
                /\ slot'[w].run = NoRunId /\ slot'[w].age = s.age
             \/ /\ slot'[w].pc = "start" /\ slot'[w].run \in s.got
                /\ slot'[w].got = {} /\ s.hand = {}
             \/ /\ slot'[w].pc \in {"sleep", "pop"} /\ slot'[w].got = {}
                /\ slot'[w].run = NoRunId /\ s.hand = {}
      BY <1>3, <1>5, <3>1, OnwardEffect
    <3>3. QED
      BY <1>5, <2>2, <3>2 DEF Has
  <2>3. QED
    BY <2>1, <2>2
<1>8. TypeOK'
  BY <1>2, <1>7 DEF QueueInv, TypeOK
<1>9. ASSUME NEW r \in RunIds PROVE RunOk(r)'
  <2>1. RunOk(r)
    BY DEF QueueInv
  <2>2. /\ \A v \in Workers : r \in slot'[v].hand => r \in slot[v].hand
        /\ \A v \in Workers : Has(v, r)' => Has(v, r)
    BY <1>7 DEF Has
  <2>3. RowOk(r)' /\ OnePlace(r)'
    BY <1>2, <2>1, <2>2 DEF RunOk, RowOk, OnePlace
  <2>4. ASSUME NEW v \in Workers, InGoodHands(v, r)
        PROVE  InGoodHands(v, r)'
    <3>1. CASE v # w
      BY <1>2, <1>7, <2>4, <3>1 DEF InGoodHands, PutBack
    <3>2. CASE v = w
      <4>1. r \in slot[w].hand /\ PutBack(w, r)
        BY <1>2, <2>4, <3>2 DEF InGoodHands
      <4>2. r \in slot'[w].hand /\ slot'[w].age = slot[w].age
        BY <1>7, <4>1
      <4>3. QED
        BY <1>2, <3>2, <4>1, <4>2 DEF InGoodHands, PutBack
    <3>3. QED
      BY <3>1, <3>2
  <2>5. QED
    BY <1>2, <2>1, <2>3, <2>4 DEF RunOk, Reachable
<1>10. QED
  BY <1>7, <1>8, <1>9 DEF QueueInv

(* enqueue_run of the id that was looked at. *)
LEMMA AddStep ==
  ASSUME QueueInv, NEW w \in Workers, Add(w)
  PROVE  QueueInv'
<1>1. PICK q \in RunIds : q = slot[w].run /\ q \in slot[w].hand
  BY DEF QueueInv, TypeOK, SlotOk, Slot, Add
<1> DEFINE s == [slot[w] EXCEPT !.hand = @ \ {q}, !.run = NoRunId]
<1>2. /\ slot[w].pc = "add" /\ EnqueueRun(q) /\ Onward(w, s)
      /\ UNCHANGED <<rows, batch, phase, creating, requeuing, faults, lost, reclaimed>>
  BY <1>1 DEF Add
<1>3. slot[w] \in Slot /\ slot[w].left >= 1 /\ slot \in [Workers -> Slot] /\ TypeOK
  BY <1>2 DEF QueueInv, TypeOK, SlotOk
<1>4. /\ s \in Slot /\ s.hand = slot[w].hand \ {q} /\ s.got = slot[w].got
      /\ s.run = NoRunId /\ s.left >= 1 /\ s.age = slot[w].age
  BY <1>3 DEF Slot
<1> HIDE DEF s
<1>5. /\ slot' \in [Workers -> Slot] /\ SlotOk(slot'[w])
      /\ \A v \in Workers : v # w => slot'[v] = slot[v]
      /\ slot'[w].hand = s.hand
      /\ \/ /\ slot'[w].pc = "look" /\ slot'[w].got = s.got
            /\ slot'[w].run = NoRunId /\ slot'[w].age = s.age
         \/ /\ slot'[w].pc = "start" /\ slot'[w].run \in s.got
            /\ slot'[w].got = {} /\ s.hand = {}
         \/ /\ slot'[w].pc \in {"sleep", "pop"} /\ slot'[w].got = {}
            /\ slot'[w].run = NoRunId /\ s.hand = {}
  BY <1>2, <1>3, <1>4, OnwardEffect
<1>6. /\ \A r \in RunIds : r \in slot'[w].hand <=> r \in slot[w].hand /\ r # q
      /\ \A r \in RunIds : r \in slot[w].hand /\ r # q => slot'[w].age = slot[w].age
      /\ \A r \in RunIds : Has(w, r)' => Has(w, r)
  BY <1>4, <1>5 DEF Has
<1>7. TypeOK'
  BY <1>2, <1>3, <1>5, EnqueueEffect DEF TypeOK
<1>8. ASSUME NEW r \in RunIds PROVE RunOk(r)'
  <2>1. RunOk(r)
    BY DEF QueueInv
  <2>2. /\ \A v \in Workers : r \in slot'[v].hand => r \in slot[v].hand
        /\ \A v \in Workers : Has(v, r)' => Has(v, r)
    BY <1>5, <1>6 DEF Has
  <2>3. PoolKey(rows[r].pool) \in Pools
    BY <1>3, QueueAssumption DEF TypeOK, Row, PoolKey
  <2>4. CASE r # q
    <3>1. \A p \in Pools : r \in zset'[p] <=> r \in zset[p]
      BY <1>2, <1>3, <2>4, EnqueueEffect
    <3>2. RowOk(r)' /\ OnePlace(r)'
      BY <1>2, <2>1, <2>2, <3>1 DEF RunOk, RowOk, OnePlace
    <3>3. ASSUME NEW v \in Workers, InGoodHands(v, r)
          PROVE  InGoodHands(v, r)'
      <4>1. CASE v # w
        BY <1>2, <1>5, <3>3, <4>1 DEF InGoodHands, PutBack
      <4>2. CASE v = w
        <5>1. r \in slot[w].hand /\ PutBack(w, r)
          BY <1>2, <3>3, <4>2 DEF InGoodHands
        <5>2. r \in slot'[w].hand /\ slot'[w].age = slot[w].age
          BY <1>6, <2>4, <5>1
        <5>3. QED
          BY <1>2, <4>2, <5>1, <5>2 DEF InGoodHands, PutBack
      <4>3. QED
        BY <4>1, <4>2
    <3>4. QED
      BY <1>2, <2>1, <2>3, <3>1, <3>2, <3>3 DEF RunOk, Reachable
  <2>5. CASE r = q
    <3>1. /\ \A p \in Pools : q \in zset'[p] => p = PoolKey(rows[q].pool)
          /\ q \in zset'[PoolKey(rows[q].pool)]
      <4>1. \A p \in Pools : q \in zset[p] => p = PoolKey(rows[q].pool)
        BY <2>1, <2>5 DEF RunOk, RowOk
      <4>2. QED
        BY <1>2, <1>3, <4>1, EnqueueEffect
    <3>2. ~reclaimed[q] => /\ rows[q].status = "queued" /\ q \notin creating
                           /\ \A v \in Workers : v # w => q \notin slot[v].hand
      BY <1>1, <2>1, <2>5 DEF RunOk, OnePlace
    <3>3. ~reclaimed[q] => \A v \in Workers : q \notin slot'[v].hand
      BY <1>5, <1>6, <3>2
    <3>4. RowOk(r)' /\ Reachable(r)'
      BY <1>2, <2>1, <2>5, <3>1 DEF RunOk, RowOk, Reachable
    <3>5. OnePlace(r)'
      BY <1>2, <2>1, <2>2, <2>5, <3>2, <3>3 DEF RunOk, OnePlace
    <3>6. QED
      BY <3>4, <3>5 DEF RunOk
  <2>6. QED
    BY <2>4, <2>5
<1>9. QED
  BY <1>5, <1>7, <1>8 DEF QueueInv

(* A slot that fails loses the ids in its hand, and its run. *)
LEMMA SlotFailsStep ==
  ASSUME QueueInv, NEW w \in Workers, SlotFails(w)
  PROVE  QueueInv'
<1>1. /\ Faulty /\ lost' = lost \cup slot[w].hand
      /\ slot' = [slot EXCEPT ![w] = Asleep]
      /\ UNCHANGED <<rows, zset, batch, phase, creating, requeuing, reclaimed>>
  BY DEF SlotFails
<1>2. /\ slot \in [Workers -> Slot] /\ slot[w].hand \subseteq RunIds
  BY DEF QueueInv, TypeOK, Slot
<1>3. /\ slot' \in [Workers -> Slot] /\ slot'[w] = Asleep
      /\ \A v \in Workers : v # w => slot'[v] = slot[v]
  BY <1>1, <1>2, IdleType
<1>4. TypeOK'
  BY <1>1, <1>2, <1>3, FaultyType DEF QueueInv, TypeOK
<1>5. ASSUME NEW r \in RunIds PROVE RunOk(r)'
  <2>1. RunOk(r)
    BY DEF QueueInv
  <2>2. /\ \A v \in Workers : r \in slot'[v].hand => r \in slot[v].hand
        /\ \A v \in Workers : Has(v, r)' => Has(v, r)
    BY <1>3, IdleType DEF Has
  <2>3. RowOk(r)' /\ OnePlace(r)'
    BY <1>1, <2>1, <2>2 DEF RunOk, RowOk, OnePlace
  <2>4. \A v \in Workers : InGoodHands(v, r) => InGoodHands(v, r)' \/ r \in lost'
    BY <1>1, <1>3 DEF InGoodHands, PutBack
  <2>5. QED
    BY <1>1, <2>1, <2>3, <2>4 DEF RunOk, Reachable
<1>6. QED
  BY <1>3, <1>4, <1>5, IdleType DEF QueueInv

----------------------------------------------------------------------------
(* Time.                                                                   *)

(* Times relative to the clock stay within their bounds as it advances. *)
LEMMA DownType ==
  /\ \A t \in -MaxAge..MaxAhead : Down(t, -MaxAge) \in -MaxAge..MaxAhead
  /\ \A t \in {NoLease} \cup (-MaxAge..TTL) : LeaseDown(t) \in {NoLease} \cup (-MaxAge..TTL)
  /\ LeaseDown(NoLease) = NoLease
<1>1. MaxAge \in Nat /\ MaxAhead \in Nat /\ TTL \in Nat
  BY QueueAssumption
<1>2. ASSUME NEW n \in Nat, NEW t \in -MaxAge..n
      PROVE  Down(t, -MaxAge) \in -MaxAge..n
  BY <1>1, <1>2 DEF Down
<1>3. QED
  BY <1>1, <1>2 DEF LeaseDown

(* The clock moves: leases and times run down together with the age of the *)
(* claim that reads them, so what was early for a claim stays early.       *)
LEMMA AdvanceStep ==
  ASSUME QueueInv, Advance, faults' \in 0..MaxFaults
  PROVE  QueueInv'
<1> DEFINE row(r) == [rows[r] EXCEPT !.sched = Down(@, -MaxAge), !.lease = LeaseDown(@)]
           new(w) == [slot[w] EXCEPT
                        !.pc = IF @ = "sleep" THEN "idle" ELSE @,
                        !.age = IF Claiming(w) THEN @ + 1 ELSE @,
                        !.copy = LeaseDown(@)]
<1>1. /\ rows' = [r \in RunIds |-> IF rows[r].status \in {"none", "ended"} THEN rows[r] ELSE row(r)]
      /\ slot' = [w \in Workers |-> new(w)]
      /\ phase' = (phase + 1) % SubMilli
      /\ UNCHANGED <<zset, batch, creating, requeuing, lost, reclaimed>>
      /\ \A w \in Workers : Claiming(w) => slot[w].age < MaxAge
  BY DEF Advance
<1>2. ASSUME NEW r \in RunIds
      PROVE  /\ row(r) \in Row /\ row(r).status = rows[r].status /\ row(r).by = rows[r].by
             /\ row(r).pool = rows[r].pool
             /\ row(r).sched = Down(rows[r].sched, -MaxAge)
             /\ row(r).lease = LeaseDown(rows[r].lease)
  <2>1. rows[r] \in Row
    BY DEF QueueInv, TypeOK
  <2>2. QED
    BY <2>1, DownType DEF Row
<1>3. ASSUME NEW w \in Workers
      PROVE  /\ new(w) \in Slot
             /\ new(w).pc = IF slot[w].pc = "sleep" THEN "idle" ELSE slot[w].pc
             /\ new(w).hand = slot[w].hand /\ new(w).got = slot[w].got
             /\ new(w).run = slot[w].run /\ new(w).left = slot[w].left
             /\ new(w).age = IF Claiming(w) THEN slot[w].age + 1 ELSE slot[w].age
  <2>1. slot[w] \in Slot /\ MaxAge \in Nat
    BY NoLeaseType DEF QueueInv, TypeOK
  <2>2. (IF Claiming(w) THEN slot[w].age + 1 ELSE slot[w].age) \in 0..MaxAge
    <3>1. Claiming(w) => slot[w].age < MaxAge
      BY <1>1
    <3>2. slot[w].age \in 0..MaxAge
      BY <2>1 DEF Slot
    <3>3. QED
      BY <2>1, <3>1, <3>2
  <2>3. (IF slot[w].pc = "sleep" THEN "idle" ELSE slot[w].pc)
           \in {"sleep", "idle", "pop", "claim", "look", "add", "start", "work"}
    BY <2>1 DEF Slot
  <2>4. LeaseDown(slot[w].copy) \in {NoLease} \cup (-MaxAge..TTL)
    BY <2>1, DownType DEF Slot
  <2>5. QED
    BY <2>1, <2>2, <2>3, <2>4 DEF Slot
<1> HIDE DEF row, new
<1>4. TypeOK'
  <2>1. rows' \in [RunIds -> Row]
    BY <1>1, <1>2 DEF QueueInv, TypeOK
  <2>2. slot' \in [Workers -> Slot]
    BY <1>1, <1>3
  <2>3. phase' \in 0..(SubMilli - 1)
    BY <1>1, QueueAssumption DEF QueueInv, TypeOK
  <2>4. QED
    BY <1>1, <2>1, <2>2, <2>3 DEF QueueInv, TypeOK
<1>5. ASSUME NEW w \in Workers PROVE SlotOk(slot'[w])
  <2>1. SlotOk(slot[w]) /\ slot'[w] = new(w)
    BY <1>1 DEF QueueInv
  <2>2. QED
    BY <1>3, <2>1 DEF SlotOk
<1>6. ASSUME NEW r \in RunIds PROVE RunOk(r)'
  <2>1. RunOk(r)
    BY DEF QueueInv
  <2>2. /\ rows'[r].status = rows[r].status /\ rows'[r].by = rows[r].by
        /\ rows'[r].pool = rows[r].pool
        /\ rows[r].status = "queued" => rows'[r].sched = Down(rows[r].sched, -MaxAge)
        /\ rows[r].lease = NoLease => rows'[r].lease = NoLease
    BY <1>1, <1>2, DownType
  <2>3. /\ \A v \in Workers : slot'[v].hand = slot[v].hand
        /\ \A v \in Workers : Has(v, r)' => Has(v, r)
    BY <1>1, <1>3 DEF Has
  <2>4. RowOk(r)' /\ OnePlace(r)'
    BY <1>1, <2>1, <2>2, <2>3 DEF RunOk, RowOk, OnePlace, Held
  <2>5. ASSUME rows[r].status = "queued", NEW v \in Workers, InGoodHands(v, r)
        PROVE  InGoodHands(v, r)'
    <3>1. slot'[v] = new(v) /\ r \in slot[v].hand
      BY <1>1, <2>5 DEF InGoodHands
    <3>2. Claiming(v) /\ slot[v].pc # "sleep"
      <4>1. SlotOk(slot[v])
        BY DEF QueueInv
      <4>2. QED
        BY <3>1, <4>1 DEF SlotOk, Claiming
    <3>3. slot'[v].pc = slot[v].pc /\ slot'[v].age = slot[v].age + 1
      BY <1>3, <3>1, <3>2
    <3>4. CASE slot[v].pc = "claim"
      BY <2>3, <3>1, <3>3, <3>4 DEF InGoodHands
    <3>5. CASE PutBack(v, r)
      <4>1. rows[r].lease = NoLease
        BY <2>1, <2>5 DEF RunOk, RowOk
      <4>2. rows[r].sched > -slot[v].age \/ PoolKey(rows[r].pool) # WorkerPool[v]
        BY <3>5, <4>1 DEF PutBack
      <4>3. rows[r].sched > -slot[v].age => rows'[r].sched > -slot'[v].age
        <5>1. rows[r].sched \in Int /\ slot[v].age \in 0..MaxAge /\ MaxAge \in Nat
          BY NoLeaseType, QueueAssumption DEF QueueInv, TypeOK, Row, Slot
        <5>2. QED
          BY <2>2, <2>5, <3>3, <5>1 DEF Down
      <4>4. PutBack(v, r)'
        BY <2>2, <2>5, <4>2, <4>3 DEF PutBack
      <4>5. QED
        BY <2>3, <3>1, <4>4 DEF InGoodHands
    <3>6. QED
      BY <2>5, <3>4, <3>5 DEF InGoodHands
  <2>6. Reachable(r)'
    BY <1>1, <2>1, <2>2, <2>5 DEF RunOk, Reachable
  <2>7. QED
    BY <2>4, <2>6 DEF RunOk
<1>7. QED
  BY <1>4, <1>5, <1>6 DEF QueueInv

----------------------------------------------------------------------------
(* The invariant.                                                          *)

(* Nothing is queued, indexed or held at first. *)
LEMMA QueueInit == Init => QueueInv
<1> SUFFICES ASSUME Init PROVE QueueInv
  OBVIOUS
<1> DEFINE row == [status |-> "none", pool |-> NoPool, sched |-> -MaxAge,
                   by |-> NoWorker, lease |-> NoLease]
<1>1. row \in Row /\ row.status = "none"
  <2>1. -MaxAge \in -MaxAge..MaxAhead
    BY QueueAssumption
  <2>2. QED
    BY <2>1 DEF Row
<1> HIDE DEF row
<1>2. /\ rows = [r \in RunIds |-> row] /\ zset = [p \in Pools |-> {}]
      /\ slot = [w \in Workers |-> Idle] /\ creating = {} /\ requeuing = {} /\ lost = {}
      /\ reclaimed = [r \in RunIds |-> FALSE] /\ batch \in Batches /\ phase = 0 /\ faults = 0
  BY DEF Init, row
<1>3. TypeOK
  <2>1. 0 \in 0..(SubMilli - 1) /\ 0 \in 0..MaxFaults
    BY QueueAssumption
  <2>2. QED
    BY <1>1, <1>2, <2>1, IdleType DEF TypeOK
<1>4. ASSUME NEW r \in RunIds PROVE RunOk(r)
  <2>1. /\ rows[r].status = "none" /\ ~reclaimed[r]
        /\ \A w \in Workers : slot[w] = Idle
        /\ \A p \in Pools : zset[p] = {}
    BY <1>1, <1>2
  <2>2. QED
    BY <1>2, <2>1, IdleType DEF RunOk, RowOk, OnePlace, Reachable, Has
<1>5. QED
  BY <1>2, <1>3, <1>4, IdleType DEF QueueInv

(* Every action keeps the queue sound. *)
LEMMA QueueNext == QueueInv /\ [Next]_vars => QueueInv'
<1> SUFFICES ASSUME QueueInv, [Next]_vars PROVE QueueInv'
  OBVIOUS
<1>1. ASSUME NEW w \in Workers, SlotStep(w) PROVE QueueInv'
  BY <1>1, PopStep, SqlClaimStep, LookStep, AddStep, MarkRunningStep, FinishStep
  DEF SlotStep, ClaimStep
<1>2. CASE Tick \/ Stall
  <2>1. Advance /\ faults' \in 0..MaxFaults
    BY <1>2, FaultyType DEF Tick, Stall, QueueInv, TypeOK
  <2>2. QED
    BY <2>1, AdvanceStep
<1>3. CASE UNCHANGED vars
  BY <1>3 DEF vars, QueueInv, TypeOK, RunOk, RowOk, OnePlace, Reachable, InGoodHands, PutBack, Has
<1>4. QED
  BY <1>1, <1>2, <1>3, CreateRunStep, CreateEnqueueStep, ReclaimEnqueueStep, CallFailsStep,
     RenewLeaseStep, SlotFailsStep, ReclaimStep
  DEF Next

(* The queue is sound throughout. *)
LEMMA QueueAlways == Spec => []QueueInv
BY QueueInit, QueueNext, PTL DEF Spec

(* What the invariant says of the two halves of the queue. *)
LEMMA QueueImplies == QueueInv => QueueSound
<1> SUFFICES ASSUME QueueInv PROVE QueueSound
  OBVIOUS
<1>1. QueuedIsIndexed
  BY DEF QueueInv, RunOk, Reachable, InGoodHands, QueuedIsIndexed
<1>2. ASSUME NEW r \in RunIds, ~reclaimed[r]
      PROVE  /\ Cardinality({w \in Workers : slot[w].run = r \/ r \in slot[w].hand}) <= 1
             /\ (\E w \in Workers : slot[w].pc \in {"start", "work"} /\ slot[w].run = r)
                  => \A p \in Pools : r \notin zset[p]
  <2> DEFINE S == {w \in Workers : slot[w].run = r \/ r \in slot[w].hand}
  <2>1. OnePlace(r)
    BY DEF QueueInv, RunOk
  <2>2. ASSUME NEW w \in Workers, slot[w].run = r
        PROVE  r \in slot[w].hand \/ Has(w, r)
    <3>1. SlotOk(slot[w]) /\ r # NoRunId
      BY QueueAssumption DEF QueueInv
    <3>2. QED
      BY <2>2, <3>1 DEF SlotOk, Has
  <2>3. \A v, w \in S : v = w
    BY <1>2, <2>1, <2>2 DEF OnePlace, Held
  <2> HIDE DEF S
  <2>4. S = {} \/ \E w \in S : S = {w}
    BY <2>3
  <2>5. Cardinality(S) <= 1
    BY <2>4, FS_EmptySet, FS_Singleton
  <2>6. (\E w \in Workers : slot[w].pc \in {"start", "work"} /\ slot[w].run = r)
           => \A p \in Pools : r \notin zset[p]
    BY <1>2, <2>1 DEF OnePlace, Has, Held
  <2>7. QED
    BY <2>5, <2>6 DEF S
<1>3. QED
  BY <1>1, <1>2 DEF QueueSound, HandedOutOnce, QueueInv

(* The run table and the sorted sets stay one queue: while no call fails   *)
(* no queued run is out of reach, and until a run is reclaimed it is in    *)
(* one hand at most, for every batch size and however the calls on the two *)
(* stores interleave (create_run, pop_and_claim, requeue_mismatch,         *)
(* reclaim_expired_run_leases).                                            *)
THEOREM QueueSoundCorrect == Spec => []QueueSound
BY QueueAlways, QueueImplies, PTL

----------------------------------------------------------------------------
(* What a step may do to the row of a run.                                 *)

(* Its life goes on as it was. *)
Kept(r) == /\ rows'[r].status = rows[r].status \/ (Held(rows[r]) /\ Held(rows'[r]))
           /\ rows'[r].by = rows[r].by
           /\ reclaimed'[r] <=> reclaimed[r]

Created(r) == /\ rows[r].status = "none" /\ rows'[r].status = "queued"
              /\ rows'[r].by = NoWorker /\ ~reclaimed'[r]

(* A worker takes it, and it is due. *)
Claimed(r) == /\ rows[r].status = "queued" /\ rows'[r].status = "claimed"
              /\ rows'[r].by \in Workers /\ rows[r].sched <= 0
              /\ reclaimed'[r] <=> reclaimed[r]

Ended(r) == /\ Held(rows[r]) /\ rows'[r].status = "ended"
            /\ rows'[r].by = rows[r].by
            /\ reclaimed'[r] <=> reclaimed[r]

Requeued(r) == /\ Held(rows[r]) /\ rows'[r].status = "queued"
               /\ rows'[r].by = NoWorker /\ reclaimed'[r]

(* A slot that may have lost the run writes the whole row. *)
Overwritten(r) == /\ reclaimed[r] /\ reclaimed'[r] /\ rows[r].status # "none"
                  /\ rows'[r].status \in {"running", "ended"}

(* create_run is the abstract creation. *)
LEMMA CreateRow ==
  ASSUME QueueInv, NEW q \in RunIds, NEW pool, NEW ahead, CreateRun(q, pool, ahead),
         NEW r \in RunIds
  PROVE  Kept(r) \/ Created(r)
<1>1. RowOk(q) /\ rows[q].status = "none" /\ rows \in [RunIds -> Row]
  BY DEF QueueInv, RunOk, CreateRun, TypeOK
<1>2. reclaimed' = reclaimed /\ ~reclaimed[q]
  BY <1>1 DEF CreateRun, RowOk
<1>3. /\ rows'[q].status = "queued" /\ rows'[q].by = NoWorker
      /\ \A x \in RunIds : x # q => rows'[x] = rows[x]
  BY <1>1 DEF CreateRun
<1>4. QED
  BY <1>1, <1>2, <1>3 DEF Kept, Created

(* A claim by id is an abstract Take. *)
LEMMA ClaimRow ==
  ASSUME QueueInv, NEW w \in Workers, SqlClaim(w), NEW r \in RunIds
  PROVE  Kept(r) \/ Claimed(r)
<1> DEFINE got == {q \in slot[w].hand : Claimable(w, q)}
<1>1. /\ rows' = [q \in RunIds |-> IF q \notin got THEN rows[q] ELSE
                    [rows[q] EXCEPT !.status = "claimed", !.by = w, !.lease = TTL - slot[w].age]]
      /\ reclaimed' = reclaimed
  BY DEF SqlClaim
<1>2. CASE r \notin got
  BY <1>1, <1>2 DEF Kept
<1>3. CASE r \in got
  <2>1. rows[r] \in Row /\ slot[w].age \in 0..MaxAge /\ MaxAge \in Nat
    BY NoLeaseType DEF QueueInv, TypeOK, Slot
  <2>2. rows'[r].status = "claimed" /\ rows'[r].by = w
    BY <1>1, <1>3, <2>1 DEF Row
  <2>3. rows[r].status = "queued" /\ rows[r].sched <= -slot[w].age
    BY <1>3 DEF Claimable
  <2>4. rows[r].sched \in Int
    BY <2>1, QueueAssumption DEF Row
  <2>5. rows[r].sched <= 0
    BY <2>1, <2>3, <2>4
  <2>6. QED
    BY <1>1, <2>2, <2>3, <2>5 DEF Claimed
<1>4. QED
  BY <1>2, <1>3

(* The running mark is no abstract step, or overwrites a contested run. *)
LEMMA MarkRow ==
  ASSUME QueueInv, NEW w \in Workers, MarkRunning(w), NEW r \in RunIds
  PROVE  Kept(r) \/ Overwritten(r)
<1>1. PICK q \in RunIds : q = slot[w].run
  BY DEF QueueInv, SlotOk, MarkRunning
<1>2. RowOk(q) /\ OnePlace(q) /\ rows \in [RunIds -> Row]
  BY DEF QueueInv, RunOk, TypeOK
<1>3. ~reclaimed[q] => Held(rows[q]) /\ rows[q].by = w
  BY <1>1, <1>2 DEF MarkRunning, OnePlace, Has
<1>4. /\ rows'[q].status = "running" /\ rows'[q].by = w
      /\ \A x \in RunIds : x # q => rows'[x] = rows[x]
  BY <1>1, <1>2 DEF MarkRunning, Row
<1>5. reclaimed' = reclaimed
  BY DEF MarkRunning
<1>6. QED
  BY <1>2, <1>3, <1>4, <1>5 DEF Kept, Overwritten, RowOk, Held

(* The outcome of a run is an abstract End, or overwrites a contested run. *)
LEMMA FinishRow ==
  ASSUME QueueInv, NEW w \in Workers, Finish(w), NEW r \in RunIds
  PROVE  Kept(r) \/ Ended(r) \/ Overwritten(r)
<1>1. PICK q \in RunIds : q = slot[w].run
  BY DEF QueueInv, SlotOk, Finish
<1>2. RowOk(q) /\ OnePlace(q) /\ rows \in [RunIds -> Row]
  BY DEF QueueInv, RunOk, TypeOK
<1>3. ~reclaimed[q] => Held(rows[q]) /\ rows[q].by = w
  BY <1>1, <1>2 DEF Finish, OnePlace, Has
<1>4. /\ rows'[q].status = "ended" /\ rows'[q].by = w
      /\ \A x \in RunIds : x # q => rows'[x] = rows[x]
  BY <1>1, <1>2 DEF Finish, Row
<1>5. reclaimed' = reclaimed
  BY DEF Finish
<1>6. QED
  BY <1>2, <1>3, <1>4, <1>5 DEF Kept, Ended, Overwritten, RowOk

(* A renewal is no abstract step. *)
LEMMA RenewRow ==
  ASSUME QueueInv, NEW w \in Workers, RenewLease(w), NEW r \in RunIds
  PROVE  Kept(r)
<1>1. PICK q \in RunIds : q = slot[w].run
  BY DEF QueueInv, SlotOk, RenewLease
<1>2. rows \in [RunIds -> Row]
  BY DEF QueueInv, TypeOK
<1>3. /\ rows'[q].status = rows[q].status /\ rows'[q].by = rows[q].by
      /\ \A x \in RunIds : x # q => rows'[x] = rows[x]
  BY <1>1, <1>2 DEF RenewLease, Row
<1>4. QED
  BY <1>3 DEF Kept, RenewLease

(* A reclaim is an abstract GiveBack. *)
LEMMA ReclaimRow ==
  ASSUME QueueInv, Reclaim, NEW r \in RunIds
  PROVE  Kept(r) \/ Requeued(r)
<1>1. /\ rows'[r] = IF ~Expired(rows[r]) THEN rows[r] ELSE
                      [rows[r] EXCEPT !.status = "queued", !.by = NoWorker, !.lease = NoLease]
      /\ reclaimed'[r] <=> reclaimed[r] \/ Expired(rows[r])
  BY DEF Reclaim
<1>2. rows[r] \in Row
  BY DEF QueueInv, TypeOK
<1>3. CASE ~Expired(rows[r])
  BY <1>1, <1>3 DEF Kept
<1>4. CASE Expired(rows[r])
  BY <1>1, <1>2, <1>4 DEF Requeued, Row, Expired
<1>5. QED
  BY <1>3, <1>4

(* Time is no abstract step. *)
LEMMA AdvanceRow ==
  ASSUME QueueInv, Advance, NEW r \in RunIds
  PROVE  Kept(r)
<1>1. rows[r] \in Row
  BY DEF QueueInv, TypeOK
<1>2. /\ rows'[r] = IF rows[r].status \in {"none", "ended"} THEN rows[r] ELSE
                      [rows[r] EXCEPT !.sched = Down(@, -MaxAge), !.lease = LeaseDown(@)]
      /\ reclaimed' = reclaimed
  BY DEF Advance
<1>3. rows'[r].status = rows[r].status /\ rows'[r].by = rows[r].by
  BY <1>1, <1>2 DEF Row
<1>4. QED
  BY <1>2, <1>3 DEF Kept

(* No step does anything else to a run. *)
LEMMA RowStep ==
  ASSUME QueueInv, [Next]_vars, NEW r \in RunIds
  PROVE  Kept(r) \/ Created(r) \/ Claimed(r) \/ Ended(r) \/ Requeued(r) \/ Overwritten(r)
<1>1. rows' = rows /\ reclaimed' = reclaimed => Kept(r)
  BY DEF Kept
<1>2. ASSUME NEW q \in RunIds, CreateEnqueue(q) \/ ReclaimEnqueue(q) \/ CreateFails(q)
      PROVE  Kept(r)
  BY <1>1, <1>2 DEF CreateEnqueue, ReclaimEnqueue, CreateFails
<1>3. ASSUME NEW w \in Workers, Pop(w) \/ Look(w) \/ Add(w) \/ SlotFails(w)
      PROVE  Kept(r)
  BY <1>1, <1>3 DEF Pop, Look, Add, SlotFails
<1>4. ReclaimFails \/ UNCHANGED vars => Kept(r)
  BY <1>1 DEF ReclaimFails, vars
<1>5. Tick \/ Stall => Kept(r)
  BY AdvanceRow DEF Tick, Stall
<1>6. QED
  BY <1>2, <1>3, <1>4, <1>5, CreateRow, ClaimRow, MarkRow, FinishRow, RenewRow, ReclaimRow
  DEF Next, SlotStep, ClaimStep

(* No run is claimed before its scheduled_for, at any resolution of the    *)
(* scores and whatever time passes between the pop and the claim in SQL    *)
(* (claim_run_by_id, claim_runs_by_ids).                                   *)
THEOREM NeverEarlyCorrect == Spec => NeverEarly
<1>1. QueueInv /\ [Next]_vars =>
        [\A r \in RunIds :
           rows[r].status = "queued" /\ rows'[r].status = "claimed" => rows[r].sched <= 0]_vars
  BY RowStep DEF Kept, Created, Claimed, Ended, Requeued, Overwritten, Held
<1>2. QED
  BY <1>1, QueueAlways, PTL DEF Spec, NeverEarly

----------------------------------------------------------------------------
(* The composite implements RunLife.                                       *)

(* The life of a run is read off the status of its row. *)
LifeIsRead ==
    \A r \in RunIds :
        /\ life[r] \in Promise!Life
        /\ rows[r].status = "none" <=> life[r] = "none"
        /\ rows[r].status = "queued" <=> life[r] = "queued"
        /\ Held(rows[r]) <=> life[r] = "held"
        /\ rows[r].status = "ended" <=> life[r] = "ended"
        /\ owner[r] = rows[r].by /\ owner[r] \in Workers \cup {NoWorker}

(* The abstract life of a run can be read from its row. *)
LEMMA LifeOfRow == TypeOK => LifeIsRead
<1> SUFFICES ASSUME TypeOK, NEW r \in RunIds
             PROVE  /\ life[r] \in Promise!Life
                    /\ rows[r].status = "none" <=> life[r] = "none"
                    /\ rows[r].status = "queued" <=> life[r] = "queued"
                    /\ Held(rows[r]) <=> life[r] = "held"
                    /\ rows[r].status = "ended" <=> life[r] = "ended"
                    /\ owner[r] = rows[r].by /\ owner[r] \in Workers \cup {NoWorker}
  BY DEF LifeIsRead
<1>1. /\ rows[r].status \in {"none", "queued", "claimed", "running", "ended"}
      /\ rows[r].by \in Workers \cup {NoWorker}
  BY DEF TypeOK, Row
<1>2. life[r] = IF Held(rows[r]) THEN "held" ELSE rows[r].status
  BY DEF life
<1>3. QED
  BY <1>1, <1>2 DEF Held, Promise!Life, owner

(* The same of the row after a step. *)
LEMMA LifeOfNextRow == TypeOK' => LifeIsRead'
BY LifeOfRow, PTL

(* Every call on either store, every fault and every tick changes the      *)
(* lives of the runs as RunLife allows.                                    *)
LEMMA PromiseStep == QueueInv /\ QueueInv' /\ [Next]_vars => Promise!Next
<1> SUFFICES ASSUME QueueInv, QueueInv', [Next]_vars
             PROVE  Promise!Next
  OBVIOUS
<1>1. LifeIsRead /\ LifeIsRead'
  BY LifeOfRow, LifeOfNextRow DEF QueueInv
<1>2. life' \in [RunIds -> Promise!Life]
  BY <1>1 DEF LifeIsRead, life
<1>3. owner' \in [RunIds -> Workers \cup {NoWorker}]
  BY <1>1 DEF LifeIsRead, owner
<1>4. reclaimed' \in [RunIds -> BOOLEAN]
  BY DEF QueueInv, TypeOK
<1>5. ASSUME NEW r \in RunIds
      PROVE  Promise!Change(r)
  <2>1. (reclaimed'[r] <=> reclaimed[r]) => reclaimed'[r] = reclaimed[r]
    BY DEF QueueInv, TypeOK
  <2>2. /\ rows[r].status = "none" <=> life[r] = "none"
        /\ rows[r].status = "queued" <=> life[r] = "queued"
        /\ Held(rows[r]) <=> life[r] = "held"
        /\ rows[r].status = "ended" <=> life[r] = "ended"
        /\ owner[r] = rows[r].by
        /\ life[r] \in Promise!Life
    BY <1>1 DEF LifeIsRead
  <2>3. /\ rows'[r].status = "none" <=> life'[r] = "none"
        /\ rows'[r].status = "queued" <=> life'[r] = "queued"
        /\ Held(rows'[r]) <=> life'[r] = "held"
        /\ rows'[r].status = "ended" <=> life'[r] = "ended"
        /\ owner'[r] = rows'[r].by
        /\ life'[r] \in Promise!Life
    BY <1>1 DEF LifeIsRead
  <2>4. rows'[r].status \in {"claimed", "running"} => Held(rows'[r])
    BY DEF Held
  <2>5. Kept(r) => Promise!Stays(r)
    BY <2>1, <2>2, <2>3 DEF Kept, Promise!Stays, Promise!Life
  <2>6. Created(r) => Promise!Create(r)
    BY <2>2, <2>3 DEF Created, Promise!Create
  <2>7. Claimed(r) => Promise!Take(r)
    BY <2>1, <2>2, <2>3, <2>4 DEF Claimed, Promise!Take
  <2>8. Ended(r) => Promise!End(r)
    BY <2>1, <2>2, <2>3 DEF Ended, Promise!End
  <2>9. Requeued(r) => Promise!GiveBack(r)
    BY <2>2, <2>3 DEF Requeued, Promise!GiveBack
  <2>10. Overwritten(r) => Promise!Overwrite(r)
    BY <2>2, <2>3, <2>4 DEF Overwritten, Promise!Overwrite
  <2>11. QED
    BY <2>5, <2>6, <2>7, <2>8, <2>9, <2>10, RowStep DEF Promise!Change
<1>6. QED
  BY <1>2, <1>3, <1>4, <1>5 DEF Promise!Next

(* The composite of SQL and Redis implements RunLife, as the single store  *)
(* does: a run is queued once, taken by one worker and ended by it, until  *)
(* it is reclaimed.                                                        *)
THEOREM KeepsThePromiseCorrect == Spec => KeepsThePromise
<1>1. Init => Promise!Init
  BY DEF Init, Promise!Init, life, owner, Held
<1>2. QueueInv /\ QueueInv' /\ [Next]_vars => [Promise!Next]_Promise!vars
  BY PromiseStep
<1>3. QED
  BY <1>1, <1>2, QueueAlways, PTL DEF Spec, KeepsThePromise, Promise!Spec
=============================================================================
