------------------------ MODULE PartitionLeaseProofs ------------------------
(***************************************************************************)
(* Proofs about PartitionLease, for every number of instances and          *)
(* partitions and every lease: the owned sets are kept apart as long as    *)
(* nothing fails and no row changes hands between a list and the write it  *)
(* allowed.                                                                *)
(***************************************************************************)
EXTENDS PartitionLease, FiniteSetTheorems, WellFoundedInduction, TLAPS

----------------------------------------------------------------------------
(* What the helpers compute.                                               *)

(* The least of a set of natural numbers is one of them. *)
LEMMA MinIsMember ==
  ASSUME NEW S \in SUBSET Nat, S # {}
  PROVE  Min(S) \in S
<1> DEFINE R == {ss \in Nat \X Nat : ss[1] < ss[2]}
<1>1. IsWellFoundedOn(R, Nat)
  BY NatLessThanWellFounded DEF OpToRel
<1>2. \A x, y \in Nat : <<y, x>> \in R <=> y < x
  OBVIOUS
<1> HIDE DEF R
<1>3. PICK x \in S : \A y \in S : ~(<<y, x>> \in R)
  BY <1>1, WFMin
<1>4. \A y \in S : ~(y < x)
  BY <1>2, <1>3
<1>5. \A y \in S : x <= y
  BY <1>4
<1>6. QED
  BY <1>5 DEF Min

(* The fair share is no more than all partitions. *)
LEMMA TargetType ==
  ASSUME NEW live \in Nat, live > 0
  PROVE  Target(live) \in 0..NumPartitions
<1>1. ASSUME NEW n \in Nat, n > 0
      PROVE  (n + live - 1) \div live \in 0..n
  BY <1>1
<1>2. QED
  BY <1>1, PartitionAssumption DEF Target

(* The share is computed for one instance at least. *)
LEMMA ShareType ==
  ASSUME TypeOK
  PROVE  Target(Max({1, Cardinality(AliveOwners)})) \in 0..NumPartitions
<1>1. IsFiniteSet(Partitions)
  BY FS_Interval, PartitionAssumption DEF Partitions
<1>2. IsFiniteSet(AliveOwners)
  <2> DEFINE owners == {rows[p].owner : p \in Partitions}
             f == [p \in Partitions |-> rows[p].owner]
  <2>1. f \in Surjection(Partitions, owners)
    BY DEF Surjection
  <2>2. IsFiniteSet(owners)
    BY <1>1, <2>1, FS_Surjection
  <2>3. AliveOwners \subseteq owners
    BY DEF AliveOwners
  <2>4. QED
    BY <2>2, <2>3, FS_Subset
<1>3. Cardinality(AliveOwners) \in Nat
  BY <1>2, FS_CardinalityType
<1>4. ASSUME NEW n \in Nat
      PROVE  Max({1, n}) \in Nat /\ Max({1, n}) > 0
  <2>1. \E x \in {1, n} : \A y \in {1, n} : x >= y
    OBVIOUS
  <2>2. Max({1, n}) \in {1, n} /\ \A y \in {1, n} : Max({1, n}) >= y
    BY <2>1 DEF Max
  <2>3. QED
    BY <2>2
<1>5. QED
  BY <1>3, <1>4, TargetType

----------------------------------------------------------------------------
(* The type invariant.                                                     *)

(* An instance that has just started; a row that is not there, or is       *)
(* nobody's.                                                               *)
LEMMA FreshType ==
  /\ Fresh \in Inst /\ AbsentRow \in Row /\ EmptyRow \in Row
  /\ Fresh.pc = "rest" /\ Fresh.mine = {} /\ Fresh.owned = {} /\ Fresh.seen = AbsentRow
<1>1. AbsentRow \in Row /\ EmptyRow \in Row
  BY PartitionAssumption DEF Row, AbsentRow, EmptyRow
<1>2. QED
  BY <1>1, PartitionAssumption DEF Fresh, Inst

(* Where a refresh goes, its state keeps its type and nobody else moves:   *)
(* it goes on with what it has, or ends and its partitions are owned.      *)
LEMMA OnwardEffect ==
  ASSUME inst \in [Instances -> Inst], NEW i \in Instances, NEW s \in Inst, Onward(i, s)
  PROVE  /\ inst' \in [Instances -> Inst]
         /\ \A k \in Instances : k # i => inst'[k] = inst[k]
         /\ \/ /\ inst'[i].pc \in {"renew", "steal"}
               /\ inst'[i].mine = s.mine /\ inst'[i].owned = s.owned
               /\ inst'[i].seen = s.seen
               /\ inst'[i].pc = "steal" => inst'[i].pid \in Partitions
            \/ inst'[i] = [Fresh EXCEPT !.owned = s.mine]
<1> DEFINE next == {p \in Partitions \ s.mine : p >= s.pid}
           renew == [s EXCEPT !.pc = "renew"]
           steal == [s EXCEPT !.pc = "steal", !.pid = Min(next)]
           done == [Fresh EXCEPT !.owned = s.mine]
           new == IF s.todo # {} THEN renew
                  ELSE IF Cardinality(s.mine) < s.target /\ next # {} THEN steal ELSE done
<1>1. inst' = [inst EXCEPT ![i] = new]
  BY DEF Onward
<1>2. /\ renew \in Inst /\ renew.pc = "renew" /\ renew.mine = s.mine
      /\ renew.owned = s.owned /\ renew.seen = s.seen
  BY DEF Inst
<1>3. next # {} => Min(next) \in 0..NumPartitions /\ Min(next) \in Partitions
  <2>1. next \subseteq Partitions /\ Partitions \subseteq Nat
        /\ Partitions \subseteq 0..NumPartitions
    BY PartitionAssumption DEF Partitions
  <2> HIDE DEF next
  <2>2. QED
    BY <2>1, MinIsMember
<1> HIDE DEF next
<1>4. next # {} => /\ steal \in Inst /\ steal.pc = "steal" /\ steal.mine = s.mine
                   /\ steal.owned = s.owned /\ steal.seen = s.seen
                   /\ steal.pid \in Partitions
  BY <1>3 DEF Inst
<1>5. done \in Inst
  <2>1. Fresh \in Inst
    BY FreshType
  <2>2. s.mine \in SUBSET Partitions
    BY DEF Inst
  <2>3. QED
    BY <2>1, <2>2 DEF Inst
<1> HIDE DEF renew, steal
<1>6. /\ new \in Inst
      /\ \/ /\ new.pc \in {"renew", "steal"}
            /\ new.mine = s.mine /\ new.owned = s.owned /\ new.seen = s.seen
            /\ new.pc = "steal" => new.pid \in Partitions
         \/ new = done
  BY <1>2, <1>4, <1>5
<1> HIDE DEF new, done
<1>7. QED
  BY <1>1, <1>6 DEF done

(* The partition at hand is one of the table's. *)
PidsValid ==
    \A i \in Instances :
        inst[i].pc \in {"ensure", "renewing", "steal", "stealing"} => inst[i].pid \in Partitions

(* One instance's state is replaced by another of its type. *)
LEMMA InstStep ==
  ASSUME inst \in [Instances -> Inst], PidsValid, NEW i \in Instances, NEW s \in Inst,
         inst' = [inst EXCEPT ![i] = s],
         s.pc \in {"ensure", "renewing", "steal", "stealing"} => s.pid \in Partitions
  PROVE  inst' \in [Instances -> Inst] /\ PidsValid'
  BY DEF PidsValid

(* A refresh goes on, with the types kept. *)
LEMMA OnwardStep ==
  ASSUME inst \in [Instances -> Inst], PidsValid, NEW i \in Instances, NEW s \in Inst,
         Onward(i, s)
  PROVE  inst' \in [Instances -> Inst] /\ PidsValid'
<1>1. [Fresh EXCEPT !.owned = s.mine].pc = "rest"
  BY FreshType DEF Inst, Fresh
<1>2. QED
  BY <1>1, OnwardEffect DEF PidsValid

(* The states that the calls of a refresh leave. *)
LEMMA InstTypes ==
  ASSUME NEW s \in Inst, NEW p \in Partitions, NEW row \in Row
  PROVE  /\ [s EXCEPT !.pc = "ensure", !.pid = p] \in Inst
         /\ [s EXCEPT !.pc = "rest", !.pid = p + 1] \in Inst
         /\ [s EXCEPT !.pc = "renewing", !.pid = p, !.until = TTL, !.seen = row] \in Inst
         /\ [s EXCEPT !.pc = "stealing", !.until = TTL, !.seen = row] \in Inst
         /\ [s EXCEPT !.pid = p + 1] \in Inst
         /\ [s EXCEPT !.todo = s.todo \ {p}] \in Inst
         /\ [s EXCEPT !.todo = s.todo \ {p}, !.pid = 0, !.until = 0, !.seen = AbsentRow] \in Inst
         /\ [s EXCEPT !.mine = s.mine \cup {p}, !.pid = p + 1, !.until = 0,
                      !.seen = AbsentRow] \in Inst
         /\ [s EXCEPT !.owned = {}] \in Inst
         /\ Rested(s) \in Inst
<1>1. /\ p \in 0..NumPartitions /\ p + 1 \in 0..NumPartitions /\ 0 \in 0..NumPartitions
      /\ TTL \in 0..TTL /\ 0 \in 0..TTL
  BY PartitionAssumption DEF Partitions
<1>2. AbsentRow \in Row /\ Fresh \in Inst
  BY FreshType
<1>3. s.todo \ {p} \in SUBSET Partitions /\ s.mine \cup {p} \in SUBSET Partitions
  BY DEF Inst
<1>4. /\ [s EXCEPT !.pc = "ensure", !.pid = p] \in Inst
      /\ [s EXCEPT !.pc = "rest", !.pid = p + 1] \in Inst
      /\ [s EXCEPT !.pid = p + 1] \in Inst
  BY <1>1 DEF Inst
<1>5. /\ [s EXCEPT !.pc = "renewing", !.pid = p, !.until = TTL, !.seen = row] \in Inst
      /\ [s EXCEPT !.pc = "stealing", !.until = TTL, !.seen = row] \in Inst
  BY <1>1 DEF Inst
<1>6. /\ [s EXCEPT !.todo = s.todo \ {p}] \in Inst
      /\ [s EXCEPT !.todo = s.todo \ {p}, !.pid = 0, !.until = 0, !.seen = AbsentRow] \in Inst
  BY <1>1, <1>2, <1>3 DEF Inst
<1>7. [s EXCEPT !.mine = s.mine \cup {p}, !.pid = p + 1, !.until = 0, !.seen = AbsentRow] \in Inst
  BY <1>1, <1>2, <1>3 DEF Inst
<1>8. [s EXCEPT !.owned = {}] \in Inst /\ Rested(s) \in Inst
  BY <1>2 DEF Inst, Rested
<1>9. QED
  BY <1>4, <1>5, <1>6, <1>7, <1>8

(* An upsert keeps the table's type. *)
LEMMA UpsertType ==
  ASSUME TypeOK, NEW i \in Instances, NEW p \in Partitions, NEW row \in Row, Upsert(i, p, row)
  PROVE  /\ rows' \in [Partitions -> Row] /\ rows'[p] = row
         /\ \A q \in Partitions : q # p => rows'[q] = rows[q]
         /\ raced' \subseteq Partitions /\ raced \subseteq raced'
         /\ rows[p].owner # inst[i].seen.owner => p \in raced'
  BY DEF Upsert, TypeOK

(* Time passes: leases run down, and nothing else changes. *)
LEMMA AdvanceEffect ==
  ASSUME TypeOK, Advance
  PROVE  /\ rows' \in [Partitions -> Row] /\ inst' \in [Instances -> Inst] /\ raced' = raced
         /\ \A p \in Partitions :
              rows'[p].owner = rows[p].owner /\ rows'[p].lease = Down(rows[p].lease)
         /\ \A i \in Instances :
              /\ inst'[i].pc = inst[i].pc /\ inst'[i].pid = inst[i].pid
              /\ inst'[i].mine = inst[i].mine /\ inst'[i].owned = inst[i].owned
              /\ inst'[i].until = Down(inst[i].until)
              /\ inst'[i].seen.owner = inst[i].seen.owner
<1>0. \A t \in 0..TTL : Down(t) \in 0..TTL
  BY PartitionAssumption DEF Down
<1>1. \A p \in Partitions : rows[p] \in Row
  BY DEF TypeOK
<1>2. ASSUME NEW row \in Row
      PROVE  /\ [row EXCEPT !.lease = Down(row.lease)] \in Row
             /\ [row EXCEPT !.lease = Down(row.lease)].owner = row.owner
             /\ [row EXCEPT !.lease = Down(row.lease)].lease = Down(row.lease)
  <2>1. Down(row.lease) \in 0..TTL
    BY <1>0 DEF Row
  <2>2. QED
    BY <2>1 DEF Row
<1>3. rows' = [p \in Partitions |-> [rows[p] EXCEPT !.lease = Down(rows[p].lease)]]
  BY DEF Advance
<1>4. /\ rows' \in [Partitions -> Row]
      /\ \A p \in Partitions :
           rows'[p].owner = rows[p].owner /\ rows'[p].lease = Down(rows[p].lease)
  BY <1>1, <1>2, <1>3
<1> DEFINE aged(i) == [inst[i] EXCEPT !.until = Down(inst[i].until),
                          !.seen = [inst[i].seen EXCEPT !.lease = Down(inst[i].seen.lease)]]
<1>5. ASSUME NEW i \in Instances
      PROVE  /\ aged(i) \in Inst
             /\ aged(i).pc = inst[i].pc /\ aged(i).pid = inst[i].pid
             /\ aged(i).mine = inst[i].mine /\ aged(i).owned = inst[i].owned
             /\ aged(i).until = Down(inst[i].until)
             /\ aged(i).seen.owner = inst[i].seen.owner
  <2>1. inst[i] \in Inst
    BY DEF TypeOK
  <2>2. inst[i].seen \in Row /\ Down(inst[i].until) \in 0..TTL
    BY <1>0, <2>1 DEF Inst
  <2> DEFINE older == [inst[i].seen EXCEPT !.lease = Down(inst[i].seen.lease)]
  <2>3. older \in Row /\ older.owner = inst[i].seen.owner
    BY <1>2, <2>2
  <2> HIDE DEF older
  <2>4. aged(i) = [inst[i] EXCEPT !.until = Down(inst[i].until), !.seen = older]
    BY DEF older
  <2> HIDE DEF aged
  <2>5. QED
    BY <2>1, <2>2, <2>3, <2>4 DEF Inst
<1>6. inst' = [i \in Instances |-> aged(i)]
  BY DEF Advance
<1> HIDE DEF aged
<1>7. inst' \in [Instances -> Inst] /\ \A i \in Instances : inst'[i] = aged(i)
  BY <1>5, <1>6
<1>8. raced' = raced
  BY DEF Advance
<1>9. QED
  BY <1>4, <1>5, <1>7, <1>8

(* Every step keeps every variable in its type. *)
LEMMA TypeStep ==
  ASSUME TypeOK, PidsValid, [Next]_vars
  PROVE  TypeOK' /\ PidsValid'
<1>0. /\ inst \in [Instances -> Inst] /\ rows \in [Partitions -> Row]
      /\ \A i \in Instances : inst[i] \in Inst
      /\ \A p \in Partitions : rows[p] \in Row
  BY DEF TypeOK
<1>1. ASSUME NEW i \in Instances, List(i)
      PROVE  TypeOK' /\ PidsValid'
  <2> DEFINE absent == {p \in Partitions : rows[p].owner = NoRow /\ p >= inst[i].pid}
             start == [inst[i] EXCEPT !.pid = 0, !.mine = Mine(i), !.todo = Mine(i),
                          !.target = Target(Max({1, Cardinality(AliveOwners)}))]
             ensure == [inst[i] EXCEPT !.pc = "ensure", !.pid = Min(absent)]
  <2>1. CASE absent # {} /\ inst' = [inst EXCEPT ![i] = ensure]
    <3>1. Min(absent) \in Partitions
      <4>1. absent \subseteq Partitions /\ Partitions \subseteq Nat
        BY PartitionAssumption DEF Partitions
      <4> HIDE DEF absent
      <4>2. QED
        BY <2>1, <4>1, MinIsMember
    <3> HIDE DEF absent
    <3>2. ensure \in Inst /\ ensure.pid \in Partitions
      <4>1. ensure \in Inst
        BY <1>0, <3>1, InstTypes, FreshType
      <4>2. ensure.pid = Min(absent)
        BY <1>0 DEF Inst
      <4>3. QED
        BY <3>1, <4>1, <4>2
    <3> HIDE DEF ensure
    <3>3. inst' \in [Instances -> Inst] /\ PidsValid'
      BY <1>0, <2>1, <3>2, InstStep
    <3>4. QED
      BY <1>1, <3>3 DEF List, TypeOK
  <2>2. CASE Onward(i, start)
    <3>1. start \in Inst
      <4>1. Mine(i) \in SUBSET Partitions
        BY DEF Mine
      <4>2. 0 \in 0..NumPartitions
        BY PartitionAssumption
      <4>3. Target(Max({1, Cardinality(AliveOwners)})) \in 0..NumPartitions
        BY ShareType
      <4>4. QED
        BY <1>0, <4>1, <4>2, <4>3 DEF Inst
    <3> HIDE DEF start
    <3>2. inst' \in [Instances -> Inst] /\ PidsValid'
      BY <1>0, <2>2, <3>1, OnwardStep
    <3>3. QED
      BY <1>1, <3>2 DEF List, TypeOK
  <2>3. QED
    BY <1>1, <2>1, <2>2 DEF List
<1>2. ASSUME NEW i \in Instances, EnsureRow(i)
      PROVE  TypeOK' /\ PidsValid'
  <2> DEFINE new == [inst[i] EXCEPT !.pc = "rest", !.pid = inst[i].pid + 1]
  <2>1. inst[i].pid \in Partitions /\ inst' = [inst EXCEPT ![i] = new]
    BY <1>2 DEF EnsureRow, PidsValid
  <2>2. new \in Inst /\ new.pc = "rest"
    <3>1. new \in Inst
      BY <1>0, <2>1, InstTypes, FreshType
    <3>2. new.pc = "rest"
      BY <1>0 DEF Inst
    <3>3. QED
      BY <3>1, <3>2
  <2> HIDE DEF new
  <2>3. inst' \in [Instances -> Inst] /\ PidsValid'
    BY <1>0, <2>1, <2>2, InstStep
  <2>4. rows' \in [Partitions -> Row] /\ raced' \subseteq Partitions
    BY <1>2, <2>1, UpsertType, FreshType DEF EnsureRow
  <2>5. QED
    BY <1>2, <2>3, <2>4 DEF EnsureRow, TypeOK
<1>3. ASSUME NEW i \in Instances, RenewRead(i)
      PROVE  TypeOK' /\ PidsValid'
  <2>1. PICK p \in inst[i].todo :
          IF rows[p].owner = i
          THEN inst' = [inst EXCEPT ![i] = [inst[i] EXCEPT !.pc = "renewing", !.pid = p,
                                              !.until = TTL, !.seen = rows[p]]]
          ELSE Onward(i, [inst[i] EXCEPT !.todo = inst[i].todo \ {p}])
    BY <1>3 DEF RenewRead
  <2>2. p \in Partitions
    BY <1>0 DEF Inst
  <2> DEFINE write == [inst[i] EXCEPT !.pc = "renewing", !.pid = p, !.until = TTL,
                                      !.seen = rows[p]]
             skip == [inst[i] EXCEPT !.todo = inst[i].todo \ {p}]
  <2>3. write \in Inst /\ write.pid \in Partitions /\ skip \in Inst
    <3>0. inst[i] \in Inst /\ rows[p] \in Row
      BY <1>0, <2>2
    <3>1. write \in Inst /\ skip \in Inst
      <4>1. write \in Inst
        BY <2>2, <3>0, InstTypes
      <4>2. skip \in Inst
        BY ONLY <2>2, <3>0, InstTypes
      <4>3. QED
        BY <4>1, <4>2
    <3>2. write.pid = p
      BY <1>0, <2>2 DEF Inst
    <3>3. QED
      BY <2>2, <3>1, <3>2
  <2>4. inst' = [inst EXCEPT ![i] = write] \/ Onward(i, skip)
    BY <2>1
  <2> HIDE DEF write, skip
  <2>5. inst' \in [Instances -> Inst] /\ PidsValid'
    BY <1>0, <2>3, <2>4, InstStep, OnwardStep
  <2>6. QED
    BY <1>3, <2>5 DEF RenewRead, TypeOK
<1>4. ASSUME NEW i \in Instances, NEW p \in Partitions,
             Onward(i, [inst[i] EXCEPT !.todo = inst[i].todo \ {p}, !.pid = 0, !.until = 0,
                                       !.seen = AbsentRow])
      PROVE  inst' \in [Instances -> Inst] /\ PidsValid'
  <2> DEFINE s == [inst[i] EXCEPT !.todo = inst[i].todo \ {p}, !.pid = 0, !.until = 0,
                                  !.seen = AbsentRow]
  <2>1. s \in Inst
    BY <1>0, InstTypes, FreshType
  <2> HIDE DEF s
  <2>2. Onward(i, s)
    BY <1>4 DEF s
  <2>3. QED
    BY <1>0, <2>1, <2>2, OnwardStep
<1>5. ASSUME NEW i \in Instances, inst[i].pc \in {"renewing", "stealing"},
             Upsert(i, inst[i].pid, [owner |-> i, lease |-> inst[i].until])
      PROVE  rows' \in [Partitions -> Row] /\ raced' \subseteq Partitions
  <2>1. inst[i].pid \in Partitions
    BY <1>5 DEF PidsValid
  <2>2. [owner |-> i, lease |-> inst[i].until] \in Row
    BY <1>0 DEF Row, Inst
  <2>3. QED
    BY <1>5, <2>1, <2>2, UpsertType
<1>6. ASSUME NEW i \in Instances, RenewWrite(i)
      PROVE  TypeOK' /\ PidsValid'
  <2>1. inst' \in [Instances -> Inst] /\ PidsValid'
    BY <1>4, <1>6 DEF RenewWrite, Renewed, PidsValid
  <2>2. QED
    BY <1>5, <1>6, <2>1 DEF RenewWrite, TypeOK
<1>7. ASSUME NEW i \in Instances, StealRead(i)
      PROVE  TypeOK' /\ PidsValid'
  <2>0. PICK p \in Partitions : p = inst[i].pid
    BY <1>7 DEF StealRead, PidsValid
  <2> DEFINE write == [inst[i] EXCEPT !.pc = "stealing", !.until = TTL, !.seen = rows[p]]
             skip == [inst[i] EXCEPT !.pid = p + 1]
  <2>1. write \in Inst /\ write.pid \in Partitions /\ skip \in Inst
    <3>1. write \in Inst /\ skip \in Inst
      BY <1>0, <2>0, InstTypes
    <3>2. write.pid = p
      BY <1>0, <2>0 DEF Inst
    <3>3. QED
      BY <3>1, <3>2
  <2>2. inst' = [inst EXCEPT ![i] = write] \/ Onward(i, skip)
    BY <1>7, <2>0 DEF StealRead
  <2> HIDE DEF write, skip
  <2>3. inst' \in [Instances -> Inst] /\ PidsValid'
    BY <1>0, <2>1, <2>2, InstStep, OnwardStep
  <2>4. QED
    BY <1>7, <2>3 DEF StealRead, TypeOK
<1>8. ASSUME NEW i \in Instances, StealWrite(i)
      PROVE  TypeOK' /\ PidsValid'
  <2>0. PICK p \in Partitions : p = inst[i].pid
    BY <1>8 DEF StealWrite, PidsValid
  <2> DEFINE s == [inst[i] EXCEPT !.mine = inst[i].mine \cup {p}, !.pid = p + 1, !.until = 0,
                                  !.seen = AbsentRow]
  <2>1. s \in Inst /\ Onward(i, s)
    BY <1>0, <1>8, <2>0, InstTypes, FreshType DEF StealWrite
  <2> HIDE DEF s
  <2>2. inst' \in [Instances -> Inst] /\ PidsValid'
    BY <1>0, <2>1, OnwardStep
  <2>3. QED
    BY <1>5, <1>8, <2>2 DEF StealWrite, TypeOK
<1>9. Faulty => faults' \in 0..MaxFaults
  BY PartitionAssumption DEF Faulty, TypeOK
<1>10. ASSUME NEW i \in Instances, StoreFails(i)
       PROVE  TypeOK' /\ PidsValid'
  <2>1. CASE inst[i].pc \in {"renew", "renewing"}
    <3>1. inst[i].todo \subseteq Partitions
      BY <1>0 DEF Inst
    <3>2. inst' \in [Instances -> Inst] /\ PidsValid'
      BY <1>4, <1>10, <2>1, <3>1 DEF StoreFails
    <3>3. QED
      BY <1>9, <1>10, <3>2 DEF StoreFails, TypeOK
  <2>2. CASE inst[i].pc \notin {"renew", "renewing"}
    <3>1. inst' = [inst EXCEPT ![i] = Rested(inst[i])]
      BY <1>10, <2>2 DEF StoreFails
    <3>2. Rested(inst[i]) \in Inst /\ Rested(inst[i]).pc = "rest"
      BY <1>0, FreshType DEF Rested, Inst
    <3>3. inst' \in [Instances -> Inst] /\ PidsValid'
      BY <1>0, <3>1, <3>2, InstStep
    <3>4. QED
      BY <1>9, <1>10, <3>3 DEF StoreFails, TypeOK
  <2>3. QED
    BY <2>1, <2>2
<1>11. ASSUME NEW i \in Instances, Crash(i) \/ Restart(i)
       PROVE  TypeOK' /\ PidsValid'
  <2> DEFINE down == [Fresh EXCEPT !.pc = "down"]
  <2>1. down \in Inst /\ down.pc = "down" /\ Fresh \in Inst /\ Fresh.pc = "rest"
    BY FreshType DEF Inst
  <2>2. inst' = [inst EXCEPT ![i] = down] \/ inst' = [inst EXCEPT ![i] = Fresh]
    BY <1>11 DEF Crash, Restart
  <2> HIDE DEF down
  <2>3. inst' \in [Instances -> Inst] /\ PidsValid'
    BY <1>0, <2>1, <2>2, InstStep
  <2>4. QED
    BY <1>9, <1>11, <2>3 DEF Crash, Restart, TypeOK
<1>12. ASSUME NEW i \in Instances, ReleaseAll(i)
       PROVE  TypeOK' /\ PidsValid'
  <2> DEFINE new == [inst[i] EXCEPT !.owned = {}]
  <2>1. new \in Inst /\ new.pc = inst[i].pc /\ new.pid = inst[i].pid
    BY <1>0 DEF Inst
  <2>2. inst' = [inst EXCEPT ![i] = new]
    BY <1>12 DEF ReleaseAll
  <2> HIDE DEF new
  <2>3. inst' \in [Instances -> Inst] /\ PidsValid'
    BY <1>0, <2>1, <2>2, InstStep DEF PidsValid
  <2>4. QED
    BY <1>9, <1>12, <2>3 DEF ReleaseAll, TypeOK
<1>13. CASE Tick \/ Stall
  BY <1>9, <1>13, AdvanceEffect DEF Tick, Stall, TypeOK, PidsValid
<1>14. CASE UNCHANGED vars
  BY <1>14 DEF vars, TypeOK, PidsValid
<1>15. QED
  BY <1>1, <1>2, <1>3, <1>6, <1>7, <1>8, <1>10, <1>11, <1>12, <1>13, <1>14 DEF Next, Refresh

----------------------------------------------------------------------------
(* The inductive invariant.                                                *)

(* A row that an instance owns is live: while nothing fails it is renewed  *)
(* in time.                                                                *)
LeasesLive == \A p \in Partitions : rows[p].owner \in Instances => rows[p].lease > 0

(* A write in flight carries a live lease, and the row that allowed it was *)
(* absent, the writer's own, or nobody's.                                  *)
WritesAllowed ==
    \A i \in Instances :
        /\ inst[i].pc # "down"
        /\ inst[i].pc \in {"renewing", "stealing"} => inst[i].until > 0
        /\ inst[i].pc \in {"rest", "ensure"} => inst[i].seen.owner = NoRow
        /\ inst[i].pc = "renewing" => inst[i].seen.owner = i
        /\ inst[i].pc = "stealing" => inst[i].seen.owner \notin Instances \ {i}

(* Whatever an instance takes for its own, in `owned` or in the refresh    *)
(* under way, the table says so too.                                       *)
TableAgrees ==
    \A p \in Partitions \ raced, i \in Instances :
        p \in inst[i].owned \cup inst[i].mine => rows[p].owner = i

LeaseInv == faults = 0 => LeasesLive /\ WritesAllowed /\ TableAgrees

(* A refresh that goes on from s: what it takes for its own was its own in *)
(* s.                                                                      *)
LEMMA OnwardOwns ==
  ASSUME inst \in [Instances -> Inst], NEW i \in Instances, NEW s \in Inst, Onward(i, s)
  PROVE  /\ inst'[i].owned \cup inst'[i].mine \subseteq s.owned \cup s.mine
         /\ inst'[i].pc \in {"renew", "steal", "rest"}
         /\ inst'[i].pc = "rest" => inst'[i].seen.owner = NoRow
<1> DEFINE done == [Fresh EXCEPT !.owned = s.mine]
<1>1. /\ done.pc = "rest" /\ done.mine = {} /\ done.owned = s.mine
      /\ done.seen.owner = NoRow
  BY DEF Fresh, AbsentRow
<1> HIDE DEF done
<1>2. \/ /\ inst'[i].pc \in {"renew", "steal"}
         /\ inst'[i].mine = s.mine /\ inst'[i].owned = s.owned
      \/ inst'[i] = done
  BY OnwardEffect DEF done
<1>3. QED
  BY <1>1, <1>2

(* One instance moves, and the table stays: it takes nothing more for its  *)
(* own than the table gives it.                                            *)
LEMMA ReadKeeps ==
  ASSUME TypeOK, LeasesLive, WritesAllowed, TableAgrees, NEW i \in Instances,
         rows' = rows, raced' = raced,
         \A k \in Instances : k # i => inst'[k] = inst[k],
         \A p \in inst'[i].owned \cup inst'[i].mine :
            p \in inst[i].owned \cup inst[i].mine \/ rows[p].owner = i,
         inst'[i].pc # "down",
         inst'[i].pc \in {"renewing", "stealing"} => inst'[i].until > 0,
         inst'[i].pc \in {"rest", "ensure"} => inst'[i].seen.owner = NoRow,
         inst'[i].pc = "renewing" => inst'[i].seen.owner = i,
         inst'[i].pc = "stealing" => inst'[i].seen.owner \notin Instances \ {i}
  PROVE  LeasesLive' /\ WritesAllowed' /\ TableAgrees'
<1>1. LeasesLive'
  BY DEF LeasesLive
<1>2. WritesAllowed'
  BY DEF WritesAllowed
<1>3. TableAgrees'
  BY DEF TableAgrees
<1>4. QED
  BY <1>1, <1>2, <1>3

(* A row is written that allows it: whoever took the partition for its own *)
(* is the writer itself, or the row had changed hands.                     *)
LEMMA WriteKeeps ==
  ASSUME TypeOK, LeasesLive, WritesAllowed, TableAgrees, NEW i \in Instances,
         NEW p \in Partitions, NEW row \in Row, Upsert(i, p, row),
         inst[i].seen.owner \notin Instances \ {i},
         row.owner = i \/ (row.owner \notin Instances /\ inst[i].seen.owner # i),
         row.owner \in Instances => row.lease > 0,
         \A k \in Instances : k # i => inst'[k] = inst[k],
         inst'[i].owned \cup inst'[i].mine \subseteq
            inst[i].owned \cup inst[i].mine \cup (IF row.owner = i THEN {p} ELSE {}),
         inst'[i].pc \in {"renew", "steal", "rest"},
         inst'[i].pc = "rest" => inst'[i].seen.owner = NoRow
  PROVE  LeasesLive' /\ WritesAllowed' /\ TableAgrees'
<1>1. /\ rows' \in [Partitions -> Row] /\ rows'[p] = row
      /\ \A q \in Partitions : q # p => rows'[q] = rows[q]
      /\ raced \subseteq raced' /\ (rows[p].owner # inst[i].seen.owner => p \in raced')
  BY UpsertType
<1>2. LeasesLive'
  BY <1>1 DEF LeasesLive
<1>3. WritesAllowed'
  BY DEF WritesAllowed
<1>4. TableAgrees'
  <2> SUFFICES ASSUME NEW q \in Partitions \ raced', NEW k \in Instances,
                      q \in inst'[k].owned \cup inst'[k].mine
               PROVE  rows'[q].owner = k
    BY DEF TableAgrees
  <2>1. q \in Partitions \ raced
    BY <1>1
  <2>2. CASE q # p
    BY <1>1, <2>1, <2>2 DEF TableAgrees
  <2>3. CASE q = p
    <3>1. rows[p].owner = inst[i].seen.owner
      BY <1>1, <2>3
    <3>2. CASE k # i
      <4>1. rows[p].owner = k
        BY <2>1, <2>3, <3>2 DEF TableAgrees
      <4>2. QED
        BY <3>1, <3>2, <4>1
    <3>3. CASE k = i /\ row.owner = i
      BY <1>1, <2>3, <3>3
    <3>4. CASE k = i /\ row.owner # i
      <4>1. rows[p].owner = i
        BY <2>1, <2>3, <3>4 DEF TableAgrees
      <4>2. QED
        BY <3>1, <3>4, <4>1
    <3>5. QED
      BY <3>2, <3>3, <3>4
  <2>4. QED
    BY <2>2, <2>3
<1>5. QED
  BY <1>2, <1>3, <1>4

(* While nothing fails, whatever an instance takes for its own stays its   *)
(* own in the table.                                                       *)
LEMMA LeaseStep ==
  ASSUME TypeOK, PidsValid, LeasesLive, WritesAllowed, TableAgrees, [Next]_vars,
         faults = 0, faults' = 0
  PROVE  LeasesLive' /\ WritesAllowed' /\ TableAgrees'
<1> DEFINE Kept == LeasesLive' /\ WritesAllowed' /\ TableAgrees'
<1>0. /\ inst \in [Instances -> Inst] /\ rows \in [Partitions -> Row]
      /\ \A i \in Instances : inst[i] \in Inst
      /\ \A p \in Partitions : rows[p] \in Row
      /\ ~Faulty /\ TTL \in Nat /\ TTL > 0
  BY PartitionAssumption DEF TypeOK, Faulty
<1>1. ASSUME NEW i \in Instances, NEW s \in Inst, Onward(i, s), rows' = rows, raced' = raced,
             \A p \in s.owned \cup s.mine :
                p \in inst[i].owned \cup inst[i].mine \/ rows[p].owner = i
      PROVE  Kept
  <2>1. /\ \A k \in Instances : k # i => inst'[k] = inst[k]
        /\ inst'[i].owned \cup inst'[i].mine \subseteq s.owned \cup s.mine
        /\ inst'[i].pc \in {"renew", "steal", "rest"}
        /\ inst'[i].pc = "rest" => inst'[i].seen.owner = NoRow
    BY <1>0, <1>1, OnwardEffect, OnwardOwns
  <2>2. QED
    BY <1>1, <2>1, ReadKeeps
<1>2. ASSUME NEW i \in Instances, List(i)
      PROVE  Kept
  <2> DEFINE absent == {p \in Partitions : rows[p].owner = NoRow /\ p >= inst[i].pid}
             start == [inst[i] EXCEPT !.pid = 0, !.mine = Mine(i), !.todo = Mine(i),
                          !.target = Target(Max({1, Cardinality(AliveOwners)}))]
             ensure == [inst[i] EXCEPT !.pc = "ensure", !.pid = Min(absent)]
  <2>1. CASE inst' = [inst EXCEPT ![i] = ensure]
    <3>1. /\ ensure.pc = "ensure" /\ ensure.owned = inst[i].owned
          /\ ensure.mine = inst[i].mine /\ ensure.seen = inst[i].seen
      BY <1>0 DEF Inst
    <3> HIDE DEF ensure
    <3>2. inst[i].seen.owner = NoRow
      BY <1>2 DEF WritesAllowed, List
    <3>3. inst'[i] = ensure /\ \A k \in Instances : k # i => inst'[k] = inst[k]
      BY <1>0, <2>1
    <3>4. QED
      BY <1>2, <3>1, <3>2, <3>3, ReadKeeps DEF List
  <2>2. CASE Onward(i, start)
    <3>1. start \in Inst /\ start.owned = inst[i].owned /\ start.mine = Mine(i)
      <4>1. Mine(i) \in SUBSET Partitions
        BY DEF Mine
      <4>2. 0 \in 0..NumPartitions
        BY PartitionAssumption
      <4>3. Target(Max({1, Cardinality(AliveOwners)})) \in 0..NumPartitions
        BY ShareType
      <4>4. QED
        BY <1>0, <4>1, <4>2, <4>3 DEF Inst
    <3>2. \A p \in Mine(i) : rows[p].owner = i
      BY DEF Mine
    <3> HIDE DEF start
    <3>3. QED
      BY <1>1, <1>2, <2>2, <3>1, <3>2 DEF List
  <2>3. QED
    BY <1>2, <2>1, <2>2 DEF List
<1>3. ASSUME NEW i \in Instances, EnsureRow(i)
      PROVE  Kept
  <2> DEFINE new == [inst[i] EXCEPT !.pc = "rest", !.pid = inst[i].pid + 1]
  <2>1. /\ new.pc = "rest" /\ new.owned = inst[i].owned /\ new.mine = inst[i].mine
        /\ new.seen = inst[i].seen
    BY <1>0 DEF Inst
  <2>2. inst' = [inst EXCEPT ![i] = new] /\ inst[i].pid \in Partitions
        /\ Upsert(i, inst[i].pid, EmptyRow)
    BY <1>3 DEF EnsureRow, PidsValid
  <2> HIDE DEF new
  <2>3. inst'[i] = new /\ \A k \in Instances : k # i => inst'[k] = inst[k]
    BY <1>0, <2>2
  <2>4. inst[i].seen.owner = NoRow
    BY <1>3 DEF WritesAllowed, EnsureRow
  <2>5. EmptyRow \in Row /\ EmptyRow.owner = NoInstance
    BY FreshType DEF EmptyRow
  <2>6. NoRow \notin Instances /\ NoInstance \notin Instances
    BY PartitionAssumption
  <2>7. QED
    BY <2>1, <2>2, <2>3, <2>4, <2>5, <2>6, WriteKeeps
<1>4. ASSUME NEW i \in Instances, RenewRead(i)
      PROVE  Kept
  <2>1. PICK p \in inst[i].todo :
          IF rows[p].owner = i
          THEN inst' = [inst EXCEPT ![i] = [inst[i] EXCEPT !.pc = "renewing", !.pid = p,
                                              !.until = TTL, !.seen = rows[p]]]
          ELSE Onward(i, [inst[i] EXCEPT !.todo = inst[i].todo \ {p}])
    BY <1>4 DEF RenewRead
  <2>2. p \in Partitions /\ inst[i] \in Inst /\ rows[p] \in Row
    BY <1>0 DEF Inst
  <2> DEFINE write == [inst[i] EXCEPT !.pc = "renewing", !.pid = p, !.until = TTL,
                                      !.seen = rows[p]]
             skip == [inst[i] EXCEPT !.todo = inst[i].todo \ {p}]
  <2>3. CASE rows[p].owner = i
    <3>1. /\ write.pc = "renewing" /\ write.owned = inst[i].owned
          /\ write.mine = inst[i].mine /\ write.seen = rows[p] /\ write.until = TTL
      BY <2>2 DEF Inst
    <3>2. inst' = [inst EXCEPT ![i] = write]
      BY <2>1, <2>3
    <3> HIDE DEF write
    <3>3. inst'[i] = write /\ \A k \in Instances : k # i => inst'[k] = inst[k]
      BY <1>0, <3>2
    <3>4. rows' = rows /\ raced' = raced
      BY <1>4 DEF RenewRead
    <3>5. QED
      BY <1>0, <2>3, <3>1, <3>3, <3>4, ReadKeeps
  <2>4. CASE rows[p].owner # i
    <3>1. skip \in Inst
      BY ONLY <2>2, InstTypes
    <3>2. skip.owned = inst[i].owned /\ skip.mine = inst[i].mine
      BY <2>2 DEF Inst
    <3>3. Onward(i, skip)
      BY <2>1, <2>4
    <3> HIDE DEF skip
    <3>4. QED
      BY <1>1, <1>4, <3>1, <3>2, <3>3 DEF RenewRead
  <2>5. QED
    BY <2>3, <2>4
<1>5. ASSUME NEW i \in Instances, NEW s \in Inst, Onward(i, s),
             inst[i].pc \in {"renewing", "stealing"},
             Upsert(i, inst[i].pid, [owner |-> i, lease |-> inst[i].until]),
             s.owned \cup s.mine \subseteq inst[i].owned \cup inst[i].mine \cup {inst[i].pid}
      PROVE  Kept
  <2> DEFINE row == [owner |-> i, lease |-> inst[i].until]
  <2>1. inst[i].pid \in Partitions
    BY <1>5 DEF PidsValid
  <2>2. row \in Row /\ row.owner = i /\ row.lease = inst[i].until
    BY <1>0 DEF Row, Inst
  <2>3. inst[i].until > 0 /\ inst[i].seen.owner \notin Instances \ {i}
    BY <1>5 DEF WritesAllowed
  <2>4. /\ \A k \in Instances : k # i => inst'[k] = inst[k]
        /\ inst'[i].owned \cup inst'[i].mine \subseteq s.owned \cup s.mine
        /\ inst'[i].pc \in {"renew", "steal", "rest"}
        /\ inst'[i].pc = "rest" => inst'[i].seen.owner = NoRow
    BY <1>0, <1>5, OnwardEffect, OnwardOwns
  <2>5. Upsert(i, inst[i].pid, row)
    BY <1>5
  <2> HIDE DEF row
  <2>6. QED
    BY <1>5, <2>1, <2>2, <2>3, <2>4, <2>5, WriteKeeps
<1>6. ASSUME NEW i \in Instances, RenewWrite(i)
      PROVE  Kept
  <2>0. PICK p \in Partitions : p = inst[i].pid
    BY <1>6 DEF RenewWrite, PidsValid
  <2> DEFINE s == [inst[i] EXCEPT !.todo = inst[i].todo \ {p}, !.pid = 0, !.until = 0,
                                  !.seen = AbsentRow]
  <2>1. s \in Inst
    BY <1>0, InstTypes, FreshType
  <2>2. s.owned = inst[i].owned /\ s.mine = inst[i].mine
    BY <1>0 DEF Inst
  <2>3. Onward(i, s)
    BY <1>6, <2>0 DEF RenewWrite, Renewed
  <2> HIDE DEF s
  <2>4. QED
    BY <1>5, <1>6, <2>1, <2>2, <2>3 DEF RenewWrite
<1>7. ASSUME NEW i \in Instances, StealRead(i)
      PROVE  Kept
  <2>0. PICK p \in Partitions : p = inst[i].pid
    BY <1>7 DEF StealRead, PidsValid
  <2>1. inst[i] \in Inst /\ rows[p] \in Row /\ rows' = rows /\ raced' = raced
    BY <1>0, <1>7 DEF StealRead
  <2> DEFINE write == [inst[i] EXCEPT !.pc = "stealing", !.until = TTL, !.seen = rows[p]]
             skip == [inst[i] EXCEPT !.pid = p + 1]
  <2>2. CASE Stealable(i, p) /\ inst' = [inst EXCEPT ![i] = write]
    <3>1. /\ write.pc = "stealing" /\ write.owned = inst[i].owned
          /\ write.mine = inst[i].mine /\ write.seen = rows[p] /\ write.until = TTL
      BY <2>1 DEF Inst
    <3> HIDE DEF write
    <3>2. inst'[i] = write /\ \A k \in Instances : k # i => inst'[k] = inst[k]
      BY <1>0, <2>2
    <3>3. rows[p].owner \notin Instances \ {i}
      <4>1. rows[p].lease = 0 \/ rows[p].owner = i
        BY <2>2 DEF Stealable
      <4>2. QED
        BY <4>1 DEF LeasesLive
    <3>4. QED
      BY <1>0, <2>1, <3>1, <3>2, <3>3, ReadKeeps
  <2>3. CASE Onward(i, skip)
    <3>1. skip \in Inst
      BY ONLY <2>0, <2>1, InstTypes
    <3>2. skip.owned = inst[i].owned /\ skip.mine = inst[i].mine
      BY <2>1 DEF Inst
    <3> HIDE DEF skip
    <3>3. QED
      BY <1>1, <2>1, <2>3, <3>1, <3>2
  <2>4. QED
    BY <1>7, <2>0, <2>2, <2>3 DEF StealRead
<1>8. ASSUME NEW i \in Instances, StealWrite(i)
      PROVE  Kept
  <2>0. PICK p \in Partitions : p = inst[i].pid
    BY <1>8 DEF StealWrite, PidsValid
  <2> DEFINE s == [inst[i] EXCEPT !.mine = inst[i].mine \cup {p}, !.pid = p + 1, !.until = 0,
                                  !.seen = AbsentRow]
  <2>1. s \in Inst
    BY <1>0, InstTypes, FreshType
  <2>2. s.owned = inst[i].owned /\ s.mine = inst[i].mine \cup {p}
    BY <1>0 DEF Inst
  <2>3. Onward(i, s)
    BY <1>8, <2>0 DEF StealWrite
  <2> HIDE DEF s
  <2>4. QED
    BY <1>5, <1>8, <2>0, <2>1, <2>2, <2>3 DEF StealWrite
<1>9. ASSUME NEW i \in Instances, StoreFails(i) \/ Crash(i) \/ Restart(i) \/ ReleaseAll(i)
      PROVE  Kept
  BY <1>0, <1>9 DEF StoreFails, Crash, Restart, ReleaseAll, Up, WritesAllowed
<1>10. CASE Tick
  <2>1. /\ raced' = raced
        /\ \A p \in Partitions :
             rows'[p].owner = rows[p].owner /\ rows'[p].lease = Down(rows[p].lease)
        /\ \A i \in Instances :
             /\ inst'[i].pc = inst[i].pc
             /\ inst'[i].mine = inst[i].mine /\ inst'[i].owned = inst[i].owned
             /\ inst'[i].until = Down(inst[i].until)
             /\ inst'[i].seen.owner = inst[i].seen.owner
    BY <1>10, AdvanceEffect DEF Tick
  <2>2. \A t \in 0..TTL : t > 0 /\ t # 1 => Down(t) > 0
    BY <1>0 DEF Down
  <2>3. LeasesLive'
    <3> SUFFICES ASSUME NEW p \in Partitions, rows[p].owner \in Instances
                 PROVE  Down(rows[p].lease) > 0
      BY <2>1 DEF LeasesLive
    <3>1. rows[p].lease > 0 /\ rows[p].lease \in 0..TTL
      BY <1>0 DEF LeasesLive, Row
    <3>2. rows[p].lease # 1
      BY <1>10 DEF Tick, InTime, Up, WritesAllowed
    <3>3. QED
      BY <2>2, <3>1, <3>2
  <2>4. WritesAllowed'
    <3>1. \A i \in Instances :
            inst[i].pc \in {"renewing", "stealing"} => Down(inst[i].until) > 0
      <4> SUFFICES ASSUME NEW i \in Instances, inst[i].pc \in {"renewing", "stealing"}
                   PROVE  Down(inst[i].until) > 0
        OBVIOUS
      <4>1. inst[i].until \in 0..TTL /\ inst[i].until > 1
        BY <1>0, <1>10 DEF Inst, Tick, InTime
      <4>2. QED
        BY <2>2, <4>1
    <3>2. QED
      BY <2>1, <3>1 DEF WritesAllowed
  <2>5. TableAgrees'
    BY <2>1 DEF TableAgrees
  <2>6. QED
    BY <2>3, <2>4, <2>5
<1>11. CASE Stall
  BY <1>0, <1>11 DEF Stall
<1>12. CASE UNCHANGED vars
  BY <1>12 DEF vars, LeasesLive, WritesAllowed, TableAgrees
<1> HIDE DEF Kept
<1>13. QED
  BY <1>2, <1>3, <1>4, <1>6, <1>7, <1>8, <1>9, <1>10, <1>11, <1>12 DEF Next, Refresh, Kept

----------------------------------------------------------------------------
(* The invariant holds at the start: there are no rows and nobody owns. *)
LEMMA PartitionInit == Init => TypeOK /\ PidsValid /\ LeaseInv
<1> SUFFICES ASSUME Init
             PROVE  TypeOK /\ PidsValid /\ LeaseInv
  OBVIOUS
<1>1. /\ \A i \in Instances : inst[i] = Fresh
      /\ \A p \in Partitions : rows[p] = AbsentRow
  BY DEF Init
<1>2. /\ Fresh \in Inst /\ AbsentRow \in Row /\ AbsentRow.owner = NoRow
      /\ Fresh.pc = "rest" /\ Fresh.mine = {} /\ Fresh.owned = {} /\ Fresh.seen = AbsentRow
  BY FreshType DEF AbsentRow
<1>3. TypeOK
  BY <1>2, PartitionAssumption DEF Init, TypeOK
<1>4. PidsValid
  BY <1>1, <1>2 DEF PidsValid
<1>5. LeasesLive /\ WritesAllowed /\ TableAgrees
  BY <1>1, <1>2, PartitionAssumption DEF LeasesLive, WritesAllowed, TableAgrees
<1>6. QED
  BY <1>3, <1>4, <1>5 DEF LeaseInv

(* Every step keeps it; faults are only ever counted. *)
LEMMA PartitionStep ==
  TypeOK /\ PidsValid /\ LeaseInv /\ [Next]_vars => TypeOK' /\ PidsValid' /\ LeaseInv'
<1> SUFFICES ASSUME TypeOK, PidsValid, LeaseInv, [Next]_vars
             PROVE  TypeOK' /\ PidsValid' /\ LeaseInv'
  OBVIOUS
<1>1. TypeOK' /\ PidsValid'
  BY TypeStep
<1>2. faults' = faults \/ faults' = faults + 1
  BY DEF Next, Refresh, vars, List, EnsureRow, RenewRead, RenewWrite, StealRead, StealWrite,
         StoreFails, Crash, Restart, ReleaseAll, Tick, Stall, Faulty
<1>3. faults \in Nat
  BY PartitionAssumption DEF TypeOK
<1>4. faults' = 0 => faults = 0
  BY <1>2, <1>3
<1>5. LeaseInv'
  BY <1>4, LeaseStep DEF LeaseInv
<1>6. QED
  BY <1>1, <1>5

(* Two coordinators take a partition for theirs only after a crash, a      *)
(* stall, a failed call or a write past a row that had changed hands       *)
(* (partition_assigner.rs, refresh_leases).                                *)
THEOREM PartitionsApartCorrect == Spec => []PartitionsApart
<1>1. TypeOK /\ LeaseInv => PartitionsApart
  <2> SUFFICES ASSUME TypeOK, LeaseInv, faults = 0, NEW p \in Partitions \ raced
               PROVE  Cardinality(Owners(p)) <= 1
    BY DEF PartitionsApart, SoleOwner
  <2>1. \A i, k \in Owners(p) : i = k
    BY DEF LeaseInv, TableAgrees, Owners
  <2> HIDE DEF Owners
  <2>2. CASE Owners(p) = {}
    BY <2>2, FS_EmptySet
  <2>3. CASE Owners(p) # {}
    <3>1. PICK i \in Owners(p) : TRUE
      BY <2>3
    <3>2. Owners(p) = {i}
      BY <2>1, <3>1
    <3>3. Cardinality({i}) = 1
      BY FS_Singleton
    <3>4. QED
      BY <3>2, <3>3
  <2>4. QED
    BY <2>2, <2>3
<1>2. QED
  BY <1>1, PartitionInit, PartitionStep, PTL DEF Spec
=============================================================================
