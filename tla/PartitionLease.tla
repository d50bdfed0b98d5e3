--------------------------- MODULE PartitionLease ---------------------------
(***************************************************************************)
(* The partition assigner (chronon-scheduler/src/partition_assigner.rs):   *)
(* coordinators that share the partitions of the job table between them.   *)
(*                                                                         *)
(* Each instance runs refresh_leases again and again (run_lease_loop).  A  *)
(* refresh is a long series of store calls, list_partition_assignments and *)
(* upsert_partition_assignment in turn; the upsert is unconditional, so a  *)
(* row may have changed between the list that allowed a write and the      *)
(* write.  Every step here is one store call.  A lease is the number of    *)
(* clock ticks it still runs, 0 when it has lapsed.  An instance reads the *)
(* clock together with the list it belongs to; the lease it computed ages  *)
(* until it is written.                                                    *)
(***************************************************************************)
EXTENDS Integers, FiniteSets, FiniteSetsExt

CONSTANTS
    Instances,     \* coordinator instances
    NoInstance,    \* owner_instance_id = "", of a row nobody owns
    NoRow,         \* a partition that has no row yet
    NumPartitions, \* CHRONON_NUM_PARTITIONS
    TTL,           \* CHRONON_PARTITION_LEASE_TTL_S, in ticks
    MaxFaults      \* bound: crashes, failed calls, stalls, demotions

ASSUME PartitionAssumption ==
    /\ NoInstance \notin Instances /\ NoRow \notin Instances /\ NoRow # NoInstance
    /\ NumPartitions \in Nat \ {0} /\ TTL \in Nat \ {0} /\ MaxFaults \in Nat

Partitions == 0..(NumPartitions - 1)

VARIABLES
    rows,   \* the chronon_partition_assignment table
    inst,   \* each instance: where its refresh is, and the cached `owned`
    faults, \* faults so far
    raced   \* history: partitions whose row changed between a list and the
            \* write it allowed

vars == <<rows, inst, faults, raced>>

Row == [owner : Instances \cup {NoInstance, NoRow}, lease : 0..TTL]

Inst == [pc     : {"down", "rest", "ensure", "renew", "renewing", "steal", "stealing"},
         pid    : 0..NumPartitions,   \* the partition at hand
         mine   : SUBSET Partitions,
         todo   : SUBSET Partitions,  \* of mine, those still to be renewed
         target : 0..NumPartitions,
         until  : 0..TTL,             \* the lease about to be written
         seen   : Row,                \* the row that allowed the write
         owned  : SUBSET Partitions]

EmptyRow == [owner |-> NoInstance, lease |-> 0]
AbsentRow == [owner |-> NoRow, lease |-> 0]

Fresh == [pc |-> "rest", pid |-> 0, mine |-> {}, todo |-> {}, target |-> 0,
          until |-> 0, seen |-> AbsentRow, owned |-> {}]

Up(i) == inst[i].pc # "down"

(* The refresh is over: the local variables are gone, `owned` is kept. *)
Rested(s) == [Fresh EXCEPT !.owned = s.owned]

----------------------------------------------------------------------------
(* Mutant: instances whose leases have all lapsed still count. *)
AliveOwners_Lapsed == {rows[p].owner : p \in Partitions} \ {NoInstance, NoRow}

AliveOwners ==
    {rows[p].owner : p \in {q \in Partitions : rows[q].lease > 0}} \ {NoInstance, NoRow}

(* The fair share of one of `live` instances, rounded up. *)
Target(live) == (NumPartitions + live - 1) \div live

(* Mutant: what was owned before is taken to be owned still. *)
Mine_KeepsOwned(i) ==
    inst[i].owned \cup {p \in Partitions : rows[p].owner = i /\ rows[p].lease > 0}

Mine(i) == {p \in Partitions : rows[p].owner = i /\ rows[p].lease > 0}

(* Mutant: a live lease of another instance is no obstacle. *)
Stealable_Live(i, p) == rows[p].owner # i

(* try_steal_partition: the row has lapsed, or is the instance's own. *)
Stealable(i, p) == rows[p].lease = 0 \/ rows[p].owner = i

----------------------------------------------------------------------------
(* refresh_leases.                                                         *)

(* Where a refresh goes from state s: on with the renewals, to the next    *)
(* partition to steal, or to its end, where `owned` is replaced.           *)
Onward(i, s) ==
    LET next == {p \in Partitions \ s.mine : p >= s.pid} IN
    inst' = [inst EXCEPT ![i] =
        IF s.todo # {} THEN [s EXCEPT !.pc = "renew"]
        ELSE IF Cardinality(s.mine) < s.target /\ next # {}
             THEN [s EXCEPT !.pc = "steal", !.pid = Min(next)]
             ELSE [Fresh EXCEPT !.owned = s.mine]]

(* The reads that begin a refresh.  ensure_row lists the rows once for     *)
(* each partition; rows are never deleted, so the reads that find their    *)
(* row can be taken together with the next that matters, which is the one  *)
(* that finds no row, or the list that the fair share is computed from.    *)
List(i) ==
    /\ inst[i].pc = "rest"
    /\ LET absent == {p \in Partitions : rows[p].owner = NoRow /\ p >= inst[i].pid} IN
       \/ /\ absent # {}
          /\ inst' = [inst EXCEPT ![i].pc = "ensure", ![i].pid = Min(absent)]
       \/ /\ absent = {}
          /\ Onward(i, [inst[i] EXCEPT !.pid = 0, !.mine = Mine(i), !.todo = Mine(i),
                          !.target = Target(Max({1, Cardinality(AliveOwners)}))])
    /\ UNCHANGED <<rows, faults, raced>>

Upsert(i, p, row) ==
    /\ rows' = [rows EXCEPT ![p] = row]
    /\ raced' = IF rows[p].owner # inst[i].seen.owner THEN raced \cup {p} ELSE raced

(* ensure_row, its upsert of an unowned row. *)
EnsureRow(i) ==
    /\ inst[i].pc = "ensure"
    /\ Upsert(i, inst[i].pid, EmptyRow)
    /\ inst' = [inst EXCEPT ![i].pc = "rest", ![i].pid = @ + 1]
    /\ UNCHANGED faults

(* renew_owned, its list: a partition that has been lost is left alone. *)
RenewRead(i) ==
    /\ inst[i].pc = "renew"
    /\ \E p \in inst[i].todo :
         IF rows[p].owner = i
         THEN inst' = [inst EXCEPT ![i].pc = "renewing", ![i].pid = p, ![i].until = TTL,
                                   ![i].seen = rows[p]]
         ELSE Onward(i, [inst[i] EXCEPT !.todo = @ \ {p}])
    /\ UNCHANGED <<rows, faults, raced>>

(* What follows the write of a renewal, or its failure, which is ignored. *)
Renewed(i) == Onward(i, [inst[i] EXCEPT !.todo = @ \ {inst[i].pid}, !.pid = 0,
                                        !.until = 0, !.seen = AbsentRow])

RenewWrite(i) ==
    /\ inst[i].pc = "renewing"
    /\ Upsert(i, inst[i].pid, [owner |-> i, lease |-> inst[i].until])
    /\ Renewed(i)
    /\ UNCHANGED faults

(* try_steal_partition, its list. *)
StealRead(i) ==
    /\ inst[i].pc = "steal"
    /\ LET p == inst[i].pid IN
       \/ /\ Stealable(i, p)
          /\ inst' = [inst EXCEPT ![i].pc = "stealing", ![i].until = TTL,
                                  ![i].seen = rows[p]]
       \/ /\ ~Stealable(i, p)
          /\ Onward(i, [inst[i] EXCEPT !.pid = p + 1])
    /\ UNCHANGED <<rows, faults, raced>>

StealWrite(i) ==
    /\ inst[i].pc = "stealing"
    /\ Upsert(i, inst[i].pid, [owner |-> i, lease |-> inst[i].until])
    /\ Onward(i, [inst[i] EXCEPT !.mine = @ \cup {inst[i].pid}, !.pid = @ + 1,
                                 !.until = 0, !.seen = AbsentRow])
    /\ UNCHANGED faults

----------------------------------------------------------------------------
(* Faults.                                                                 *)

Faulty == faults < MaxFaults /\ faults' = faults + 1

(* A store call fails.  Everywhere but in renew_owned that ends the        *)
(* refresh, and `owned` stays as it was.                                   *)
StoreFails(i) ==
    /\ inst[i].pc \notin {"down", "rest"} /\ Faulty
    /\ IF inst[i].pc \in {"renew", "renewing"}
       THEN \E p \in inst[i].todo :
              /\ inst[i].pc = "renewing" => p = inst[i].pid
              /\ Onward(i, [inst[i] EXCEPT !.todo = @ \ {p}, !.pid = 0, !.until = 0,
                                           !.seen = AbsentRow])
       ELSE inst' = [inst EXCEPT ![i] = Rested(@)]
    /\ UNCHANGED <<rows, raced>>

Crash(i) ==
    /\ Up(i) /\ Faulty
    /\ inst' = [inst EXCEPT ![i] = [Fresh EXCEPT !.pc = "down"]]
    /\ UNCHANGED <<rows, raced>>

(* PartitionAssigner::new: nothing is remembered. *)
Restart(i) ==
    /\ ~Up(i)
    /\ inst' = [inst EXCEPT ![i] = Fresh]
    /\ UNCHANGED <<rows, faults, raced>>

(* release_all, by a leader elector that lost its lease: the stored leases *)
(* stay.  A refresh that is under way goes on.                             *)
ReleaseAll(i) ==
    /\ Up(i) /\ Faulty
    /\ inst' = [inst EXCEPT ![i].owned = {}]
    /\ UNCHANGED <<rows, raced>>

----------------------------------------------------------------------------
Down(t) == IF t = 0 THEN 0 ELSE t - 1

Advance ==
    /\ rows' = [p \in Partitions |-> [rows[p] EXCEPT !.lease = Down(@)]]
    /\ inst' = [i \in Instances |-> [inst[i] EXCEPT !.until = Down(@),
                                                    !.seen.lease = Down(@)]]
    /\ UNCHANGED raced

(* The renewal interval is a fraction of the TTL: an instance that is up   *)
(* renews its leases, and writes those it computed, before they lapse.     *)
InTime ==
    /\ \A p \in Partitions : rows[p].lease = 1 /\ rows[p].owner \in Instances
                               => ~Up(rows[p].owner)
    /\ \A i \in Instances : inst[i].pc \in {"renewing", "stealing"} => inst[i].until > 1

Tick == InTime /\ Advance /\ UNCHANGED faults
Stall == ~InTime /\ Advance /\ Faulty

Init ==
    /\ rows = [p \in Partitions |-> AbsentRow]
    /\ inst = [i \in Instances |-> Fresh]
    /\ faults = 0
    /\ raced = {}

Refresh(i) ==
    \/ List(i)
    \/ EnsureRow(i)
    \/ RenewRead(i) \/ RenewWrite(i)
    \/ StealRead(i) \/ StealWrite(i)

Next ==
    \/ \E i \in Instances :
         Refresh(i) \/ StoreFails(i) \/ Crash(i) \/ Restart(i) \/ ReleaseAll(i)
    \/ Tick
    \/ Stall

Spec == Init /\ [][Next]_vars

(* The clock runs and an instance that is up keeps refreshing.  Nobody has *)
(* to restart one that crashed.                                            *)
FairSpec == Spec /\ WF_vars(Tick) /\ \A i \in Instances : WF_vars(Refresh(i))

----------------------------------------------------------------------------
TypeOK ==
    /\ rows \in [Partitions -> Row]
    /\ inst \in [Instances -> Inst]
    /\ faults \in 0..MaxFaults
    /\ raced \subseteq Partitions

Owners(p) == {i \in Instances : p \in inst[i].owned}

(* The lease keeps partitions apart (try_steal_partition, renew_owned):    *)
(* two instances take a partition for theirs only if one of them wrote a   *)
(* row that had changed hands since it was listed, or something failed.    *)
SoleOwner ==
    faults = 0 => \A p \in Partitions \ raced : Cardinality(Owners(p)) <= 1

(* The rows and the owned sets have their types, and partitions are kept   *)
(* apart (refresh_leases).                                                 *)
PartitionsApart == TypeOK /\ SoleOwner

(* A write is about to go by a row that has changed hands since.  Two      *)
(* instances whose renewals cross like this again and again would both     *)
(* keep the partition for ever: upsert_partition_assignment never refuses. *)
Crossing == \E i \in Instances :
    /\ inst[i].pc \in {"renewing", "stealing"}
    /\ rows[inst[i].pid].owner # inst[i].seen.owner

(* A partition two instances believe to own comes back to one of them and  *)
(* stays with one, since the next refresh_leases of the loser sees the row,*)
(* provided the refreshes do not cross for ever.                           *)
OverlapHeals ==
    <>[]~Crossing => <>[](\A p \in Partitions : Cardinality(Owners(p)) <= 1)

(* Every partition has an instance that ticks its jobs: the fair share     *)
(* leaves none out, and the leases of instances that died are taken over   *)
(* (refresh_leases), as long as any instance is up.                        *)
Covered ==
    \A p \in Partitions :
        []<>(Owners(p) # {} \/ \A i \in Instances : ~Up(i))
=============================================================================
