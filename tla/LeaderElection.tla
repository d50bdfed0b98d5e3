--------------------------- MODULE LeaderElection ---------------------------
(***************************************************************************)
(* Leader election among the CoordinatorOnly replicas of a split           *)
(* deployment (chronon-scheduler/src/leader.rs), with the part of the tick *)
(* loop it gates.                                                          *)
(*                                                                         *)
(* The store keeps one leader row: an instance and the end of its lease.   *)
(* Every instance runs an election loop that campaigns for the row or      *)
(* renews it, and reconciles two pieces of memory with the outcome: the    *)
(* is_leader flag and the set of owned partitions.  Beside it runs the     *)
(* tick loop, which reads the flag, then the partitions, and then ticks    *)
(* for as long as that takes.  One step is one store call or one change of *)
(* the shared memory; `lease` is leader_lease_until - now, 0 once expired. *)
(***************************************************************************)
EXTENDS Integers, FiniteSets

CONSTANTS
    Instances,    \* coordinator replicas
    NoInstance,   \* no leader row yet
    TTL,          \* CHRONON_LEADER_TTL_S, in ticks
    MaxFaults,    \* bound: crashes, stalls and store errors
    MaxShutdowns  \* bound: calls of Chronon::shutdown

ASSUME ElectionAssumption ==
    /\ NoInstance \notin Instances
    /\ TTL \in Nat \ {0}
    /\ MaxFaults \in Nat
    /\ MaxShutdowns \in Nat

VARIABLES
    holder,   \* leader_instance_id of the row
    lease,    \* what is left of leader_lease_until
    pc,       \* where each election loop is in step_once
    flag,     \* is_leader of each instance
    owned,    \* does the instance own the partitions (all of them)?
    tick,     \* where each tick loop is
    shut,     \* has shutdown been called on the instance?
    faults,   \* crashes, stalls and store errors so far
    stalled   \* history: has the lease of a live holder ever run out?

vars == <<holder, lease, pc, flag, owned, tick, shut, faults, stalled>>
row == <<holder, lease>>
bounds == <<shut, faults, stalled>>

----------------------------------------------------------------------------
Fault ==
    /\ faults < MaxFaults
    /\ faults' = faults + 1

Goto(i, label) == pc' = [pc EXCEPT ![i] = label]

Up(i) == pc[i] \notin {"down", "stopped"}

(* am_i_leader *)
AmILeader(i) == holder = i /\ lease > 0

Init ==
    /\ holder = NoInstance
    /\ lease = 0
    /\ pc = [i \in Instances |-> "idle"]
    /\ flag = [i \in Instances |-> FALSE]
    /\ owned = [i \in Instances |-> FALSE]
    /\ tick = [i \in Instances |-> "idle"]
    /\ shut = [i \in Instances |-> FALSE]
    /\ faults = 0
    /\ stalled = FALSE

----------------------------------------------------------------------------
(* The interval fires and the election loop enters step_once. *)
Campaign(i) ==
    /\ pc[i] = "idle"
    /\ Goto(i, "step")
    /\ UNCHANGED <<row, flag, owned, tick, bounds>>

----------------------------------------------------------------------------
(* step_once of a leader: renew, confirm, step down.                       *)

(* Mutant: the lease is extended by TTL instead of set to it. *)
Renew_Adds(i) ==
    /\ pc[i] = "step" /\ flag[i]
    /\ Goto(i, "confirm")
    /\ lease' = IF holder = i THEN lease + TTL ELSE lease
    /\ UNCHANGED <<holder, flag, owned, tick, bounds>>

(* renew_leader_lease by a leader: nothing happens to a rival's row, and   *)
(* an expired lease is extended too.                                       *)
Renew(i) ==
    /\ pc[i] = "step" /\ flag[i]
    /\ Goto(i, "confirm")
    /\ lease' = IF holder = i THEN TTL ELSE lease
    /\ UNCHANGED <<holder, flag, owned, tick, bounds>>

(* Its error is logged, and the confirmation follows all the same. *)
RenewError(i) ==
    /\ pc[i] = "step" /\ flag[i]
    /\ Fault
    /\ Goto(i, "confirm")
    /\ UNCHANGED <<row, flag, owned, tick, shut, stalled>>

(* Mutant: a renewal that returned Ok is trusted. *)
Confirm_TrustsRenew(i) ==
    /\ pc[i] = "confirm"
    /\ Goto(i, "idle")
    /\ UNCHANGED <<row, flag, owned, tick, bounds>>

Confirm(i) ==
    /\ pc[i] = "confirm"
    /\ Goto(i, IF AmILeader(i) THEN "idle" ELSE "release")
    /\ UNCHANGED <<row, flag, owned, tick, bounds>>

(* An error counts as no longer leader. *)
ConfirmError(i) ==
    /\ pc[i] = "confirm"
    /\ Fault
    /\ Goto(i, "release")
    /\ UNCHANGED <<row, flag, owned, tick, shut, stalled>>

(* Mutant: the partitions are kept. *)
ReleaseAll_Keeps(i) ==
    /\ pc[i] = "release"
    /\ Goto(i, "lower")
    /\ UNCHANGED <<row, flag, owned, tick, bounds>>

ReleaseAll(i) ==
    /\ pc[i] = "release"
    /\ owned' = [owned EXCEPT ![i] = FALSE]
    /\ Goto(i, "lower")
    /\ UNCHANGED <<row, flag, tick, bounds>>

LowerFlag(i) ==
    /\ pc[i] = "lower"
    /\ flag' = [flag EXCEPT ![i] = FALSE]
    /\ Goto(i, "idle")
    /\ UNCHANGED <<row, owned, tick, bounds>>

----------------------------------------------------------------------------
(* step_once of a standby: campaign, take the partitions, raise the flag.  *)

(* Mutants: a live lease is no obstacle; an expired one still is. *)
MayAcquire_Live(i) == TRUE
MayAcquire_NeverExpires(i) == holder \in {NoInstance, i}

MayAcquire(i) == holder \in {NoInstance, i} \/ lease = 0

(* try_acquire_leader *)
TryAcquire(i) ==
    /\ pc[i] = "step" /\ ~flag[i]
    /\ IF MayAcquire(i)
       THEN holder' = i /\ lease' = TTL /\ Goto(i, "assign")
       ELSE Goto(i, "idle") /\ UNCHANGED row
    /\ UNCHANGED <<flag, owned, tick, bounds>>

(* An error is logged: the instance stays on standby. *)
TryAcquireError(i) ==
    /\ pc[i] = "step" /\ ~flag[i]
    /\ Fault
    /\ Goto(i, "idle")
    /\ UNCHANGED <<row, flag, owned, tick, shut, stalled>>

AssignAll(i) ==
    /\ pc[i] = "assign"
    /\ owned' = [owned EXCEPT ![i] = TRUE]
    /\ Goto(i, "raise")
    /\ UNCHANGED <<row, flag, tick, bounds>>

RaiseFlag(i) ==
    /\ pc[i] = "raise"
    /\ flag' = [flag EXCEPT ![i] = TRUE]
    /\ Goto(i, "idle")
    /\ UNCHANGED <<row, owned, tick, bounds>>

----------------------------------------------------------------------------
(* The tick loop: the flag, then the partitions, then the due jobs.        *)

ReadFlag(i) ==
    /\ tick[i] = "idle"
    /\ flag[i]
    /\ tick' = [tick EXCEPT ![i] = "armed"]
    /\ UNCHANGED <<row, pc, flag, owned, bounds>>

(* Without partitions the tick only sleeps. *)
ReadOwned(i) ==
    /\ tick[i] = "armed"
    /\ tick' = [tick EXCEPT ![i] = IF owned[i] THEN "ticking" ELSE "idle"]
    /\ UNCHANGED <<row, pc, flag, owned, bounds>>

EndTick(i) ==
    /\ tick[i] = "ticking"
    /\ tick' = [tick EXCEPT ![i] = "idle"]
    /\ UNCHANGED <<row, pc, flag, owned, bounds>>

----------------------------------------------------------------------------
(* Time, failures and shutdown.                                            *)

(* The lease lasts TTL (30 s) and every instance calls the store each 5 s, *)
(* so an instance that is up and lets its lease run out has stalled.       *)
Stalls == holder # NoInstance /\ Up(holder) /\ lease = 1

Tick ==
    /\ lease > 0
    /\ lease' = lease - 1
    /\ IF Stalls THEN Fault /\ stalled' = TRUE ELSE UNCHANGED <<faults, stalled>>
    /\ UNCHANGED <<holder, pc, flag, owned, tick, shut>>

Crash(i) ==
    /\ pc[i] # "down"
    /\ Fault
    /\ Goto(i, "down")
    /\ flag' = [flag EXCEPT ![i] = FALSE]
    /\ owned' = [owned EXCEPT ![i] = FALSE]
    /\ tick' = [tick EXCEPT ![i] = "stopped"]
    /\ shut' = [shut EXCEPT ![i] = FALSE]
    /\ UNCHANGED <<row, stalled>>

(* The instance comes back under its own id. *)
Restart(i) ==
    /\ pc[i] = "down"
    /\ Goto(i, "idle")
    /\ tick' = [tick EXCEPT ![i] = "idle"]
    /\ UNCHANGED <<row, flag, owned, bounds>>

(* Chronon::shutdown calls notify_waiters, which wakes whoever is waiting  *)
(* at that moment.  The tick loop is, except between two turns of its      *)
(* loop.  The election loop is only between two calls of step_once: it     *)
(* then leaves, gives up its partitions if it leads, and leaves the row    *)
(* (and the flag) behind.  In the middle of step_once nobody waits and the *)
(* notification is lost.                                                   *)
Shutdown(i) ==
    /\ Up(i) /\ ~shut[i]
    /\ Cardinality({j \in Instances : shut[j]}) < MaxShutdowns
    /\ shut' = [shut EXCEPT ![i] = TRUE]
    /\ \/ tick' = [tick EXCEPT ![i] = "stopped"]
       \/ tick[i] = "idle" /\ UNCHANGED tick
    /\ IF pc[i] = "idle"
       THEN /\ Goto(i, "stopped")
            /\ owned' = [owned EXCEPT ![i] = @ /\ ~flag[i]]
       ELSE UNCHANGED <<pc, owned>>
    /\ UNCHANGED <<row, flag, faults, stalled>>

----------------------------------------------------------------------------
StepOnce(i) ==
    \/ Campaign(i)
    \/ Renew(i)
    \/ Confirm(i)
    \/ ReleaseAll(i)
    \/ LowerFlag(i)
    \/ TryAcquire(i)
    \/ AssignAll(i)
    \/ RaiseFlag(i)

TickLoopStep(i) == ReadFlag(i) \/ ReadOwned(i) \/ EndTick(i)

Next ==
    \/ \E i \in Instances : StepOnce(i)
    \/ \E i \in Instances : TickLoopStep(i)
    \/ \E i \in Instances : RenewError(i)
    \/ \E i \in Instances : ConfirmError(i)
    \/ \E i \in Instances : TryAcquireError(i)
    \/ \E i \in Instances : Crash(i)
    \/ \E i \in Instances : Restart(i)
    \/ \E i \in Instances : Shutdown(i)
    \/ Tick

Spec == Init /\ [][Next]_vars

(* The clock advances and both loops of an instance keep running; a        *)
(* crashed instance need not come back.                                    *)
Fairness ==
    /\ WF_vars(Tick)
    /\ \A i \in Instances : WF_vars(StepOnce(i)) /\ WF_vars(TickLoopStep(i))

FairSpec == Spec /\ Fairness

----------------------------------------------------------------------------
(* Every variable has its type. *)
TypeOK ==
    /\ holder \in Instances \cup {NoInstance}
    /\ lease \in 0..TTL
    /\ pc \in [Instances -> {"idle", "step", "confirm", "release", "lower", "assign",
                             "raise", "stopped", "down"}]
    /\ flag \in [Instances -> BOOLEAN]
    /\ owned \in [Instances -> BOOLEAN]
    /\ tick \in [Instances -> {"idle", "armed", "ticking", "stopped"}]
    /\ shut \in [Instances -> BOOLEAN]
    /\ faults \in 0..MaxFaults
    /\ stalled \in BOOLEAN

(* "Only the elected leader ticks" (coordinator.rs): whatever crashes, is  *)
(* shut down or gets a store error, two instances never tick at the same   *)
(* time unless a live holder sat out its whole lease.                      *)
SoleTicker ==
    ~stalled => \A i, j \in Instances : tick[i] = "ticking" /\ tick[j] = "ticking" => i = j

(* Between two steps the partitions follow the flag: "a standby owns none" *)
(* and the winner owns all (leader.rs).                                    *)
OwnershipFollowsFlag ==
    \A i \in Instances : pc[i] \in {"idle", "step", "confirm"} => owned[i] = flag[i]

(* A deposed leader notices and steps down, unless it is stopped first. *)
DeposedStepsDown ==
    \A i \in Instances : (flag[i] /\ holder # i) ~> (~flag[i] \/ ~Up(i))

(* Ticking does not stop for good: as long as some instance stays up, one  *)
(* or another ticks again and again; a standby takes over from a leader    *)
(* that is gone or was shut down.  A shutdown the election loop did not    *)
(* hear is left out: that leader renews and does not tick (run_election_   *)
(* loop waits for the notification between two steps only).                *)
TakeOver ==
    <>[](/\ \E i \in Instances : Up(i)
         /\ \A i \in Instances : shut[i] => ~Up(i))
        => []<>(\E i \in Instances : tick[i] = "ticking")

(* What the code says of itself and does not keep.                         *)

(* Chronon::shutdown: "Signal all runtime loops to stop" (runtime.rs).     *)
ShutdownStopsElection ==
    \A i \in Instances : shut[i] ~> ~Up(i)
=============================================================================
