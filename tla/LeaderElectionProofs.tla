------------------------ MODULE LeaderElectionProofs ------------------------
(***************************************************************************)
(* Proofs about LeaderElection, for any number of instances, any lease     *)
(* length and any number of faults and shutdowns.                          *)
(***************************************************************************)
EXTENDS LeaderElection, TLAPS

----------------------------------------------------------------------------
(* Types.                                                                  *)

(* Every step keeps the types. *)
LEMMA TypeStep == TypeOK /\ [Next]_vars => TypeOK'
<1> SUFFICES ASSUME TypeOK, [Next]_vars
             PROVE  TypeOK'
  OBVIOUS
<1> USE ElectionAssumption DEF TypeOK, Goto, row, bounds
<1>1. ASSUME NEW i \in Instances, StepOnce(i)
      PROVE  TypeOK'
  <2>1. CASE Campaign(i)
    BY <2>1 DEF Campaign
  <2>2. CASE Renew(i)
    BY <2>2 DEF Renew
  <2>3. CASE Confirm(i)
    BY <2>3 DEF Confirm
  <2>4. CASE ReleaseAll(i)
    BY <2>4 DEF ReleaseAll
  <2>5. CASE LowerFlag(i)
    BY <2>5 DEF LowerFlag
  <2>6. CASE TryAcquire(i)
    BY <2>6 DEF TryAcquire
  <2>7. CASE AssignAll(i)
    BY <2>7 DEF AssignAll
  <2>8. CASE RaiseFlag(i)
    BY <2>8 DEF RaiseFlag
  <2>9. QED
    BY <1>1, <2>1, <2>2, <2>3, <2>4, <2>5, <2>6, <2>7, <2>8 DEF StepOnce
<1>2. ASSUME NEW i \in Instances, TickLoopStep(i)
      PROVE  TypeOK'
  BY <1>2 DEF TickLoopStep, ReadFlag, ReadOwned, EndTick
<1>3. ASSUME NEW i \in Instances, RenewError(i) \/ ConfirmError(i) \/ TryAcquireError(i)
      PROVE  TypeOK'
  BY <1>3 DEF RenewError, ConfirmError, TryAcquireError, Fault
<1>4. ASSUME NEW i \in Instances, Crash(i)
      PROVE  TypeOK'
  BY <1>4 DEF Crash, Fault
<1>5. ASSUME NEW i \in Instances, Restart(i)
      PROVE  TypeOK'
  BY <1>5 DEF Restart
<1>6. ASSUME NEW i \in Instances, Shutdown(i)
      PROVE  TypeOK'
  <2>1. shut' \in [Instances -> BOOLEAN] /\ UNCHANGED <<row, flag, faults, stalled>>
    BY <1>6 DEF Shutdown
  <2>2. tick' = tick \/ tick' = [tick EXCEPT ![i] = "stopped"]
    BY <1>6 DEF Shutdown
  <2>3. owned' \in [Instances -> BOOLEAN]
    BY <1>6, Zenon DEF Shutdown
  <2>4. \/ pc' = pc
        \/ pc' = [pc EXCEPT ![i] = "stopped"]
    BY <1>6 DEF Shutdown
  <2>5. QED
    BY <2>1, <2>2, <2>3, <2>4
<1>7. CASE Tick
  <2>1. lease' \in 0..TTL /\ UNCHANGED <<holder, pc, flag, owned, tick, shut>>
    BY <1>7 DEF Tick
  <2>2. CASE Stalls
    BY <1>7, <2>1, <2>2 DEF Tick, Fault
  <2>3. CASE ~Stalls
    BY <1>7, <2>1, <2>3 DEF Tick
  <2>4. QED
    BY <2>2, <2>3
<1>8. CASE UNCHANGED vars
  BY <1>8 DEF vars
<1>9. QED
  BY <1>1, <1>2, <1>3, <1>4, <1>5, <1>6, <1>7, <1>8 DEF Next

(* TypeOK is an invariant: the lease never exceeds the TTL, the counters   *)
(* stay within their bounds.                                               *)
THEOREM TypeCorrect == Spec => []TypeOK
<1>1. Init => TypeOK
  <2>1. 0 \in 0..TTL /\ 0 \in 0..MaxFaults
    BY ElectionAssumption
  <2>2. QED
    BY <2>1 DEF Init, TypeOK
<1>2. QED
  BY <1>1, TypeStep, PTL DEF Spec

----------------------------------------------------------------------------
(* The partitions follow the flag.                                         *)

(* Where an election loop is tells what it owns and shows. *)
OwnInv ==
    \A i \in Instances :
        /\ pc[i] \in {"idle", "step", "confirm", "down"} => owned[i] = flag[i]
        /\ pc[i] \in {"lower", "stopped"} => ~owned[i]
        /\ pc[i] = "raise" => owned[i]

(* Every step keeps that. *)
LEMMA OwnStep == TypeOK /\ OwnInv /\ [Next]_vars => OwnInv'
<1> SUFFICES ASSUME TypeOK, OwnInv, [Next]_vars
             PROVE  OwnInv'
  OBVIOUS
<1> USE DEF row, bounds, TypeOK, OwnInv, Goto
<1>1. ASSUME NEW i \in Instances, Campaign(i) \/ Renew(i) \/ RenewError(i) \/ TryAcquireError(i)
      PROVE  OwnInv'
  BY <1>1 DEF Campaign, Renew, RenewError, TryAcquireError
<1>2. ASSUME NEW i \in Instances, Confirm(i) \/ ConfirmError(i)
      PROVE  OwnInv'
  <2>1. pc' = [pc EXCEPT ![i] = "idle"] \/ pc' = [pc EXCEPT ![i] = "release"]
    BY <1>2 DEF Confirm, ConfirmError
  <2>2. QED
    BY <1>2, <2>1 DEF Confirm, ConfirmError
<1>3. ASSUME NEW i \in Instances, ReleaseAll(i)
      PROVE  OwnInv'
  BY <1>3 DEF ReleaseAll
<1>4. ASSUME NEW i \in Instances, LowerFlag(i)
      PROVE  OwnInv'
  BY <1>4 DEF LowerFlag
<1>5. ASSUME NEW i \in Instances, TryAcquire(i)
      PROVE  OwnInv'
  <2>1. pc' = [pc EXCEPT ![i] = "idle"] \/ pc' = [pc EXCEPT ![i] = "assign"]
    BY <1>5 DEF TryAcquire
  <2>2. QED
    BY <1>5, <2>1 DEF TryAcquire
<1>6. ASSUME NEW i \in Instances, AssignAll(i)
      PROVE  OwnInv'
  BY <1>6 DEF AssignAll
<1>7. ASSUME NEW i \in Instances, RaiseFlag(i)
      PROVE  OwnInv'
  BY <1>7 DEF RaiseFlag
<1>8. ASSUME NEW i \in Instances, TickLoopStep(i)
      PROVE  OwnInv'
  BY <1>8 DEF TickLoopStep, ReadFlag, ReadOwned, EndTick
<1>9. ASSUME NEW i \in Instances, Crash(i) \/ Restart(i)
      PROVE  OwnInv'
  <2>1. CASE Crash(i)
    BY <2>1 DEF Crash
  <2>2. CASE Restart(i)
    BY <2>2 DEF Restart
  <2>3. QED
    BY <1>9, <2>1, <2>2
<1>10. ASSUME NEW i \in Instances, Shutdown(i)
       PROVE  OwnInv'
  <2>1. CASE pc[i] = "idle"
    BY <1>10, <2>1 DEF Shutdown
  <2>2. CASE pc[i] # "idle"
    BY <1>10, <2>2 DEF Shutdown
  <2>3. QED
    BY <2>1, <2>2
<1>11. CASE Tick
  BY <1>11 DEF Tick
<1>12. CASE UNCHANGED vars
  BY <1>12 DEF vars
<1>13. QED
  BY <1>1, <1>2, <1>3, <1>4, <1>5, <1>6, <1>7, <1>8, <1>9, <1>10, <1>11, <1>12
     DEF Next, StepOnce

(* The invariant holds throughout. *)
LEMMA OwnAlways == Spec => []OwnInv
<1>1. Init => OwnInv
  BY DEF Init, OwnInv
<1>2. QED
  BY <1>1, OwnStep, TypeCorrect, PTL DEF Spec

(* Between two steps of the election a standby owns no partition and the   *)
(* leader owns them all.                                                   *)
THEOREM OwnershipCorrect == Spec => []OwnershipFollowsFlag
<1>1. OwnInv => OwnershipFollowsFlag
  BY DEF OwnInv, OwnershipFollowsFlag
<1>2. QED
  BY <1>1, OwnAlways, PTL

----------------------------------------------------------------------------
(* One ticker.                                                             *)

(* An instance has a part in leading from the moment it acquires the row   *)
(* until the flag is down and the tick that saw it has ended.              *)
Leading(i) ==
    \/ flag[i]
    \/ pc[i] \in {"confirm", "release", "lower", "assign", "raise"}
    \/ tick[i] \in {"armed", "ticking"}

(* An instance whose election loop has ended does not tick, as it owns     *)
(* nothing; one that comes back leads nothing; and unless a live holder    *)
(* sat out its lease, whoever is up and has a part in leading holds the    *)
(* row under a live lease.                                                 *)
StoppedDoNotTick == \A i \in Instances : ~Up(i) => tick[i] # "ticking"
DownForgets == \A i \in Instances : pc[i] = "down" => ~flag[i] /\ ~owned[i]
LeadersHoldTheRow ==
    ~stalled => \A i \in Instances : Up(i) /\ Leading(i) => holder = i /\ lease > 0

LeaderInv == StoppedDoNotTick /\ DownForgets /\ LeadersHoldTheRow

(* A step of instance i that leaves the row alone, and after which i is    *)
(* down or stopped or had a part in leading before or has none, keeps the  *)
(* invariant.                                                              *)
LEMMA LocalStep ==
  ASSUME TypeOK, LeaderInv, NEW i \in Instances,
         UNCHANGED <<holder, lease>>, stalled' = stalled,
         \A j \in Instances : j # i =>
             /\ pc'[j] = pc[j] /\ flag'[j] = flag[j] /\ owned'[j] = owned[j]
             /\ tick'[j] = tick[j],
         pc'[i] \in {"down", "stopped"} => tick'[i] # "ticking",
         pc'[i] = "down" => ~flag'[i] /\ ~owned'[i],
         (Up(i) /\ Leading(i))' => Up(i) /\ Leading(i)
  PROVE  LeaderInv'
<1>1. StoppedDoNotTick'
  BY DEF LeaderInv, StoppedDoNotTick, Up
<1>2. DownForgets'
  BY DEF LeaderInv, DownForgets
<1>3. \A j \in Instances : (Up(j) /\ Leading(j))' => Up(j) /\ Leading(j)
  BY DEF Up, Leading
<1>4. LeadersHoldTheRow'
  BY <1>3 DEF LeaderInv, LeadersHoldTheRow
<1>5. QED
  BY <1>1, <1>2, <1>4 DEF LeaderInv

(* The row is taken only from nobody, from oneself or from a holder whose  *)
(* lease is over: in every case nobody else has a part in leading.         *)
LEMMA AcquireStep ==
  ASSUME TypeOK, LeaderInv, NEW i \in Instances, TryAcquire(i)
  PROVE  LeaderInv'
<1> USE ElectionAssumption DEF TypeOK, row, bounds
<1>1. /\ pc[i] = "step" /\ pc'[i] \in {"assign", "idle"} /\ UNCHANGED <<flag, owned, tick, stalled>>
      /\ \A j \in Instances : j # i => pc'[j] = pc[j]
      /\ ~flag[i]
  BY DEF TryAcquire, Goto
<1>2. CASE MayAcquire(i)
  <2>1. holder' = i /\ lease' = TTL
    BY <1>2 DEF TryAcquire
  <2>2. StoppedDoNotTick' /\ DownForgets'
    BY <1>1 DEF LeaderInv, StoppedDoNotTick, DownForgets, Up
  <2>3. ASSUME ~stalled, NEW j \in Instances, j # i, Up(j), Leading(j)
        PROVE  FALSE
    BY <1>2, <2>3 DEF LeaderInv, LeadersHoldTheRow, MayAcquire
  <2>4. \A j \in Instances : j # i => (Up(j)' <=> Up(j)) /\ (Leading(j)' <=> Leading(j))
    BY <1>1 DEF Up, Leading
  <2>5. LeadersHoldTheRow'
    <3>1. SUFFICES ASSUME ~stalled', NEW j \in Instances, Up(j)', Leading(j)'
                   PROVE  holder' = j /\ lease' > 0
      BY DEF LeadersHoldTheRow
    <3>2. j = i
      BY <1>1, <2>3, <2>4, <3>1
    <3>3. QED
      BY <2>1, <3>2
  <2>6. QED
    BY <2>2, <2>5 DEF LeaderInv
<1>3. CASE ~MayAcquire(i)
  <2>1. pc'[i] = "idle" /\ UNCHANGED <<holder, lease>>
    BY <1>3 DEF TryAcquire, Goto
  <2>2. (Up(i) /\ Leading(i))' => Up(i) /\ Leading(i)
    BY <1>1, <2>1 DEF Up, Leading
  <2>3. QED
    BY <1>1, <2>1, <2>2, LocalStep
<1>4. QED
  BY <1>2, <1>3

(* Every step keeps the invariant. *)
LEMMA LeaderStep == TypeOK /\ OwnInv /\ LeaderInv /\ [Next]_vars => LeaderInv'
<1> SUFFICES ASSUME TypeOK, OwnInv, LeaderInv, [Next]_vars
             PROVE  LeaderInv'
  OBVIOUS
<1> USE DEF row, bounds
<1>1. ASSUME NEW i \in Instances, Campaign(i)
      PROVE  LeaderInv'
  BY <1>1, LocalStep DEF Campaign, Goto, TypeOK, Up, Leading
<1>2. ASSUME NEW i \in Instances, Renew(i)
      PROVE  LeaderInv'
  <2>1. /\ pc[i] = "step" /\ flag[i] /\ pc'[i] = "confirm"
        /\ UNCHANGED <<holder, flag, owned, tick, stalled>>
        /\ \A j \in Instances : j # i => pc'[j] = pc[j]
        /\ lease' = lease \/ lease' = TTL
    BY <1>2 DEF Renew, Goto, TypeOK
  <2>2. \A j \in Instances : (Up(j) /\ Leading(j))' => Up(j) /\ Leading(j)
    BY <2>1 DEF Up, Leading
  <2>3. LeadersHoldTheRow'
    BY <2>1, <2>2, ElectionAssumption DEF LeaderInv, LeadersHoldTheRow
  <2>4. StoppedDoNotTick' /\ DownForgets'
    BY <2>1 DEF LeaderInv, StoppedDoNotTick, DownForgets, Up
  <2>5. QED
    BY <2>3, <2>4 DEF LeaderInv
<1>3. ASSUME NEW i \in Instances, Confirm(i)
      PROVE  LeaderInv'
  <2>1. pc' = [pc EXCEPT ![i] = "idle"] \/ pc' = [pc EXCEPT ![i] = "release"]
    BY <1>3 DEF Confirm, Goto
  <2>2. QED
    BY <1>3, <2>1, LocalStep DEF Confirm, TypeOK, Up, Leading
<1>4. ASSUME NEW i \in Instances, ReleaseAll(i)
      PROVE  LeaderInv'
  BY <1>4, LocalStep DEF ReleaseAll, Goto, TypeOK, Up, Leading
<1>5. ASSUME NEW i \in Instances, LowerFlag(i)
      PROVE  LeaderInv'
  BY <1>5, LocalStep DEF LowerFlag, Goto, TypeOK, Up, Leading
<1>6. ASSUME NEW i \in Instances, TryAcquire(i)
      PROVE  LeaderInv'
  BY <1>6, AcquireStep
<1>7. ASSUME NEW i \in Instances, AssignAll(i)
      PROVE  LeaderInv'
  BY <1>7, LocalStep DEF AssignAll, Goto, TypeOK, Up, Leading
<1>8. ASSUME NEW i \in Instances, RaiseFlag(i)
      PROVE  LeaderInv'
  BY <1>8, LocalStep DEF RaiseFlag, Goto, TypeOK, Up, Leading
<1>9. ASSUME NEW i \in Instances, ReadFlag(i)
      PROVE  LeaderInv'
  <2>1. /\ tick[i] = "idle" /\ flag[i] /\ tick'[i] = "armed"
        /\ \A j \in Instances : j # i => tick'[j] = tick[j]
        /\ UNCHANGED <<holder, lease, pc, flag, owned, stalled>>
    BY <1>9 DEF ReadFlag, TypeOK
  <2>2. QED
    BY <2>1, LocalStep DEF Up, Leading, LeaderInv, DownForgets
<1>10. ASSUME NEW i \in Instances, ReadOwned(i) \/ EndTick(i)
       PROVE  LeaderInv'
  <2>1. /\ tick[i] \in {"armed", "ticking"} /\ tick'[i] \in {"idle", "ticking"}
        /\ tick'[i] = "ticking" => owned[i]
        /\ \A j \in Instances : j # i => tick'[j] = tick[j]
        /\ UNCHANGED <<holder, lease, pc, flag, owned, stalled>>
    BY <1>10 DEF ReadOwned, EndTick, TypeOK
  <2>2. pc[i] \in {"down", "stopped"} => ~owned[i]
    BY DEF OwnInv, LeaderInv, DownForgets
  <2>3. QED
    BY <2>1, <2>2, LocalStep DEF Up, Leading, LeaderInv, DownForgets
<1>11. ASSUME NEW i \in Instances, RenewError(i)
       PROVE  LeaderInv'
  BY <1>11, LocalStep DEF RenewError, Goto, TypeOK, Up, Leading
<1>12. ASSUME NEW i \in Instances, ConfirmError(i)
       PROVE  LeaderInv'
  BY <1>12, LocalStep DEF ConfirmError, Goto, TypeOK, Up, Leading
<1>13. ASSUME NEW i \in Instances, TryAcquireError(i)
       PROVE  LeaderInv'
  BY <1>13, LocalStep DEF TryAcquireError, Goto, TypeOK, Up, Leading
<1>14. ASSUME NEW i \in Instances, Crash(i)
       PROVE  LeaderInv'
  BY <1>14, LocalStep DEF Crash, Goto, TypeOK, Up, Leading
<1>15. ASSUME NEW i \in Instances, Restart(i)
       PROVE  LeaderInv'
  <2>1. /\ pc'[i] = "idle" /\ tick'[i] = "idle" /\ UNCHANGED <<holder, lease, flag, owned, stalled>>
        /\ \A j \in Instances : j # i => pc'[j] = pc[j] /\ tick'[j] = tick[j]
        /\ ~flag[i]
    BY <1>15 DEF Restart, Goto, TypeOK, LeaderInv, DownForgets
  <2>2. QED
    BY <2>1, LocalStep DEF Up, Leading
<1>16. ASSUME NEW i \in Instances, Shutdown(i)
       PROVE  LeaderInv'
  <2>1. /\ Up(i) /\ UNCHANGED <<holder, lease, flag, stalled>>
        /\ tick'[i] = "stopped" \/ (tick[i] = "idle" /\ tick'[i] = "idle")
        /\ \A j \in Instances : j # i => tick'[j] = tick[j]
    BY <1>16 DEF Shutdown, TypeOK
  <2>2. /\ pc'[i] = pc[i] \/ pc'[i] = "stopped"
        /\ \A j \in Instances : j # i => pc'[j] = pc[j] /\ owned'[j] = owned[j]
    BY <1>16 DEF Shutdown, Goto, TypeOK
  <2>3. QED
    BY <2>1, <2>2, LocalStep DEF Up, Leading
<1>17. CASE Tick
  <2>1. /\ UNCHANGED <<holder, pc, flag, owned, tick>> /\ lease > 0 /\ lease' = lease - 1
        /\ Stalls => stalled' = TRUE
        /\ ~Stalls => stalled' = stalled
    BY <1>17 DEF Tick
  <2>2. ASSUME ~stalled', NEW i \in Instances, Up(i), Leading(i)
        PROVE  holder = i /\ lease' > 0
    <3>1. ~Stalls /\ ~stalled
      BY <2>1, <2>2
    <3>2. holder = i
      BY <2>2, <3>1 DEF LeaderInv, LeadersHoldTheRow
    <3>3. lease # 1
      BY <2>2, <3>1, <3>2, ElectionAssumption DEF Stalls
    <3>4. lease \in Nat
      BY ElectionAssumption DEF TypeOK
    <3>5. QED
      BY <2>1, <3>2, <3>3, <3>4
  <2>3. QED
    BY <2>1, <2>2 DEF LeaderInv, StoppedDoNotTick, DownForgets, LeadersHoldTheRow, Up, Leading
<1>18. CASE UNCHANGED vars
  BY <1>18 DEF vars, LeaderInv, StoppedDoNotTick, DownForgets, LeadersHoldTheRow, Up, Leading
<1>19. QED
  BY <1>1, <1>2, <1>3, <1>4, <1>5, <1>6, <1>7, <1>8, <1>9, <1>10, <1>11, <1>12, <1>13,
     <1>14, <1>15, <1>16, <1>17, <1>18 DEF Next, StepOnce, TickLoopStep

(* "Only the elected leader ticks": two instances never tick at the same   *)
(* time unless a live holder sat out its whole lease.                      *)
THEOREM SoleTickerCorrect == Spec => []SoleTicker
<1>1. Init => LeaderInv
  BY DEF Init, LeaderInv, StoppedDoNotTick, DownForgets, LeadersHoldTheRow, Up, Leading
<1>2. LeaderInv => SoleTicker
  BY DEF LeaderInv, StoppedDoNotTick, LeadersHoldTheRow, SoleTicker, Leading
<1>3. QED
  BY <1>1, <1>2, LeaderStep, OwnAlways, TypeCorrect, PTL DEF Spec
=============================================================================
