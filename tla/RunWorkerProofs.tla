-------------------------- MODULE RunWorkerProofs --------------------------
(***************************************************************************)
(* Proofs about RunWorker, for every number of runs, slots and jobs, every *)
(* lease length, retry policy and number of faults.                        *)
(*                                                                         *)
(* The invariants are proved in layers, each from the ones before it:      *)
(* types, then what rows and copies carry, then who holds a run, then the  *)
(* chains of retries.  Last, the table with its slots implements RunLife.  *)
(***************************************************************************)
EXTENDS RunWorker, TLAPS

----------------------------------------------------------------------------
(* Rows.                                                                   *)

(* Run::for_job builds a row. *)
LEMMA ForJobType ==
  ASSUME NEW job \in Jobs, NEW pool \in Pools \cup {NoPool},
         NEW sched \in Int, NEW attempt \in Nat
  PROVE  ForJob(job, pool, sched, attempt) \in Row
  BY DEF ForJob, Row, Status

(* Changing the status of a row gives a row that differs in nothing else. *)
LEMMA StatusType ==
  ASSUME NEW row \in Row, NEW status \in Status
  PROVE  [row EXCEPT !.status = status] \in Row
  BY DEF Row

(* The empty row is a row: there is a job for ForJob. *)
LEMMA BlankType == Blank \in Row
<1> DEFINE job == CHOOSE j \in Jobs : TRUE
<1>1. job \in Jobs
  BY SetsAssumption
<1> HIDE DEF job
<1>2. ForJob(job, NoPool, 0, 1) \in Row
  BY <1>1, ForJobType
<1>3. [ForJob(job, NoPool, 0, 1) EXCEPT !.status = "none"] \in Row
  BY <1>2, StatusType DEF Status
<1>4. QED
  BY <1>3 DEF Blank, job

(* Claiming, renewing and requeueing a row each give a row. *)
LEMMA ClaimType ==
  ASSUME NEW row \in Row, NEW w \in Workers
  PROVE  [row EXCEPT !.status = "claimed", !.by = w, !.lease = TTL] \in Row
<1>1. TTL \in {NoLease} \cup (0..TTL)
  BY NumbersAssumption
<1>2. QED
  BY <1>1 DEF Row, Status

(* A renewed row is a row. *)
LEMMA RenewType ==
  ASSUME NEW row \in Row
  PROVE  [row EXCEPT !.lease = TTL] \in Row
  BY NumbersAssumption DEF Row

(* A requeued row is a row. *)
LEMMA RequeueType ==
  ASSUME NEW row \in Row
  PROVE  [row EXCEPT !.status = "queued", !.by = NoWorker, !.lease = NoLease] \in Row
  BY DEF Row, Status

(* The passing of time gives a row with the same status, job, pool,        *)
(* attempt and holder, and with a lease exactly if there was one; a lease  *)
(* of more than one tick does not run out.                                 *)
LEMMA AgeType ==
  ASSUME NEW row \in Row
  PROVE  /\ Age(row) \in Row
         /\ Age(row).status = row.status
         /\ Age(row).job = row.job
         /\ Age(row).pool = row.pool
         /\ Age(row).attempt = row.attempt
         /\ Age(row).by = row.by
         /\ Age(row).lease = NoLease <=> row.lease = NoLease
         /\ row.lease > 0 /\ row.lease # 1 => Age(row).lease > 0
<1> DEFINE s == IF row.sched > -MaxLate THEN row.sched - 1 ELSE row.sched
           l == IF row.lease > 0 THEN row.lease - 1 ELSE row.lease
<1>1. row.sched \in Int /\ row.lease \in {NoLease} \cup (0..TTL)
  BY DEF Row
<1>2. s \in Int
  BY <1>1, NumbersAssumption
<1>3. /\ l \in {NoLease} \cup (0..TTL)
      /\ l = NoLease <=> row.lease = NoLease
      /\ row.lease > 0 /\ row.lease # 1 => l > 0
  BY <1>1, NumbersAssumption DEF NoLease
<1>4. Age(row) \in {row, [row EXCEPT !.sched = s, !.lease = l]}
  BY DEF Age
<1> HIDE DEF s, l
<1>5. QED
  BY <1>2, <1>3, <1>4 DEF Row

(* A fresh identifier is chosen whenever there is one. *)
LEMMA NewRunIdFresh ==
  ASSUME \E r \in RunIds : Fresh(r)
  PROVE  NewRunId \in RunIds /\ Fresh(NewRunId)
  BY DEF NewRunId

----------------------------------------------------------------------------
(* The type invariant.                                                     *)

(* Releasing a slot keeps the types of the slot's variables. *)
LEMMA ReleaseType ==
  ASSUME TypeOK, NEW w \in Workers, Release(w)
  PROVE  /\ pc' \in [Workers -> {"idle", "claimed", "running", "retry"}]
         /\ rid' \in [Workers -> RunIds \cup {NoRunId}]
         /\ \A v \in Workers : rid'[v] = NoRunId <=> pc'[v] = "idle"
         /\ copy' \in [Workers -> Row]
         /\ renewing' \in [Workers -> BOOLEAN]
  BY BlankType DEF Release, TypeOK, Engaged

(* Every step keeps the types: the whole-row writes write rows, and a slot *)
(* has a run exactly while it is engaged.                                  *)
LEMMA TypeStep == TypeOK /\ [Next]_vars => TypeOK'
<1> SUFFICES ASSUME TypeOK, [Next]_vars
             PROVE  TypeOK'
  OBVIOUS
<1>1. ASSUME NEW j \in Jobs, NEW p \in EnqueuePools, Enqueue(j, p)
      PROVE  TypeOK'
  <2>1. ForJob(j, p, 0, 1) \in Row
    BY ForJobType, SetsAssumption
  <2>2. QED
    BY <1>1, <2>1, NewRunIdFresh, NumbersAssumption DEF Enqueue, TypeOK, slotVars, Engaged
<1>2. ASSUME NEW j \in Jobs, DeleteJob(j)
      PROVE  TypeOK'
  BY <1>2 DEF DeleteJob, TypeOK, slotVars, Engaged
<1>3. CASE Tick
  BY <1>3, AgeType, NumbersAssumption DEF Tick, Fault, TypeOK, Engaged
<1>4. CASE ReclaimExpired
  <2>1. \A r \in RunIds :
          [runs[r] EXCEPT !.status = "queued", !.by = NoWorker, !.lease = NoLease] \in Row
    BY RequeueType DEF TypeOK
  <2>2. runs' \in [RunIds -> Row]
    BY <1>4, <2>1 DEF ReclaimExpired, TypeOK
  <2>3. QED
    BY <1>4, <2>2 DEF ReclaimExpired, Reclaimable, TypeOK, slotVars, Engaged
<1>5. ASSUME NEW w \in Workers, NEW r \in RunIds, ClaimNextQueued(w, r)
      PROVE  TypeOK'
  <2> DEFINE claimed == [runs[r] EXCEPT !.status = "claimed", !.by = w, !.lease = TTL]
  <2>1. claimed \in Row
    BY ClaimType DEF TypeOK
  <2> HIDE DEF claimed
  <2>2. runs' = [runs EXCEPT ![r] = claimed] /\ copy' = [copy EXCEPT ![w] = claimed]
    BY <1>5 DEF ClaimNextQueued, claimed
  <2>3. QED
    BY <1>5, <2>1, <2>2, SetsAssumption DEF ClaimNextQueued, TypeOK, Engaged
<1>6. ASSUME NEW w \in Workers, JobNotFound(w)
      PROVE  TypeOK'
  <2>1. [copy[w] EXCEPT !.status = "failed"] \in Row
    BY StatusType DEF TypeOK, Status, Terminal
  <2>2. QED
    BY <1>6, <2>1, ReleaseType, NumbersAssumption DEF JobNotFound, Fault, TypeOK, Engaged
<1>7. ASSUME NEW w \in Workers, StartRun(w)
      PROVE  TypeOK'
  <2>1. [copy[w] EXCEPT !.status = "running"] \in Row
    BY StatusType DEF TypeOK, Status
  <2>2. QED
    BY <1>7, <2>1 DEF StartRun, UpdateRun, TypeOK, Engaged
<1>8. ASSUME NEW w \in Workers, RenewRunLease(w)
      PROVE  TypeOK'
  <2>1. \A r \in RunIds : [runs[r] EXCEPT !.lease = TTL] \in Row
    BY RenewType DEF TypeOK
  <2>2. runs' \in [RunIds -> Row]
    BY <1>8, <2>1 DEF RenewRunLease, TypeOK
  <2>3. QED
    BY <1>8, <2>2 DEF RenewRunLease, TypeOK, Engaged
<1>9. ASSUME NEW w \in Workers, Complete(w)
      PROVE  TypeOK'
  <2>1. [copy[w] EXCEPT !.status = "success"] \in Row
    BY StatusType DEF TypeOK, Status, Terminal
  <2>2. QED
    BY <1>9, <2>1, ReleaseType DEF Complete, TypeOK, Engaged
<1>10. ASSUME NEW w \in Workers, NEW s \in Failures, FinishFailed(w, s)
       PROVE  TypeOK'
  <2>1. [copy[w] EXCEPT !.status = s] \in Row
    BY StatusType, NumbersAssumption DEF TypeOK, Status, Terminal
  <2>2. QED
    BY <1>10, <2>1, ReleaseType DEF FinishFailed, TypeOK, Engaged
<1>11. ASSUME NEW w \in Workers, NEW s \in Failures, FailThenRetry(w, s)
       PROVE  TypeOK'
  <2>1. [copy[w] EXCEPT !.status = s] \in Row
    BY StatusType, NumbersAssumption DEF TypeOK, Status, Terminal
  <2>2. QED
    BY <1>11, <2>1 DEF FailThenRetry, UpdateRun, TypeOK, Engaged
<1>12. ASSUME NEW w \in Workers, NEW d \in 0..MaxDelay, CreateRetry(w, d)
       PROVE  TypeOK'
  <2>1. ForJob(copy[w].job, copy[w].pool, d, copy[w].attempt + 1) \in Row
    <3>1. /\ copy[w].job \in Jobs /\ copy[w].pool \in Pools \cup {NoPool}
          /\ copy[w].attempt + 1 \in Nat
          /\ d \in Int
      BY NumbersAssumption DEF TypeOK, Row
    <3>2. QED
      BY <3>1, ForJobType
  <2>2. QED
    BY <1>12, <2>1, ReleaseType, NewRunIdFresh DEF CreateRetry, TypeOK, Engaged
<1>13. ASSUME NEW w \in Workers, Abandon(w)
       PROVE  TypeOK'
  BY <1>13, ReleaseType, NumbersAssumption DEF Abandon, Fault, TypeOK, Engaged
<1>14. ASSUME NEW w \in Workers, RenewError(w)
       PROVE  TypeOK'
  BY <1>14, NumbersAssumption DEF RenewError, Fault, TypeOK, Engaged
<1>15. CASE UNCHANGED vars
  BY <1>15 DEF vars, TypeOK, Engaged
<1>16. QED
  BY <1>1, <1>2, <1>3, <1>4, <1>5, <1>6, <1>7, <1>8, <1>9, <1>10, <1>11, <1>12,
     <1>13, <1>14, <1>15 DEF Next, Slot

(* Every variable always has its type: the run table only ever holds rows, *)
(* whichever slot wrote them and however late.                             *)
THEOREM TypeCorrect == Spec => []TypeOK
<1>1. Init => TypeOK
  BY BlankType, NumbersAssumption DEF Init, TypeOK, Engaged
<1>2. QED
  BY <1>1, TypeStep, PTL DEF Spec

----------------------------------------------------------------------------
(* What a step does to the run table, row by row.                          *)

(* update_run by an engaged slot: its row gets the status and otherwise    *)
(* what the slot's copy says, the other rows are untouched.                *)
LEMMA WriteEffect ==
  ASSUME TypeOK, NEW w \in Workers, Engaged(w), NEW status \in Status,
         runs' = [runs EXCEPT ![rid[w]] = [copy[w] EXCEPT !.status = status]]
  PROVE  /\ rid[w] \in RunIds
         /\ \A q \in RunIds : q # rid[w] => runs'[q] = runs[q]
         /\ runs'[rid[w]].status = status
         /\ runs'[rid[w]].by = copy[w].by
         /\ runs'[rid[w]].lease = copy[w].lease
         /\ runs'[rid[w]].job = copy[w].job
         /\ runs'[rid[w]].pool = copy[w].pool
         /\ runs'[rid[w]].attempt = copy[w].attempt
<1>1. rid[w] \in RunIds
  BY DEF TypeOK, Engaged
<1>2. copy[w] \in Row
  BY DEF TypeOK
<1>3. runs'[rid[w]] = [copy[w] EXCEPT !.status = status]
  BY <1>1 DEF TypeOK
<1>4. QED
  BY <1>1, <1>2, <1>3 DEF TypeOK, Row

(* create_run: the new row is queued, without a claim. *)
LEMMA CreateEffect ==
  ASSUME TypeOK, \E r \in RunIds : Fresh(r), NEW job, NEW pool, NEW sched, NEW attempt,
         runs' = [runs EXCEPT ![NewRunId] = ForJob(job, pool, sched, attempt)]
  PROVE  /\ NewRunId \in RunIds /\ runs[NewRunId].status = "none"
         /\ \A q \in RunIds : q # NewRunId => runs'[q] = runs[q]
         /\ runs'[NewRunId].status = "queued"
         /\ runs'[NewRunId].by = NoWorker
         /\ runs'[NewRunId].lease = NoLease
         /\ runs'[NewRunId].job = job
         /\ runs'[NewRunId].pool = pool
         /\ runs'[NewRunId].attempt = attempt
<1>1. NewRunId \in RunIds /\ runs[NewRunId].status = "none"
  BY NewRunIdFresh DEF Fresh
<1>2. runs'[NewRunId] = ForJob(job, pool, sched, attempt)
  BY <1>1 DEF TypeOK
<1>3. QED
  BY <1>1, <1>2 DEF TypeOK, ForJob

(* claim_next_queued: a queued row and the slot's copy become the same     *)
(* claimed row.                                                            *)
LEMMA ClaimEffect ==
  ASSUME TypeOK, NEW w \in Workers, NEW r \in RunIds, ClaimNextQueued(w, r)
  PROVE  /\ runs[r].status = "queued" /\ pc[w] = "idle"
         /\ \A q \in RunIds : q # r => runs'[q] = runs[q]
         /\ runs'[r].status = "claimed" /\ runs'[r].by = w /\ runs'[r].lease = TTL
         /\ runs'[r].job = runs[r].job /\ runs'[r].pool = runs[r].pool
         /\ runs'[r].attempt = runs[r].attempt
         /\ copy' = [copy EXCEPT ![w] = runs'[r]]
         /\ pc' = [pc EXCEPT ![w] = "claimed"] /\ rid' = [rid EXCEPT ![w] = r]
         /\ UNCHANGED <<jobs, renewing, enqueued, faults, reclaimed, retryOf>>
<1> DEFINE claimed == [runs[r] EXCEPT !.status = "claimed", !.by = w, !.lease = TTL]
<1>1. runs' = [runs EXCEPT ![r] = claimed] /\ copy' = [copy EXCEPT ![w] = claimed]
  BY DEF ClaimNextQueued
<1>2. /\ claimed.status = "claimed" /\ claimed.by = w /\ claimed.lease = TTL
      /\ claimed.job = runs[r].job /\ claimed.pool = runs[r].pool
      /\ claimed.attempt = runs[r].attempt
  BY DEF TypeOK, Row
<1> HIDE DEF claimed
<1>3. runs'[r] = claimed
  BY <1>1 DEF TypeOK
<1>4. QED
  BY <1>1, <1>2, <1>3 DEF ClaimNextQueued, Claimable, TypeOK

(* The clock: rows and copies keep all but their times. *)
LEMMA TickEffect ==
  ASSUME TypeOK, Tick
  PROVE  /\ \A r \in RunIds :
              /\ runs'[r].status = runs[r].status /\ runs'[r].by = runs[r].by
              /\ runs'[r].job = runs[r].job /\ runs'[r].pool = runs[r].pool
              /\ runs'[r].attempt = runs[r].attempt
              /\ runs'[r].lease = NoLease <=> runs[r].lease = NoLease
         /\ \A w \in Workers :
              /\ copy'[w].by = copy[w].by /\ copy'[w].job = copy[w].job
              /\ copy'[w].pool = copy[w].pool /\ copy'[w].attempt = copy[w].attempt
              /\ copy'[w].lease = NoLease <=> copy[w].lease = NoLease
         /\ UNCHANGED <<jobs, pc, rid, renewing, enqueued, reclaimed, retryOf>>
<1>1. \A r \in RunIds : runs'[r] = Age(runs[r]) /\ runs[r] \in Row
  BY DEF Tick, TypeOK
<1>2. \A w \in Workers : copy'[w] = Age(copy[w]) /\ copy[w] \in Row
  BY DEF Tick, TypeOK
<1>3. QED
  BY <1>1, <1>2, AgeType DEF Tick

(* reclaim_expired_run_leases: held rows lose their holder, all others are *)
(* untouched.                                                              *)
LEMMA ReclaimEffect ==
  ASSUME TypeOK, ReclaimExpired
  PROVE  /\ \A r \in RunIds : Reclaimable(r) =>
              /\ Held(runs[r])
              /\ runs'[r].status = "queued"
              /\ runs'[r].by = NoWorker /\ runs'[r].lease = NoLease
              /\ runs'[r].job = runs[r].job /\ runs'[r].pool = runs[r].pool
              /\ runs'[r].attempt = runs[r].attempt
              /\ reclaimed'[r]
         /\ \A r \in RunIds : ~Reclaimable(r) =>
              runs'[r] = runs[r] /\ reclaimed'[r] = reclaimed[r]
         /\ UNCHANGED <<jobs, pc, rid, copy, renewing, enqueued, faults, retryOf>>
<1>1. \A r \in RunIds : runs[r] \in Row
  BY DEF TypeOK
<1>2. \A r \in RunIds : Reclaimable(r) =>
        runs'[r] = [runs[r] EXCEPT !.status = "queued", !.by = NoWorker, !.lease = NoLease]
  BY DEF ReclaimExpired
<1>3. \A r \in RunIds : Reclaimable(r) =>
        /\ runs'[r].status = "queued" /\ runs'[r].by = NoWorker /\ runs'[r].lease = NoLease
        /\ runs'[r].job = runs[r].job /\ runs'[r].pool = runs[r].pool
        /\ runs'[r].attempt = runs[r].attempt
  BY <1>1, <1>2 DEF Row
<1>4. QED
  BY <1>3 DEF ReclaimExpired, Reclaimable, slotVars, TypeOK

(* renew_run_lease: at most one lease changes, that of a run the slot      *)
(* holds.                                                                  *)
LEMMA RenewEffect ==
  ASSUME TypeOK, NEW w \in Workers, RenewRunLease(w)
  PROVE  /\ rid[w] \in RunIds
         /\ \A q \in RunIds : q # rid[w] => runs'[q] = runs[q]
         /\ runs'[rid[w]].status = runs[rid[w]].status
         /\ runs'[rid[w]].by = runs[rid[w]].by
         /\ runs'[rid[w]].job = runs[rid[w]].job
         /\ runs'[rid[w]].pool = runs[rid[w]].pool
         /\ runs'[rid[w]].attempt = runs[rid[w]].attempt
         /\ \/ /\ runs[rid[w]].by = w /\ Held(runs[rid[w]])
               /\ runs'[rid[w]].lease = TTL /\ UNCHANGED renewing
            \/ /\ ~(runs[rid[w]].by = w /\ Held(runs[rid[w]]))
               /\ runs'[rid[w]].lease = runs[rid[w]].lease
               /\ renewing' = [renewing EXCEPT ![w] = FALSE]
         /\ UNCHANGED <<jobs, pc, rid, copy, enqueued, faults, reclaimed, retryOf>>
<1>1. rid[w] \in RunIds
  BY DEF TypeOK, Engaged, RenewRunLease
<1>2. runs[rid[w]] \in Row
  BY <1>1 DEF TypeOK
<1>3. CASE runs[rid[w]].by = w /\ Held(runs[rid[w]])
  <2>1. runs' = [runs EXCEPT ![rid[w]] = [runs[rid[w]] EXCEPT !.lease = TTL]]
    BY <1>3 DEF RenewRunLease
  <2>2. runs'[rid[w]] = [runs[rid[w]] EXCEPT !.lease = TTL]
    BY <1>1, <2>1 DEF TypeOK
  <2>3. QED
    BY <1>1, <1>2, <1>3, <2>1, <2>2 DEF RenewRunLease, TypeOK, Row
<1>4. CASE ~(runs[rid[w]].by = w /\ Held(runs[rid[w]]))
  BY <1>1, <1>4 DEF RenewRunLease
<1>5. QED
  BY <1>3, <1>4

----------------------------------------------------------------------------
(* Leases.                                                                 *)

(* A slot's copy names the slot and carries a lease, so that none of its   *)
(* whole-row writes, however late, can take them off a held row.           *)
CopiesCarryALease ==
    \A w \in Workers : Engaged(w) => copy[w].by = w /\ copy[w].lease # NoLease

LeaseInv == HeldRunsCarryALease /\ CopiesCarryALease

(* Every step keeps leases on held rows and off queued ones. *)
LEMMA LeaseStep == TypeOK /\ LeaseInv /\ [Next]_vars => LeaseInv'
<1> SUFFICES ASSUME TypeOK, LeaseInv, [Next]_vars
             PROVE  LeaseInv'
  OBVIOUS
<1> USE SetsAssumption DEF LeaseInv, HeldRunsCarryALease, CopiesCarryALease, Held, Engaged
<1>1. ASSUME NEW j \in Jobs, NEW p \in EnqueuePools, Enqueue(j, p)
      PROVE  LeaseInv'
  <2>1. /\ NewRunId \in RunIds
        /\ \A q \in RunIds : q # NewRunId => runs'[q] = runs[q]
        /\ runs'[NewRunId].status = "queued"
        /\ runs'[NewRunId].by = NoWorker /\ runs'[NewRunId].lease = NoLease
    BY <1>1, CreateEffect DEF Enqueue
  <2>2. QED
    BY <1>1, <2>1 DEF Enqueue, slotVars
<1>2. ASSUME NEW j \in Jobs, DeleteJob(j)
      PROVE  LeaseInv'
  BY <1>2 DEF DeleteJob, slotVars
<1>3. CASE Tick
  BY <1>3, TickEffect
<1>4. CASE ReclaimExpired
  BY <1>4, ReclaimEffect
<1>5. ASSUME NEW w \in Workers, NEW r \in RunIds, ClaimNextQueued(w, r)
      PROVE  LeaseInv'
  <2>1. TTL # NoLease
    BY NumbersAssumption DEF NoLease
  <2>2. QED
    BY <1>5, <2>1, ClaimEffect DEF TypeOK
<1>6. ASSUME NEW w \in Workers, JobNotFound(w)
      PROVE  LeaseInv'
  BY <1>6, WriteEffect DEF JobNotFound, Release, Status, Terminal, TypeOK
<1>7. ASSUME NEW w \in Workers, StartRun(w)
      PROVE  LeaseInv'
  <2>1. copy' = [copy EXCEPT ![w] = [copy[w] EXCEPT !.status = "running"]]
    BY <1>7 DEF StartRun, UpdateRun
  <2>2. /\ copy'[w].by = copy[w].by /\ copy'[w].lease = copy[w].lease
        /\ \A v \in Workers : v # w => copy'[v] = copy[v]
    BY <2>1 DEF TypeOK, Row
  <2>3. QED
    BY <1>7, <2>2, WriteEffect DEF StartRun, UpdateRun, Status, TypeOK
<1>8. ASSUME NEW w \in Workers, RenewRunLease(w)
      PROVE  LeaseInv'
  <2>1. TTL # NoLease
    BY NumbersAssumption DEF NoLease
  <2>2. QED
    BY <1>8, <2>1, RenewEffect
<1>9. ASSUME NEW w \in Workers, Complete(w)
      PROVE  LeaseInv'
  BY <1>9, WriteEffect DEF Complete, Release, Status, Terminal, TypeOK
<1>10. ASSUME NEW w \in Workers, NEW s \in Failures, FinishFailed(w, s)
       PROVE  LeaseInv'
  <2>1. s \in {"failed", "timeout"}
    BY NumbersAssumption
  <2>2. QED
    BY <1>10, <2>1, WriteEffect DEF FinishFailed, Release, Status, Terminal, TypeOK
<1>11. ASSUME NEW w \in Workers, NEW s \in Failures, FailThenRetry(w, s)
       PROVE  LeaseInv'
  <2>1. s \in {"failed", "timeout"}
    BY NumbersAssumption
  <2>2. copy' = [copy EXCEPT ![w] = [copy[w] EXCEPT !.status = s]]
    BY <1>11 DEF FailThenRetry, UpdateRun
  <2>3. /\ copy'[w].by = copy[w].by /\ copy'[w].lease = copy[w].lease
        /\ \A v \in Workers : v # w => copy'[v] = copy[v]
    BY <2>2 DEF TypeOK, Row
  <2>4. QED
    BY <1>11, <2>1, <2>3, WriteEffect DEF FailThenRetry, UpdateRun, Status, Terminal, TypeOK
<1>12. ASSUME NEW w \in Workers, NEW d \in 0..MaxDelay, CreateRetry(w, d)
       PROVE  LeaseInv'
  <2>1. /\ NewRunId \in RunIds
        /\ \A q \in RunIds : q # NewRunId => runs'[q] = runs[q]
        /\ runs'[NewRunId].status = "queued"
        /\ runs'[NewRunId].by = NoWorker /\ runs'[NewRunId].lease = NoLease
    BY <1>12, CreateEffect DEF CreateRetry
  <2>2. QED
    BY <1>12, <2>1 DEF CreateRetry, Release, TypeOK
<1>13. ASSUME NEW w \in Workers, Abandon(w)
       PROVE  LeaseInv'
  BY <1>13 DEF Abandon, Release, TypeOK
<1>14. ASSUME NEW w \in Workers, RenewError(w)
       PROVE  LeaseInv'
  BY <1>14 DEF RenewError
<1>15. CASE UNCHANGED vars
  BY <1>15 DEF vars
<1>16. QED
  BY <1>1, <1>2, <1>3, <1>4, <1>5, <1>6, <1>7, <1>8, <1>9, <1>10, <1>11, <1>12,
     <1>13, <1>14, <1>15 DEF Next, Slot

(* A held run always names a worker and carries a lease, and a queued run  *)
(* neither: reclaim_expired_run_leases can always take a lost run back,    *)
(* and claim_next_queued can always hand it out again.                     *)
THEOREM LeasesCorrect == Spec => []HeldRunsCarryALease
<1>1. Init => LeaseInv
  BY DEF Init, Blank, ForJob, LeaseInv, HeldRunsCarryALease, CopiesCarryALease, Held, Engaged
<1>2. LeaseInv => HeldRunsCarryALease
  BY DEF LeaseInv
<1>3. QED
  BY <1>1, <1>2, LeaseStep, TypeCorrect, PTL DEF Spec

----------------------------------------------------------------------------
(* Who holds a run.                                                        *)

(* While a run has not been reclaimed, its row names the slot that works   *)
(* on it and its status says how far that slot is.  Two slots would both   *)
(* have to be the one the row names.                                       *)
RowMatchesSlot ==
    \A w \in Workers : Engaged(w) =>
        /\ runs[rid[w]].status # "none"
        /\ ~reclaimed[rid[w]] =>
             /\ runs[rid[w]].by = w
             /\ pc[w] = "claimed" => runs[rid[w]].status = "claimed"
             /\ pc[w] = "running" => runs[rid[w]].status = "running"
             /\ pc[w] = "retry" => runs[rid[w]].status \in {"failed", "timeout"}

ReclaimedExist == \A r \in RunIds : reclaimed[r] => runs[r].status # "none"

HolderInv == RowMatchesSlot /\ ReclaimedExist

(* A slot's write touches no run that another slot works on, unless that   *)
(* run was reclaimed.                                                      *)
LEMMA WriteKeepsOthers ==
  ASSUME TypeOK, HolderInv, NEW w \in Workers, Engaged(w),
         NEW status \in Status, status # "none",
         runs' = [runs EXCEPT ![rid[w]] = [copy[w] EXCEPT !.status = status]]
  PROVE  /\ \A v \in Workers : v # w /\ Engaged(v) =>
              /\ runs'[rid[v]].status # "none"
              /\ ~reclaimed[rid[v]] => runs'[rid[v]] = runs[rid[v]]
         /\ \A r \in RunIds : reclaimed[r] => runs'[r].status # "none"
         /\ runs'[rid[w]].status = status /\ runs'[rid[w]].by = copy[w].by
<1>1. /\ rid[w] \in RunIds
      /\ \A q \in RunIds : q # rid[w] => runs'[q] = runs[q]
      /\ runs'[rid[w]].status = status /\ runs'[rid[w]].by = copy[w].by
  BY WriteEffect
<1>2. ASSUME NEW v \in Workers, v # w, Engaged(v), rid[v] = rid[w]
      PROVE  reclaimed[rid[v]]
  BY <1>2 DEF HolderInv, RowMatchesSlot
<1>3. \A v \in Workers : Engaged(v) => rid[v] \in RunIds
  BY DEF TypeOK, Engaged
<1>4. QED
  BY <1>1, <1>2, <1>3 DEF HolderInv, RowMatchesSlot, ReclaimedExist

(* Every step keeps a run that was not reclaimed with its slot. *)
LEMMA HolderStep == TypeOK /\ LeaseInv /\ HolderInv /\ [Next]_vars => HolderInv'
<1> SUFFICES ASSUME TypeOK, LeaseInv, HolderInv, [Next]_vars
             PROVE  HolderInv'
  OBVIOUS
<1> USE DEF HolderInv, RowMatchesSlot, ReclaimedExist, Engaged
<1>1. ASSUME NEW j \in Jobs, NEW p \in EnqueuePools, Enqueue(j, p)
      PROVE  HolderInv'
  <2>1. /\ NewRunId \in RunIds /\ runs[NewRunId].status = "none"
        /\ \A q \in RunIds : q # NewRunId => runs'[q] = runs[q]
        /\ runs'[NewRunId].status = "queued"
    BY <1>1, CreateEffect DEF Enqueue
  <2>2. QED
    BY <1>1, <2>1 DEF Enqueue, slotVars, TypeOK
<1>2. ASSUME NEW j \in Jobs, DeleteJob(j)
      PROVE  HolderInv'
  BY <1>2 DEF DeleteJob, slotVars
<1>3. CASE Tick
  BY <1>3, TickEffect DEF TypeOK
<1>4. CASE ReclaimExpired
  BY <1>4, ReclaimEffect DEF TypeOK
<1>5. ASSUME NEW w \in Workers, NEW r \in RunIds, ClaimNextQueued(w, r)
      PROVE  HolderInv'
  <2>1. /\ runs[r].status = "queued"
        /\ \A q \in RunIds : q # r => runs'[q] = runs[q]
        /\ runs'[r].status = "claimed" /\ runs'[r].by = w
        /\ pc' = [pc EXCEPT ![w] = "claimed"] /\ rid' = [rid EXCEPT ![w] = r]
        /\ reclaimed' = reclaimed
    BY <1>5, ClaimEffect
  <2>2. \A v \in Workers : v # w => pc'[v] = pc[v] /\ rid'[v] = rid[v]
    BY <2>1 DEF TypeOK
  <2>3. pc'[w] = "claimed" /\ rid'[w] = r
    BY <2>1 DEF TypeOK
  <2>4. \A v \in Workers : v # w /\ Engaged(v) /\ rid[v] = r => reclaimed[r]
    BY <2>1 DEF TypeOK
  <2>5. \A v \in Workers : Engaged(v) => rid[v] \in RunIds
    BY DEF TypeOK
  <2>6. RowMatchesSlot'
    BY <2>1, <2>2, <2>3, <2>4, <2>5
  <2>7. QED
    BY <2>1, <2>6
<1>6. ASSUME NEW w \in Workers, JobNotFound(w)
      PROVE  HolderInv'
  <2>1. /\ \A v \in Workers : v # w /\ Engaged(v) =>
             /\ runs'[rid[v]].status # "none"
             /\ ~reclaimed[rid[v]] => runs'[rid[v]] = runs[rid[v]]
        /\ \A r \in RunIds : reclaimed[r] => runs'[r].status # "none"
    BY <1>6, WriteKeepsOthers DEF JobNotFound, Status, Terminal
  <2>2. QED
    BY <1>6, <2>1 DEF JobNotFound, Release, TypeOK
<1>7. ASSUME NEW w \in Workers, StartRun(w)
      PROVE  HolderInv'
  BY <1>7, WriteKeepsOthers DEF StartRun, UpdateRun, Status, TypeOK, LeaseInv,
     CopiesCarryALease
<1>8. ASSUME NEW w \in Workers, RenewRunLease(w)
      PROVE  HolderInv'
  BY <1>8, RenewEffect DEF TypeOK
<1>9. ASSUME NEW w \in Workers, Complete(w)
      PROVE  HolderInv'
  BY <1>9, WriteKeepsOthers DEF Complete, Release, Status, Terminal, TypeOK
<1>10. ASSUME NEW w \in Workers, NEW s \in Failures, FinishFailed(w, s)
       PROVE  HolderInv'
  <2>1. s \in {"failed", "timeout"}
    BY NumbersAssumption
  <2>2. QED
    BY <1>10, <2>1, WriteKeepsOthers DEF FinishFailed, Release, Status, Terminal, TypeOK
<1>11. ASSUME NEW w \in Workers, NEW s \in Failures, FailThenRetry(w, s)
       PROVE  HolderInv'
  <2>1. s \in {"failed", "timeout"}
    BY NumbersAssumption
  <2>2. QED
    BY <1>11, <2>1, WriteKeepsOthers DEF FailThenRetry, UpdateRun, Status, Terminal, TypeOK,
       LeaseInv, CopiesCarryALease
<1>12. ASSUME NEW w \in Workers, NEW d \in 0..MaxDelay, CreateRetry(w, d)
       PROVE  HolderInv'
  <2>1. /\ NewRunId \in RunIds /\ runs[NewRunId].status = "none"
        /\ \A q \in RunIds : q # NewRunId => runs'[q] = runs[q]
        /\ runs'[NewRunId].status = "queued"
    BY <1>12, CreateEffect DEF CreateRetry
  <2>2. QED
    BY <1>12, <2>1 DEF CreateRetry, Release, TypeOK
<1>13. ASSUME NEW w \in Workers, Abandon(w)
       PROVE  HolderInv'
  BY <1>13 DEF Abandon, Release, TypeOK
<1>14. ASSUME NEW w \in Workers, RenewError(w)
       PROVE  HolderInv'
  BY <1>14 DEF RenewError
<1>15. CASE UNCHANGED vars
  BY <1>15 DEF vars
<1>16. QED
  BY <1>1, <1>2, <1>3, <1>4, <1>5, <1>6, <1>7, <1>8, <1>9, <1>10, <1>11, <1>12,
     <1>13, <1>14, <1>15 DEF Next, Slot

(* What is known of every state so far. *)
SafeInv == TypeOK /\ LeaseInv /\ HolderInv

(* The invariants hold throughout. *)
LEMMA SafeAlways == Spec => []SafeInv
<1>1. Init => LeaseInv /\ HolderInv
  BY DEF Init, Blank, ForJob, LeaseInv, HeldRunsCarryALease, CopiesCarryALease, Held, Engaged,
     HolderInv, RowMatchesSlot, ReclaimedExist
<1>2. QED
  BY <1>1, LeaseStep, HolderStep, TypeCorrect, PTL DEF Spec, SafeInv

(* At most one slot works on a run that was not reclaimed, and the row     *)
(* names that slot: claim_next_queued hands a run out once.                *)
THEOREM SoleHolderCorrect == Spec => []SoleHolder
<1>1. SafeInv => SoleHolder
  BY SetsAssumption DEF SafeInv, TypeOK, HolderInv, RowMatchesSlot, SoleHolder, Engaged
<1>2. QED
  BY <1>1, SafeAlways, PTL

----------------------------------------------------------------------------
(* A finished run stays finished.                                          *)

(* Every step leaves the status of a finished run alone: who writes to it  *)
(* works on it, and who works on it has not finished it yet.               *)
LEMMA TerminalStep ==
  ASSUME SafeInv, [Next]_vars, NEW r \in RunIds,
         runs[r].status \in Terminal, ~reclaimed[r]
  PROVE  runs'[r].status = runs[r].status
<1> USE DEF SafeInv, Terminal
<1>1. ASSUME NEW w \in Workers, pc[w] \in {"claimed", "running"}, NEW status \in Status,
             runs' = [runs EXCEPT ![rid[w]] = [copy[w] EXCEPT !.status = status]]
      PROVE  runs'[r].status = runs[r].status
  <2>1. rid[w] # r
    BY <1>1 DEF HolderInv, RowMatchesSlot, Engaged
  <2>2. QED
    BY <1>1, <2>1, WriteEffect DEF Engaged
<1>2. ASSUME NEW job, NEW pool, NEW sched, NEW attempt, \E q \in RunIds : Fresh(q),
             runs' = [runs EXCEPT ![NewRunId] = ForJob(job, pool, sched, attempt)]
      PROVE  runs'[r].status = runs[r].status
  <2>1. NewRunId # r /\ runs'[r] = runs[r]
    BY <1>2, CreateEffect
  <2>2. QED
    BY <2>1
<1>3. Failures \subseteq Status
  BY NumbersAssumption DEF Status
<1>4. CASE Tick
  BY <1>4, TickEffect
<1>5. CASE ReclaimExpired
  BY <1>5, ReclaimEffect DEF Held
<1>6. ASSUME NEW w \in Workers, NEW q \in RunIds, ClaimNextQueued(w, q)
      PROVE  runs'[r].status = runs[r].status
  BY <1>6, ClaimEffect
<1>7. ASSUME NEW w \in Workers, RenewRunLease(w)
      PROVE  runs'[r].status = runs[r].status
  BY <1>7, RenewEffect
<1>8. ASSUME NEW w \in Workers, JobNotFound(w) \/ StartRun(w) \/ Complete(w)
      PROVE  runs'[r].status = runs[r].status
  BY <1>1, <1>8 DEF JobNotFound, StartRun, Complete, UpdateRun, Status
<1>9. ASSUME NEW w \in Workers, NEW s \in Failures, FinishFailed(w, s) \/ FailThenRetry(w, s)
      PROVE  runs'[r].status = runs[r].status
  BY <1>1, <1>3, <1>9 DEF FinishFailed, FailThenRetry, UpdateRun
<1>10. ASSUME NEW w \in Workers, NEW d \in 0..MaxDelay, CreateRetry(w, d)
       PROVE  runs'[r].status = runs[r].status
  BY <1>2, <1>10 DEF CreateRetry
<1>11. ASSUME NEW j \in Jobs, NEW p \in EnqueuePools, Enqueue(j, p)
       PROVE  runs'[r].status = runs[r].status
  BY <1>2, <1>11 DEF Enqueue
<1>12. ASSUME NEW w \in Workers, Abandon(w) \/ RenewError(w)
       PROVE  runs'[r].status = runs[r].status
  BY <1>12 DEF Abandon, RenewError
<1>13. ASSUME NEW j \in Jobs, DeleteJob(j)
       PROVE  runs'[r].status = runs[r].status
  BY <1>13 DEF DeleteJob
<1>14. CASE UNCHANGED vars
  BY <1>14 DEF vars
<1>15. QED
  BY <1>4, <1>5, <1>6, <1>7, <1>8, <1>9, <1>10, <1>11, <1>12, <1>13, <1>14 DEF Next, Slot

(* The outcome of a run that was never reclaimed is written once and never *)
(* overwritten, although update_run compares nothing.                      *)
THEOREM TerminalIsFinalCorrect == Spec => TerminalIsFinal
<1>1. SafeInv /\ [Next]_vars =>
        [\A r \in RunIds :
           runs[r].status \in Terminal /\ ~reclaimed[r] =>
               runs'[r].status = runs[r].status]_vars
  BY TerminalStep
<1>2. QED
  BY <1>1, SafeAlways, PTL DEF Spec, TerminalIsFinal

----------------------------------------------------------------------------
(* Without faults nothing is reclaimed.                                    *)

(* As long as nothing went wrong, every held run is in the hands of the    *)
(* slot its row names; that slot's copy is current until the run starts,   *)
(* its renewal task is alive from then on, and the lease is live.          *)
AllIsWell ==
    /\ \A r \in RunIds : ~reclaimed[r]
    /\ \A r \in RunIds : Held(runs[r]) => runs[r].by \in Workers /\ rid[runs[r].by] = r
    /\ \A w \in Workers :
         pc[w] = "claimed" => copy[w].lease > 0 /\ runs[rid[w]] = copy[w]
    /\ \A w \in Workers :
         pc[w] = "running" => renewing[w] /\ runs[rid[w]].lease > 0

HealthInv ==
    /\ \A w \in Workers : pc[w] \in {"idle", "claimed"} => ~renewing[w]
    /\ faults = 0 => AllIsWell

(* A write of an engaged slot that ends its run keeps the others well. *)
LEMMA EndKeepsWell ==
  ASSUME SafeInv, AllIsWell, NEW w \in Workers, Engaged(w), NEW status \in Terminal,
         runs' = [runs EXCEPT ![rid[w]] = [copy[w] EXCEPT !.status = status]],
         reclaimed' = reclaimed,
         \A v \in Workers : v # w =>
             /\ pc'[v] = pc[v] /\ rid'[v] = rid[v] /\ copy'[v] = copy[v]
             /\ renewing'[v] = renewing[v],
         pc'[w] \in {"idle", "retry"}
  PROVE  AllIsWell'
<1>1. /\ rid[w] \in RunIds
      /\ \A q \in RunIds : q # rid[w] => runs'[q] = runs[q]
      /\ runs'[rid[w]].status = status
  BY WriteEffect DEF SafeInv, Status
<1>2. ~Held(runs'[rid[w]])
  BY <1>1 DEF Held, Terminal
<1>3. \A v \in Workers : Engaged(v) => rid[v] \in RunIds /\ ~reclaimed[rid[v]]
  BY DEF SafeInv, TypeOK, Engaged, AllIsWell
<1>4. \A v \in Workers : v # w /\ Engaged(v) => rid[v] # rid[w]
  BY <1>3 DEF SafeInv, HolderInv, RowMatchesSlot
<1>5. \A v \in Workers : v # w /\ Engaged(v) => runs'[rid[v]] = runs[rid[v]]
  BY <1>1, <1>3, <1>4
<1>6. \A r \in RunIds : Held(runs'[r]) => runs'[r].by \in Workers /\ rid'[runs'[r].by] = r
  <2>1. SUFFICES ASSUME NEW r \in RunIds, Held(runs'[r])
                 PROVE  runs'[r].by \in Workers /\ rid'[runs'[r].by] = r
    OBVIOUS
  <2>2. r # rid[w] /\ runs'[r] = runs[r]
    BY <1>1, <1>2, <2>1
  <2>3. runs[r].by \in Workers /\ rid[runs[r].by] = r
    BY <2>1, <2>2 DEF AllIsWell
  <2>4. QED
    BY <2>2, <2>3
<1>7. ASSUME NEW v \in Workers, pc'[v] \in {"claimed", "running"}
      PROVE  /\ v # w /\ Engaged(v)
             /\ pc'[v] = pc[v] /\ rid'[v] = rid[v] /\ copy'[v] = copy[v]
             /\ renewing'[v] = renewing[v] /\ runs'[rid'[v]] = runs[rid[v]]
  <2>1. v # w
    BY <1>7
  <2>2. pc'[v] = pc[v] /\ rid'[v] = rid[v] /\ copy'[v] = copy[v] /\ renewing'[v] = renewing[v]
    BY <2>1
  <2>3. QED
    BY <1>5, <1>7, <2>1, <2>2 DEF Engaged
<1>8. \A v \in Workers :
        pc'[v] = "claimed" => copy'[v].lease > 0 /\ runs'[rid'[v]] = copy'[v]
  BY <1>7 DEF AllIsWell
<1>9. \A v \in Workers :
        pc'[v] = "running" => renewing'[v] /\ runs'[rid'[v]].lease > 0
  BY <1>7 DEF AllIsWell
<1>10. \A r \in RunIds : ~reclaimed'[r]
  BY DEF AllIsWell
<1>11. QED
  BY <1>6, <1>8, <1>9, <1>10 DEF AllIsWell

(* Creating a run touches nothing that anybody holds. *)
LEMMA CreateKeepsWell ==
  ASSUME SafeInv, AllIsWell, \E r \in RunIds : Fresh(r),
         NEW job, NEW pool, NEW sched, NEW attempt,
         runs' = [runs EXCEPT ![NewRunId] = ForJob(job, pool, sched, attempt)]
  PROVE  /\ \A v \in Workers : Engaged(v) => runs'[rid[v]] = runs[rid[v]]
         /\ \A r \in RunIds : Held(runs'[r]) => runs'[r] = runs[r]
<1>1. /\ NewRunId \in RunIds /\ runs[NewRunId].status = "none"
      /\ \A q \in RunIds : q # NewRunId => runs'[q] = runs[q]
      /\ runs'[NewRunId].status = "queued"
  BY CreateEffect DEF SafeInv
<1>2. \A v \in Workers : Engaged(v) => rid[v] \in RunIds /\ rid[v] # NewRunId
  BY <1>1 DEF SafeInv, TypeOK, HolderInv, RowMatchesSlot, Engaged
<1>3. QED
  BY <1>1, <1>2 DEF Held

(* Every step that is not itself a fault keeps all well. *)
LEMMA HealthStep == SafeInv /\ HealthInv /\ [Next]_vars => HealthInv'
<1> SUFFICES ASSUME SafeInv, HealthInv, [Next]_vars
             PROVE  HealthInv'
  OBVIOUS
<1>0. /\ faults \in Nat
      /\ \A w \in Workers : rid[w] \in RunIds <=> pc[w] # "idle"
      /\ \A w \in Workers : pc[w] \in {"idle", "claimed", "running", "retry"}
      /\ \A r \in RunIds : runs[r] \in Row
      /\ Fault => faults' # 0
  BY SetsAssumption, NumbersAssumption DEF SafeInv, TypeOK, Engaged, Fault
<1>1. ASSUME NEW j \in Jobs, NEW p \in EnqueuePools, Enqueue(j, p)
      PROVE  HealthInv'
  <2>1. CASE faults = 0
    <3>1. /\ \A v \in Workers : Engaged(v) => runs'[rid[v]] = runs[rid[v]]
          /\ \A r \in RunIds : Held(runs'[r]) => runs'[r] = runs[r]
      BY <1>1, <2>1, CreateKeepsWell DEF Enqueue, HealthInv
    <3>2. QED
      BY <1>1, <2>1, <3>1 DEF Enqueue, slotVars, HealthInv, AllIsWell, Engaged
  <2>2. QED
    BY <1>1, <2>1 DEF Enqueue, slotVars, HealthInv
<1>2. ASSUME NEW j \in Jobs, DeleteJob(j)
      PROVE  HealthInv'
  BY <1>2 DEF DeleteJob, slotVars, HealthInv, AllIsWell
<1>3. CASE Tick
  <2>1. CASE faults' = 0
    <3>1. faults = 0 /\ AllIsWell /\ \A w \in Workers : ~Stalls(w)
      BY <1>0, <1>3, <2>1 DEF Tick, HealthInv
    <3>2. /\ \A r \in RunIds : runs'[r] = Age(runs[r])
          /\ \A w \in Workers : copy'[w] = Age(copy[w])
          /\ UNCHANGED <<pc, rid, renewing, reclaimed>>
      BY <1>3 DEF Tick
    <3>3. \A r \in RunIds : Held(runs'[r]) => Held(runs[r]) /\ runs'[r].by = runs[r].by
      BY <1>0, <3>2, AgeType DEF Held
    <3>4. ASSUME NEW w \in Workers, pc[w] = "claimed"
          PROVE  copy'[w].lease > 0 /\ runs'[rid[w]] = copy'[w]
      <4>1. copy[w] \in Row /\ copy[w].lease > 0 /\ copy[w].lease # 1
        BY <3>1, <3>4 DEF AllIsWell, Stalls, SafeInv, TypeOK
      <4>2. runs'[rid[w]] = copy'[w]
        BY <1>0, <3>1, <3>2, <3>4 DEF AllIsWell
      <4>3. QED
        BY <3>2, <4>1, <4>2, AgeType
    <3>5. ASSUME NEW w \in Workers, pc[w] = "running"
          PROVE  runs'[rid[w]].lease > 0
      <4>1. /\ rid[w] \in RunIds /\ renewing[w] /\ runs[rid[w]].lease > 0
            /\ runs[rid[w]].by = w /\ Held(runs[rid[w]])
        BY <1>0, <3>1, <3>5 DEF AllIsWell, SafeInv, HolderInv, RowMatchesSlot, Engaged, Held
      <4>2. runs[rid[w]].lease # 1
        BY <3>1, <3>5, <4>1 DEF Stalls
      <4>3. QED
        BY <1>0, <3>2, <4>1, <4>2, AgeType
    <3>6. QED
      BY <2>1, <3>1, <3>2, <3>3, <3>4, <3>5 DEF HealthInv, AllIsWell
  <2>2. CASE faults' # 0
    BY <1>3, <2>2 DEF Tick, HealthInv
  <2>3. QED
    BY <2>1, <2>2
<1>4. CASE ReclaimExpired
  <2>1. CASE faults = 0
    <3>1. PICK r \in RunIds : Reclaimable(r)
      BY <1>4 DEF ReclaimExpired
    <3>2. AllIsWell /\ Held(runs[r]) /\ ~(runs[r].lease > 0)
      BY <1>0, <2>1, <3>1 DEF HealthInv, Reclaimable, Expired, Row, NoLease
    <3>3. PICK w \in Workers : runs[r].by = w /\ rid[w] = r
      BY <3>2 DEF AllIsWell
    <3>4. pc[w] \in {"claimed", "running"}
      BY <1>0, <3>2, <3>3 DEF AllIsWell, SafeInv, HolderInv, RowMatchesSlot, Engaged, Held
    <3>5. QED
      BY <3>2, <3>3, <3>4 DEF AllIsWell
  <2>2. QED
    BY <1>4, <2>1, ReclaimEffect DEF HealthInv, SafeInv
<1>5. ASSUME NEW w \in Workers, NEW r \in RunIds, ClaimNextQueued(w, r)
      PROVE  HealthInv'
  <2>1. /\ \A q \in RunIds : q # r => runs'[q] = runs[q]
        /\ runs[r].status = "queued"
        /\ runs'[r].by = w /\ runs'[r] = copy'[w] /\ copy'[w].lease = TTL
        /\ pc[w] = "idle" /\ pc' = [pc EXCEPT ![w] = "claimed"]
        /\ rid' = [rid EXCEPT ![w] = r]
        /\ \A v \in Workers : v # w => copy'[v] = copy[v]
        /\ UNCHANGED <<renewing, faults, reclaimed>>
    <3>1. TypeOK /\ copy \in [Workers -> Row]
      BY DEF SafeInv, TypeOK
    <3>2. /\ runs'[r].lease = TTL
          /\ copy' = [copy EXCEPT ![w] = runs'[r]]
      BY <1>5, <3>1, ClaimEffect
    <3>3. copy'[w] = runs'[r] /\ \A v \in Workers : v # w => copy'[v] = copy[v]
      BY <3>1, <3>2
    <3>4. QED
      BY <1>5, <3>1, <3>2, <3>3, ClaimEffect
  <2>2. pc'[w] = "claimed" /\ rid'[w] = r
        /\ \A v \in Workers : v # w => pc'[v] = pc[v] /\ rid'[v] = rid[v]
    BY <2>1 DEF SafeInv, TypeOK
  <2>3. CASE faults = 0
    <3>1. AllIsWell
      BY <2>3 DEF HealthInv
    <3>2. \A v \in Workers : Engaged(v) => v # w /\ rid[v] # r
      BY <1>0, <2>1, <3>1 DEF SafeInv, HolderInv, RowMatchesSlot, Engaged, AllIsWell
    <3>3. \A v \in Workers : Engaged(v) => runs'[rid[v]] = runs[rid[v]]
      BY <1>0, <2>1, <3>2 DEF Engaged
    <3>4. ASSUME NEW q \in RunIds, Held(runs'[q])
          PROVE  runs'[q].by \in Workers /\ rid'[runs'[q].by] = q
      <4>1. CASE q = r
        BY <2>1, <2>2, <4>1
      <4>2. CASE q # r
        <5>1. runs[q].by \in Workers /\ rid[runs[q].by] = q /\ runs'[q] = runs[q]
          BY <2>1, <3>1, <3>4, <4>2 DEF AllIsWell
        <5>2. runs[q].by # w
          BY <1>0, <2>1, <5>1
        <5>3. QED
          BY <2>2, <5>1, <5>2
      <4>3. QED
        BY <4>1, <4>2
    <3>5. ASSUME NEW v \in Workers, pc'[v] = "claimed"
          PROVE  copy'[v].lease > 0 /\ runs'[rid'[v]] = copy'[v]
      <4>1. CASE v = w
        BY <2>1, <2>2, <4>1, NumbersAssumption
      <4>2. CASE v # w
        BY <2>1, <2>2, <3>1, <3>3, <3>5, <4>2 DEF AllIsWell, Engaged
      <4>3. QED
        BY <4>1, <4>2
    <3>6. ASSUME NEW v \in Workers, pc'[v] = "running"
          PROVE  renewing'[v] /\ runs'[rid'[v]].lease > 0
      <4>1. v # w /\ pc[v] = "running" /\ rid'[v] = rid[v]
        BY <2>2, <3>6
      <4>2. QED
        BY <2>1, <3>1, <3>3, <4>1 DEF AllIsWell, Engaged
    <3>7. AllIsWell'
      BY <2>1, <3>1, <3>4, <3>5, <3>6 DEF AllIsWell
    <3>8. QED
      BY <2>1, <2>2, <3>7 DEF HealthInv
  <2>4. QED
    BY <2>1, <2>2, <2>3 DEF HealthInv
<1>6. ASSUME NEW w \in Workers, JobNotFound(w)
      PROVE  HealthInv'
  <2>1. /\ faults' = 0 => faults = 0
        /\ Engaged(w) /\ pc'[w] = "idle" /\ ~renewing'[w]
        /\ \A v \in Workers : v # w =>
             /\ pc'[v] = pc[v] /\ rid'[v] = rid[v] /\ copy'[v] = copy[v]
             /\ renewing'[v] = renewing[v]
    BY <1>0, <1>6 DEF JobNotFound, Release, Engaged, SafeInv, TypeOK
  <2>2. AllIsWell => AllIsWell'
    BY <1>6, <2>1, EndKeepsWell DEF JobNotFound, Terminal
  <2>3. QED
    BY <2>1, <2>2 DEF HealthInv
<1>7. ASSUME NEW w \in Workers, StartRun(w)
      PROVE  HealthInv'
  <2>1. /\ faults' = faults /\ reclaimed' = reclaimed /\ rid' = rid
        /\ Engaged(w) /\ pc[w] = "claimed" /\ pc'[w] = "running" /\ renewing'[w]
        /\ \A v \in Workers : v # w =>
             pc'[v] = pc[v] /\ copy'[v] = copy[v] /\ renewing'[v] = renewing[v]
    BY <1>7 DEF StartRun, UpdateRun, Engaged, SafeInv, TypeOK
  <2>2. CASE faults = 0
    <3>1. AllIsWell
      BY <2>2 DEF HealthInv
    <3>2. /\ rid[w] \in RunIds
          /\ \A q \in RunIds : q # rid[w] => runs'[q] = runs[q]
          /\ runs'[rid[w]].by = copy[w].by /\ runs'[rid[w]].lease = copy[w].lease
      BY <1>0, <1>7, <2>1, WriteEffect DEF StartRun, UpdateRun, SafeInv, Status
    <3>3. copy[w].lease > 0 /\ copy[w].by = w
      BY <2>1, <3>1 DEF AllIsWell, SafeInv, LeaseInv, CopiesCarryALease, HolderInv,
         RowMatchesSlot, Engaged
    <3>4. \A v \in Workers : v # w /\ Engaged(v) => runs'[rid[v]] = runs[rid[v]]
      BY <1>0, <2>1, <3>1, <3>2 DEF AllIsWell, SafeInv, HolderInv, RowMatchesSlot, Engaged
    <3>5. \A q \in RunIds : Held(runs'[q]) => runs'[q].by \in Workers /\ rid'[runs'[q].by] = q
      <4>1. SUFFICES ASSUME NEW q \in RunIds, Held(runs'[q])
                     PROVE  runs'[q].by \in Workers /\ rid[runs'[q].by] = q
        BY <2>1
      <4>2. CASE q = rid[w]
        BY <3>2, <3>3, <4>2
      <4>3. CASE q # rid[w]
        BY <3>1, <3>2, <4>1, <4>3 DEF AllIsWell
      <4>4. QED
        BY <4>2, <4>3
    <3>6. \A v \in Workers :
            pc'[v] = "claimed" => copy'[v].lease > 0 /\ runs'[rid'[v]] = copy'[v]
      BY <2>1, <3>1, <3>4 DEF AllIsWell, Engaged
    <3>7. \A v \in Workers :
            pc'[v] = "running" => renewing'[v] /\ runs'[rid'[v]].lease > 0
      BY <2>1, <3>1, <3>2, <3>3, <3>4 DEF AllIsWell, Engaged
    <3>8. AllIsWell'
      BY <2>1, <3>1, <3>5, <3>6, <3>7 DEF AllIsWell
    <3>9. QED
      BY <2>1, <3>8 DEF HealthInv
  <2>3. QED
    BY <2>1, <2>2 DEF HealthInv
<1>8. ASSUME NEW w \in Workers, RenewRunLease(w)
      PROVE  HealthInv'
  <2>1. /\ \A q \in RunIds : runs'[q].status = runs[q].status /\ runs'[q].by = runs[q].by
        /\ UNCHANGED <<pc, rid, copy, faults, reclaimed>>
        /\ pc[w] \in {"running", "retry"} /\ rid[w] \in RunIds
        /\ \A q \in RunIds : q # rid[w] => runs'[q] = runs[q]
        /\ \A v \in Workers : v # w => renewing'[v] = renewing[v]
    BY <1>0, <1>8, RenewEffect DEF RenewRunLease, SafeInv, TypeOK, HealthInv, Engaged
  <2>2. CASE faults = 0
    <3>1. AllIsWell
      BY <2>2 DEF HealthInv
    <3>2. \A v \in Workers : v # w /\ Engaged(v) => rid[v] # rid[w] /\ runs'[rid[v]] = runs[rid[v]]
      BY <1>0, <2>1, <3>1 DEF AllIsWell, SafeInv, HolderInv, RowMatchesSlot, Engaged
    <3>3. pc[w] = "running" => renewing'[w] /\ runs'[rid[w]].lease > 0
      <4>1. SUFFICES ASSUME pc[w] = "running"
                     PROVE  renewing'[w] /\ runs'[rid[w]].lease > 0
        OBVIOUS
      <4>2. runs[rid[w]].by = w /\ Held(runs[rid[w]]) /\ renewing[w]
        BY <2>1, <3>1, <4>1 DEF AllIsWell, SafeInv, HolderInv, RowMatchesSlot, Engaged, Held
      <4>3. runs' = [runs EXCEPT ![rid[w]].lease = TTL] /\ renewing' = renewing
        BY <1>8, <4>2 DEF RenewRunLease
      <4>4. runs \in [RunIds -> Row] /\ TTL > 0
        BY NumbersAssumption DEF SafeInv, TypeOK
      <4>5. runs'[rid[w]].lease = TTL
        BY <2>1, <4>3, <4>4 DEF Row
      <4>6. QED
        BY <4>2, <4>3, <4>4, <4>5
    <3>4. \A q \in RunIds : Held(runs'[q]) => runs'[q].by \in Workers /\ rid'[runs'[q].by] = q
      BY <2>1, <3>1 DEF AllIsWell, Held
    <3>5. \A v \in Workers :
            pc'[v] = "claimed" => copy'[v].lease > 0 /\ runs'[rid'[v]] = copy'[v]
      BY <2>1, <3>1, <3>2 DEF AllIsWell, Engaged
    <3>6. \A v \in Workers :
            pc'[v] = "running" => renewing'[v] /\ runs'[rid'[v]].lease > 0
      BY <2>1, <3>1, <3>2, <3>3 DEF AllIsWell, Engaged
    <3>7. AllIsWell'
      BY <2>1, <3>1, <3>4, <3>5, <3>6 DEF AllIsWell
    <3>8. QED
      BY <2>1, <3>7 DEF HealthInv
  <2>3. QED
    BY <2>1, <2>2 DEF HealthInv
<1>9. ASSUME NEW w \in Workers, NEW s \in Terminal, pc[w] = "running",
             runs' = [runs EXCEPT ![rid[w]] = [copy[w] EXCEPT !.status = s]],
             Release(w), faults' = faults, reclaimed' = reclaimed
      PROVE  HealthInv'
  <2>1. /\ Engaged(w) /\ pc'[w] = "idle" /\ ~renewing'[w]
        /\ \A v \in Workers : v # w =>
             /\ pc'[v] = pc[v] /\ rid'[v] = rid[v] /\ copy'[v] = copy[v]
             /\ renewing'[v] = renewing[v]
    BY <1>9 DEF Release, Engaged, SafeInv, TypeOK
  <2>2. AllIsWell => AllIsWell'
    BY <1>9, <2>1, EndKeepsWell
  <2>3. QED
    BY <1>9, <2>1, <2>2 DEF HealthInv
<1>10. Failures \subseteq Terminal /\ "success" \in Terminal
  BY NumbersAssumption DEF Terminal
<1>11. ASSUME NEW w \in Workers, NEW s \in Failures, FailThenRetry(w, s)
       PROVE  HealthInv'
  <2>1. /\ Engaged(w) /\ pc'[w] = "retry" /\ s \in Terminal
        /\ faults' = faults /\ reclaimed' = reclaimed
        /\ runs' = [runs EXCEPT ![rid[w]] = [copy[w] EXCEPT !.status = s]]
        /\ \A v \in Workers : v # w =>
             /\ pc'[v] = pc[v] /\ rid'[v] = rid[v] /\ copy'[v] = copy[v]
             /\ renewing'[v] = renewing[v]
    BY <1>10, <1>11 DEF FailThenRetry, UpdateRun, Engaged, SafeInv, TypeOK
  <2>2. AllIsWell => AllIsWell'
    BY <2>1, EndKeepsWell
  <2>3. QED
    BY <2>1, <2>2 DEF HealthInv
<1>12. ASSUME NEW w \in Workers, NEW d \in 0..MaxDelay, CreateRetry(w, d)
       PROVE  HealthInv'
  <2>1. /\ pc[w] = "retry" /\ pc'[w] = "idle" /\ ~renewing'[w]
        /\ faults' = faults /\ reclaimed' = reclaimed
        /\ \A v \in Workers : v # w =>
             /\ pc'[v] = pc[v] /\ rid'[v] = rid[v] /\ copy'[v] = copy[v]
             /\ renewing'[v] = renewing[v]
    BY <1>12 DEF CreateRetry, Release, SafeInv, TypeOK
  <2>2. ASSUME AllIsWell
        PROVE  AllIsWell'
    <3>1. /\ \A v \in Workers : Engaged(v) => runs'[rid[v]] = runs[rid[v]]
          /\ \A r \in RunIds : Held(runs'[r]) => runs'[r] = runs[r]
      BY <1>12, <2>2, CreateKeepsWell DEF CreateRetry
    <3>2. ASSUME NEW r \in RunIds, Held(runs'[r])
          PROVE  runs'[r].by \in Workers /\ rid'[runs'[r].by] = r
      <4>1. Held(runs[r]) /\ runs'[r] = runs[r]
        BY <3>1, <3>2
      <4>2. runs[r].by \in Workers /\ rid[runs[r].by] = r
        BY <2>2, <4>1 DEF AllIsWell
      <4>3. runs[r].by # w
        BY <2>1, <2>2, <4>1, <4>2 DEF SafeInv, HolderInv, RowMatchesSlot, AllIsWell, Engaged, Held
      <4>4. QED
        BY <2>1, <4>1, <4>2, <4>3
    <3>3. \A v \in Workers :
            pc'[v] = "claimed" => copy'[v].lease > 0 /\ runs'[rid'[v]] = copy'[v]
      BY <2>1, <2>2, <3>1 DEF AllIsWell, Engaged
    <3>4. \A v \in Workers :
            pc'[v] = "running" => renewing'[v] /\ runs'[rid'[v]].lease > 0
      BY <2>1, <2>2, <3>1 DEF AllIsWell, Engaged
    <3>5. QED
      BY <2>1, <2>2, <3>2, <3>3, <3>4 DEF AllIsWell
  <2>3. QED
    BY <2>1, <2>2 DEF HealthInv
<1>13. ASSUME NEW w \in Workers, Abandon(w)
       PROVE  HealthInv'
  BY <1>0, <1>13 DEF Abandon, Release, HealthInv, SafeInv, TypeOK
<1>14. ASSUME NEW w \in Workers, RenewError(w)
       PROVE  HealthInv'
  BY <1>0, <1>14 DEF RenewError, HealthInv, SafeInv, TypeOK
<1>15. CASE UNCHANGED vars
  BY <1>15 DEF vars, HealthInv, AllIsWell
<1>16. ASSUME NEW w \in Workers, Complete(w)
       PROVE  HealthInv'
  BY <1>9, <1>10, <1>16 DEF Complete
<1>17. ASSUME NEW w \in Workers, NEW s \in Failures, FinishFailed(w, s)
       PROVE  HealthInv'
  BY <1>9, <1>10, <1>17 DEF FinishFailed
<1>18. QED
  BY <1>1, <1>2, <1>3, <1>4, <1>5, <1>6, <1>7, <1>8, <1>11, <1>12, <1>13, <1>14,
     <1>15, <1>16, <1>17 DEF Next, Slot

(* Only a crash, a stall or a store error can cost a worker its run: a     *)
(* live slot marks its run running and renews its lease in time.           *)
THEOREM ReclaimNeedsFaultCorrect == Spec => []ReclaimNeedsFault
<1>1. Init => HealthInv
  BY DEF Init, Blank, ForJob, HealthInv, AllIsWell, Held
<1>2. SafeInv /\ HealthInv => ReclaimNeedsFault
  BY DEF SafeInv, TypeOK, HealthInv, AllIsWell, ReclaimNeedsFault
<1>3. QED
  BY <1>1, <1>2, HealthStep, SafeAlways, PTL DEF Spec

----------------------------------------------------------------------------
(* Retry chains.                                                           *)

(* A slot's copy and the row of its run agree in what a run is: its job,   *)
(* its pool and its attempt.  Reclaimed runs included: nobody ever changes *)
(* these columns, so no late whole-row write can.                          *)
CopiesAgree ==
    \A w \in Workers : Engaged(w) =>
        /\ copy[w].job = runs[rid[w]].job
        /\ copy[w].pool = runs[rid[w]].pool
        /\ copy[w].attempt = runs[rid[w]].attempt

(* Attempts are counted from 1 to one more than the policy's limit, and a  *)
(* slot that is about to create a retry is within the limit.               *)
AttemptsBounded ==
    /\ \A r \in RunIds : ~Fresh(r) =>
          runs[r].attempt \in 1..(MaxAttempts[runs[r].job] + 1)
    /\ \A w \in Workers : pc[w] = "retry" =>
          copy[w].attempt <= MaxAttempts[copy[w].job]

(* A retry and the run it retries are both in the table, and follow each   *)
(* other.                                                                  *)
RetriesFollow ==
    \A s \in RunIds : retryOf[s] # NoRunId =>
        /\ ~Fresh(s) /\ ~Fresh(retryOf[s])
        /\ runs[s].attempt = runs[retryOf[s]].attempt + 1
        /\ runs[s].job = runs[retryOf[s]].job
        /\ runs[s].pool = runs[retryOf[s]].pool

(* A run that was retried, and never reclaimed, has ended and nobody works *)
(* on it any more; so nobody is left to retry it again.                    *)
RetriedIsDone ==
    \A s \in RunIds : retryOf[s] # NoRunId /\ ~reclaimed[retryOf[s]] =>
        /\ runs[retryOf[s]].status \in Terminal
        /\ \A w \in Workers : rid[w] # retryOf[s]

(* No run that was never reclaimed is retried twice. *)
RetriedOnce ==
    \A s, t \in RunIds :
        retryOf[s] # NoRunId /\ retryOf[s] = retryOf[t] /\ ~reclaimed[retryOf[s]] => s = t

(* A slot works on runs of its own pool. *)
SlotsInPool == \A w \in Workers : Engaged(w) => PoolOk(w, runs[rid[w]].pool)

(* The inductive invariant of the chains. *)
ChainInv ==
    /\ CopiesAgree
    /\ AttemptsBounded
    /\ RetriesFollow
    /\ RetriedIsDone
    /\ RetriedOnce
    /\ SlotsInPool

(* Every step keeps what a run is, whoever writes its row.                 *)
LEMMA IdentityStep ==
  ASSUME SafeInv, CopiesAgree, [Next]_vars, NEW r \in RunIds, ~Fresh(r)
  PROVE  /\ runs'[r].status # "none"
         /\ runs'[r].job = runs[r].job
         /\ runs'[r].pool = runs[r].pool
         /\ runs'[r].attempt = runs[r].attempt
<1> DEFINE Same == /\ runs'[r].status # "none"
                   /\ runs'[r].job = runs[r].job
                   /\ runs'[r].pool = runs[r].pool
                   /\ runs'[r].attempt = runs[r].attempt
<1> USE DEF SafeInv, Fresh
<1>1. ASSUME NEW w \in Workers, Engaged(w), NEW status \in Status, status # "none",
             runs' = [runs EXCEPT ![rid[w]] = [copy[w] EXCEPT !.status = status]]
      PROVE  Same
  BY <1>1, WriteEffect DEF CopiesAgree
<1>2. ASSUME NEW job, NEW pool, NEW sched, NEW attempt, \E q \in RunIds : Fresh(q),
             runs' = [runs EXCEPT ![NewRunId] = ForJob(job, pool, sched, attempt)]
      PROVE  Same
  <2>1. NewRunId # r /\ runs'[r] = runs[r]
    BY <1>2, CreateEffect
  <2>2. QED
    BY <2>1
<1>3. Failures \subseteq Status /\ "none" \notin Failures
  BY NumbersAssumption DEF Status, Terminal
<1>4. CASE Tick
  BY <1>4, TickEffect
<1>5. CASE ReclaimExpired
  BY <1>5, ReclaimEffect
<1>6. ASSUME NEW w \in Workers, NEW q \in RunIds, ClaimNextQueued(w, q)
      PROVE  Same
  BY <1>6, ClaimEffect
<1>7. ASSUME NEW w \in Workers, RenewRunLease(w)
      PROVE  Same
  BY <1>7, RenewEffect
<1>8. ASSUME NEW w \in Workers, JobNotFound(w) \/ StartRun(w) \/ Complete(w)
      PROVE  Same
  BY <1>1, <1>8 DEF JobNotFound, StartRun, Complete, UpdateRun, Status, Terminal, Engaged
<1>9. ASSUME NEW w \in Workers, NEW s \in Failures, FinishFailed(w, s) \/ FailThenRetry(w, s)
      PROVE  Same
  BY <1>1, <1>3, <1>9 DEF FinishFailed, FailThenRetry, UpdateRun, Engaged
<1>10. ASSUME NEW w \in Workers, NEW d \in 0..MaxDelay, CreateRetry(w, d)
       PROVE  Same
  BY <1>2, <1>10 DEF CreateRetry
<1>11. ASSUME NEW j \in Jobs, NEW p \in EnqueuePools, Enqueue(j, p)
       PROVE  Same
  BY <1>2, <1>11 DEF Enqueue
<1>12. ASSUME NEW w \in Workers, Abandon(w) \/ RenewError(w)
       PROVE  Same
  BY <1>12 DEF Abandon, RenewError
<1>13. ASSUME NEW j \in Jobs, DeleteJob(j)
       PROVE  Same
  BY <1>13 DEF DeleteJob
<1>14. CASE UNCHANGED vars
  BY <1>14 DEF vars
<1>15. QED
  BY <1>4, <1>5, <1>6, <1>7, <1>8, <1>9, <1>10, <1>11, <1>12, <1>13, <1>14 DEF Next, Slot

(* What a step does to the slots.  A slot that is engaged afterwards was   *)
(* working on the same run before, with a copy that says the same, or has  *)
(* just claimed a queued run of its pool; and a slot enters its retry step *)
(* only within the limit of the policy.                                    *)
LEMMA SlotStep ==
  ASSUME SafeInv, [Next]_vars, NEW v \in Workers, pc'[v] # "idle"
  PROVE  \/ /\ Engaged(v) /\ rid'[v] = rid[v]
            /\ copy'[v].job = copy[v].job
            /\ copy'[v].pool = copy[v].pool
            /\ copy'[v].attempt = copy[v].attempt
            /\ pc'[v] = "retry" => pc[v] = "retry" \/ copy[v].attempt <= MaxAttempts[copy[v].job]
         \/ /\ rid'[v] \in RunIds /\ runs[rid'[v]].status = "queued"
            /\ PoolOk(v, runs[rid'[v]].pool)
            /\ copy'[v].job = runs[rid'[v]].job
            /\ copy'[v].pool = runs[rid'[v]].pool
            /\ copy'[v].attempt = runs[rid'[v]].attempt
            /\ pc'[v] = "claimed"
<1> DEFINE Kept == /\ Engaged(v) /\ rid'[v] = rid[v]
                   /\ copy'[v].job = copy[v].job
                   /\ copy'[v].pool = copy[v].pool
                   /\ copy'[v].attempt = copy[v].attempt
                   /\ pc'[v] = "retry" =>
                        pc[v] = "retry" \/ copy[v].attempt <= MaxAttempts[copy[v].job]
           Claimed == /\ rid'[v] \in RunIds /\ runs[rid'[v]].status = "queued"
                      /\ PoolOk(v, runs[rid'[v]].pool)
                      /\ copy'[v].job = runs[rid'[v]].job
                      /\ copy'[v].pool = runs[rid'[v]].pool
                      /\ copy'[v].attempt = runs[rid'[v]].attempt
                      /\ pc'[v] = "claimed"
<1> USE DEF SafeInv, Engaged
<1>1. ASSUME UNCHANGED <<pc, rid, copy>>
      PROVE  Kept
  BY <1>1
<1>2. ASSUME NEW w \in Workers, Release(w)
      PROVE  Kept
  BY <1>2 DEF Release, TypeOK
<1>3. CASE Tick
  BY <1>3, TickEffect
<1>4. ASSUME NEW w \in Workers, NEW r \in RunIds, ClaimNextQueued(w, r)
      PROVE  Kept \/ Claimed
  <2>1. /\ runs[r].status = "queued" /\ PoolOk(w, runs[r].pool)
        /\ runs'[r].job = runs[r].job /\ runs'[r].pool = runs[r].pool
        /\ runs'[r].attempt = runs[r].attempt
        /\ copy' = [copy EXCEPT ![w] = runs'[r]]
        /\ pc' = [pc EXCEPT ![w] = "claimed"] /\ rid' = [rid EXCEPT ![w] = r]
    <3>1. PoolOk(w, runs[r].pool)
      BY <1>4 DEF ClaimNextQueued, Claimable
    <3>2. QED
      BY <1>4, <3>1, ClaimEffect
  <2>2. CASE v = w
    BY <2>1, <2>2 DEF TypeOK
  <2>3. CASE v # w
    BY <2>1, <2>3 DEF TypeOK
  <2>4. QED
    BY <2>2, <2>3
<1>5. ASSUME NEW w \in Workers, NEW status, UpdateRun(w, status), pc[w] # "idle",
             rid' = rid, \A u \in Workers : u # w => pc'[u] = pc[u],
             pc'[w] = "retry" => ShouldRetry(copy[w])
      PROVE  Kept
  <2>1. copy' = [copy EXCEPT ![w] = [copy[w] EXCEPT !.status = status]]
    BY <1>5 DEF UpdateRun
  <2>2. copy \in [Workers -> Row]
    BY DEF TypeOK
  <2>3. CASE v = w
    <3>1. copy'[v] = [copy[v] EXCEPT !.status = status]
      BY <2>1, <2>2, <2>3
    <3>2. /\ copy'[v].job = copy[v].job /\ copy'[v].pool = copy[v].pool
          /\ copy'[v].attempt = copy[v].attempt
      BY <2>2, <3>1 DEF Row
    <3>3. QED
      BY <1>5, <2>3, <3>2 DEF ShouldRetry
  <2>4. CASE v # w
    BY <1>5, <2>1, <2>2, <2>4
  <2>5. QED
    BY <2>3, <2>4
<1>6. ASSUME NEW w \in Workers, StartRun(w)
      PROVE  Kept
  BY <1>5, <1>6 DEF StartRun, TypeOK
<1>7. ASSUME NEW w \in Workers, NEW s \in Failures, FailThenRetry(w, s)
      PROVE  Kept
  BY <1>5, <1>7 DEF FailThenRetry, TypeOK
<1>8. ASSUME NEW w \in Workers,
             \/ JobNotFound(w) \/ Complete(w) \/ Abandon(w)
             \/ \E s \in Failures : FinishFailed(w, s)
             \/ \E d \in 0..MaxDelay : CreateRetry(w, d)
      PROVE  Kept
  BY <1>2, <1>8 DEF JobNotFound, Complete, Abandon, FinishFailed, CreateRetry
<1>9. ASSUME \/ \E j \in Jobs, p \in EnqueuePools : Enqueue(j, p)
             \/ \E j \in Jobs : DeleteJob(j)
             \/ ReclaimExpired
             \/ \E w \in Workers : RenewRunLease(w) \/ RenewError(w)
             \/ UNCHANGED vars
      PROVE  Kept
  BY <1>1, <1>9 DEF Enqueue, DeleteJob, ReclaimExpired, RenewRunLease, RenewError, vars, slotVars
<1>10. QED
  BY <1>3, <1>4, <1>6, <1>7, <1>8, <1>9 DEF Next, Slot

(* What a step does to the retries.  Either it creates no retry, and a run *)
(* it enqueues is a first attempt; or it is the retry step of one slot.    *)
LEMMA RetryStep ==
  ASSUME SafeInv, [Next]_vars
  PROVE  \/ /\ retryOf' = retryOf
            /\ \A r \in RunIds : Fresh(r) /\ runs'[r].status # "none" => runs'[r].attempt = 1
         \/ \E w \in Workers, s \in RunIds :
              /\ pc[w] = "retry" /\ rid' = [rid EXCEPT ![w] = NoRunId]
              /\ Fresh(s) /\ retryOf' = [retryOf EXCEPT ![s] = rid[w]]
              /\ \A q \in RunIds : q # s => runs'[q] = runs[q]
              /\ runs'[s].status = "queued"
              /\ runs'[s].job = copy[w].job /\ runs'[s].pool = copy[w].pool
              /\ runs'[s].attempt = copy[w].attempt + 1
              /\ reclaimed' = reclaimed
<1> DEFINE None == /\ retryOf' = retryOf
                   /\ \A r \in RunIds :
                        Fresh(r) /\ runs'[r].status # "none" => runs'[r].attempt = 1
           Some(w, s) == /\ pc[w] = "retry" /\ rid' = [rid EXCEPT ![w] = NoRunId]
                         /\ Fresh(s) /\ retryOf' = [retryOf EXCEPT ![s] = rid[w]]
                         /\ \A q \in RunIds : q # s => runs'[q] = runs[q]
                         /\ runs'[s].status = "queued"
                         /\ runs'[s].job = copy[w].job /\ runs'[s].pool = copy[w].pool
                         /\ runs'[s].attempt = copy[w].attempt + 1
                         /\ reclaimed' = reclaimed
<1> USE DEF SafeInv, Fresh
<1>1. ASSUME NEW w \in Workers, Engaged(w), NEW status \in Status,
             runs' = [runs EXCEPT ![rid[w]] = [copy[w] EXCEPT !.status = status]],
             retryOf' = retryOf
      PROVE  None
  <2>1. runs[rid[w]].status # "none"
    BY <1>1 DEF HolderInv, RowMatchesSlot
  <2>2. QED
    BY <1>1, <2>1, WriteEffect
<1>2. ASSUME retryOf' = retryOf, runs' = runs
      PROVE  None
  BY <1>2
<1>3. Failures \subseteq Status
  BY NumbersAssumption DEF Status, Terminal
<1>4. ASSUME Tick
      PROVE  None
  BY <1>4, TickEffect
<1>5. ASSUME ReclaimExpired
      PROVE  None
  BY <1>5, ReclaimEffect DEF Held
<1>6. ASSUME NEW w \in Workers, NEW q \in RunIds, ClaimNextQueued(w, q)
      PROVE  None
  BY <1>6, ClaimEffect
<1>7. ASSUME NEW w \in Workers, RenewRunLease(w)
      PROVE  None
  BY <1>7, RenewEffect
<1>8. ASSUME NEW w \in Workers, JobNotFound(w) \/ StartRun(w) \/ Complete(w)
      PROVE  None
  BY <1>1, <1>8 DEF JobNotFound, StartRun, Complete, UpdateRun, Status, Terminal, Engaged
<1>9. ASSUME NEW w \in Workers, NEW s \in Failures, FinishFailed(w, s) \/ FailThenRetry(w, s)
      PROVE  None
  BY <1>1, <1>3, <1>9 DEF FinishFailed, FailThenRetry, UpdateRun, Engaged
<1>10. ASSUME NEW w \in Workers, NEW d \in 0..MaxDelay, CreateRetry(w, d)
       PROVE  Some(w, NewRunId) /\ NewRunId \in RunIds
  <2>1. /\ NewRunId \in RunIds /\ runs[NewRunId].status = "none"
        /\ \A q \in RunIds : q # NewRunId => runs'[q] = runs[q]
        /\ runs'[NewRunId].status = "queued"
        /\ runs'[NewRunId].job = copy[w].job /\ runs'[NewRunId].pool = copy[w].pool
        /\ runs'[NewRunId].attempt = copy[w].attempt + 1
    BY <1>10, CreateEffect DEF CreateRetry
  <2> HIDE DEF SafeInv
  <2>2. QED
    BY <1>10, <2>1 DEF CreateRetry, Release
<1>11. ASSUME NEW j \in Jobs, NEW p \in EnqueuePools, Enqueue(j, p)
       PROVE  None
  <2>1. /\ NewRunId \in RunIds /\ runs'[NewRunId].attempt = 1
        /\ \A q \in RunIds : q # NewRunId => runs'[q] = runs[q]
    BY <1>11, CreateEffect DEF Enqueue
  <2>2. QED
    BY <1>11, <2>1 DEF Enqueue
<1>12. ASSUME NEW w \in Workers, Abandon(w) \/ RenewError(w)
       PROVE  None
  BY <1>2, <1>12 DEF Abandon, RenewError
<1>13. ASSUME NEW j \in Jobs, DeleteJob(j)
       PROVE  None
  BY <1>2, <1>13 DEF DeleteJob
<1>14. ASSUME UNCHANGED vars
       PROVE  None
  BY <1>2, <1>14 DEF vars
<1> HIDE DEF None, Some
<1>15. None \/ \E w \in Workers, s \in RunIds : Some(w, s)
  BY <1>4, <1>5, <1>6, <1>7, <1>8, <1>9, <1>10, <1>11, <1>12, <1>13, <1>14 DEF Next, Slot
<1>16. QED
  BY <1>15 DEF None, Some

(* A run that was reclaimed stays marked. *)
LEMMA ReclaimedStays ==
  ASSUME TypeOK, [Next]_vars, NEW r \in RunIds, reclaimed[r]
  PROVE  reclaimed'[r]
<1>1. CASE ReclaimExpired
  BY <1>1 DEF ReclaimExpired
<1>2. CASE ~ReclaimExpired
  BY <1>2 DEF Next, Slot, vars, Enqueue, DeleteJob, Tick, ClaimNextQueued, JobNotFound, StartRun,
     RenewRunLease, Complete, FinishFailed, FailThenRetry, CreateRetry, Abandon, RenewError
<1>3. QED
  BY <1>1, <1>2

(* Every step keeps the chains of retries. *)
LEMMA ChainStep == SafeInv /\ ChainInv /\ [Next]_vars /\ TypeOK' => ChainInv'
<1> SUFFICES ASSUME SafeInv, ChainInv, [Next]_vars, TypeOK'
             PROVE  ChainInv'
  OBVIOUS
<1>1. /\ \A w \in Workers : Engaged(w) => rid[w] \in RunIds /\ ~Fresh(rid[w])
      /\ \A w \in Workers : rid[w] \in RunIds => Engaged(w)
      /\ \A w \in Workers : rid'[w] \in RunIds => pc'[w] # "idle"
  BY SetsAssumption DEF SafeInv, TypeOK, HolderInv, RowMatchesSlot, Engaged, Fresh
<1>2. \A r \in RunIds : ~Fresh(r) =>
        /\ runs'[r].status # "none" /\ runs'[r].job = runs[r].job
        /\ runs'[r].pool = runs[r].pool /\ runs'[r].attempt = runs[r].attempt
  BY IdentityStep DEF ChainInv
<1>3. CopiesAgree'
  <2>1. SUFFICES ASSUME NEW v \in Workers, pc'[v] # "idle"
                 PROVE  /\ copy'[v].job = runs'[rid'[v]].job
                        /\ copy'[v].pool = runs'[rid'[v]].pool
                        /\ copy'[v].attempt = runs'[rid'[v]].attempt
    BY DEF CopiesAgree, Engaged
  <2>2. \A r \in RunIds : runs[r].status = "queued" => ~Fresh(r)
    BY DEF Fresh
  <2>3. QED
    BY <1>1, <1>2, <2>1, <2>2, SlotStep DEF ChainInv, CopiesAgree
<1>4. SlotsInPool'
  <2>1. SUFFICES ASSUME NEW v \in Workers, pc'[v] # "idle"
                 PROVE  PoolOk(v, runs'[rid'[v]].pool)
    BY DEF SlotsInPool, Engaged, PoolOk
  <2>2. \A r \in RunIds : runs[r].status = "queued" => ~Fresh(r)
    BY DEF Fresh
  <2>3. QED
    BY <1>1, <1>2, <2>1, <2>2, SlotStep DEF ChainInv, SlotsInPool
<1>5. \A w \in Workers : pc'[w] = "retry" => copy'[w].attempt <= MaxAttempts[copy'[w].job]
  BY SlotStep DEF ChainInv, AttemptsBounded
<1>6. ASSUME NEW r \in RunIds, NEW s \in RunIds,
             retryOf[s] = r, ~reclaimed'[r]
      PROVE  /\ runs'[r].status \in Terminal
             /\ \A w \in Workers : rid'[w] # r
  <2>1. ~reclaimed[r] /\ r # NoRunId
    BY <1>6, ReclaimedStays, SetsAssumption DEF SafeInv
  <2>2. runs[r].status \in Terminal /\ \A w \in Workers : rid[w] # r
    BY <1>6, <2>1 DEF ChainInv, RetriedIsDone
  <2>3. runs'[r].status \in Terminal
    BY <2>1, <2>2, TerminalStep
  <2>4. ASSUME NEW w \in Workers, rid'[w] = r
        PROVE  FALSE
    <3>1. pc'[w] # "idle"
      BY <1>1, <2>4
    <3>2. runs[r].status # "queued"
      BY <2>2 DEF Terminal
    <3>3. QED
      BY <2>2, <2>4, <3>1, <3>2, SlotStep
  <2>5. QED
    BY <2>3, <2>4
<1>7. CASE /\ retryOf' = retryOf
           /\ \A r \in RunIds : Fresh(r) /\ runs'[r].status # "none" => runs'[r].attempt = 1
  <2>1. AttemptsBounded'
    <3>1. SUFFICES ASSUME NEW r \in RunIds, runs'[r].status # "none"
                   PROVE  runs'[r].attempt \in 1..(MaxAttempts[runs'[r].job] + 1)
      BY <1>5 DEF AttemptsBounded, Fresh
    <3>2. MaxAttempts[runs'[r].job] \in Nat
      BY NumbersAssumption DEF TypeOK, Row
    <3>3. CASE Fresh(r)
      BY <1>7, <3>1, <3>2, <3>3
    <3>4. CASE ~Fresh(r)
      BY <1>2, <3>4 DEF ChainInv, AttemptsBounded
    <3>5. QED
      BY <3>3, <3>4
  <2>2. RetriesFollow'
    BY <1>2, <1>7 DEF ChainInv, RetriesFollow, Fresh, SafeInv, TypeOK
  <2>3. RetriedIsDone'
    BY <1>6, <1>7 DEF RetriedIsDone, SafeInv, TypeOK
  <2>4. RetriedOnce'
    <3>1. SUFFICES ASSUME NEW s \in RunIds, NEW t \in RunIds,
                          retryOf[s] # NoRunId, retryOf[s] = retryOf[t], ~reclaimed'[retryOf[s]]
                   PROVE  s = t
      BY <1>7 DEF RetriedOnce
    <3>2. ~reclaimed[retryOf[s]]
      BY <3>1, ReclaimedStays DEF SafeInv, TypeOK
    <3>3. QED
      BY <3>1, <3>2 DEF ChainInv, RetriedOnce
  <2>5. QED
    BY <1>3, <1>4, <2>1, <2>2, <2>3, <2>4 DEF ChainInv
<1>8. CASE \E w \in Workers, s \in RunIds :
              /\ pc[w] = "retry" /\ rid' = [rid EXCEPT ![w] = NoRunId]
              /\ Fresh(s) /\ retryOf' = [retryOf EXCEPT ![s] = rid[w]]
              /\ \A q \in RunIds : q # s => runs'[q] = runs[q]
              /\ runs'[s].status = "queued"
              /\ runs'[s].job = copy[w].job /\ runs'[s].pool = copy[w].pool
              /\ runs'[s].attempt = copy[w].attempt + 1
              /\ reclaimed' = reclaimed
  <2>1. PICK w \in Workers, s \in RunIds :
              /\ pc[w] = "retry" /\ rid' = [rid EXCEPT ![w] = NoRunId]
              /\ Fresh(s) /\ retryOf' = [retryOf EXCEPT ![s] = rid[w]]
              /\ \A q \in RunIds : q # s => runs'[q] = runs[q]
              /\ runs'[s].status = "queued"
              /\ runs'[s].job = copy[w].job /\ runs'[s].pool = copy[w].pool
              /\ runs'[s].attempt = copy[w].attempt + 1
              /\ reclaimed' = reclaimed
    BY <1>8
  <2>2. /\ Engaged(w) /\ rid[w] \in RunIds /\ rid[w] # NoRunId /\ ~Fresh(rid[w]) /\ rid[w] # s
        /\ retryOf'[s] = rid[w] /\ retryOf[s] = NoRunId
        /\ \A t \in RunIds : t # s => retryOf'[t] = retryOf[t]
        /\ rid'[w] = NoRunId /\ \A v \in Workers : v # w => rid'[v] = rid[v]
    BY <1>1, <2>1, SetsAssumption DEF SafeInv, TypeOK, Engaged, ChainInv, RetriesFollow
  <2>3. /\ copy[w].job = runs[rid[w]].job /\ copy[w].pool = runs[rid[w]].pool
        /\ copy[w].attempt = runs[rid[w]].attempt
        /\ copy[w].attempt <= MaxAttempts[copy[w].job]
    BY <2>1, <2>2 DEF ChainInv, CopiesAgree, AttemptsBounded
  <2>4. AttemptsBounded'
    <3>1. SUFFICES ASSUME NEW r \in RunIds, runs'[r].status # "none"
                   PROVE  runs'[r].attempt \in 1..(MaxAttempts[runs'[r].job] + 1)
      BY <1>5 DEF AttemptsBounded, Fresh
    <3>2. CASE r = s
      <4>1. MaxAttempts[copy[w].job] \in Nat /\ copy[w].attempt \in Nat
        BY NumbersAssumption DEF SafeInv, TypeOK, Row
      <4>2. QED
        BY <2>1, <2>3, <3>2, <4>1
    <3>3. CASE r # s
      BY <2>1, <3>1, <3>3 DEF ChainInv, AttemptsBounded, Fresh
    <3>4. QED
      BY <3>2, <3>3
  <2>5. RetriesFollow'
    <3>1. SUFFICES ASSUME NEW t \in RunIds, retryOf'[t] # NoRunId
                   PROVE  /\ runs'[t].status # "none" /\ runs'[retryOf'[t]].status # "none"
                          /\ runs'[t].attempt = runs'[retryOf'[t]].attempt + 1
                          /\ runs'[t].job = runs'[retryOf'[t]].job
                          /\ runs'[t].pool = runs'[retryOf'[t]].pool
      BY DEF RetriesFollow, Fresh
    <3>2. CASE t = s
      BY <2>1, <2>2, <2>3, <3>2 DEF Fresh
    <3>3. CASE t # s
      <4>1. retryOf'[t] = retryOf[t] /\ retryOf[t] \in RunIds
        BY <2>2, <3>1, <3>3 DEF SafeInv, TypeOK
      <4>2. QED
        BY <1>2, <3>1, <4>1 DEF ChainInv, RetriesFollow
    <3>4. QED
      BY <3>2, <3>3
  <2>6. ASSUME ~reclaimed[rid[w]]
        PROVE  /\ runs[rid[w]].status \in Terminal
               /\ \A v \in Workers : rid'[v] # rid[w]
    <3>1. /\ runs[rid[w]].by = w /\ runs[rid[w]].status \in Terminal
      BY <2>1, <2>2, <2>6 DEF SafeInv, HolderInv, RowMatchesSlot, Terminal
    <3>2. \A v \in Workers : rid[v] = rid[w] => v = w
      BY <1>1, <2>2, <2>6, <3>1 DEF SafeInv, HolderInv, RowMatchesSlot
    <3>3. QED
      BY <2>2, <3>1, <3>2
  <2>7. RetriedIsDone'
    <3>1. SUFFICES ASSUME NEW t \in RunIds, retryOf'[t] # NoRunId, ~reclaimed'[retryOf'[t]]
                   PROVE  /\ runs'[retryOf'[t]].status \in Terminal
                          /\ \A v \in Workers : rid'[v] # retryOf'[t]
      BY DEF RetriedIsDone
    <3>2. CASE t = s
      BY <2>1, <2>2, <2>6, <3>1, <3>2
    <3>3. CASE t # s
      <4>1. retryOf'[t] = retryOf[t] /\ retryOf[t] \in RunIds
        BY <2>2, <3>1, <3>3 DEF SafeInv, TypeOK
      <4>2. QED
        BY <1>6, <3>1, <4>1
    <3>4. QED
      BY <3>2, <3>3
  <2>8. RetriedOnce'
    <3>1. \A t \in RunIds : t # s /\ retryOf[t] = rid[w] => reclaimed[rid[w]]
      BY <2>2 DEF ChainInv, RetriedIsDone
    <3>2. QED
      BY <2>1, <2>2, <3>1 DEF ChainInv, RetriedOnce
  <2>9. QED
    BY <1>3, <1>4, <2>4, <2>5, <2>7, <2>8 DEF ChainInv
<1>9. QED
  BY <1>7, <1>8, RetryStep

(* It always holds. *)
LEMMA ChainAlways == Spec => []ChainInv
<1>1. Init => ChainInv
  BY DEF Init, Blank, ForJob, ChainInv, CopiesAgree, AttemptsBounded, RetriesFollow,
     RetriedIsDone, RetriedOnce, SlotsInPool, Engaged, Fresh
<1>2. QED
  BY <1>1, ChainStep, SafeAlways, TypeCorrect, PTL DEF Spec

(* Retries form chains within their job and pool and the policy's limit,   *)
(* and a failed attempt that was never reclaimed is retried at most once,  *)
(* for every retry policy and however many slots and faults there are      *)
(* (finalize_failed_run, claim_next_queued).                               *)
THEOREM RetryChainCorrect == Spec => []RetryChain
<1>1. SafeInv /\ ChainInv => RetryChain
  <2> SUFFICES ASSUME SafeInv, ChainInv
               PROVE  RetryChain
    OBVIOUS
  <2>1. \A r, s, t \in RunIds :
          retryOf[s] = r /\ retryOf[t] = r /\ ~reclaimed[r] => s = t
    BY SetsAssumption DEF ChainInv, RetriedOnce
  <2>2. \A r \in RunIds :
          /\ ~Fresh(r) => runs[r].attempt \in 1..(MaxAttempts[runs[r].job] + 1)
          /\ retryOf[r] # NoRunId =>
               /\ runs[r].attempt = runs[retryOf[r]].attempt + 1
               /\ runs[r].job = runs[retryOf[r]].job
               /\ runs[r].pool = runs[retryOf[r]].pool
    BY DEF ChainInv, AttemptsBounded, RetriesFollow
  <2>3. \A w \in Workers : Engaged(w) =>
          runs[rid[w]].pool \in
              IF WorkerPool[w] = General THEN {General, NoPool} ELSE {WorkerPool[w]}
    BY DEF ChainInv, SlotsInPool, PoolOk
  <2>4. QED
    BY <2>1, <2>2, <2>3 DEF RetryChain
<1>2. QED
  BY <1>1, SafeAlways, ChainAlways, PTL

----------------------------------------------------------------------------
(* The promise of RunLife.                                                 *)

(* How a step changes one run, in terms of its row: not at all but for its *)
(* times, or it is created, claimed, ended by its holder, or reclaimed, or *)
(* it was reclaimed before and a slot that once held it writes over it.    *)
LEMMA RowStep ==
  ASSUME SafeInv, [Next]_vars, NEW r \in RunIds
  PROVE  \/ /\ runs'[r].status = runs[r].status \/ (Held(runs[r]) /\ Held(runs'[r]))
            /\ runs'[r].by = runs[r].by /\ (reclaimed'[r] <=> reclaimed[r])
         \/ /\ runs[r].status = "none" /\ runs'[r].status = "queued"
            /\ runs'[r].by = NoWorker /\ ~reclaimed'[r]
         \/ /\ runs[r].status = "queued" /\ Held(runs'[r])
            /\ runs'[r].by \in Workers /\ (reclaimed'[r] <=> reclaimed[r])
         \/ /\ Held(runs[r]) /\ runs'[r].status \in Terminal
            /\ runs'[r].by = runs[r].by /\ (reclaimed'[r] <=> reclaimed[r])
         \/ /\ Held(runs[r]) /\ runs'[r].status = "queued"
            /\ runs'[r].by = NoWorker /\ reclaimed'[r]
         \/ /\ reclaimed[r] /\ reclaimed'[r] /\ runs[r].status # "none"
            /\ Held(runs'[r]) \/ runs'[r].status \in Terminal
<1> DEFINE Kept == /\ runs'[r].status = runs[r].status \/ (Held(runs[r]) /\ Held(runs'[r]))
                   /\ runs'[r].by = runs[r].by /\ (reclaimed'[r] <=> reclaimed[r])
           Created == /\ runs[r].status = "none" /\ runs'[r].status = "queued"
                      /\ runs'[r].by = NoWorker /\ ~reclaimed'[r]
           Claimed == /\ runs[r].status = "queued" /\ Held(runs'[r])
                      /\ runs'[r].by \in Workers /\ (reclaimed'[r] <=> reclaimed[r])
           Ended == /\ Held(runs[r]) /\ runs'[r].status \in Terminal
                    /\ runs'[r].by = runs[r].by /\ (reclaimed'[r] <=> reclaimed[r])
           Requeued == /\ Held(runs[r]) /\ runs'[r].status = "queued"
                       /\ runs'[r].by = NoWorker /\ reclaimed'[r]
           Overwritten == /\ reclaimed[r] /\ reclaimed'[r] /\ runs[r].status # "none"
                          /\ Held(runs'[r]) \/ runs'[r].status \in Terminal
<1> USE DEF SafeInv
<1>1. ASSUME NEW w \in Workers, pc[w] \in {"claimed", "running"}, NEW status \in Status,
             status = "running" \/ status \in Terminal,
             runs' = [runs EXCEPT ![rid[w]] = [copy[w] EXCEPT !.status = status]],
             reclaimed' = reclaimed
      PROVE  Kept \/ Ended \/ Overwritten
  <2>1. /\ rid[w] \in RunIds
        /\ \A q \in RunIds : q # rid[w] => runs'[q] = runs[q]
        /\ runs'[rid[w]].status = status
        /\ runs'[rid[w]].by = copy[w].by
    BY <1>1, WriteEffect DEF Engaged
  <2>2. copy[w].by = w /\ runs[rid[w]].status # "none"
    BY <1>1 DEF LeaseInv, CopiesCarryALease, HolderInv, RowMatchesSlot, Engaged
  <2>3. ~reclaimed[rid[w]] => runs[rid[w]].by = w /\ Held(runs[rid[w]])
    BY <1>1 DEF HolderInv, RowMatchesSlot, Engaged, Held
  <2>4. status = "running" \/ status \in Terminal => Held(runs'[rid[w]]) \/ status \in Terminal
    BY <2>1 DEF Held
  <2>5. CASE r # rid[w]
    BY <1>1, <2>1, <2>5
  <2>6. CASE r = rid[w] /\ reclaimed[r]
    BY <1>1, <2>1, <2>2, <2>4, <2>6
  <2>7. CASE r = rid[w] /\ ~reclaimed[r]
    BY <1>1, <2>1, <2>2, <2>3, <2>4, <2>7
  <2>8. QED
    BY <2>5, <2>6, <2>7
<1>2. ASSUME NEW job, NEW pool, NEW sched, NEW attempt, \E q \in RunIds : Fresh(q),
             runs' = [runs EXCEPT ![NewRunId] = ForJob(job, pool, sched, attempt)],
             reclaimed' = reclaimed
      PROVE  Kept \/ Created
  <2>1. /\ NewRunId \in RunIds /\ runs[NewRunId].status = "none"
        /\ \A q \in RunIds : q # NewRunId => runs'[q] = runs[q]
        /\ runs'[NewRunId].status = "queued" /\ runs'[NewRunId].by = NoWorker
    BY <1>2, CreateEffect
  <2>2. CASE r = NewRunId
    BY <1>2, <2>1, <2>2 DEF HolderInv, ReclaimedExist
  <2>3. CASE r # NewRunId
    BY <1>2, <2>1, <2>3
  <2>4. QED
    BY <2>2, <2>3
<1>3. /\ Failures \subseteq Terminal /\ Terminal \subseteq Status
      /\ "running" \in Status /\ "failed" \in Terminal /\ "success" \in Terminal
  BY NumbersAssumption DEF Status, Terminal
<1>4. ASSUME Tick
      PROVE  Kept
  BY <1>4, TickEffect
<1>5. ASSUME ReclaimExpired
      PROVE  Kept \/ Requeued
  BY <1>5, ReclaimEffect
<1>6. ASSUME NEW w \in Workers, NEW q \in RunIds, ClaimNextQueued(w, q)
      PROVE  Kept \/ Claimed
  BY <1>6, ClaimEffect DEF Held
<1>7. ASSUME NEW w \in Workers, RenewRunLease(w)
      PROVE  Kept
  BY <1>7, RenewEffect
<1>8. ASSUME NEW w \in Workers, JobNotFound(w) \/ StartRun(w) \/ Complete(w)
      PROVE  Kept \/ Ended \/ Overwritten
  BY <1>1, <1>3, <1>8 DEF JobNotFound, StartRun, Complete, UpdateRun
<1>9. ASSUME NEW w \in Workers, NEW s \in Failures, FinishFailed(w, s) \/ FailThenRetry(w, s)
      PROVE  Kept \/ Ended \/ Overwritten
  BY <1>1, <1>3, <1>9 DEF FinishFailed, FailThenRetry, UpdateRun
<1>10. ASSUME NEW w \in Workers, NEW d \in 0..MaxDelay, CreateRetry(w, d)
       PROVE  Kept \/ Created
  BY <1>2, <1>10 DEF CreateRetry
<1>11. ASSUME NEW j \in Jobs, NEW p \in EnqueuePools, Enqueue(j, p)
       PROVE  Kept \/ Created
  BY <1>2, <1>11 DEF Enqueue
<1>12. ASSUME NEW w \in Workers, Abandon(w) \/ RenewError(w)
       PROVE  Kept
  BY <1>12 DEF Abandon, RenewError
<1>13. ASSUME NEW j \in Jobs, DeleteJob(j)
       PROVE  Kept
  BY <1>13 DEF DeleteJob
<1>14. ASSUME UNCHANGED vars
       PROVE  Kept
  BY <1>14 DEF vars
<1> HIDE DEF Kept, Created, Claimed, Ended, Requeued, Overwritten
<1>15. Kept \/ Created \/ Claimed \/ Ended \/ Requeued \/ Overwritten
  BY <1>4, <1>5, <1>6, <1>7, <1>8, <1>9, <1>10, <1>11, <1>12, <1>13, <1>14 DEF Next, Slot
<1>16. QED
  BY <1>15 DEF Kept, Created, Claimed, Ended, Requeued, Overwritten

(* The life of a run is read off the status of its row. *)
LifeIsRead ==
    \A r \in RunIds :
        /\ life[r] \in Promise!Life
        /\ runs[r].status = "none" <=> life[r] = "none"
        /\ runs[r].status = "queued" <=> life[r] = "queued"
        /\ Held(runs[r]) <=> life[r] = "held"
        /\ runs[r].status \in Terminal <=> life[r] = "ended"
        /\ owner[r] = runs[r].by /\ owner[r] \in Workers \cup {NoWorker}

(* A row in its type is read as RunLife reads it. *)
LEMMA LifeOfRow == TypeOK => LifeIsRead
<1> SUFFICES ASSUME TypeOK, NEW r \in RunIds
             PROVE  /\ life[r] \in Promise!Life
                    /\ runs[r].status = "none" <=> life[r] = "none"
                    /\ runs[r].status = "queued" <=> life[r] = "queued"
                    /\ Held(runs[r]) <=> life[r] = "held"
                    /\ runs[r].status \in Terminal <=> life[r] = "ended"
                    /\ owner[r] = runs[r].by /\ owner[r] \in Workers \cup {NoWorker}
  BY DEF LifeIsRead
<1>1. runs[r].status \in Status /\ runs[r].by \in Workers \cup {NoWorker}
  BY DEF TypeOK, Row
<1>2. life[r] = CASE runs[r].status \in Terminal -> "ended"
                  [] Held(runs[r]) -> "held"
                  [] OTHER -> runs[r].status
  BY DEF life
<1>3. QED
  BY <1>1, <1>2 DEF Status, Terminal, Held, Promise!Life, owner

(* The same of the row after a step. *)
LEMMA LifeOfNextRow == TypeOK' => LifeIsRead'
  BY LifeOfRow, PTL

(* Every step of the slots, the reclaim loop and their environment changes *)
(* the lives of the runs as RunLife allows.                                *)
LEMMA PromiseStep == SafeInv /\ SafeInv' /\ [Next]_vars => Promise!Next
<1> SUFFICES ASSUME SafeInv, SafeInv', [Next]_vars
             PROVE  Promise!Next
  OBVIOUS
<1>1. LifeIsRead /\ LifeIsRead'
  BY LifeOfRow, LifeOfNextRow DEF SafeInv
<1>2. life' \in [RunIds -> Promise!Life]
  BY <1>1 DEF LifeIsRead, life
<1>3. owner' \in [RunIds -> Workers \cup {NoWorker}]
  BY <1>1 DEF LifeIsRead, owner
<1>4. reclaimed' \in [RunIds -> BOOLEAN]
  BY DEF SafeInv, TypeOK
<1>5. ASSUME NEW r \in RunIds
      PROVE  Promise!Change(r)
  <2>1. (reclaimed'[r] <=> reclaimed[r]) => reclaimed'[r] = reclaimed[r]
    BY DEF SafeInv, TypeOK
  <2>2. /\ runs[r].status = "none" <=> life[r] = "none"
        /\ runs[r].status = "queued" <=> life[r] = "queued"
        /\ Held(runs[r]) <=> life[r] = "held"
        /\ runs[r].status \in Terminal <=> life[r] = "ended"
        /\ owner[r] = runs[r].by
        /\ life[r] \in Promise!Life
    BY <1>1 DEF LifeIsRead
  <2>3. /\ runs'[r].status = "none" <=> life'[r] = "none"
        /\ runs'[r].status = "queued" <=> life'[r] = "queued"
        /\ Held(runs'[r]) <=> life'[r] = "held"
        /\ runs'[r].status \in Terminal <=> life'[r] = "ended"
        /\ owner'[r] = runs'[r].by
        /\ life'[r] \in Promise!Life
    BY <1>1 DEF LifeIsRead
  <2>4. QED
    BY <2>1, <2>2, <2>3, RowStep DEF Promise!Life, Promise!Change, Promise!Stays, Promise!Create,
       Promise!Take, Promise!End, Promise!GiveBack, Promise!Overwrite
<1>6. QED
  BY <1>2, <1>3, <1>4, <1>5 DEF Promise!Next

(* The run table with its slots, its reclaim loop, its crashes and its     *)
(* late whole-row writes implements RunLife: a run is queued once, taken   *)
(* by one worker and ended by it, until it is reclaimed.                   *)
THEOREM KeepsThePromiseCorrect == Spec => KeepsThePromise
<1>1. Init => Promise!Init
  BY DEF Init, Promise!Init, life, owner, Blank, ForJob, Terminal, Held
<1>2. SafeInv /\ SafeInv' /\ [Next]_vars => [Promise!Next]_Promise!vars
  BY PromiseStep
<1>3. QED
  BY <1>1, <1>2, SafeAlways, PTL DEF Spec, KeepsThePromise, Promise!Spec
=============================================================================
