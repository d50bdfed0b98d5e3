----------------------------- MODULE RunWorker -----------------------------
(***************************************************************************)
(* The run table and the worker slots that drain it.                       *)
(*                                                                         *)
(* A worker slot (chronon-runtime/src/worker.rs, worker_slot) claims the   *)
(* earliest queued run of its pool under a lease, marks it running, keeps  *)
(* the lease alive from a background task while the script executes, and   *)
(* writes the outcome back.  A failed or timed-out run is followed by a    *)
(* retry run (retry.rs).  A reclaim loop (reclaim.rs) puts runs whose      *)
(* lease has lapsed back in the queue.  Every write of the slot is         *)
(* `update_run` of the copy of the row it obtained when it claimed it:     *)
(* the whole row is replaced and the claim is not compared.                *)
(*                                                                         *)
(* One step is one call on the store.  Times are kept relative to the      *)
(* clock: `sched` is scheduled_for - now and `lease` is claim_lease_until  *)
(* - now, and Tick brings both closer.  A lease counts down to 0, where it *)
(* has expired; lateness is told apart up to MaxLate.                      *)
(***************************************************************************)
EXTENDS Integers, FiniteSets

CONSTANTS
    RunIds,       \* identifiers of runs (bounds the number of runs)
    NoRunId,      \* "no run": a slot that holds none, a run that is no retry
    Workers,      \* worker slots, one identity each
    NoWorker,     \* claimed_by = None
    Jobs,         \* jobs runs belong to
    Pools,        \* execution pools
    General,      \* the pool named "general"
    NoPool,       \* pool_id = None
    WorkerPool,   \* the pool each slot drains
    EnqueuePools, \* pool_id values of the runs that get enqueued
    MaxAttempts,  \* RetryPolicy::max_attempts of each job
    Failures,     \* how scripts can fail: "timeout" only if the job has timeout_ms
    MaxDelay,     \* the largest delay a retry policy yields, in ticks
    TTL,          \* CHRONON_RUN_LEASE_SECS, in ticks
    MaxLate,      \* lateness told apart, in ticks
    MaxEnqueues,  \* bound: runs enqueued from outside
    MaxFaults     \* bound: crashes, stalls and store errors

ASSUME SetsAssumption ==
    /\ NoRunId \notin RunIds
    /\ NoWorker \notin Workers
    /\ Jobs # {}
    /\ General \in Pools /\ NoPool \notin Pools
    /\ WorkerPool \in [Workers -> Pools]
    /\ EnqueuePools \subseteq Pools \cup {NoPool}

ASSUME NumbersAssumption ==
    /\ Failures \subseteq {"failed", "timeout"}
    /\ MaxAttempts \in [Jobs -> Nat]
    /\ MaxDelay \in Nat
    /\ TTL \in Nat \ {0}
    /\ MaxLate \in Nat
    /\ MaxEnqueues \in Nat
    /\ MaxFaults \in Nat

VARIABLES
    runs,      \* the run table
    jobs,      \* the jobs that exist
    pc,        \* where each slot is in worker_slot
    rid,       \* the run a slot is working on
    copy,      \* the slot's copy of that run's row
    renewing,  \* is the slot's lease-renewal task alive?
    enqueued,  \* runs enqueued from outside so far
    faults,    \* crashes, stalls and store errors so far
    reclaimed, \* history: has this run ever been reclaimed?
    retryOf    \* history: the failed run this run is a retry of

vars == <<runs, jobs, pc, rid, copy, renewing, enqueued, faults, reclaimed, retryOf>>
slotVars == <<pc, rid, copy, renewing>>

----------------------------------------------------------------------------
(* Rows.                                                                   *)

NoLease == -1

(* RunStatus::Canceled is left out: nothing in the program sets it. *)
Terminal == {"success", "failed", "timeout"}
Status == {"none", "queued", "claimed", "running"} \cup Terminal

Row == [status  : Status,
        job     : Jobs,
        pool    : Pools \cup {NoPool},
        sched   : Int,
        attempt : Nat,
        by      : Workers \cup {NoWorker},
        lease   : {NoLease} \cup (0..TTL)]

Held(row) == row.status \in {"claimed", "running"}

Expired(row) == row.lease # NoLease /\ row.lease <= 0

(* Run::for_job: a queued row without a claim. *)
ForJob(job, pool, sched, attempt) ==
    [status |-> "queued", job |-> job, pool |-> pool, sched |-> sched,
     attempt |-> attempt, by |-> NoWorker, lease |-> NoLease]

(* No row yet. *)
Blank == [ForJob(CHOOSE j \in Jobs : TRUE, NoPool, 0, 1) EXCEPT !.status = "none"]

Fresh(r) == runs[r].status = "none"

(* Uuid::new_v4: some identifier that is not in the table. *)
NewRunId == CHOOSE r \in RunIds : Fresh(r)

(* One tick of the clock, seen from a row; nothing reads the times of a    *)
(* finished run, so they are left alone.                                   *)
Age(row) ==
    IF row.status \in {"none"} \cup Terminal THEN row
    ELSE [row EXCEPT !.sched = IF @ > -MaxLate THEN @ - 1 ELSE @,
                     !.lease = IF @ > 0 THEN @ - 1 ELSE @]

PoolOk(w, pool) ==
    \/ pool = WorkerPool[w]
    \/ WorkerPool[w] = General /\ pool = NoPool

(* Mutant: one attempt too few. *)
ShouldRetry_OneLess(row) == row.attempt > 0 /\ row.attempt < MaxAttempts[row.job]

(* RetryPolicy::should_retry *)
ShouldRetry(row) == row.attempt > 0 /\ row.attempt <= MaxAttempts[row.job]

----------------------------------------------------------------------------
Engaged(w) == pc[w] # "idle"

Release(w) ==
    /\ pc' = [pc EXCEPT ![w] = "idle"]
    /\ rid' = [rid EXCEPT ![w] = NoRunId]
    /\ copy' = [copy EXCEPT ![w] = Blank]
    /\ renewing' = [renewing EXCEPT ![w] = FALSE]

Fault ==
    /\ faults < MaxFaults
    /\ faults' = faults + 1

Init ==
    /\ runs = [r \in RunIds |-> Blank]
    /\ jobs = Jobs
    /\ pc = [w \in Workers |-> "idle"]
    /\ rid = [w \in Workers |-> NoRunId]
    /\ copy = [w \in Workers |-> Blank]
    /\ renewing = [w \in Workers |-> FALSE]
    /\ enqueued = 0
    /\ faults = 0
    /\ reclaimed = [r \in RunIds |-> FALSE]
    /\ retryOf = [r \in RunIds |-> NoRunId]

----------------------------------------------------------------------------
(* The environment: run_now or the tick loop enqueues a due run, a job is  *)
(* deleted, the clock advances.                                            *)

Enqueue(job, pool) ==
    /\ enqueued < MaxEnqueues
    /\ \E r \in RunIds : Fresh(r)
    /\ job \in jobs
    /\ runs' = [runs EXCEPT ![NewRunId] = ForJob(job, pool, 0, 1)]
    /\ enqueued' = enqueued + 1
    /\ UNCHANGED <<jobs, slotVars, faults, reclaimed, retryOf>>

DeleteJob(job) ==
    /\ job \in jobs
    /\ jobs' = jobs \ {job}
    /\ UNCHANGED <<runs, slotVars, enqueued, faults, reclaimed, retryOf>>

(* A lease lasts TTL (300 s).  Marking a claimed run running takes two     *)
(* store calls and a live renewal task renews every second, so a slot      *)
(* that is still in either place after TTL has stalled: that is a fault.   *)
Stalls(w) ==
    \/ pc[w] = "claimed" /\ copy[w].lease = 1
    \/ /\ pc[w] = "running" /\ renewing[w]
       /\ Held(runs[rid[w]]) /\ runs[rid[w]].by = w
       /\ runs[rid[w]].lease = 1

Tick ==
    /\ IF \E w \in Workers : Stalls(w) THEN Fault ELSE UNCHANGED faults
    /\ runs' = [r \in RunIds |-> Age(runs[r])]
    /\ copy' = [w \in Workers |-> Age(copy[w])]
    /\ UNCHANGED <<jobs, pc, rid, renewing, enqueued, reclaimed, retryOf>>

----------------------------------------------------------------------------
(* The slot.                                                               *)

(* Mutant: a claimed run whose lease has expired is claimed directly. *)
Claimable_Expired(w, r) ==
    /\ runs[r].status \in {"queued", "claimed"}
    /\ runs[r].sched <= 0
    /\ ~(runs[r].lease > 0)
    /\ PoolOk(w, runs[r].pool)

Claimable(w, r) ==
    /\ runs[r].status = "queued"
    /\ runs[r].sched <= 0
    /\ ~(runs[r].lease > 0)
    /\ PoolOk(w, runs[r].pool)

(* claim_next_queued: the earliest claimable run, ties in any order. *)
ClaimNextQueued(w, r) ==
    /\ pc[w] = "idle"
    /\ Claimable(w, r)
    /\ \A q \in RunIds : Claimable(w, q) => runs[r].sched <= runs[q].sched
    /\ LET row == [runs[r] EXCEPT !.status = "claimed", !.by = w, !.lease = TTL]
       IN  /\ runs' = [runs EXCEPT ![r] = row]
           /\ copy' = [copy EXCEPT ![w] = row]
    /\ pc' = [pc EXCEPT ![w] = "claimed"]
    /\ rid' = [rid EXCEPT ![w] = r]
    /\ UNCHANGED <<jobs, renewing, enqueued, faults, reclaimed, retryOf>>

(* update_run: the whole row becomes the slot's copy, with this status. *)
UpdateRun(w, status) ==
    LET row == [copy[w] EXCEPT !.status = status]
    IN  /\ runs' = [runs EXCEPT ![rid[w]] = row]
        /\ copy' = [copy EXCEPT ![w] = row]

(* The job row is gone, or reading it failed: the run fails for good. *)
JobNotFound(w) ==
    /\ pc[w] = "claimed"
    /\ IF copy[w].job \in jobs THEN Fault ELSE UNCHANGED faults
    /\ runs' = [runs EXCEPT ![rid[w]] = [copy[w] EXCEPT !.status = "failed"]]
    /\ Release(w)
    /\ UNCHANGED <<jobs, enqueued, reclaimed, retryOf>>

(* The run is marked running and the renewal task is spawned. *)
StartRun(w) ==
    /\ pc[w] = "claimed"
    /\ copy[w].job \in jobs
    /\ UpdateRun(w, "running")
    /\ pc' = [pc EXCEPT ![w] = "running"]
    /\ renewing' = [renewing EXCEPT ![w] = TRUE]
    /\ UNCHANGED <<jobs, rid, enqueued, faults, reclaimed, retryOf>>

(* renew_run_lease: by the holder of a held run; nothing asks whether the  *)
(* lease is still live.  The task ends when the call returns false.        *)
RenewRunLease(w) ==
    /\ Engaged(w) /\ renewing[w]
    /\ IF runs[rid[w]].by = w /\ Held(runs[rid[w]])
       THEN /\ runs' = [runs EXCEPT ![rid[w]].lease = TTL]
            /\ UNCHANGED renewing
       ELSE /\ renewing' = [renewing EXCEPT ![w] = FALSE]
            /\ UNCHANGED runs
    /\ UNCHANGED <<jobs, pc, rid, copy, enqueued, faults, reclaimed, retryOf>>

(* The script returns Ok. *)
Complete(w) ==
    /\ pc[w] = "running"
    /\ runs' = [runs EXCEPT ![rid[w]] = [copy[w] EXCEPT !.status = "success"]]
    /\ Release(w)
    /\ UNCHANGED <<jobs, enqueued, faults, reclaimed, retryOf>>

(* finalize_failed_run, first half: the script failed or ran out of time,  *)
(* and the slot goes on to the retry when the policy allows one.           *)
FinishFailed(w, status) ==
    /\ pc[w] = "running"
    /\ ~ShouldRetry(copy[w])
    /\ runs' = [runs EXCEPT ![rid[w]] = [copy[w] EXCEPT !.status = status]]
    /\ Release(w)
    /\ UNCHANGED <<jobs, enqueued, faults, reclaimed, retryOf>>

FailThenRetry(w, status) ==
    /\ pc[w] = "running"
    /\ ShouldRetry(copy[w])
    /\ UpdateRun(w, status)
    /\ pc' = [pc EXCEPT ![w] = "retry"]
    /\ UNCHANGED <<jobs, rid, renewing, enqueued, faults, reclaimed, retryOf>>

(* Mutant: the slot does not leave the retry step. *)
CreateRetry_Repeats(w, delay) ==
    /\ pc[w] = "retry"
    /\ \E r \in RunIds : Fresh(r)
    /\ runs' = [runs EXCEPT ![NewRunId] =
                  ForJob(copy[w].job, copy[w].pool, delay, copy[w].attempt + 1)]
    /\ retryOf' = [retryOf EXCEPT ![NewRunId] = rid[w]]
    /\ UNCHANGED <<slotVars, jobs, enqueued, faults, reclaimed>>

(* finalize_failed_run, second half: the next attempt is enqueued. *)
CreateRetry(w, delay) ==
    /\ pc[w] = "retry"
    /\ \E r \in RunIds : Fresh(r)
    /\ runs' = [runs EXCEPT ![NewRunId] =
                  ForJob(copy[w].job, copy[w].pool, delay, copy[w].attempt + 1)]
    /\ retryOf' = [retryOf EXCEPT ![NewRunId] = rid[w]]
    /\ Release(w)
    /\ UNCHANGED <<jobs, enqueued, faults, reclaimed>>

(* Mutant: the slot goes back to claiming and keeps its run. *)
Abandon_KeepsRun(w) ==
    /\ Engaged(w)
    /\ Fault
    /\ pc' = [pc EXCEPT ![w] = "idle"]
    /\ UNCHANGED <<runs, rid, copy, renewing, jobs, enqueued, reclaimed, retryOf>>

(* The slot gives its run up: its process dies and starts again under the  *)
(* same identity, or a store call fails and the slot goes back to claiming *)
(* (the running mark, the outcome or the retry was not written).           *)
Abandon(w) ==
    /\ Engaged(w)
    /\ Fault
    /\ Release(w)
    /\ UNCHANGED <<runs, jobs, enqueued, reclaimed, retryOf>>

(* A renewal call fails: the renewal task ends, the script runs on. *)
RenewError(w) ==
    /\ Engaged(w) /\ renewing[w]
    /\ Fault
    /\ renewing' = [renewing EXCEPT ![w] = FALSE]
    /\ UNCHANGED <<runs, jobs, pc, rid, copy, enqueued, reclaimed, retryOf>>

----------------------------------------------------------------------------
(* reclaim_expired_run_leases, called by the reclaim loop of every host:   *)
(* one statement that requeues every held run whose lease has expired.     *)

(* Mutants: a tick early; finished runs too; runs marked running only. *)
Reclaimable_Early(r) ==
    Held(runs[r]) /\ runs[r].lease # NoLease /\ runs[r].lease <= 1
Reclaimable_AnyStatus(r) == ~Fresh(r) /\ Expired(runs[r])
Reclaimable_RunningOnly(r) == runs[r].status = "running" /\ Expired(runs[r])

Reclaimable(r) == Held(runs[r]) /\ Expired(runs[r])

(* Mutant: the lease stays on the requeued run. *)
ReclaimExpired_KeepsLease ==
    /\ \E r \in RunIds : Reclaimable(r)
    /\ runs' = [r \in RunIds |->
                 IF Reclaimable(r)
                 THEN [runs[r] EXCEPT !.status = "queued", !.by = NoWorker]
                 ELSE runs[r]]
    /\ reclaimed' = [r \in RunIds |-> reclaimed[r] \/ Reclaimable(r)]
    /\ UNCHANGED <<jobs, slotVars, enqueued, faults, retryOf>>

ReclaimExpired ==
    /\ \E r \in RunIds : Reclaimable(r)
    /\ runs' = [r \in RunIds |->
                 IF Reclaimable(r)
                 THEN [runs[r] EXCEPT !.status = "queued", !.by = NoWorker,
                                      !.lease = NoLease]
                 ELSE runs[r]]
    /\ reclaimed' = [r \in RunIds |-> reclaimed[r] \/ Reclaimable(r)]
    /\ UNCHANGED <<jobs, slotVars, enqueued, faults, retryOf>>

----------------------------------------------------------------------------
Slot(w) ==
    \/ \E r \in RunIds : ClaimNextQueued(w, r)
    \/ JobNotFound(w)
    \/ StartRun(w)
    \/ RenewRunLease(w)
    \/ Complete(w)
    \/ \E s \in Failures : FinishFailed(w, s)
    \/ \E s \in Failures : FailThenRetry(w, s)
    \/ \E d \in 0..MaxDelay : CreateRetry(w, d)
    \/ Abandon(w)
    \/ RenewError(w)

Next ==
    \/ \E j \in Jobs, p \in EnqueuePools : Enqueue(j, p)
    \/ \E j \in Jobs : DeleteJob(j)
    \/ Tick
    \/ ReclaimExpired
    \/ \E w \in Workers : Slot(w)

Spec == Init /\ [][Next]_vars

(***************************************************************************)
(* Fairness.  Time passes; the reclaim loop and every slot's loop run for  *)
(* ever; a script returns or times out; a spawned renewal task is          *)
(* scheduled.  Nothing is assumed of whoever enqueues or deletes, and      *)
(* faults never have to happen.                                            *)
(***************************************************************************)
Finish(w) ==
    \/ Complete(w)
    \/ \E s \in Failures : FinishFailed(w, s) \/ FailThenRetry(w, s)

Fairness ==
    /\ WF_vars(Tick)
    /\ WF_vars(ReclaimExpired)
    /\ \A w \in Workers :
         /\ WF_vars(\E r \in RunIds : ClaimNextQueued(w, r))
         /\ WF_vars(StartRun(w) \/ (copy[w].job \notin jobs /\ JobNotFound(w)))
         /\ WF_vars(RenewRunLease(w))
         /\ WF_vars(Finish(w))
         /\ WF_vars(\E d \in 0..MaxDelay : CreateRetry(w, d))

FairSpec == Spec /\ Fairness

----------------------------------------------------------------------------
(* Every variable has its type. *)
TypeOK ==
    /\ runs \in [RunIds -> Row]
    /\ jobs \subseteq Jobs
    /\ pc \in [Workers -> {"idle", "claimed", "running", "retry"}]
    /\ rid \in [Workers -> RunIds \cup {NoRunId}]
    /\ \A w \in Workers : rid[w] = NoRunId <=> ~Engaged(w)
    /\ copy \in [Workers -> Row]
    /\ renewing \in [Workers -> BOOLEAN]
    /\ enqueued \in 0..MaxEnqueues
    /\ faults \in 0..MaxFaults
    /\ reclaimed \in [RunIds -> BOOLEAN]
    /\ retryOf \in [RunIds -> RunIds \cup {NoRunId}]

(* A held run always names a worker and carries a lease, and a queued run  *)
(* neither: without the lease reclaim_expired_run_leases would pass a      *)
(* crashed worker's run over for ever, and with a leftover one             *)
(* claim_next_queued would.  Late writes of slots that lost their run      *)
(* included.                                                               *)
HeldRunsCarryALease ==
    \A r \in RunIds :
        /\ Held(runs[r]) => runs[r].by # NoWorker /\ runs[r].lease # NoLease
        /\ runs[r].status = "queued" => runs[r].by = NoWorker /\ runs[r].lease = NoLease

(* "At most one worker may hold a given run claim at a time" (store.rs):   *)
(* until the run's lease lapses and it is reclaimed, at most one slot      *)
(* works on it, and the row names that slot.                               *)
SoleHolder ==
    \A r \in RunIds : ~reclaimed[r] =>
        /\ \A v, w \in Workers : rid[v] = r /\ rid[w] = r => v = w
        /\ \A w \in Workers : rid[w] = r => runs[r].by = w

(* Retries form chains, and a chain stays in its pool: a failed attempt    *)
(* that was never reclaimed is retried at most once, although persisting   *)
(* the failure and creating the retry are two calls; a retry is the next   *)
(* attempt of the same job and pool, within the policy's limit; and no     *)
(* slot works outside its pool, where the runs of "general" and those      *)
(* without a pool belong to the slots of "general" (finalize_failed_run,   *)
(* claim_next_queued).                                                     *)
RetryChain ==
    /\ \A r, s, t \in RunIds :
          retryOf[s] = r /\ retryOf[t] = r /\ ~reclaimed[r] => s = t
    /\ \A r \in RunIds :
          /\ ~Fresh(r) => runs[r].attempt \in 1..(MaxAttempts[runs[r].job] + 1)
          /\ retryOf[r] # NoRunId =>
               LET p == runs[retryOf[r]]
               IN  /\ runs[r].attempt = p.attempt + 1
                   /\ runs[r].job = p.job /\ runs[r].pool = p.pool
    /\ \A w \in Workers : Engaged(w) =>
          runs[rid[w]].pool \in
              IF WorkerPool[w] = General THEN {General, NoPool} ELSE {WorkerPool[w]}

(* A run is taken from its worker only after something went wrong: with no *)
(* crash, stall or store error, nothing is ever reclaimed.                 *)
ReclaimNeedsFault ==
    (\E r \in RunIds : reclaimed[r]) => faults > 0

(* A run that was never reclaimed ends once: its terminal status is never  *)
(* overwritten.                                                            *)
TerminalIsFinal ==
    [][\A r \in RunIds :
         runs[r].status \in Terminal /\ ~reclaimed[r] =>
             runs'[r].status = runs[r].status]_vars

(* Work is not lost: whatever crashed, stalled or failed, every run that   *)
(* was enqueued or retried ends, and stays ended.                          *)
AllRunsSettle ==
    <>[](\A r \in RunIds : runs[r].status \in {"none"} \cup Terminal)

(* While nothing goes wrong, a failed attempt the policy allows to retry   *)
(* is retried.                                                             *)
FailureIsRetried ==
    \A r \in RunIds :
        (runs[r].status \in {"failed", "timeout"}
            /\ runs[r].attempt <= MaxAttempts[runs[r].job]
            /\ faults = 0 /\ jobs = Jobs)
        ~> (faults > 0 \/ \E s \in RunIds : retryOf[s] = r)

(* The run table with its slots is a run store (see RunLife). *)
life == [r \in RunIds |->
            CASE runs[r].status \in Terminal -> "ended"
              [] Held(runs[r]) -> "held"
              [] OTHER -> runs[r].status]
owner == [r \in RunIds |-> runs[r].by]

Promise == INSTANCE RunLife WITH
    Runs <- RunIds, Owners <- Workers, NoOwner <- NoWorker,
    life <- life, owner <- owner, contested <- reclaimed

(* Every step of the slots and of the reclaim loop is a step of RunLife: a *)
(* run is taken by one worker, which ends it, until the run is reclaimed.  *)
KeepsThePromise == Promise!Spec
=============================================================================
