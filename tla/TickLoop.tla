------------------------------ MODULE TickLoop ------------------------------
(***************************************************************************)
(* The coordinator tick loop: which due job is enqueued, when, how often.  *)
(*                                                                         *)
(* A coordinator (chronon-scheduler/src/tick_loop.rs, run_one_tick) lists  *)
(* the due jobs of its partitions and takes them one by one through        *)
(* enqueue_due_job: a tick claim on the job row under a short lease, the   *)
(* concurrency limit, the misfire policy, the run-once claim, the new run, *)
(* the next fire time.  Each of these is a call on the store of its own,   *)
(* and one step of this module.  Several coordinators may run at once:     *)
(* embedded hosts on one database, or an old and a new leader.             *)
(*                                                                         *)
(* Times are counted in units of the lookahead scale from an arbitrary     *)
(* start; a unit is at most 50 ms.  Every partition is owned by every      *)
(* coordinator: what an instance owns is LeaderElection's business.        *)
(***************************************************************************)
EXTENDS Integers, Sequences, FiniteSets

CONSTANTS
    Jobs,           \* the jobs
    JobSets,        \* sets of jobs that may have been upserted before the loop starts
    Coordinators,   \* coordinator instances
    Nobody,         \* run_once_claimed_by = None
    Kind,           \* schedule_kind of each job: "cron" or "run_once"
    Period,         \* a cron job fires at the multiples of its period
    FirstFire,      \* next_run_at as upserted
    Concurrency,    \* Job::concurrency
    Window,         \* max_misfire_window_secs
    RunImmediately, \* run_immediately of the misfire policy
    Second,         \* units in a second
    TTL,            \* CHRONON_JOB_CLAIM_LEASE_TTL_S, in units
    Lookahead,      \* how far ahead of the clock a draining tick looks
    Soon,           \* a fire this close keeps the loop draining
    Batch,          \* CHRONON_TICK_BATCH_LIMIT
    MaxTime,        \* bound: where the clock stops
    MaxRuns,        \* bound: runs of a job
    MaxManual,      \* bound: runs enqueued by run_now
    MaxAdmin,       \* bound: pauses, resumes and deletes
    MaxFaults       \* bound: crashes, stalls and store errors

ASSUME JobsAssumption ==
    /\ Nobody \notin Coordinators
    /\ Coordinators # {}
    /\ IsFiniteSet(Coordinators) /\ IsFiniteSet(Jobs)
    /\ JobSets \subseteq SUBSET Jobs
    /\ Kind \in [Jobs -> {"cron", "run_once"}]
    /\ Period \in [Jobs -> Nat \ {0}]
    /\ FirstFire \in [Jobs -> Nat]
    /\ Concurrency \in [Jobs -> Nat]
    /\ Window \in [Jobs -> Nat]
    /\ RunImmediately \in [Jobs -> BOOLEAN]

ASSUME TimesAssumption ==
    /\ {Second, TTL, Batch} \subseteq Nat \ {0}
    /\ {Lookahead, Soon, MaxTime, MaxRuns, MaxManual, MaxAdmin, MaxFaults} \subseteq Nat

VARIABLES
    now,    \* the clock
    jobs,   \* the job table
    runs,   \* the runs of each job, oldest first
    co,     \* the coordinators' loops
    admin,  \* pauses, resumes and deletes so far
    faults  \* crashes, stalls and store errors so far

vars == <<now, jobs, runs, co, admin, faults>>

----------------------------------------------------------------------------
(* Rows and the coordinator's state.                                       *)

None == -1

Row == [exists : BOOLEAN, enabled : BOOLEAN,
        next : Nat \cup {None},              \* next_run_at
        claim : Int,                         \* claim_lease_until
        onceBy : Coordinators \cup {Nobody}, \* run_once_claimed_by
        onceUntil : Int,                     \* run_once_claim_expires_at
        onceDone : BOOLEAN]                  \* run_once_completed_at.is_some()

(* `fire` is scheduled_for, `at` the time the enqueuer took for now. *)
Run == [fire : Nat, at : Nat, active : BOOLEAN, manual : BOOLEAN]

(* A run stands for its own fire, and for the fires missed until it was    *)
(* enqueued: they are coalesced.                                           *)
Covers(run, t) == run.fire = t \/ (run.fire < t /\ t <= run.at)

(* The calls of a tick; "each" is the head of the loop over the due jobs. *)
Calls == {"tick", "soon", "each", "read", "count", "once", "create", "mark",
          "persist", "skip_mark", "skip_persist", "release_once", "release"}

Coordinator == [pc : Calls,
                todo : Seq(Jobs),   \* due jobs still to do, the current one first
                at : Nat,           \* `now` as read at the start of the job (or tick)
                next : Nat \cup {None}, \* next_run_at of the job read
                draining : BOOLEAN]

Current(c) == Head(co[c].todo)

(* Between a successful claim_job_for_tick and the write or the release    *)
(* that ends the job.                                                      *)
Claiming(c, j) ==
    /\ co[c].pc \notin {"tick", "soon", "each", "release"}
    /\ Current(c) = j

ActiveRuns(j) == {i \in DOMAIN runs[j] : runs[j][i].active}

(* Mutant: a fire time at exactly `after` is found again. *)
CronNext_Inclusive(j, after) == ((after + Period[j] - 1) \div Period[j]) * Period[j]

(* CronExpr::next_after: the first fire strictly after. *)
CronNext(j, after) == (after \div Period[j] + 1) * Period[j]

(* should_enqueue_for_misfire; lateness counts whole seconds. *)
MisfireOk(j, fire, at) ==
    LET late == (at - fire) \div Second
    IN  \/ Window[j] = 0
        \/ late <= 0
        \/ late <= Window[j] /\ RunImmediately[j]

(* The next_run_at written after a fire. *)
NextRunAt(j, at) == IF Kind[j] = "cron" THEN CronNext(j, at) ELSE None

Fault ==
    /\ faults < MaxFaults
    /\ faults' = faults + 1

Idle == [pc |-> "tick", todo |-> <<>>, at |-> 0, next |-> None, draining |-> FALSE]

Init ==
    /\ now = 0
    /\ \E up \in JobSets :
         jobs = [j \in Jobs |-> [exists |-> j \in up, enabled |-> TRUE,
                                 next |-> FirstFire[j], claim |-> None,
                                 onceBy |-> Nobody, onceUntil |-> None,
                                 onceDone |-> FALSE]]
    /\ runs = [j \in Jobs |-> <<>>]
    /\ co = [c \in Coordinators |-> Idle]
    /\ admin = 0
    /\ faults = 0

----------------------------------------------------------------------------
(* The environment.                                                        *)

(* A tick claim lasts TTL (5 s) and covers a handful of store calls: a     *)
(* coordinator that is still at it when the lease ends has stalled.        *)
Stalls(c) ==
    /\ co[c].pc \notin {"tick", "soon", "each"}
    /\ now = co[c].at + TTL

Tick ==
    /\ now < MaxTime
    /\ now' = now + 1
    /\ IF \E c \in Coordinators : Stalls(c) THEN Fault ELSE UNCHANGED faults
    /\ UNCHANGED <<jobs, runs, co, admin>>

(* A worker finishes a run: it claims none before scheduled_for. *)
FinishRun(j, i) ==
    /\ runs[j][i].active
    /\ runs[j][i].fire <= now
    /\ runs' = [runs EXCEPT ![j][i].active = FALSE]
    /\ UNCHANGED <<now, jobs, co, admin, faults>>

(* run_now: no tick claim, no concurrency limit. *)
RunNow(j) ==
    /\ jobs[j].exists
    /\ Len(SelectSeq(runs[j], LAMBDA r : r.manual)) < MaxManual
    /\ Len(runs[j]) < MaxRuns
    /\ runs' = [runs EXCEPT ![j] = Append(@, [fire |-> now, at |-> now,
                                             active |-> TRUE, manual |-> TRUE])]
    /\ UNCHANGED <<now, jobs, co, admin, faults>>

(* pause_job and resume_job: next_run_at is left as it is. *)
SetEnabled(j, enabled) ==
    /\ admin < MaxAdmin
    /\ jobs[j].exists /\ jobs[j].enabled # enabled
    /\ jobs' = [jobs EXCEPT ![j].enabled = enabled]
    /\ admin' = admin + 1
    /\ UNCHANGED <<now, runs, co, faults>>

(* delete_job: the runs stay. *)
DeleteJob(j) ==
    /\ admin < MaxAdmin
    /\ jobs[j].exists
    /\ jobs' = [jobs EXCEPT ![j].exists = FALSE]
    /\ admin' = admin + 1
    /\ UNCHANGED <<now, runs, co, faults>>

----------------------------------------------------------------------------
(* The tick.                                                               *)

(* The coordinator goes on to this call. *)
Goto(c, pc) == co' = [co EXCEPT ![c].pc = pc]

(* It is done with the current job, whose `now` and row are forgotten. *)
NextJob(c) ==
    co' = [co EXCEPT ![c].todo = Tail(@), ![c].at = 0, ![c].next = None,
                     ![c].pc = IF Len(co[c].todo) = 1 THEN "tick" ELSE "each"]

Due(j, until) ==
    /\ jobs[j].exists /\ jobs[j].enabled
    /\ jobs[j].next # None /\ jobs[j].next <= until
    /\ jobs[j].claim < now
    /\ ~(Kind[j] = "run_once" /\ jobs[j].onceDone)

(* ORDER BY next_run_at LIMIT Batch; ties in any order. *)
DueLists(due) ==
    LET n == IF Cardinality(due) < Batch THEN Cardinality(due) ELSE Batch
    IN  {s \in [1..n -> due] :
           /\ \A i, k \in 1..n : i < k => s[i] # s[k] /\ jobs[s[i]].next <= jobs[s[k]].next
           /\ \A j \in due, i \in 1..n :
                (\E k \in 1..n : s[k] = j) \/ jobs[s[i]].next <= jobs[j].next}

(* find_due_job_ids_in_partitions.  With nothing due the loop sleeps; else *)
(* half a batch already means a backlog.                                   *)
FindDue(c) ==
    /\ co[c].pc = "tick"
    /\ LET until == now + (IF co[c].draining THEN Lookahead ELSE 0)
           due == {j \in Jobs : Due(j, until)}
       IN  IF due = {}
           THEN co' = [co EXCEPT ![c].draining = FALSE]
           ELSE \E s \in DueLists(due) :
                  co' = [co EXCEPT ![c].pc = "soon", ![c].todo = s, ![c].at = now,
                                   ![c].draining = Len(s) >= Batch \div 2]
    /\ UNCHANGED <<now, jobs, runs, admin, faults>>

(* min_next_run_at_in_partitions: a fire close by keeps the loop draining. *)
MinNext(c) ==
    /\ co[c].pc = "soon"
    /\ LET soon == \E j \in Jobs :
                     /\ jobs[j].exists /\ jobs[j].enabled
                     /\ jobs[j].next # None /\ jobs[j].next <= co[c].at + Soon
       IN  co' = [co EXCEPT ![c].pc = "each", ![c].draining = @ \/ soon]
    /\ UNCHANGED <<now, jobs, runs, admin, faults>>

(* Mutants: another's claim is no obstacle; a claim left behind never is   *)
(* given up.                                                               *)
TickClaimFree_Always(j) == jobs[j].exists /\ jobs[j].enabled
TickClaimFree_NeverExpires(j) == jobs[j].exists /\ jobs[j].enabled /\ jobs[j].claim = None

TickClaimFree(j) == jobs[j].exists /\ jobs[j].enabled /\ jobs[j].claim < now

(* claim_job_for_tick: the lease decides; next_run_at is not looked at     *)
(* again.                                                                  *)
ClaimJob(c) ==
    /\ co[c].pc = "each"
    /\ LET j == Current(c)
       IN  IF TickClaimFree(j)
           THEN /\ jobs' = [jobs EXCEPT ![j].claim = now + TTL]
                /\ co' = [co EXCEPT ![c].pc = "read", ![c].at = now]
           ELSE /\ NextJob(c)
                /\ UNCHANGED jobs
    /\ UNCHANGED <<now, runs, admin, faults>>

(* get_job *)
ReadJob(c) ==
    /\ co[c].pc = "read"
    /\ IF jobs[Current(c)].exists
       THEN co' = [co EXCEPT ![c].pc = "count", ![c].next = jobs[Current(c)].next]
       ELSE Goto(c, "release")
    /\ UNCHANGED <<now, jobs, runs, admin, faults>>

(* job.next_run_at.unwrap_or(now) *)
ScheduledFor(c) == IF co[c].next = None THEN co[c].at ELSE co[c].next

(* What follows the count: the concurrency limit, then the misfire policy. *)
Gate(c, active) ==
    LET j == Current(c)
    IN  CASE active >= Concurrency[j] -> "release"
          [] active < Concurrency[j] /\ ~MisfireOk(j, ScheduledFor(c), co[c].at) ->
               IF Kind[j] = "run_once" THEN "skip_mark" ELSE "skip_persist"
          [] OTHER -> IF Kind[j] = "run_once" THEN "once" ELSE "create"

(* count_active_runs; an error counts as no active run. *)
CountActive(c) ==
    /\ co[c].pc = "count"
    /\ \/ Goto(c, Gate(c, Cardinality(ActiveRuns(Current(c))))) /\ UNCHANGED faults
       \/ Goto(c, Gate(c, 0)) /\ Fault
    /\ UNCHANGED <<now, jobs, runs, admin>>

(* Mutant: completion is not looked at. *)
OnceFree_EvenDone(c, row) ==
    row.exists /\ (row.onceBy \in {Nobody, c} \/ row.onceUntil <= co[c].at)

OnceFree(c, row) ==
    /\ row.exists /\ ~row.onceDone
    /\ row.onceBy \in {Nobody, c} \/ row.onceUntil <= co[c].at

TryClaimRunOnce(c) ==
    /\ co[c].pc = "once"
    /\ LET j == Current(c)
       IN  IF OnceFree(c, jobs[j])
           THEN /\ jobs' = [jobs EXCEPT ![j].onceBy = c, ![j].onceUntil = co[c].at + TTL]
                /\ Goto(c, "create")
           ELSE /\ Goto(c, "release")
                /\ UNCHANGED jobs
    /\ UNCHANGED <<now, runs, admin, faults>>

CreateRun(c) ==
    LET j == Current(c)
    IN  /\ co[c].pc = "create"
        /\ Len(runs[j]) < MaxRuns
        /\ runs' = [runs EXCEPT ![j] = Append(@, [fire |-> ScheduledFor(c), at |-> co[c].at,
                                                  active |-> TRUE, manual |-> FALSE])]
        /\ Goto(c, IF Kind[j] = "run_once" THEN "mark" ELSE "persist")
        /\ UNCHANGED <<now, jobs, admin, faults>>

(* A write to the current job's row; a row that is gone is left alone (the *)
(* error is logged).                                                       *)
WriteJob(c, row) ==
    IF jobs[Current(c)].exists
    THEN jobs' = [jobs EXCEPT ![Current(c)] = row]
    ELSE UNCHANGED jobs

(* mark_run_once_completed, after the run or on a skipped misfire. *)
MarkCompleted(c) ==
    /\ co[c].pc \in {"mark", "skip_mark"}
    /\ WriteJob(c, [jobs[Current(c)] EXCEPT !.onceDone = TRUE, !.onceBy = Nobody,
                                            !.onceUntil = None])
    /\ Goto(c, IF co[c].pc = "mark" THEN "persist" ELSE "skip_persist")
    /\ UNCHANGED <<now, runs, admin, faults>>

(* persist_post_tick_job_state: the next fire, and no claim, whoever's it  *)
(* is.  The skip path goes on to release the claim a second time.          *)
Persist(c) ==
    /\ co[c].pc \in {"persist", "skip_persist"}
    /\ WriteJob(c, [jobs[Current(c)] EXCEPT !.next = NextRunAt(Current(c), co[c].at),
                                            !.claim = None])
    /\ IF co[c].pc = "persist" THEN NextJob(c) ELSE Goto(c, "release")
    /\ UNCHANGED <<now, runs, admin, faults>>

(* release_run_once_claim, after create_run failed: only by its owner. *)
ReleaseOnce(c) ==
    /\ co[c].pc = "release_once"
    /\ IF jobs[Current(c)].onceBy = c
       THEN WriteJob(c, [jobs[Current(c)] EXCEPT !.onceBy = Nobody, !.onceUntil = None])
       ELSE UNCHANGED jobs
    /\ Goto(c, "release")
    /\ UNCHANGED <<now, runs, admin, faults>>

(* release_job_tick_claim: whoever holds it. *)
ReleaseClaim(c) ==
    /\ co[c].pc = "release"
    /\ WriteJob(c, [jobs[Current(c)] EXCEPT !.claim = None])
    /\ NextJob(c)
    /\ UNCHANGED <<now, runs, admin, faults>>

----------------------------------------------------------------------------
(* What can go wrong.                                                      *)

(* Mutant: a run that could not be created counts as enqueued. *)
AfterError_Ignored(c) ==
    CASE co[c].pc = "soon" -> "each"
      [] co[c].pc = "once" -> "release"
      [] co[c].pc = "create" -> "persist"
      [] co[c].pc = "mark" -> "persist"
      [] co[c].pc = "skip_mark" -> "skip_persist"
      [] co[c].pc \in {"skip_persist", "release_once"} -> "release"

(* Where a store error sends the coordinator, for the calls after whose    *)
(* failure it goes on with the same job.                                   *)
AfterError(c) ==
    CASE co[c].pc = "soon" -> "each"
      [] co[c].pc = "once" -> "release"
      [] co[c].pc = "create" -> IF Kind[Current(c)] = "run_once" THEN "release_once"
                                                                 ELSE "release"
      [] co[c].pc = "mark" -> "persist"
      [] co[c].pc = "skip_mark" -> "skip_persist"
      [] co[c].pc \in {"skip_persist", "release_once"} -> "release"

(* A store call fails and has no effect.  After the others the job is      *)
(* given up; a tick claim then stays until its lease ends.                 *)
StoreError(c) ==
    /\ co[c].pc \notin {"tick", "count"}
    /\ Fault
    /\ IF co[c].pc \in {"each", "read", "persist", "release"}
       THEN NextJob(c)
       ELSE Goto(c, AfterError(c))
    /\ UNCHANGED <<now, jobs, runs, admin>>

(* The process dies, or shutdown drops the tick between two calls, and the *)
(* instance starts again.                                                  *)
Crash(c) ==
    /\ co[c] # Idle
    /\ Fault
    /\ co' = [co EXCEPT ![c] = Idle]
    /\ UNCHANGED <<now, jobs, runs, admin>>

----------------------------------------------------------------------------
OneTick(c) ==
    \/ FindDue(c)
    \/ MinNext(c)
    \/ ClaimJob(c)
    \/ ReadJob(c)
    \/ CountActive(c)
    \/ TryClaimRunOnce(c)
    \/ CreateRun(c)
    \/ MarkCompleted(c)
    \/ Persist(c)
    \/ ReleaseOnce(c)
    \/ ReleaseClaim(c)

Next ==
    \/ Tick
    \/ \E j \in Jobs : \E i \in DOMAIN runs[j] : FinishRun(j, i)
    \/ \E j \in Jobs : RunNow(j)
    \/ \E j \in Jobs, e \in BOOLEAN : SetEnabled(j, e)
    \/ \E j \in Jobs : DeleteJob(j)
    \/ \E c \in Coordinators : OneTick(c)
    \/ \E c \in Coordinators : StoreError(c)
    \/ \E c \in Coordinators : Crash(c)

Spec == Init /\ [][Next]_vars

(***************************************************************************)
(* Fairness.  Time passes, every coordinator's loop runs for ever, and     *)
(* workers finish the runs that are due.                                   *)
(***************************************************************************)
Fairness ==
    /\ WF_vars(Tick)
    /\ \A c \in Coordinators : WF_vars(OneTick(c))
    /\ \A j \in Jobs : WF_vars(\E i \in DOMAIN runs[j] : FinishRun(j, i))

FairSpec == Spec /\ Fairness

----------------------------------------------------------------------------
(* Every variable has its type, and a coordinator has a current job        *)
(* whenever it is past the listing.                                        *)
TypeOK ==
    /\ now \in 0..MaxTime
    /\ jobs \in [Jobs -> Row]
    /\ runs \in [Jobs -> Seq(Run)]
    /\ co \in [Coordinators -> Coordinator]
    /\ \A c \in Coordinators : co[c].pc # "tick" <=> co[c].todo # <<>>
    /\ admin \in 0..MaxAdmin
    /\ faults \in 0..MaxFaults

(* "Tick claims prevent duplicate enqueue when coordinators race on the    *)
(* same job" (store.rs): while nothing stalls, crashes or fails, at most   *)
(* one coordinator is past claim_job_for_tick for a job without a misfire  *)
(* window.  With a window this does not hold: skip_due_job releases the    *)
(* claim twice, and the second time it may be another coordinator's.       *)
SoleClaimant ==
    faults = 0 =>
        \A j \in Jobs, c, d \in Coordinators :
            Window[j] = 0 /\ Claiming(c, j) /\ Claiming(d, j) => c = d

(* The runs of one fire, leaving out those enqueued ahead of its time. *)
OnTimeRuns(j, t) ==
    {i \in DOMAIN runs[j] :
        LET r == runs[j][i] IN ~r.manual /\ r.fire = t /\ r.at >= t}

(* The runs of the tick loop, run_now's left out. *)
Scheduled(j) == {i \in DOMAIN runs[j] : ~runs[j][i].manual}

ScheduledActive(j) == {i \in ActiveRuns(j) : ~runs[j][i].manual}

(* A fire of a job without a misfire window that is not enqueued ahead of  *)
(* its time is enqueued once, however the coordinators' calls interleave   *)
(* and due lists go stale.  With a window, the second release of the skip  *)
(* path (skip_due_job) breaks it.                                          *)
OnTimeFireOnce ==
    faults = 0 =>
        \A j \in Jobs, t \in 0..MaxTime :
            Window[j] = 0 => Cardinality(OnTimeRuns(j, t)) <= 1

(* A single coordinator pays for every further run of a fire with a crash, *)
(* a stall or a store error of its own: what a restart finds in the job    *)
(* row never makes it enqueue a fire over and over.                        *)
RepeatNeedsFault ==
    (\A c, d \in Coordinators : c = d) =>
        \A j \in Jobs, t \in 0..MaxTime : Cardinality(OnTimeRuns(j, t)) <= 1 + faults

(* A run-once job is enqueued at most once, plus once for every crash,     *)
(* stall or error between create_run and mark_run_once_completed.          *)
RunOnceOnce ==
    \A j \in Jobs : Kind[j] = "run_once" => Cardinality(Scheduled(j)) <= 1 + faults

(* Coordinators that race on a job without a misfire window keep it within *)
(* its concurrency between them: count_active_runs and create_run are two  *)
(* calls, and only the tick claim makes them one.                          *)
WithinConcurrency ==
    faults = 0 =>
        \A j \in Jobs : Window[j] = 0 => Cardinality(ScheduledActive(j)) <= Concurrency[j]

(* The tick claim makes the calls of enqueue_due_job one: with no fault,   *)
(* one coordinator at a time is at work on a job without a misfire window, *)
(* and coordinators that race on it keep to its concurrency between them.  *)
TickClaimsSerialize == TypeOK /\ SoleClaimant /\ WithinConcurrency

(* The fires of a job from its next_run_at up to another one. *)
FiresUpTo(j, next) ==
    {jobs[j].next} \cup {t \in (jobs[j].next + 1)..(next - 1) : t % Period[j] = 0}

(* A step that moves next_run_at on. *)
MovesOn(j) ==
    /\ jobs[j].next # None
    /\ jobs'[j].next = None \/ jobs'[j].next > jobs[j].next

FiresKept(j) ==
    MovesOn(j) =>
        \/ \A t \in FiresUpTo(j, jobs'[j].next) :
             \E i \in DOMAIN runs[j] : Covers(runs[j][i], t)
        \/ ~MisfireOk(j, jobs[j].next, now)

(* No fire is lost: next_run_at moves on past fires only when runs that    *)
(* stand for all of them were created, or the misfire policy gives the     *)
(* backlog up.                                                             *)
NoFireLost == [][\A j \in Jobs : FiresKept(j)]_vars

(* A due job is enqueued or skipped in the end, unless it is paused or     *)
(* deleted, or the clock stops before a claim left by a fault expires.     *)
DueIsHandled ==
    \A j \in Jobs, t \in 0..MaxTime :
        jobs[j].next = t ~>
            (jobs[j].next # t \/ jobs[j].onceDone \/ ~jobs[j].enabled \/ ~jobs[j].exists
                \/ jobs[j].claim >= MaxTime)

(* Every fire is settled: none is passed over without a run or a misfire,  *)
(* and a job that is due does not stay so (run_one_tick, skip_due_job).    *)
FiresSettle == NoFireLost /\ DueIsHandled

(* "Prevents duplicate enqueue when multiple scheduler instances race on   *)
(* the same job" (store.rs, claim_job_for_tick): two runs enqueued for a   *)
(* job are for different fires.                                            *)
NoDuplicateFire ==
    faults = 0 =>
        \A j \in Jobs : \A i, k \in DOMAIN runs[j] :
            ~runs[j][i].manual /\ ~runs[j][k].manual /\ runs[j][i].fire = runs[j][k].fire
                => i = k
=============================================================================
