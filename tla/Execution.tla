----------------------------- MODULE Execution -----------------------------
(***************************************************************************)
(* How one Chronon process executes runs.                                  *)
(*                                                                         *)
(* A process is built in a deployment shape (chronon-runtime/src/builder.  *)
(* rs); Chronon::run (runtime.rs) starts the consumer of executor events   *)
(* and, in the shapes that execute, worker slots and a reclaim loop.  Runs *)
(* are executed in two ways:                                               *)
(*                                                                         *)
(*   - a worker slot (worker.rs) claims a run and executes its script in a *)
(*     task of its own.  A timeout drops the handle of that task, which    *)
(*     does not stop it: the script runs on as an orphan;                  *)
(*   - the host claims a run and hands it to Executor::spawn_run           *)
(*     (chronon-executor/src/lib.rs): a task that takes one of             *)
(*     MaxInFlight permits and reports RunStarted and RunCompleted or      *)
(*     RunFailed on a bounded channel.  A panic of the script is not       *)
(*     caught there: it ends the task, which reports nothing.  One         *)
(*     consumer (events.rs) applies the events: it reads the run, checks   *)
(*     the status and writes the whole row back, in separate calls; it may *)
(*     itself panic while it sanitises an error, which closes the channel  *)
(*     for good.  Nobody renews such a lease.                              *)
(*                                                                         *)
(* A lease is live or lapsed; how long it lasts is RunWorker's subject.    *)
(***************************************************************************)
EXTENDS Naturals, Sequences, FiniteSets

CONSTANTS
    RunIds,        \* identifiers of runs (bounds the number of runs)
    NoRun,
    Tasks,         \* identities of spawn_run tasks (bounds their number)
    Slots,         \* worker slots
    Host,          \* the identity under which the host claims
    Nobody,        \* claimed_by = None
    Shapes,        \* deployment shapes the process may be built in
    Scripts,       \* script names of runs
    Registry,      \* the scripts registered in this process
    MaxInFlight,   \* CHRONON_EXECUTOR_CONCURRENCY
    Capacity,      \* CHRONON_EVENT_CHANNEL_CAPACITY
    MaxAttempts,   \* RetryPolicy::max_attempts of the job
    HasTimeout,    \* job.timeout_ms is set and positive
    MaxFaults      \* bound: store calls of the event consumer that fail, and its panic

ASSUME SetsAssumption ==
    /\ NoRun \notin RunIds
    /\ Host \notin Slots /\ Nobody \notin Slots \cup {Host}
    /\ Shapes \subseteq {"embedded", "coordinator", "worker", "remote"}
    /\ Scripts # {} /\ Registry \subseteq Scripts

ASSUME NumbersAssumption ==
    /\ MaxInFlight \in Nat \ {0} /\ Capacity \in Nat \ {0}
    /\ MaxAttempts \in Nat /\ MaxFaults \in Nat
    /\ HasTimeout \in BOOLEAN

VARIABLES
    shape,      \* DeploymentShape
    main,       \* the loop Chronon::run waits for
    reclaimer,  \* the reclaim loop
    handling,   \* the event consumer: "no" yet, "on", or "over" (it panicked)
    table,      \* the run table
    task,       \* the spawn_run tasks
    channel,    \* events on their way to the consumer
    handler,    \* the consumer: where it is, the event and the row it read
    slot,       \* the worker slots
    orphans,    \* runs whose timed-out script may still be running
    faults,
    reclaimed,  \* history: runs that were ever reclaimed
    root        \* history: the first attempt of each run

vars == <<shape, main, reclaimer, handling, table, task, channel, handler, slot,
          orphans, faults, reclaimed, root>>
loopVars == <<shape, main, reclaimer, handling>>
history == <<reclaimed, root>>

----------------------------------------------------------------------------
Terminal == {"success", "failed", "timeout"}
Row == [status : {"none", "queued", "claimed", "running"} \cup Terminal,
        script : Scripts, attempt : Nat,
        by : Slots \cup {Host, Nobody}, lapsed : BOOLEAN]

Held(row) == row.status \in {"claimed", "running"}

ForJob(script, attempt) ==
    [status |-> "queued", script |-> script, attempt |-> attempt,
     by |-> Nobody, lapsed |-> FALSE]

Blank == [ForJob(CHOOSE s \in Scripts : TRUE, 1) EXCEPT !.status = "none"]
Unused == {r \in RunIds : table[r].status = "none"}

(* Uuid::new_v4: an identifier that is not in the table. *)
NewRunId == CHOOSE r \in Unused : TRUE

(* claim_next_queued, by whoever asks. *)
Taken(row, who) == [row EXCEPT !.status = "claimed", !.by = who, !.lapsed = FALSE]

(* What an execution that returns can come to.  An unregistered script     *)
(* fails before anything runs.  A panic is one more failure in a slot,     *)
(* which catches it (execute_script_catch_panic); spawn_run does not, see  *)
(* TaskPanics.                                                             *)
Outcomes(row) == IF row.script \in Registry THEN {"success", "failed"} ELSE {"failed"}

ShouldRetry(row) == row.attempt <= MaxAttempts

Idle == [at |-> "idle", run |-> NoRun, row |-> Blank]
NoTask == [at |-> "none", run |-> NoRun, row |-> Blank]
Quiet == [at |-> "idle", kind |-> "none", run |-> NoRun, row |-> Blank]

(* The shapes that execute: run() starts slots and a reclaim loop. *)
Executes == shape \in {"embedded", "worker"}
SlotsAlive == Executes /\ main # "unstarted"

Fault == faults < MaxFaults /\ faults' = faults + 1

----------------------------------------------------------------------------
(* Build: ChrononBuilder::build. *)
Init ==
    /\ shape \in Shapes
    /\ main = "unstarted" /\ reclaimer = "none" /\ handling = "no"
    /\ table = [r \in RunIds |-> Blank]
    /\ task = [t \in Tasks |-> NoTask]
    /\ channel = <<>>
    /\ handler = Quiet
    /\ slot = [s \in Slots |-> Idle]
    /\ orphans = {} /\ faults = 0
    /\ reclaimed = [r \in RunIds |-> FALSE]
    /\ root = [r \in RunIds |-> r]

(* Chronon::run: the event consumer starts in every shape, the remote      *)
(* client then gets an error.                                              *)
Run ==
    /\ main = "unstarted"
    /\ handling' = "on"
    /\ main' = IF shape = "remote" THEN "refused" ELSE "waiting"
    /\ reclaimer' = IF Executes THEN "waiting" ELSE "none"
    /\ UNCHANGED <<shape, table, task, channel, handler, slot, orphans, faults, history>>

(* Chronon::shutdown: Notify::notify_waiters reaches the loops that are    *)
(* waiting at that moment; one that is in its body (a heartbeat, a reclaim *)
(* call) misses it.  Slots, tasks and the consumer do not listen.          *)
Shutdown ==
    /\ main = "waiting" \/ reclaimer = "waiting"
    /\ \/ main = "waiting" /\ main' = "returned"
       \/ main' = main
    /\ \/ reclaimer = "waiting" /\ reclaimer' = "stopped"
       \/ reclaimer' = reclaimer
    /\ UNCHANGED <<shape, handling, table, task, channel, handler, slot, orphans,
                   faults, history>>

----------------------------------------------------------------------------
(* The queue: somebody enqueues a run; a lease nobody renews lapses; the   *)
(* reclaim loop wakes and requeues what lapsed.                            *)

Enqueue(script) ==
    /\ Unused = RunIds
    /\ table' = [table EXCEPT ![NewRunId] = ForJob(script, 1)]
    /\ UNCHANGED <<loopVars, task, channel, handler, slot, orphans, faults, history>>

(* A slot that works on its run keeps the lease alive. *)
Renewed(r) == \E s \in Slots : slot[s].run = r /\ table[r].by = s

Lapse(r) ==
    /\ Held(table[r]) /\ table[r].by # Nobody
    /\ ~table[r].lapsed /\ ~Renewed(r)
    /\ table' = [table EXCEPT ![r].lapsed = TRUE]
    /\ handler' = IF handler.run = r THEN [handler EXCEPT !.row.lapsed = TRUE] ELSE handler
    /\ UNCHANGED <<loopVars, task, channel, slot, orphans, faults, history>>


Due(r) == Held(table[r]) /\ table[r].lapsed

Reclaim ==
    /\ reclaimer = "waiting"
    /\ \E r \in RunIds : Due(r)
    /\ table' = [r \in RunIds |->
                   IF Due(r) THEN [table[r] EXCEPT !.status = "queued", !.by = Nobody,
                                                   !.lapsed = FALSE]
                   ELSE table[r]]
    /\ reclaimed' = [r \in RunIds |-> reclaimed[r] \/ Due(r)]
    /\ UNCHANGED <<loopVars, task, channel, handler, slot, orphans, faults, root>>

----------------------------------------------------------------------------
(* Executor::spawn_run.                                                    *)

Claimable(r) == table[r].status = "queued"

Dispatch(r) ==
    LET t == CHOOSE u \in Tasks : task[u] = NoTask IN
    /\ \E u \in Tasks : task[u] = NoTask
    /\ Claimable(r)
    /\ table' = [table EXCEPT ![r] = Taken(table[r], Host)]
    /\ task' = [task EXCEPT ![t] = [at |-> "permit", run |-> r, row |-> table[r]]]
    /\ UNCHANGED <<loopVars, channel, handler, slot, orphans, faults, history>>

InFlight == {t \in Tasks : task[t].at \in {"start", "running", "report"}}

Step(t, at) == task' = [task EXCEPT ![t].at = at]

Acquire(t) ==
    /\ task[t].at = "permit"
    /\ Cardinality(InFlight) < MaxInFlight
    /\ Step(t, "start")
    /\ UNCHANGED <<loopVars, table, channel, handler, slot, orphans, faults, history>>

(* mpsc::Sender::send waits while the channel is full and fails once its   *)
(* receiver is gone.                                                       *)
Send(kind, r) ==
    /\ handling # "over" /\ Len(channel) < Capacity
    /\ channel' = Append(channel, [kind |-> kind, run |-> r])

SendStarted(t) ==
    /\ task[t].at = "start"
    /\ Send("started", task[t].run)
    /\ Step(t, "running")
    /\ UNCHANGED <<loopVars, table, handler, slot, orphans, faults, history>>

(* execute_script returns; spawn_run knows no timeout. *)
TaskScriptEnds(t, outcome) ==
    /\ task[t].at = "running" /\ outcome \in Outcomes(task[t].row)
    /\ task' = [task EXCEPT ![t].at = "report", ![t].row.status = outcome]
    /\ UNCHANGED <<loopVars, table, channel, handler, slot, orphans, faults, history>>

(* The script panics under spawn_run: the task unwinds, its permit comes   *)
(* free, and no event is sent.                                             *)
TaskPanics(t) ==
    /\ task[t].at = "running" /\ task[t].row.script \in Registry
    /\ Step(t, "panicked")
    /\ UNCHANGED <<loopVars, table, channel, handler, slot, orphans, faults, history>>

Done == [NoTask EXCEPT !.at = "done"]

SendOutcome(t) ==
    /\ task[t].at = "report"
    /\ Send(task[t].row.status, task[t].run)
    /\ task' = [task EXCEPT ![t] = Done]
    /\ UNCHANGED <<loopVars, table, handler, slot, orphans, faults, history>>

(* The channel is closed: a task that has its permit gives up before the   *)
(* script, one that has executed it logs that nobody takes its outcome.    *)
SendFails(t) ==
    /\ handling = "over" /\ task[t].at \in {"start", "report"}
    /\ task' = [task EXCEPT ![t] = Done]
    /\ UNCHANGED <<loopVars, table, channel, handler, slot, orphans, faults, history>>

----------------------------------------------------------------------------
(* handle_executor_event.                                                  *)

(* Mutant: an outcome is applied only to a run that is still claimed. *)
Applies_NotRunning(event, row) == row.status = "claimed"

(* The transitions that are not ignored. *)
Applies(event, row) ==
    IF event.kind = "started" THEN row.status \in {"queued", "claimed"}
                              ELSE row.status = "running"

(* get_run; for a failure get_job as well. *)
HandlerRead ==
    /\ handling = "on" /\ handler = Quiet /\ channel # <<>>
    /\ channel' = Tail(channel)
    /\ LET e == Head(channel)
       IN  handler' = IF Applies(e, table[e.run])
                      THEN [at |-> "write", kind |-> e.kind, run |-> e.run,
                            row |-> table[e.run]]
                      ELSE Quiet
    /\ UNCHANGED <<loopVars, table, task, slot, orphans, faults, history>>

(* update_run of the row that was read, with the status of the event. *)
HandlerWrite ==
    /\ handler.at = "write"
    /\ LET status == IF handler.kind = "started" THEN "running" ELSE handler.kind
           row == [handler.row EXCEPT !.status = status]
       IN  /\ table' = [table EXCEPT ![handler.run] = row]
           /\ handler' = IF status = "failed" /\ ShouldRetry(row)
                         THEN [handler EXCEPT !.at = "retry", !.row = row]
                         ELSE Quiet
    /\ UNCHANGED <<loopVars, task, channel, slot, orphans, faults, history>>

(* finalize_failed_run: the next attempt of the run.  Bound: none is       *)
(* created when the identifiers are used up.                               *)
CreateRetry(run, row) ==
    IF Unused = {} THEN UNCHANGED <<table, root>>
    ELSE /\ table' = [table EXCEPT ![NewRunId] = ForJob(row.script, row.attempt + 1)]
         /\ root' = [root EXCEPT ![NewRunId] = root[run]]

HandlerRetry ==
    /\ handler.at = "retry"
    /\ CreateRetry(handler.run, handler.row)
    /\ handler' = Quiet
    /\ UNCHANGED <<loopVars, task, channel, slot, orphans, faults, reclaimed>>

(* A store call fails: the consumer logs it and goes on to the next event. *)
HandlerFails ==
    /\ handler # Quiet
    /\ Fault
    /\ handler' = Quiet
    /\ UNCHANGED <<loopVars, table, task, channel, slot, orphans, history>>

(* sanitize_error_message panics on the error of a failure (Reporting says *)
(* which) before the row is written: the consumer's task ends and drops    *)
(* the receiver with what it still holds.                                  *)
HandlerPanics ==
    /\ handler.at = "write" /\ handler.kind = "failed"
    /\ Fault
    /\ handling' = "over" /\ channel' = <<>> /\ handler' = Quiet
    /\ UNCHANGED <<shape, main, reclaimer, table, task, slot, orphans, history>>

----------------------------------------------------------------------------
(* The worker slots.                                                       *)

SlotClaim(s, r) ==
    /\ SlotsAlive /\ slot[s] = Idle /\ table[r].status = "queued"
    /\ table' = [table EXCEPT ![r] = Taken(table[r], s)]
    /\ slot' = [slot EXCEPT ![s] = [at |-> "claimed", run |-> r, row |-> Taken(table[r], s)]]
    /\ UNCHANGED <<loopVars, task, channel, handler, orphans, faults, history>>

Write(s, status) == table' = [table EXCEPT ![slot[s].run] = [slot[s].row EXCEPT !.status = status]]

(* The run is marked running; its script runs in a task of its own. *)
SlotStart(s) ==
    /\ slot[s].at = "claimed"
    /\ Write(s, "running")
    /\ slot' = [slot EXCEPT ![s].at = "running"]
    /\ UNCHANGED <<loopVars, task, channel, handler, orphans, faults, history>>

(* The slot writes the outcome; after a failure it may have a retry to     *)
(* create before it is free.                                               *)
Settle(s, status) ==
    /\ Write(s, status)
    /\ slot' = [slot EXCEPT ![s] =
                  IF status # "success" /\ ShouldRetry(slot[s].row)
                  THEN [slot[s] EXCEPT !.at = "retry"] ELSE Idle]

(* execute_script_catch_panic returns in time. *)
SlotEnds(s, status) ==
    /\ slot[s].at = "running" /\ status \in Outcomes(slot[s].row)
    /\ Settle(s, status)
    /\ UNCHANGED <<loopVars, task, channel, handler, orphans, faults, history>>

(* tokio's timeout fires: the handle of the script's task is dropped. *)
SlotTimesOut(s) ==
    /\ HasTimeout
    /\ slot[s].at = "running" /\ slot[s].row.script \in Registry
    /\ Settle(s, "timeout")
    /\ orphans' = orphans \cup {slot[s].run}
    /\ UNCHANGED <<loopVars, task, channel, handler, faults, history>>

SlotRetry(s) ==
    /\ slot[s].at = "retry"
    /\ CreateRetry(slot[s].run, slot[s].row)
    /\ slot' = [slot EXCEPT ![s] = Idle]
    /\ UNCHANGED <<loopVars, task, channel, handler, orphans, faults, reclaimed>>

(* Mutant: the script writes its outcome itself. *)
OrphanEnds_Writes(r) ==
    /\ r \in orphans
    /\ orphans' = orphans \ {r}
    /\ table' = [table EXCEPT ![r].status = "success"]
    /\ UNCHANGED <<loopVars, task, channel, handler, slot, faults, history>>

(* A script that ran out of time ends: nobody waits for its result. *)
OrphanEnds(r) ==
    /\ r \in orphans
    /\ orphans' = orphans \ {r}
    /\ UNCHANGED <<loopVars, table, task, channel, handler, slot, faults, history>>

----------------------------------------------------------------------------
Task(t) ==
    \/ Acquire(t)
    \/ SendStarted(t)
    \/ \E o \in {"success", "failed"} : TaskScriptEnds(t, o)
    \/ TaskPanics(t)
    \/ SendOutcome(t) \/ SendFails(t)

Handler == HandlerRead \/ HandlerWrite \/ HandlerRetry

Slot(s) ==
    \/ \E r \in RunIds : SlotClaim(s, r)
    \/ SlotStart(s)
    \/ \E o \in {"success", "failed"} : SlotEnds(s, o)
    \/ SlotTimesOut(s)
    \/ SlotRetry(s)

Next ==
    \/ Run \/ Shutdown
    \/ \E s \in Scripts : Enqueue(s)
    \/ \E r \in RunIds : Lapse(r) \/ OrphanEnds(r)
    \/ Reclaim
    \/ \E r \in RunIds : Dispatch(r)
    \/ \E t \in Tasks : Task(t)
    \/ Handler \/ HandlerFails \/ HandlerPanics
    \/ \E s \in Slots : Slot(s)

Spec == Init /\ [][Next]_vars

(***************************************************************************)
(* Fairness.  Spawned tasks, the consumer, the loops and the slots are     *)
(* scheduled; leases nobody renews lapse.  A script a slot executes may    *)
(* hang when its job has a timeout, and must return when it has none; a    *)
(* script spawn_run executes must return.  Orphans need not end, and       *)
(* nobody has to dispatch, shut down or call run().                        *)
(***************************************************************************)
Fairness ==
    /\ \A t \in Tasks : WF_vars(Task(t))
    /\ WF_vars(Handler) /\ WF_vars(Reclaim)
    /\ \A r \in RunIds : WF_vars(Lapse(r))
    /\ \A s \in Slots :
         /\ WF_vars(SlotStart(s) \/ SlotTimesOut(s) \/ SlotRetry(s))
         /\ WF_vars(\E r \in RunIds : SlotClaim(s, r))
         /\ WF_vars((~HasTimeout \/ slot[s].row.script \notin Registry)
                      /\ \E o \in {"success", "failed"} : SlotEnds(s, o))

FairSpec == Spec /\ Fairness

----------------------------------------------------------------------------
(* Every variable has its type; the channel keeps to its capacity and the  *)
(* tasks past the semaphore to its permits.                                *)
TypeOK ==
    /\ shape \in Shapes
    /\ main \in {"unstarted", "waiting", "returned", "refused"}
    /\ reclaimer \in {"none", "waiting", "stopped"}
    /\ handling \in {"no", "on", "over"}
    /\ table \in [RunIds -> Row]
    /\ Cardinality(InFlight) <= MaxInFlight
    /\ Len(channel) <= Capacity
    /\ handler.at \in {"idle", "write", "retry"} /\ handler.row \in Row
    /\ \A s \in Slots : slot[s].row \in Row
    /\ orphans \subseteq RunIds /\ faults \in 0..MaxFaults
    /\ reclaimed \in [RunIds -> BOOLEAN] /\ root \in [RunIds -> RunIds]

Scripting == {t \in Tasks : task[t].at = "running"}
SlotScripting == {s \in Slots : slot[s].at = "running"}

(* How many scripts of one chain of attempts are running. *)
Running(r0) ==
    Cardinality({t \in Scripting : root[task[t].run] = r0})
      + Cardinality({s \in SlotScripting : root[slot[s].run] = r0})
      + Cardinality({r \in orphans : root[r] = r0})

(* A retry never runs beside the attempt it repeats, nor two executions of *)
(* one run, except in the two ways the code admits: a timed-out script was *)
(* left running, or the run's lease lapsed and it was reclaimed.           *)
OverlapHasCause ==
    \A r0 \in RunIds : Running(r0) > 1 =>
        \E r \in RunIds : root[r] = r0 /\ (r \in orphans \/ reclaimed[r])

(* Events are not lost on their way: a run the host dispatched and that    *)
(* was neither reclaimed nor hit by a failure of the consumer is running   *)
(* in the table only while its task is at work or its outcome is still on  *)
(* its way to the consumer.  One thing alone leaves it running with        *)
(* neither: its script panicked under spawn_run.  Such a run waits for its *)
(* lease to lapse.                                                         *)
Panicked(r) == \E t \in Tasks : task[t].run = r /\ task[t].at = "panicked"

RunningHasATask ==
    \A r \in RunIds :
        table[r].status = "running" /\ table[r].by = Host /\ ~reclaimed[r] /\ faults = 0
        => \/ \E t \in Tasks : task[t].run = r /\ task[t].at \in {"running", "report"}
           \/ Panicked(r)
           \/ \E i \in 1..Len(channel) : channel[i].run = r /\ channel[i].kind # "started"
           \/ handler.run = r

(* Executions and rows account for each other: the permits and the channel *)
(* keep their bounds, no execution is there twice without a cause, and no  *)
(* row says running without one, unless the script panicked (spawn_run,    *)
(* handle_executor_event).                                                 *)
ExecutionsAccounted == TypeOK /\ OverlapHasCause /\ RunningHasATask

(* "late events must not rewind or complete a run" (events.rs): a run that *)
(* was never reclaimed ends once, although the consumer reads and writes   *)
(* in separate calls, timed-out scripts run on and slots share the table.  *)
TerminalIsFinal ==
    [][\A r \in RunIds :
         table[r].status \in Terminal /\ ~reclaimed[r]
            => table'[r].status = table[r].status]_vars

(* What a slot has claimed it settles, also after a shutdown (slots do not *)
(* listen for it) and also when the script hangs, if the job has a         *)
(* timeout.                                                                *)
SlotsSettle ==
    \A s \in Slots : slot[s] # Idle ~> slot[s] = Idle

(* In a process that executes, is started and never shut down, every run   *)
(* ends, whichever way it is executed: a full or closed channel, one       *)
(* permit, lost events, scripts that panic and lapsed leases included.     *)
(* The one exception: RunStarted is accepted from a run that was reclaimed *)
(* in the meantime and leaves it running without claim or lease; if no     *)
(* outcome follows, because the consumer failed or because the script      *)
(* panicked, nothing ever takes the run up again.                          *)
Stranded(r) ==
    /\ table[r].status = "running" /\ table[r].by = Nobody
    /\ faults > 0 \/ Panicked(r)

AllRunsEnd ==
    (<>[](Executes /\ main # "unstarted" /\ reclaimer = "waiting"))
        => <>[](\A r \in RunIds : table[r].status \in Terminal \cup {"none"} \/ Stranded(r))

=============================================================================
