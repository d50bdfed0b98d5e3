------------------------------ MODULE JobAdmin ------------------------------
(***************************************************************************)
(* Creating, changing and deleting jobs while the tick loop works on them  *)
(* (chronon-axum/src/handlers.rs, chronon-runtime/src/coordinator_service  *)
(* .rs and the job tables of the stores).                                  *)
(*                                                                         *)
(* An upsert is a read, some decisions on a private copy, and the write of *)
(* the WHOLE row, the tick loop's columns included: get_job_by_name, then  *)
(* in CoordinatorService::upsert_job get_job, perhaps get_job_by_name      *)
(* again, append_revision, and the store's upsert_job.  delete_job is      *)
(* three statements in SQL and two locks in memory.  No transaction holds  *)
(* them together, so every step here is one store call of one of several   *)
(* clients, or of the one leader that ticks.                               *)
(*                                                                         *)
(* Time is only what the tick loop tells apart: next_run_at is "none",     *)
(* "later" or "due", and Pass makes what was later due and lets the tick   *)
(* claims lapse.  A row's `tag` is the number of the request that wrote    *)
(* its configuration: it stands for all the columns the tick loop copies   *)
(* or ignores (params, pool, region, limits, policies).                    *)
(***************************************************************************)
EXTENDS Integers, FiniteSets

CONSTANTS
    JobIds,      \* job ids, UUIDs: each is made once
    NoJob,       \* no row
    Clients,     \* concurrent callers of the service
    Names,       \* job names
    Scripts,     \* scripts that jobs may name
    Registered,  \* of these, the ones in the host's ScriptRegistry
    Actors,      \* actor_json values
    NoActor,     \* actor_json = null
    Privileged,  \* System- and ServiceUser-shaped actors
    Backends,    \* stores: "sql" or "mem"
    HttpUpserts, \* POST /jobs/upsert bodies
    HostUpserts, \* in-process upserts
    MaxRequests, \* bound: requests that write
    MaxFaults    \* bound: clients that die

Kinds == {"cron", "run_once", "manual"}
Upserts == [name : Names, to : Names, script : Scripts, kind : Kinds,
            actor : Actors, on : BOOLEAN, bump : BOOLEAN]

Row == [name : Names, script : Scripts, kind : Kinds, enabled : BOOLEAN,
        next : {"none", "later", "due"},
        claimed : BOOLEAN,  \* claim_lease_until is set and not past
        done : BOOLEAN,     \* run_once_completed_at is set
        rev : 1..(MaxRequests + 1), actor : Actors,
        via : {"http", "host"}, tag : 1..MaxRequests]

ASSUME AdminAssumption ==
    /\ Backends \subseteq {"sql", "mem"}
    /\ NoActor \in Actors /\ Privileged \subseteq Actors \ {NoActor}
    /\ Registered \subseteq Scripts
    /\ HttpUpserts \subseteq Upserts /\ HostUpserts \subseteq Upserts
    /\ \A q \in HttpUpserts : q.to = q.name /\ q.bump
    /\ NoJob \notin Row
    /\ MaxRequests \in Nat /\ MaxFaults \in Nat

VARIABLES
    backend,   \* the store this deployment has
    jobs,      \* the job table
    revisions, \* the revision table: the numbers and tags of each job
    client,    \* what each client is doing
    ticker,    \* what the tick loop is doing
    used,      \* job ids made so far
    requests,  \* requests so far
    faults,    \* faults so far
    fired,     \* history: runs the tick loop made of a run-once job
    undone,    \* history: upserts that put a job back to not yet completed
    overtaken, \* history: jobs whose row is from a request that another overtook
    wiped,     \* history: jobs a delete has taken something from
    undeleted, \* history: jobs an upsert under way wrote to after that, and
               \*          jobs whose delete stopped between its statements
    unmade     \* history: new jobs refused, or given up, after their revision

vars == <<backend, jobs, revisions, client, ticker, used, requests, faults, fired,
          undone, overtaken, wiped, undeleted, unmade>>
marks == <<undone, overtaken, wiped, undeleted, unmade>>

Stored == {j \in JobIds : jobs[j] # NoJob}
Named(n) == {j \in Stored : jobs[j].name = n}

Idle == [pc |-> "idle"]

(* What a client or the ticker has in hand: a copy of the row, and the     *)
(* revision number it was read with (0 for a new job).  get_job finds the  *)
(* name `free` if the job is not there, or that the number `moved`.        *)
Busy(pc, j, job, old) ==
    [pc |-> pc, id |-> j, job |-> job, old |-> old, free |-> FALSE, moved |-> FALSE]

Mark(set, j, cond) == IF cond THEN set \cup {j} ELSE set

----------------------------------------------------------------------------
(* The copy an upsert works on.                                            *)

(* Job::new, and JobBuilder::build when the host makes the job: over HTTP  *)
(* there is no field for the time of a run-once job.                       *)
NewJob(q, via, tag) ==
    [name |-> q.name, script |-> q.script, kind |-> q.kind, enabled |-> q.on,
     next |-> IF q.kind = "cron" \/ (q.kind = "run_once" /\ via = "host") THEN "later" ELSE "none",
     claimed |-> FALSE, done |-> FALSE, rev |-> 1, actor |-> q.actor,
     via |-> via, tag |-> tag]

(* The existing row with the request's fields on top: an actor that is     *)
(* null is left as it was, and only cron sets next_run_at anew.            *)
Changed(row, q, via, tag) ==
    [row EXCEPT !.name = q.to, !.script = q.script, !.kind = q.kind, !.enabled = q.on,
                !.next = IF q.kind = "cron" THEN "later" ELSE @,
                !.rev = IF q.bump THEN @ + 1 ELSE @,
                !.actor = IF q.actor = NoActor THEN @ ELSE q.actor,
                !.via = via, !.tag = tag]

(* The checks of the HTTP handler: the script is registered, the actor is  *)
(* not privileged (RejectExternalPrivilegedActor).                         *)
Admitted(q) == q.script \in Registered /\ q.actor \notin Privileged

(* The read by name and everything up to the service's first read. *)
Begin(c, q, via) ==
    /\ client[c] = Idle /\ requests < MaxRequests
    /\ requests' = requests + 1
    /\ \/ \E j \in Named(q.name) :
            /\ client' = [client EXCEPT ![c] =
                            Busy("exists", j, Changed(jobs[j], q, via, requests + 1), jobs[j].rev)]
            /\ UNCHANGED used
       \/ /\ Named(q.name) = {}
          /\ \E j \in JobIds \ used :
               /\ client' = [client EXCEPT ![c] =
                               Busy("exists", j, NewJob(q, via, requests + 1), 0)]
               /\ used' = used \cup {j}
    /\ UNCHANGED <<backend, jobs, revisions, ticker, faults, fired, marks>>

HttpUpsert(c) == \E q \in HttpUpserts : Admitted(q) /\ Begin(c, q, "http")
HostUpsert(c) == \E q \in HostUpserts : Begin(c, q, "host")

----------------------------------------------------------------------------
(* CoordinatorService::upsert_job.                                         *)

(* get_job: a job that exists must keep its script, and gets a revision if *)
(* its number changes; the name of a new one is looked up first.           *)
AfterGetJob(s, row) ==
    IF row = NoJob THEN "name"
    ELSE IF row.script # s.job.script THEN "refused"
    ELSE IF row.rev # s.job.rev THEN "append" ELSE "write"

GetJob(c) ==
    /\ client[c].pc = "exists"
    /\ LET s == client[c]
           row == jobs[s.id]
           pc == AfterGetJob(s, row) IN
       client' = [client EXCEPT ![c] =
                    IF pc = "refused" THEN Idle
                    ELSE [s EXCEPT !.pc = pc, !.moved = row # NoJob /\ row.rev # s.old]]
    /\ UNCHANGED <<backend, jobs, revisions, ticker, used, requests, faults, fired, marks>>

(* get_job_by_name: JobNameTaken. *)
CheckName(c) ==
    /\ client[c].pc = "name"
    /\ LET s == client[c] IN
       client' = [client EXCEPT ![c] = IF Named(s.job.name) # {} THEN Idle
                                       ELSE [s EXCEPT !.pc = "append", !.free = TRUE]]
    /\ UNCHANGED <<backend, jobs, revisions, ticker, used, requests, faults, fired, marks>>

(* When get_job found nothing the revision is number 1 whatever the copy   *)
(* says, for a job that was deleted meanwhile too.                         *)
Appended(s) == <<IF s.free THEN 1 ELSE s.job.rev, s.job.tag>>

AppendRevision(c) ==
    /\ client[c].pc = "append"
    /\ LET s == client[c] IN
       /\ revisions' = [revisions EXCEPT ![s.id] = @ \cup {Appended(s)}]
       /\ undeleted' = Mark(undeleted, s.id, s.id \in wiped)
    /\ client' = [client EXCEPT ![c].pc = "write"]
    /\ UNCHANGED <<backend, jobs, ticker, used, requests, faults, fired,
                   undone, overtaken, wiped, unmade>>

(* Mutant: a name that another job has is written over. *)
NameFree_Unchecked(j, n) == TRUE

(* write_job / UNIQUE (job_name). *)
NameFree(j, n) == Named(n) \subseteq {j}

(* A job that was completed, or deleted, is there again and not completed. *)
PutsBack(s) == ~s.job.done /\ IF jobs[s.id] = NoJob THEN s.old # 0 ELSE jobs[s.id].done

(* The store's upsert_job.  A refused one is over; its revision stays. *)
WriteJob(c) ==
    /\ client[c].pc = "write"
    /\ LET s == client[c] IN
       IF NameFree(s.id, s.job.name)
       THEN /\ jobs' = [jobs EXCEPT ![s.id] = s.job]
            /\ undone' = [undone EXCEPT ![s.id] = IF PutsBack(s) THEN @ + 1 ELSE @]
            /\ overtaken' = IF s.moved THEN overtaken \cup {s.id} ELSE overtaken \ {s.id}
            /\ undeleted' = Mark(undeleted, s.id, s.id \in wiped)
            /\ UNCHANGED unmade
       ELSE /\ unmade' = Mark(unmade, s.id, s.old = 0)
            /\ UNCHANGED <<jobs, undone, overtaken, undeleted>>
    /\ client' = [client EXCEPT ![c] = Idle]
    /\ UNCHANGED <<backend, revisions, ticker, used, requests, faults, fired, wiped>>

----------------------------------------------------------------------------
(* delete_job in SQL: a read, then the revisions, then the row.  In memory *)
(* the row under one lock, then the revisions under another.               *)

Delete(c) ==
    /\ client[c] = Idle /\ requests < MaxRequests
    /\ requests' = requests + 1
    /\ \E j \in Stored :
         \/ /\ backend = "sql"
            /\ client' = [client EXCEPT ![c] = Busy("deleteRevisions", j, jobs[j], jobs[j].rev)]
            /\ UNCHANGED <<jobs, wiped>>
         \/ /\ backend = "mem"
            /\ client' = [client EXCEPT ![c] = Busy("dropRevisions", j, jobs[j], jobs[j].rev)]
            /\ jobs' = [jobs EXCEPT ![j] = NoJob]
            /\ wiped' = wiped \cup {j}
    /\ UNCHANGED <<backend, revisions, ticker, used, faults, fired,
                   undone, overtaken, undeleted, unmade>>

DeleteRevisions(c) ==
    /\ client[c].pc = "deleteRevisions"
    /\ revisions' = [revisions EXCEPT ![client[c].id] = {}]
    /\ wiped' = wiped \cup {client[c].id}
    /\ client' = [client EXCEPT ![c].pc = "deleteRow"]
    /\ UNCHANGED <<backend, jobs, ticker, used, requests, faults, fired,
                   undone, overtaken, undeleted, unmade>>

DeleteRow(c) ==
    /\ client[c].pc = "deleteRow"
    /\ jobs' = [jobs EXCEPT ![client[c].id] = NoJob]
    /\ client' = [client EXCEPT ![c] = Idle]
    /\ UNCHANGED <<backend, revisions, ticker, used, requests, faults, fired, marks>>

DropRevisions(c) ==
    /\ client[c].pc = "dropRevisions"
    /\ revisions' = [revisions EXCEPT ![client[c].id] = {}]
    /\ client' = [client EXCEPT ![c] = Idle]
    /\ UNCHANGED <<backend, jobs, ticker, used, requests, faults, fired, marks>>

(* pause_job and resume_job: one UPDATE of one column. *)
SetEnabled(c) ==
    /\ client[c] = Idle /\ requests < MaxRequests
    /\ requests' = requests + 1
    /\ \E j \in Stored, on \in BOOLEAN : jobs' = [jobs EXCEPT ![j].enabled = on]
    /\ UNCHANGED <<backend, revisions, client, ticker, used, faults, fired, marks>>

(* A client dies, or its call fails, between two statements; the two locks *)
(* of the in-memory delete have nothing between them that fails.           *)
Dies(c) ==
    /\ client[c] # Idle /\ client[c].pc # "dropRevisions" /\ faults < MaxFaults
    /\ faults' = faults + 1
    /\ undeleted' = Mark(undeleted, client[c].id, client[c].pc = "deleteRow")
    /\ unmade' = Mark(unmade, client[c].id, client[c].pc = "write" /\ client[c].old = 0)
    /\ client' = [client EXCEPT ![c] = Idle]
    /\ UNCHANGED <<backend, jobs, revisions, ticker, used, requests, fired,
                   undone, overtaken, wiped>>

----------------------------------------------------------------------------
(* The tick loop.                                                          *)

(* Mutant: a claim whose lease is past still counts. *)
Lapse_Never(row) == IF row.next = "later" THEN [row EXCEPT !.next = "due"] ELSE row

Lapse(row) == [row EXCEPT !.next = IF @ = "later" THEN "due" ELSE @, !.claimed = FALSE]

(* find_due_job_ids_in_partitions. *)
Due(row) ==
    /\ row.enabled /\ row.kind # "manual" /\ row.next = "due" /\ ~row.claimed
    /\ row.kind = "run_once" => ~row.done

FindDue ==
    /\ ticker.pc = "idle"
    /\ \E j \in Stored : Due(jobs[j]) /\ ticker' = [pc |-> "claim", id |-> j]
    /\ UNCHANGED <<backend, jobs, revisions, client, used, requests, faults, fired, marks>>

(* claim_job_for_tick does not ask again whether the job is due. *)
ClaimJob ==
    /\ ticker.pc = "claim"
    /\ LET j == ticker.id IN
       IF j \in Stored /\ jobs[j].enabled /\ ~jobs[j].claimed
       THEN /\ jobs' = [jobs EXCEPT ![j].claimed = TRUE]
            /\ ticker' = [ticker EXCEPT !.pc = "get"]
       ELSE ticker' = Idle /\ UNCHANGED jobs
    /\ UNCHANGED <<backend, revisions, client, used, requests, faults, fired, marks>>

(* The row as enqueue_due_job uses it from here on. *)
GetDueJob ==
    /\ ticker.pc = "get"
    /\ ticker' = IF jobs[ticker.id] = NoJob THEN Idle
                 ELSE Busy("enqueue", ticker.id, jobs[ticker.id], jobs[ticker.id].rev)
    /\ UNCHANGED <<backend, jobs, revisions, client, used, requests, faults, fired, marks>>

(* try_claim_run_once looks at the row again; if it is done the claim is   *)
(* released.  One leader ticks, so the run-once claim itself is free.      *)
Enqueue ==
    /\ ticker.pc = "enqueue"
    /\ LET j == ticker.id
           once == ticker.job.kind = "run_once" IN
       IF once /\ (j \notin Stored \/ jobs[j].done)
       THEN /\ jobs' = IF j \in Stored THEN [jobs EXCEPT ![j].claimed = FALSE] ELSE jobs
            /\ ticker' = Idle
            /\ UNCHANGED fired
       ELSE /\ fired' = [fired EXCEPT ![j] = IF once THEN @ + 1 ELSE @]
            /\ ticker' = [ticker EXCEPT !.pc = IF once THEN "mark" ELSE "persist"]
            /\ UNCHANGED jobs
    /\ UNCHANGED <<backend, revisions, client, used, requests, faults, marks>>

(* Mutant: run_once_completed_at is not set. *)
Completed_Not(row) == row

Completed(row) == [row EXCEPT !.done = TRUE]

MarkCompleted ==
    /\ ticker.pc = "mark"
    /\ jobs' = IF ticker.id \in Stored THEN [jobs EXCEPT ![ticker.id] = Completed(@)] ELSE jobs
    /\ ticker' = [ticker EXCEPT !.pc = "persist"]
    /\ UNCHANGED <<backend, revisions, client, used, requests, faults, fired, marks>>

(* persist_post_tick_job_state, for the kind the copy has. *)
Persist ==
    /\ ticker.pc = "persist"
    /\ jobs' = IF ticker.id \in Stored
               THEN [jobs EXCEPT ![ticker.id].next = IF ticker.job.kind = "cron" THEN "later" ELSE "none",
                                 ![ticker.id].claimed = FALSE]
               ELSE jobs
    /\ ticker' = Idle
    /\ UNCHANGED <<backend, revisions, client, used, requests, faults, fired, marks>>

(* Time passes, for the copies as well. *)
Pass ==
    /\ \E j \in Stored : jobs[j] # Lapse(jobs[j])
    /\ jobs' = [j \in JobIds |-> IF jobs[j] = NoJob THEN NoJob ELSE Lapse(jobs[j])]
    /\ client' = [c \in Clients |-> IF client[c] = Idle THEN Idle ELSE
                    [client[c] EXCEPT !.job = Lapse(@)]]
    /\ UNCHANGED <<backend, revisions, ticker, used, requests, faults, fired, marks>>

----------------------------------------------------------------------------
Init ==
    /\ backend \in Backends
    /\ jobs = [j \in JobIds |-> NoJob]
    /\ revisions = [j \in JobIds |-> {}]
    /\ client = [c \in Clients |-> Idle]
    /\ ticker = Idle
    /\ used = {} /\ requests = 0 /\ faults = 0
    /\ fired = [j \in JobIds |-> 0]
    /\ undone = [j \in JobIds |-> 0]
    /\ overtaken = {} /\ wiped = {} /\ undeleted = {} /\ unmade = {}

UpsertStep(c) == GetJob(c) \/ CheckName(c) \/ AppendRevision(c) \/ WriteJob(c)
DeleteStep(c) == DeleteRevisions(c) \/ DeleteRow(c) \/ DropRevisions(c)
TickStep == FindDue \/ ClaimJob \/ GetDueJob \/ Enqueue \/ MarkCompleted \/ Persist

Next ==
    \/ \E c \in Clients :
         \/ HttpUpsert(c) \/ HostUpsert(c) \/ Delete(c) \/ SetEnabled(c) \/ Dies(c)
         \/ UpsertStep(c) \/ DeleteStep(c)
    \/ TickStep
    \/ Pass

Spec == Init /\ [][Next]_vars

(* The tick loop goes on, time passes, and a request that was begun ends.  *)
FairSpec ==
    /\ Spec
    /\ WF_vars(TickStep) /\ WF_vars(Pass)
    /\ \A c \in Clients : WF_vars(UpsertStep(c) \/ DeleteStep(c))

----------------------------------------------------------------------------
TypeOK ==
    /\ backend \in Backends
    /\ jobs \in [JobIds -> Row \cup {NoJob}]
    /\ revisions \in [JobIds -> SUBSET ((1..(MaxRequests + 1)) \X (1..MaxRequests))]
    /\ used \subseteq JobIds /\ requests \in 0..MaxRequests /\ faults \in 0..MaxFaults
    /\ fired \in [JobIds -> Nat] /\ undone \in [JobIds -> Nat]
    /\ overtaken \subseteq JobIds /\ wiped \subseteq JobIds
    /\ undeleted \subseteq JobIds /\ unmade \subseteq JobIds
    /\ \A c \in Clients : client[c] = Idle \/ client[c].job \in Row

(* A delete of the job is between its statements. *)
Deleting(j) == \E c \in Clients : client[c].pc \in {"deleteRow", "dropRevisions"} /\ client[c].id = j

(* An upsert of the job has only its last call to make. *)
Writing(j) == \E c \in Clients : client[c].pc = "write" /\ client[c].id = j

(* Two jobs never share a name, whatever creates and renames cross         *)
(* (write_job, UNIQUE (job_name)).                                         *)
NamesUnique == \A n \in Names : Cardinality(Named(n)) <= 1

(* Every job has its current revision number in its history, whatever      *)
(* upserts cross (upsert_job, append_revision).  Under that number the     *)
(* history has the very configuration that came over HTTP, unless the      *)
(* request was overtaken: another moved the number between its read by     *)
(* name and its get_job, and it may have found its own number there and    *)
(* appended nothing.                                                       *)
ChangesRecorded ==
    \A j \in Stored \ undeleted :
        \/ Deleting(j)
        \/ /\ \E entry \in revisions[j] : entry[1] = jobs[j].rev
           /\ jobs[j].via = "http" /\ j \notin overtaken =>
                <<jobs[j].rev, jobs[j].tag>> \in revisions[j]

(* Revisions belong to a job that is stored, or about to be; what a delete *)
(* has taken away stays away (the order of upsert_job's checks, the two    *)
(* statements of delete_job).  Exempt are a new job whose name was taken   *)
(* between the check and the write, or whose client died there: its        *)
(* revision 1 stays behind, although the check is there "so a refused      *)
(* upsert leaves no revision behind"; and a deleted job that an upsert     *)
(* under way wrote to afterwards, or whose delete died half way.           *)
RevisionsHaveJob ==
    /\ \A j \in JobIds \ (undeleted \cup unmade) :
         revisions[j] # {} => j \in Stored \/ Writing(j) \/ Deleting(j)
    /\ \A j \in wiped \ undeleted : j \in Stored => Deleting(j)

(* The job table, its names and its revisions agree, although each is      *)
(* written by a call of its own (upsert_job, delete_job).                  *)
JobsConsistent == TypeOK /\ NamesUnique /\ ChangesRecorded /\ RevisionsHaveJob

(* A run-once job is fired once by the tick loop (try_claim_run_once,      *)
(* mark_run_once_completed), whatever clients change, delete or rename     *)
(* between its read and its mark.  It is fired once more only for an       *)
(* upsert that, with a row it had read before, undid the completion or the *)
(* deletion, and once for each of them.                                    *)
FiredOnce == \A j \in JobIds : fired[j] <= 1 + undone[j]

(* A job that is due gets its tick, or stops being due: a claim that an    *)
(* upsert or a lost race left behind lapses (find_due_job_ids_in_          *)
(* partitions, claim_job_for_tick).                                        *)
DueIsTicked ==
    \A j \in JobIds :
        LET due == jobs[j] # NoJob /\ jobs[j].enabled /\ jobs[j].next = "due"
                   /\ jobs[j].kind = "cron"
        IN  due ~> ~due
=============================================================================
