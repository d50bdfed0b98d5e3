------------------------------- MODULE Schema -------------------------------
(***************************************************************************)
(* Opening a SQL store (chronon-backend-sql-common/src/backend.rs and      *)
(* schema.rs).  Several processes open the same database at once, each by  *)
(* connect, by connect_isolated (which creates a PostgreSQL schema first)  *)
(* or by attach_isolated (which runs no DDL).  Every statement is a CREATE *)
(* ... IF NOT EXISTS.  In PostgreSQL that looks for the object and creates *)
(* it in two steps, and fails when another session created it in between;  *)
(* in SQLite, one writer at a time, it is one step.                        *)
(***************************************************************************)
EXTENDS Integers, Sequences, FiniteSets

CONSTANTS Processes, NoProcess, MaxBootFaults

ASSUME BootAssumption == NoProcess \notin Processes /\ MaxBootFaults \in Nat

(* schema_table_ddls and schema_index_ddls, in order. *)
Tables == <<"job", "run", "revision", "script", "leader", "partition", "worker">>
Indexes == <<"job_name", "job_due_partitions", "run_job_id", "run_queued_pool", "revision_job">>
TableOf == [job_name |-> "job", job_due_partitions |-> "job", run_job_id |-> "run",
            run_queued_pool |-> "run", revision_job |-> "revision"]
Ddls == Tables \o Indexes

VARIABLES
    dialect,     \* "postgres" or "sqlite"
    created,     \* the objects of the database
    advisory,    \* who holds the advisory lock
    proc,        \* how a process opens the store, where it is and at which statement
    bootFaults

bootVars == <<dialect, created, advisory, proc, bootFaults>>

BootIdle ==
    /\ dialect = "sqlite" /\ created = {} /\ advisory = NoProcess /\ bootFaults = 0
    /\ proc = [p \in Processes |-> [how |-> "connect", pc |-> "off", i |-> 1]]

BootInit ==
    /\ dialect \in {"postgres", "sqlite"}
    /\ created = {} /\ advisory = NoProcess /\ bootFaults = 0
    /\ \E hows \in {{"connect"}, {"isolated", "attach"}} :
       \E how \in [Processes -> IF dialect = "sqlite" THEN {"connect"} ELSE hows] :
          proc = [p \in Processes |-> [how |-> how[p], pc |-> "start", i |-> 1]]

Goto(p, pc) == proc' = [proc EXCEPT ![p].pc = pc]

(* The connection is there: attach is done, connect_isolated creates its   *)
(* schema, the others go to ensure_schema.                                 *)
Connected(p) ==
    /\ proc[p].pc = "start"
    /\ Goto(p, CASE proc[p].how = "attach" -> "open"
                 [] proc[p].how = "isolated" -> "schema"
                 [] proc[p].how = "connect" -> IF dialect = "postgres" THEN "lock" ELSE "ddl")
    /\ UNCHANGED <<dialect, created, advisory, bootFaults>>

(* CREATE SCHEMA IF NOT EXISTS, before and outside the advisory lock. *)
LookForSchema(p) ==
    /\ proc[p].pc = "schema"
    /\ Goto(p, IF "schema" \in created THEN "lock" ELSE "making schema")
    /\ UNCHANGED <<dialect, created, advisory, bootFaults>>

CreateSchema(p) ==
    /\ proc[p].pc = "making schema"
    /\ Goto(p, IF "schema" \in created THEN "schema failed" ELSE "lock")
    /\ created' = created \cup {"schema"}
    /\ UNCHANGED <<dialect, advisory, bootFaults>>

(* Mutant: no waiting for the advisory lock. *)
MayLock_Shared(p) == TRUE
MayLock(p) == advisory = NoProcess

AdvisoryLock(p) ==
    /\ proc[p].pc = "lock" /\ MayLock(p)
    /\ advisory' = p
    /\ Goto(p, "ddl")
    /\ UNCHANGED <<dialect, created, bootFaults>>

LastDdl == Len(Ddls)

Finished(p) == IF dialect = "postgres" THEN "unlock" ELSE "open"

(* The next statement, one step in SQLite; in PostgreSQL the look comes    *)
(* first.                                                                  *)
NextDdl(p) ==
    LET obj == Ddls[proc[p].i] IN
    /\ proc[p].pc = "ddl"
    /\ IF proc[p].i > LastDdl
       THEN Goto(p, Finished(p)) /\ UNCHANGED created
       ELSE IF dialect = "postgres" /\ obj \notin created
       THEN Goto(p, "creating") /\ UNCHANGED created
       ELSE proc' = [proc EXCEPT ![p].i = @ + 1] /\ created' = created \cup {obj}
    /\ UNCHANGED <<dialect, advisory, bootFaults>>

AfterError == IF dialect = "postgres" THEN "unlock failed" ELSE "failed"

CreateObject(p) ==
    LET obj == Ddls[proc[p].i]
        ok == obj \notin created /\ (obj \in DOMAIN TableOf => TableOf[obj] \in created)
    IN  /\ proc[p].pc = "creating"
        /\ proc' = IF ok THEN [proc EXCEPT ![p].pc = "ddl", ![p].i = @ + 1]
                   ELSE [proc EXCEPT ![p].pc = AfterError]
        /\ created' = IF ok THEN created \cup {obj} ELSE created
        /\ UNCHANGED <<dialect, advisory, bootFaults>>

(* pg_advisory_unlock runs whatever the statements returned. *)
Unlock(p) ==
    /\ proc[p].pc \in {"unlock", "unlock failed"}
    /\ advisory' = NoProcess
    /\ Goto(p, IF proc[p].pc = "unlock" THEN "open" ELSE "failed")
    /\ UNCHANGED <<dialect, created, bootFaults>>

BootFault == bootFaults < MaxBootFaults /\ bootFaults' = bootFaults + 1

(* A statement fails. *)
DdlFails(p) ==
    /\ BootFault
    /\ proc[p].pc \in {"ddl", "creating"}
    /\ Goto(p, AfterError)
    /\ UNCHANGED <<dialect, created, advisory>>

(* The unlock fails and nobody looks at its result: the session goes back  *)
(* to the pool with the lock, the store opens all the same.  A bootstrap   *)
(* that failed drops its pool, and the session with it.                    *)
UnlockFails(p) ==
    /\ BootFault
    /\ proc[p].pc \in {"unlock", "unlock failed"}
    /\ advisory' = IF proc[p].pc = "unlock" THEN p ELSE NoProcess
    /\ Goto(p, IF proc[p].pc = "unlock" THEN "open" ELSE "failed")
    /\ UNCHANGED <<dialect, created>>

(* The pool retires the session, or the process ends. *)
SessionEnds(p) ==
    /\ proc[p].pc = "open" /\ advisory = p
    /\ advisory' = NoProcess
    /\ UNCHANGED <<dialect, created, proc, bootFaults>>

(* The process dies; the server ends its session and with it the lock. *)
Dies(p) ==
    /\ BootFault
    /\ proc[p].pc \notin {"off", "open", "failed", "schema failed"}
    /\ advisory' = IF advisory = p THEN NoProcess ELSE advisory
    /\ Goto(p, "failed")
    /\ UNCHANGED <<dialect, created>>

BootNext ==
    \E p \in Processes :
        \/ Connected(p) \/ LookForSchema(p) \/ CreateSchema(p)
        \/ AdvisoryLock(p) \/ NextDdl(p) \/ CreateObject(p) \/ Unlock(p)
        \/ DdlFails(p) \/ UnlockFails(p) \/ SessionEnds(p) \/ Dies(p)

(* Processes open the database, or leave it alone. *)
BootSpec == (BootInit \/ BootIdle) /\ [][BootNext]_bootVars

----------------------------------------------------------------------------
(* Whom a fault hit: their bootstrap failed, or their store opened and     *)
(* kept the advisory lock.                                                 *)
Faulted ==
    {p \in Processes : \/ proc[p].pc \in {"failed", "unlock failed"}
                       \/ proc[p].pc = "open" /\ advisory = p}

(* Processes that bootstrap one database at the same time do not make each *)
(* other fail: a failure is a fault's, or that of two connect_isolated     *)
(* calls for one schema, whose CREATE SCHEMA the lock does not cover.  A   *)
(* lock that an open store keeps is the fault of its unlock.               *)
BootstrapsDoNotClash == Cardinality(Faulted) <= bootFaults

(* A store that connect or connect_isolated returned has every table and   *)
(* every index, even when the process that was creating them died half way.*)
OpenHasTables ==
    \A p \in Processes :
        proc[p].pc = "open" /\ proc[p].how # "attach" =>
            \A i \in DOMAIN Ddls : Ddls[i] \in created

(* The advisory lock is with a process that is still bootstrapping, or     *)
(* with one whose unlock failed, which is Faulted.                         *)
LockHasHolder ==
    advisory # NoProcess =>
        proc[advisory].pc \in {"ddl", "creating", "unlock", "unlock failed", "open"}

(* Processes that bootstrap one database do not make each other fail, none *)
(* opens a store that is incomplete, and none leaves the advisory lock     *)
(* behind but by an unlock that failed, whichever statement fails or       *)
(* process dies (ensure_schema).                                           *)
BootstrapSafe == BootstrapsDoNotClash /\ OpenHasTables /\ LockHasHolder
=============================================================================
