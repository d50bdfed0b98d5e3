-------------------------------- MODULE Rows --------------------------------
(***************************************************************************)
(* How the SQL stores turn models into rows and rows into models           *)
(* (chronon-backend-sql-common: row/,  the bind chains of jobs.rs, runs.rs *)
(* and coordinator.rs, macros.rs).                                         *)
(*                                                                         *)
(* A statement names its columns in one place and binds its values, by     *)
(* position, in another.  In between, a flag becomes 0 or 1, an enum a     *)
(* word, a JSON value a text, a None a NULL.  The values of a column are   *)
(* <<column, n>>, so that a value that ends up in another column shows.    *)
(*                                                                         *)
(* One table at a time, with two keys.  A row may have been written by     *)
(* another release of the program, which knows a word that this one does   *)
(* not.                                                                    *)
(***************************************************************************)
EXTENDS Integers, Sequences, FiniteSets, SequencesExt

CONSTANTS
    Absent,   \* Option::None, and NULL
    JsonNull, \* serde_json::Value::Null
    RowKeys   \* primary keys

VARIABLES
    table,    \* the table
    dialect,  \* "sqlite" or "postgres"
    db,       \* its rows by key, or Absent
    expected, \* what was last stored under the key, as a model
    answer    \* the last answer: [op, ok, keys, value]

rowVars == <<table, dialect, db, expected, answer>>

----------------------------------------------------------------------------
(* The columns, in the order of the INSERT statements.                     *)

JobColumns ==
    <<"job_id", "job_name", "script_name", "script_sig_hash", "enabled", "schedule_kind",
      "cron_expr", "timezone", "run_once_at", "run_once_claimed_at", "run_once_claimed_by",
      "run_once_completed_at", "run_once_claim_expires_at", "partition_hash", "claim_lease_id",
      "claim_lease_until", "pool", "region", "placement_json", "actor_json", "params_json",
      "concurrency", "timeout_ms", "retry_policy_json", "misfire_policy_json",
      "parent_limits_json", "next_run_at", "current_revision", "updated_at", "created_at">>

RunColumns ==
    <<"run_id", "job_id", "script_name", "parent_run_id", "root_run_id", "child_index",
      "scheduled_for", "started_at", "finished_at", "duration_ms", "status", "attempt",
      "instance_id", "placement_json", "pool_id", "actor_json", "params_json", "stdout_text",
      "stderr_text", "error_json", "stats_json", "claimed_by", "claim_lease_until">>

RevisionColumns ==
    <<"revision_id", "job_id", "revision_number", "changed_at", "changed_by_actor_json",
      "snapshot_json">>
ScriptColumns == <<"script_id", "script_name", "signature_json", "signature_hash", "created_at">>
LeaderColumns == <<"leader_id", "leader_instance_id", "leader_lease_until", "last_heartbeat_at">>
PartitionColumns == <<"partition_id", "owner_instance_id", "lease_until", "updated_at">>
WorkerColumns ==
    <<"worker_id", "pool_id", "cell_id", "status", "last_heartbeat_at", "capacity_json",
      "created_at", "updated_at">>

Columns ==
    [job |-> JobColumns, run |-> RunColumns, revision |-> RevisionColumns,
     script |-> ScriptColumns, leader |-> LeaderColumns, partition |-> PartitionColumns,
     worker |-> WorkerColumns]

TableNames == DOMAIN Columns
Key == [job |-> "job_id", run |-> "run_id", revision |-> "revision_id", script |-> "script_name",
        leader |-> "leader_id", partition |-> "partition_id", worker |-> "worker_id"]

(* Mutant: two times of the bind chain in the other order. *)
JobBinds_Swapped ==
    [n \in DOMAIN JobColumns |->
        JobColumns[IF n = 29 THEN 30 ELSE IF n = 30 THEN 29 ELSE n]]

(* The bind chain of upsert_job, as the fields of JobRow it names. *)
JobBinds ==
    <<"job_id", "job_name", "script_name", "script_sig_hash", "enabled", "schedule_kind",
      "cron_expr", "timezone", "run_once_at", "run_once_claimed_at", "run_once_claimed_by",
      "run_once_completed_at", "run_once_claim_expires_at", "partition_hash", "claim_lease_id",
      "claim_lease_until", "pool", "region", "placement_json", "actor_json", "params_json",
      "concurrency", "timeout_ms", "retry_policy_json", "misfire_policy_json",
      "parent_limits_json", "next_run_at", "current_revision", "updated_at", "created_at">>

(* The bind chain of create_run. *)
RunBinds ==
    <<"run_id", "job_id", "script_name", "parent_run_id", "root_run_id", "child_index",
      "scheduled_for", "started_at", "finished_at", "duration_ms", "status", "attempt",
      "instance_id", "placement_json", "pool_id", "actor_json", "params_json", "stdout_text",
      "stderr_text", "error_json", "stats_json", "claimed_by", "claim_lease_until">>

(* update_run: the columns it sets, the one of its WHERE clause last, and  *)
(* its own bind chain.                                                     *)
UpdateColumns ==
    <<"job_id", "script_name", "parent_run_id", "root_run_id", "child_index", "scheduled_for",
      "started_at", "finished_at", "duration_ms", "status", "attempt", "instance_id",
      "placement_json", "pool_id", "actor_json", "params_json", "stdout_text", "stderr_text",
      "error_json", "stats_json", "claimed_by", "claim_lease_until", "run_id">>
UpdateBinds ==
    <<"job_id", "script_name", "parent_run_id", "root_run_id", "child_index", "scheduled_for",
      "started_at", "finished_at", "duration_ms", "status", "attempt", "instance_id",
      "placement_json", "pool_id", "actor_json", "params_json", "stdout_text", "stderr_text",
      "error_json", "stats_json", "claimed_by", "claim_lease_until", "run_id">>

(* append_revision, upsert_script, try_acquire_leader (LEADER_ROW_ID, the  *)
(* instance, until, now), upsert_partition_assignment, register_worker.    *)
RevisionBinds ==
    <<"revision_id", "job_id", "revision_number", "changed_at", "changed_by_actor_json",
      "snapshot_json">>
ScriptBinds == <<"script_id", "script_name", "signature_json", "signature_hash", "created_at">>
LeaderBinds == <<"leader_id", "leader_instance_id", "leader_lease_until", "last_heartbeat_at">>
PartitionBinds == <<"partition_id", "owner_instance_id", "lease_until", "updated_at">>
WorkerBinds ==
    <<"worker_id", "pool_id", "cell_id", "status", "last_heartbeat_at", "capacity_json",
      "created_at", "updated_at">>

Binds ==
    [job |-> JobBinds, run |-> RunBinds, revision |-> RevisionBinds, script |-> ScriptBinds,
     leader |-> LeaderBinds, partition |-> PartitionBinds, worker |-> WorkerBinds]

(* ON CONFLICT ... DO UPDATE SET: what a second write replaces.  Runs and  *)
(* revisions have no such clause; a worker keeps created_at.               *)
Inserts == {"run", "revision"}
Replaced(t) ==
    ToSet(Columns[t]) \ ({Key[t]} \cup IF t = "worker" THEN {"created_at"} ELSE {})

----------------------------------------------------------------------------
(* Kinds of columns.                                                       *)

Words ==
    [schedule_kind |-> {"cron", "run_once", "manual"},
     status |-> IF table = "worker" THEN {"online", "draining", "offline"}
                ELSE {"queued", "claimed", "running", "success", "failed", "canceled", "timeout"}]
Json == {"actor_json", "params_json", "retry_policy_json", "misfire_policy_json",
         "changed_by_actor_json", "snapshot_json", "signature_json"}
JsonOpt == {"placement_json", "parent_limits_json", "error_json", "stats_json", "capacity_json"}
Optional ==
    {"cron_expr", "timezone", "run_once_at", "run_once_claimed_at", "run_once_claimed_by",
     "run_once_completed_at", "run_once_claim_expires_at", "partition_hash", "claim_lease_id",
     "claim_lease_until", "pool", "region", "timeout_ms", "next_run_at", "parent_run_id",
     "root_run_id", "child_index", "started_at", "finished_at", "duration_ms", "instance_id",
     "stdout_text", "stderr_text", "claimed_by", "cell_id"}
         \cup (IF table = "run" THEN {"job_id", "pool_id"} ELSE {})
Times ==
    {"run_once_at", "run_once_claimed_at", "run_once_completed_at", "run_once_claim_expires_at",
     "claim_lease_until", "next_run_at", "updated_at", "created_at", "scheduled_for",
     "started_at", "finished_at", "changed_at", "leader_lease_until", "last_heartbeat_at",
     "lease_until"}

(* A TIMESTAMPTZ of PostgreSQL holds microseconds: of time 2, which is     *)
(* some nanoseconds after time 1, it keeps time 1.                         *)
Kept(c, v) == IF dialect = "postgres" /\ c \in Times /\ v # Absent THEN <<v[1], 1>> ELSE v

(* from_model and the conversions of the bind chain. *)
Encode(c, v) ==
    CASE c = "enabled" -> IF v[2] THEN <<c, 1>> ELSE <<c, 0>>
      [] c \in Json -> <<"text", v>>
      [] c \in JsonOpt -> IF v = Absent THEN Absent ELSE <<"text", v>>
      [] OTHER -> v

(* row_to_... and to_model: `enabled` as a bool where the driver gives one,  *)
(* else as a number.                                                       *)
Decode(c, w) ==
    CASE c = "enabled" -> <<c, w[2] # 0>>
      [] c \in Json -> w[2]
      [] c \in JsonOpt -> IF w = Absent THEN Absent ELSE w[2]
      [] OTHER -> w

(* parse_schedule_kind, parse_run_status, parse_worker_status. *)
Readable(row) ==
    \A c \in DOMAIN row \cap DOMAIN Words : row[c][2] \in Words[c]

ToModel(row) == [c \in DOMAIN row |-> Decode(c, row[c])]

----------------------------------------------------------------------------
(* The statements.                                                         *)

(* The models that are stored: every word once, and for one of them all    *)
(* values changed, all optional values absent, all JSON values null.       *)
Cell(k, c, v, w) ==
    CASE c = Key[table] -> <<c, k>>
      [] c = "enabled" -> <<c, v = 1>>
      [] c \in DOMAIN Words -> <<c, w>>
      [] c \in Optional \cup JsonOpt /\ v = 3 -> Absent
      [] c \in Json \cup JsonOpt /\ v = 4 -> JsonNull
      [] OTHER -> <<c, IF v \in {1, 3} THEN 1 ELSE 2>>

WordColumns == ToSet(Columns[table]) \cap DOMAIN Words

Models(k) ==
    LET words == IF WordColumns = {} THEN {Absent} ELSE UNION {Words[c] : c \in WordColumns}
    IN  {[c \in ToSet(Columns[table]) |-> Cell(k, c, x[1], x[2])] :
            x \in ({1} \X words) \cup ((2..4) \X {CHOOSE w \in words : TRUE})}

(* `binds` are laid out over `columns` by position; bind_sql numbers the   *)
(* placeholders in the same order for PostgreSQL.                          *)
Bound(columns, binds, m) ==
    LET at(c) == CHOOSE n \in DOMAIN columns : columns[n] = c
    IN  [c \in ToSet(columns) |-> Kept(c, Encode(binds[at(c)], m[binds[at(c)]]))]

Written(ok) == answer' = [op |-> "write", ok |-> ok, keys |-> {}, value |-> Absent]

(* A run or a revision is inserted once.  A leader row is replaced only if *)
(* the WHERE clause of try_acquire_leader says so: LeaderElection.         *)
Insert(k, m) ==
    LET new == Bound(Columns[table], Binds[table], m) IN
    \/ /\ db[k] = Absent
       /\ db' = [db EXCEPT ![k] = new] /\ expected' = [expected EXCEPT ![k] = m]
       /\ Written(TRUE)
    \/ /\ db[k] # Absent /\ table \notin Inserts
       /\ db' = [db EXCEPT ![k] = [c \in DOMAIN new |->
                    IF c \in Replaced(table) THEN new[c] ELSE db[k][c]]]
       /\ expected' = [expected EXCEPT ![k] = [c \in DOMAIN m |->
                    IF table = "worker" /\ c = "created_at" THEN expected[k][c] ELSE m[c]]]
       /\ Written(TRUE)
    \/ /\ db[k] # Absent /\ table \in Inserts \cup {"leader"}
       /\ Written(FALSE) /\ UNCHANGED <<db, expected>>

(* update_run sets every column but the key, and then looks for the run.   *)
Update(k, m) ==
    LET new == Bound(UpdateColumns, UpdateBinds, m) IN
    /\ table = "run"
    /\ IF db[k] = Absent THEN Written(FALSE) /\ UNCHANGED <<db, expected>>
       ELSE /\ db' = [db EXCEPT ![k] = new] /\ expected' = [expected EXCEPT ![k] = m]
            /\ Written(TRUE)

(* Another release of the program writes a word that this one lacks. *)
OtherRelease(k) ==
    /\ db[k] # Absent
    /\ \E c \in WordColumns :
          /\ db' = [db EXCEPT ![k][c] = <<c, "unknown">>]
          /\ expected' = [expected EXCEPT ![k][c] = <<c, "unknown">>]
    /\ Written(TRUE)

(* sql_fetch_optional_map, sql_fetch_all_map: the rows are collected into  *)
(* a Result, and one that cannot be read is an Err for all of them.        *)
Mapped(rows) ==
    IF \A k \in rows : Readable(db[k])
    THEN [ok |-> TRUE, value |-> [k \in rows |-> ToModel(db[k])]]
    ELSE [ok |-> FALSE, value |-> Absent]

(* A get by key, or a list of the table. *)
Read(keys) ==
    LET r == Mapped({k \in keys : db[k] # Absent}) IN
    /\ answer' = [op |-> "read", ok |-> r.ok, keys |-> keys, value |-> r.value]
    /\ UNCHANGED <<db, expected>>

----------------------------------------------------------------------------
RowsInit ==
    /\ table \in TableNames /\ dialect \in {"sqlite", "postgres"}
    /\ db = [k \in RowKeys |-> Absent] /\ expected = db
    /\ answer = [op |-> "write", ok |-> TRUE, keys |-> {}, value |-> Absent]

RowsIdle ==
    /\ table = "job" /\ dialect = "sqlite" /\ db = <<>> /\ expected = <<>> /\ answer = Absent

RowsNext ==
    /\ answer # Absent
    /\ \/ \E k \in RowKeys :
             \/ \E m \in Models(k) : Insert(k, m) \/ Update(k, m)
             \/ OtherRelease(k) \/ Read({k})
       \/ Read(RowKeys)
    /\ UNCHANGED <<table, dialect>>

----------------------------------------------------------------------------
(* A model that is read has every field as it was last stored, a JSON null *)
(* told from an absent value, up to the nanoseconds that PostgreSQL drops  *)
(* (JobRow, RunRow ..., the positional bind chains).                       *)
ReadsWhatWasWritten ==
    (answer # Absent /\ answer.op = "read" /\ answer.ok)
        => \A k \in DOMAIN answer.value :
              answer.value[k] = [c \in DOMAIN expected[k] |-> Kept(c, expected[k][c])]

(* A read answers with all the rows it is about or with an error: a row    *)
(* that another release wrote is never just missing (sql_fetch_all_map).   *)
NothingLeftOut ==
    (answer # Absent /\ answer.op = "read")
        => LET present == {k \in answer.keys : expected[k] # Absent}
               strange == {k \in present : \E c \in WordColumns : expected[k][c][2] = "unknown"}
           IN  answer.ok = (strange = {}) /\ (answer.ok => DOMAIN answer.value = present)

(* Models go through the SQL tables and back unchanged, or not at all      *)
(* (the row types, sql_fetch_all_map).                                     *)
RowsRoundTrip == ReadsWhatWasWritten /\ NothingLeftOut
=============================================================================
