------------------------------- MODULE Browse -------------------------------
(***************************************************************************)
(* The read routes of the HTTP API (chronon-axum handlers.rs, dto.rs) over *)
(* the coordinator service and the stores: a client that walks the pages   *)
(* of GET /jobs or GET /runs by offset, or reads the revisions of a job,   *)
(* while other clients, tick loops and workers change what it reads.       *)
(*                                                                         *)
(* Every page is a query of its own, so an offset counts from the head of  *)
(* whatever the list is by then.  list_jobs is ordered by created_at in    *)
(* SQL and by the hash table in memory, list_runs by scheduled_for, latest *)
(* first; SQL leaves the order of equal keys open.  The client is not part *)
(* of the repository: it asks from where its last page ended and stops at  *)
(* an empty page.  A page that fails is asked for again.                   *)
(***************************************************************************)
EXTENDS Integers, Sequences, FiniteSets, SequencesExt

CONSTANTS
    Unset,         \* an optional query parameter that is not given
    Ids,           \* job or run ids
    LastKey,       \* created_at and scheduled_for are 1..LastKey
    DefaultLimit,  \* the 100 of clamp_list_limit
    MaxListLimit,  \* MAX_LIST_LIMIT
    MaxChanges     \* bound: changes made during a walk

ASSUME LimitsAssumption ==
    /\ LastKey \in Nat /\ MaxChanges \in Nat
    /\ DefaultLimit \in 1..MaxListLimit /\ MaxListLimit \in Nat
    /\ IsFiniteSet(Ids)
    /\ Unset \notin {"queued", "running", "failed", "Failed"}

VARIABLES
    route,    \* "jobs", "runs" or "revisions"; "none": the stage is not taken
    backend,  \* "mem" or "sql"
    list,     \* the rows that exist: a function from ids
    hash,     \* the place of each id in the hash map of jobs
    query,    \* the query of the walk
    walk,     \* the client: at ("asking", "done", "refused"), offset, seen
    since,    \* history since the walk began
    past,     \* a job, its revisions, their writers and a reader
    answered, \* fields that have been answered with a value
    changes   \* changes so far

browseVars == <<route, backend, list, hash, query, walk, since, past, answered, changes>>

----------------------------------------------------------------------------
(* Queries.                                                                *)

(* CoordinatorService::parse_run_status; "Failed" stands for any spelling  *)
(* with capitals, "fail" for a word that is no status.                     *)
ParseRunStatus(s) ==
    CASE s = "Failed" -> "failed"
      [] s \in {"queued", "running", "failed"} -> s
      [] OTHER -> Unset

KnownKind(k) == k \in {Unset, "cron", "run_once", "manual"}

(* The filters of list_jobs and of list_runs_filtered. *)
Matches(row) ==
    IF route = "jobs" THEN /\ query.enabled \in {Unset, row.enabled}
                           /\ query.kind \in {Unset, row.kind}
                      ELSE ParseRunStatus(query.status) \in {Unset, row.status}

Matching(rows) == {i \in DOMAIN rows : Matches(rows[i])}

ClampListLimit(limit) ==
    IF limit = Unset THEN DefaultLimit ELSE IF limit > MaxListLimit THEN MaxListLimit ELSE limit

----------------------------------------------------------------------------
(* Lists.                                                                  *)

(* list_jobs of the in-memory store comes as the hash map has the jobs. *)
InMemory == route = "jobs" /\ backend = "mem"

Before(a, b) ==
    IF InMemory THEN hash[a] < hash[b]
    ELSE IF route = "jobs" THEN list[a].key < list[b].key ELSE list[a].key > list[b].key

(* The orders in which the matching rows may come.  In memory, runs of one *)
(* time come as the hash map has them, one of the orders that SQL allows.  *)
Listings ==
    {s \in SetToSeqs(Matching(list)) : \A m, n \in DOMAIN s : m < n => ~Before(s[n], s[m])}

(* Mutant: the page ends one row early. *)
PageOf_Short(s, offset, limit) ==
    IF offset >= Len(s) THEN <<>>
    ELSE SubSeq(s, offset + 1, IF offset + limit < Len(s) THEN offset + limit ELSE Len(s) - 1)

PageOf(s, offset, limit) ==
    IF offset >= Len(s) THEN <<>>
    ELSE SubSeq(s, offset + 1, IF offset + limit < Len(s) THEN offset + limit ELSE Len(s))

(* The fields of a JobResponse and of a RunResponse. *)
JobResponse ==
    {"job_id", "job_name", "script_name", "enabled", "schedule_kind", "cron_expr", "timezone",
     "next_run_at", "current_revision", "created_at", "updated_at", "pool"}
RunResponse ==
    {"run_id", "job_id", "script_name", "status", "scheduled_for", "started_at", "finished_at",
     "duration_ms", "attempt", "pool_id", "claimed_by"}

(* GET /jobs: a kind that is none is refused. *)
ListJobs ==
    /\ route = "jobs" /\ walk.at = "asking"
    /\ IF ~KnownKind(query.kind)
       THEN walk' = [walk EXCEPT !.at = "refused"] /\ UNCHANGED answered
       ELSE \E s \in Listings :
                LET page == PageOf(s, walk.offset, ClampListLimit(query.limit))
                IN  /\ walk' = [at |-> IF page = <<>> THEN "done" ELSE "asking",
                                offset |-> walk.offset + Len(page), seen |-> walk.seen \o page]
                    /\ answered' = IF page = <<>> THEN answered ELSE answered \cup JobResponse
    /\ UNCHANGED <<route, backend, list, hash, query, since, past, changes>>

(* GET /runs: a status that is none is no filter. *)
ListRuns ==
    /\ route = "runs" /\ walk.at = "asking"
    /\ \E s \in Listings :
           LET page == PageOf(s, walk.offset, ClampListLimit(query.limit))
           IN  /\ walk' = [at |-> IF page = <<>> THEN "done" ELSE "asking",
                           offset |-> walk.offset + Len(page), seen |-> walk.seen \o page]
               /\ answered' = IF page = <<>> THEN answered ELSE answered \cup RunResponse
    /\ UNCHANGED <<route, backend, list, hash, query, since, past, changes>>

----------------------------------------------------------------------------
(* What others change meanwhile.                                           *)

(* As the query is meant: a status in any spelling, no kind that is none.  *)
Meant(row) ==
    IF route = "jobs" THEN query.enabled \in {Unset, row.enabled} /\ query.kind \in {Unset, row.kind}
    ELSE \/ query.status \in {Unset, "fail", row.status}
         \/ query.status = "Failed" /\ row.status = "failed"

Tied(rows) == {i \in DOMAIN rows : \E k \in DOMAIN rows \ {i} : rows[i].key = rows[k].key}

(* History of a change of the rows to "rows". *)
Record(rows) ==
    since' = [stayed |-> since.stayed \cap Matching(rows),
              left |-> since.left \/ ~(Matching(list) \subseteq Matching(rows)),
              came |-> since.came \/ ~(Matching(rows) \subseteq Matching(list)),
              grown |-> since.grown \/ ~(DOMAIN rows \subseteq DOMAIN list),
              tied |-> since.tied \cup Tied(rows),
              fits |-> since.fits \cup {i \in DOMAIN rows : Meant(rows[i])}]

Change(rows) ==
    /\ changes < MaxChanges /\ changes' = changes + 1
    /\ walk.at = "asking"
    /\ list' = rows
    /\ Record(rows)
    /\ UNCHANGED <<route, backend, query, walk, past, answered>>

Keys == 1..LastKey
JobRows == [key : Keys, enabled : BOOLEAN, kind : {"cron"}]
RunRows == [key : Keys, status : {"queued", "running", "failed"}]

(* A hash map that grows may come out in any order. *)
HashPlaces == {h \in [Ids -> 1..Cardinality(Ids)] : \A i, k \in Ids : i # k => h[i] # h[k]}
MayGrow == IF backend = "mem" THEN hash' \in HashPlaces ELSE UNCHANGED hash

(* A new job, built at any time before. *)
NewJob(i, row) ==
    /\ route = "jobs" /\ i \notin DOMAIN list
    /\ Change([k \in DOMAIN list \cup {i} |-> IF k = i THEN row ELSE list[k]])
    /\ MayGrow

(* pause_job and resume_job; an upsert that changes what the query asks    *)
(* for does the same to the list.                                          *)
AlterJob(i) ==
    /\ route = "jobs" /\ i \in DOMAIN list
    /\ Change([list EXCEPT ![i].enabled = ~@])
    /\ UNCHANGED hash

DeleteJob(i) ==
    /\ route = "jobs" /\ i \in DOMAIN list
    /\ Change([k \in DOMAIN list \ {i} |-> list[k]])
    /\ UNCHANGED hash

(* create_run: due now, at the fire it is for, or after a retry's delay. *)
NewRun(i, t) ==
    /\ route = "runs" /\ i \notin DOMAIN list
    /\ Change([k \in DOMAIN list \cup {i} |->
                  IF k = i THEN [key |-> t, status |-> "queued"] ELSE list[k]])
    /\ UNCHANGED hash

(* A run is started, fails, or is reclaimed. *)
AlterRun(i, st) ==
    /\ route = "runs" /\ i \in DOMAIN list
    /\ <<list[i].status, st>> \in
           {<<"queued", "running">>, <<"running", "failed">>, <<"running", "queued">>}
    /\ Change([list EXCEPT ![i].status = st])
    /\ UNCHANGED hash

----------------------------------------------------------------------------
(* GET /jobs/{id}/revisions, two calls, beside an upsert and a delete.     *)

(* The fields of a revision with a value, as they are stored. *)
Snapshot == {"job_id", "actor_json", "params_json", "retry_policy_json"}
Revision == {"revision_id", "revision_number", "changed_at", "changed_by_actor_json"} \cup Snapshot

RedactRevisionSnapshot(fields) == fields \ {"actor_json", "params_json"}

(* CoordinatorService::get_job reads a store error as a missing job. *)
GetJobRevisions ==
    /\ route = "revisions"
    /\ \/ /\ past.reader = "ask"
          /\ \E at \in IF past.row THEN {"list", "missing"} ELSE {"missing"} :
                 past' = [past EXCEPT !.reader = at]
          /\ UNCHANGED answered
       \/ /\ past.reader = "list"
          /\ past' = [past EXCEPT !.reader = "done", !.read = past.revs]
          /\ answered' = IF past.revs = 0 THEN answered
                         ELSE RedactRevisionSnapshot(Revision) \ {"changed_by_actor_json"}
    /\ UNCHANGED <<route, backend, list, hash, query, walk, since, changes>>

Writes ==
    /\ changes < MaxChanges /\ changes' = changes + 1
    /\ UNCHANGED <<route, backend, list, hash, query, walk, since, answered>>

(* append_revision, then the job. *)
UpsertJob ==
    /\ route = "revisions"
    /\ \/ /\ past.upsert = "idle"
          /\ past' = [past EXCEPT !.revs = @ + 1, !.upsert = "write"]
          /\ Writes
       \/ /\ past.upsert = "write"
          /\ past' = [past EXCEPT !.row = TRUE, !.upsert = "idle"]
          /\ UNCHANGED <<route, backend, list, hash, query, walk, since, answered, changes>>

(* delete_job of a job that is found: in SQL its revisions and then its    *)
(* row, in memory its row and then, under another lock, its revisions.     *)
DeleteWithRevisions ==
    /\ route = "revisions"
    /\ \/ /\ past.delete = "idle" /\ past.row
          /\ past' = IF backend = "sql" THEN [past EXCEPT !.delete = "revisions"]
                     ELSE [past EXCEPT !.row = FALSE, !.delete = "revisions"]
          /\ Writes
       \/ /\ past.delete = "revisions"
          /\ past' = [past EXCEPT !.revs = 0, !.deleted = TRUE,
                                  !.delete = IF backend = "sql" THEN "row" ELSE "idle"]
          /\ UNCHANGED <<route, backend, list, hash, query, walk, since, answered, changes>>
       \/ /\ past.delete = "row"
          /\ past' = [past EXCEPT !.row = FALSE, !.delete = "idle"]
          /\ UNCHANGED <<route, backend, list, hash, query, walk, since, answered, changes>>

----------------------------------------------------------------------------
NoHistory == [stayed |-> {}, left |-> FALSE, came |-> FALSE, grown |-> FALSE, tied |-> {},
              fits |-> {}]
NoPast == [row |-> FALSE, revs |-> 0, upsert |-> "idle", delete |-> "idle", deleted |-> FALSE,
           reader |-> "ask", read |-> 0]

JobQueries ==
    {[enabled |-> e, kind |-> k, limit |-> l] :
        e \in {Unset, TRUE}, k \in {Unset, "weekly"}, l \in {Unset, MaxListLimit + 1}}
RunQueries ==
    {[status |-> s, limit |-> l] :
        s \in {Unset, "running", "Failed", "fail"}, l \in {Unset, MaxListLimit + 1}}

(* At least one id is left for a row that is new. *)
AllRows(Row) == UNION {[S -> Row] : S \in SUBSET Ids \ {Ids}}

BrowseIdle ==
    /\ route = "none" /\ backend = "mem" /\ list = <<>> /\ hash = <<>> /\ query = Unset
    /\ walk = [at |-> "done", offset |-> 0, seen |-> <<>>] /\ since = NoHistory
    /\ past = NoPast /\ answered = {} /\ changes = 0

BrowseInit ==
    /\ route \in {"jobs", "runs", "revisions"} /\ backend \in {"mem", "sql"}
    /\ route = "runs" => backend = "sql"
    /\ hash = CHOOSE h \in HashPlaces : TRUE
    /\ CASE route = "jobs" -> list \in AllRows(JobRows) /\ query \in JobQueries
         [] route = "runs" -> list \in AllRows(RunRows) /\ query \in RunQueries
         [] OTHER -> list = <<>> /\ query = Unset
    /\ walk = [at |-> IF route = "revisions" THEN "done" ELSE "asking",
               offset |-> 0, seen |-> <<>>]
    /\ since = IF route = "revisions" THEN NoHistory
               ELSE [NoHistory EXCEPT !.stayed = Matching(list), !.tied = Tied(list),
                                      !.fits = {i \in DOMAIN list : Meant(list[i])}]
    /\ \/ past = NoPast
       \/ route = "revisions" /\ past = [NoPast EXCEPT !.row = TRUE, !.revs = 1]
    /\ answered = {} /\ changes = 0

BrowseNext ==
    \/ ListJobs \/ ListRuns
    \/ \E i \in Ids : \/ \E row \in JobRows : NewJob(i, row)
                      \/ AlterJob(i) \/ DeleteJob(i)
                      \/ \E t \in Keys : NewRun(i, t)
                      \/ \E st \in {"queued", "running", "failed"} : AlterRun(i, st)
    \/ GetJobRevisions \/ UpsertJob \/ DeleteWithRevisions

BrowseSpec == (BrowseInit \/ BrowseIdle) /\ [][BrowseNext]_browseVars

----------------------------------------------------------------------------
(* A finished walk of GET /runs has seen every run that matched all the    *)
(* while and shares its time with no other, whatever runs were created     *)
(* meanwhile, unless a run left the list (list_runs_filtered's order).     *)
RunsAllSeen ==
    (route = "runs" /\ walk.at = "done" /\ ~since.left)
        => since.stayed \ since.tied \subseteq ToSet(walk.seen)

(* So has one of GET /jobs, unless a job left the list, or, in memory, one *)
(* was added to the table, matching or not (list_jobs of either store).    *)
JobsAllSeen ==
    (route = "jobs" /\ walk.at = "done" /\ ~since.left)
        => IF backend = "sql" THEN since.stayed \ since.tied \subseteq ToSet(walk.seen)
           ELSE ~since.grown => since.stayed \subseteq ToSet(walk.seen)

(* A row comes on two pages only if one came into the list meanwhile, or   *)
(* its place was open (the slice of list_jobs, OFFSET of list_runs).       *)
RepeatNeedsArrival ==
    ~(since.came \/ since.grown)
        => \A m, n \in DOMAIN walk.seen :
               (m # n /\ walk.seen[m] = walk.seen[n]) => backend = "sql" /\ walk.seen[m] \in since.tied

(* Whatever the spelling of the filter, no row is answered that did not    *)
(* fit it at some time of the walk (parse_run_status, schedule_kind).      *)
OnlyAsked == ToSet(walk.seen) \subseteq since.fits

(* A job that is found and has no history has lost it to a delete, which   *)
(* may have begun before (get_job_revisions, upsert_job, delete_job).      *)
HistoryNeedsDelete ==
    (past.reader = "done" /\ past.read = 0) => past.deleted

(* No actor, parameters or captured text leaves by a read route            *)
(* (JobResponse, RunResponse, redact_revision_snapshot).                   *)
NothingPrivate ==
    answered \cap {"actor_json", "params_json", "changed_by_actor_json", "error_json",
                   "stdout_text", "stderr_text"} = {}

(* What a client reads page by page while the store changes is all there   *)
(* was to read, once, as asked for and without what is private (list_jobs, *)
(* list_runs, get_job_revisions).                                          *)
PagesFaithful ==
    /\ RunsAllSeen /\ JobsAllSeen /\ RepeatNeedsArrival
    /\ OnlyAsked /\ HistoryNeedsDelete /\ NothingPrivate
=============================================================================
