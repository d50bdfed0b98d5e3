----------------------------- MODULE Authoring ------------------------------
(***************************************************************************)
(* A job on its way from the one who writes it to the script that runs:    *)
(*                                                                         *)
(*   #[chronon::script] fn          chronon-macros: checked and expanded   *)
(*   -> ScriptHandle, JobBuilder    calls in any order, then build         *)
(*   -> CoordinatorService          in the same process, or                *)
(*   -> RemoteCoordinatorClient     over HTTP, where an answer may be too  *)
(*      -> chronon-axum             late for the client's timeout          *)
(*   -> run_now -> execute_script   the descriptor that the inventory has  *)
(*                                  under the job's script name.           *)
(*                                                                         *)
(* One author, one job name, one script `decl` and another one that was    *)
(* linked into the same binary.  The store may hold an older job of the    *)
(* same name.  Handlers are one step here: JobAdmin takes them apart.      *)
(* Values are what the checks on the way tell apart: a cron expression or  *)
(* a time zone is "good" or "bad", the limits (concurrency, timeout,       *)
(* retry policy) are within the ceilings or "over", JSON parameters are    *)
(* "null", "empty" (an object without fields) or "typed" (the parameter    *)
(* struct of `decl`, serialised), and a pool is a name, the name with      *)
(* blanks around it, blank, or no name of a pool.                          *)
(***************************************************************************)
EXTENDS Integers, Sequences, FiniteSets

CONSTANTS
    None,     \* no value
    Decls,    \* functions that carry the attribute
    Olders,   \* jobs of the same name that may be stored
    MaxCalls, \* bound: calls of JobBuilder
    MaxSends  \* bound: requests sent over HTTP

(* The rows that can be stored: what a builder makes, and what is left of  *)
(* an older job.                                                           *)
Left(f) == {o[f] : o \in Olders}
Storable ==
    [script : {d.attr : d \in Decls}, kind : {"cron", "run_once", "manual"},
     expr : {None, "good"}, tz : {None, "bad"}, at : {None, "soon"} \cup Left("at"),
     params : {"null", "empty", "typed"}, actor : {"null", "user", "system"} \cup Left("actor"),
     pool : {None, "p", " p ", " ", "not a pool"}, region : {None, "r"} \cup Left("region"),
     misfire : {"default", "coalesce"}, enabled : BOOLEAN, limits : {"ok", "over"},
     next : {None, "soon", "cron"} \cup Left("next")]

ASSUME AuthorAssumption ==
    /\ \A s \in {"", "ok", "refused", "source", "build", "upsert", "run", "execute"} : None # s
    /\ None \notin Olders /\ None \notin Storable
    /\ \A d \in Decls : d.fields \in {"unit", "optional", "required"}

VARIABLES
    decl,    \* the function
    other,   \* the attribute name of the other script, and whether it is linked last
    auth,    \* the host's admin authentication
    pc,      \* how far the author is
    builder, \* the JobBuilder and the number of calls made on it
    job,     \* what build() returned
    sent,    \* HTTP requests so far, with the fate of each
    older,   \* the job of that name that was there before, or None
    stored,  \* the job row of that name, or None
    runs,    \* script and parameters of the runs that run_now made
    results, \* what the author's calls returned
    ran      \* what the execution of a run came to

authorVars ==
    <<decl, other, auth, older, pc, builder, job, sent, stored, runs, results, ran>>

----------------------------------------------------------------------------
(* The attribute macro.                                                    *)

(* validate_signature: async, a first parameter `ident: Box<dyn            *)
(* ScriptContext>` (or the bare trait object), Result<()>, and after it    *)
(* only plain identifiers.                                                 *)
FirstOk(f) == f \in {"box_ctx", "dyn_ctx"}
ReturnOk(r) == r = "result_unit"

(* ScriptAttrs: one name, and nothing else. *)
Named(d) == d.attr # None

Accepted(d) == Named(d) /\ d.async /\ FirstOk(d.first) /\ ReturnOk(d.ret) /\ d.plain

(* generate_handle_function, generate_script_type_api: the handle carries  *)
(* the name of the attribute, as the descriptor does.                      *)
HandleName(d) == d.attr

(* generate_deserialization_code: a script without parameters takes {} and *)
(* null; serde fills in the optional fields of an object, never null for   *)
(* the object.                                                             *)
Decodes(d, json) ==
    IF d.fields = "unit" THEN json \in {"null", "empty"}
    ELSE json = "typed" \/ (json = "empty" /\ d.fields = "optional")

(* serde_json::to_value of the parameter struct. *)
Serialised(d) == IF d.fields = "unit" THEN "null" ELSE "typed"

(* ScriptRegistry::from_inventory: a later descriptor replaces an earlier  *)
(* one of its name.                                                        *)
Registry ==
    LET last == other.attr = decl.attr /\ other.last
    IN  [n \in {decl.attr, other.attr} |-> IF n = decl.attr /\ ~last THEN "own" ELSE "other"]

Expand ==
    /\ pc = "source"
    /\ pc' = IF Accepted(decl) THEN "build" ELSE "rejected"
    /\ UNCHANGED <<decl, other, auth, older, builder, job, sent, stored, runs, results, ran>>

----------------------------------------------------------------------------
(* JobBuilder.                                                             *)

NewBuilder ==
    [name |-> FALSE, kind |-> "cron", expr |-> None, tz |-> None, at |-> None,
     params |-> FALSE, actor |-> "null", pool |-> None, region |-> None, misfire |-> "default",
     enabled |-> TRUE, limits |-> "ok", calls |-> 0]

(* The calls, each with what it sets. *)
Calls(b) ==
    {[b EXCEPT !.name = TRUE],
     [b EXCEPT !.expr = "good", !.kind = "cron"],
     [b EXCEPT !.tz = "bad"],
     [b EXCEPT !.at = "soon", !.kind = "run_once"],
     [b EXCEPT !.kind = "manual"],
     [b EXCEPT !.params = TRUE],
     [b EXCEPT !.actor = "user"], [b EXCEPT !.actor = "system"],
     [b EXCEPT !.pool = "p"], [b EXCEPT !.pool = " p "],
     [b EXCEPT !.pool = " "], [b EXCEPT !.pool = "not a pool"],
     [b EXCEPT !.region = "r"],
     [b EXCEPT !.limits = "over"],
     [b EXCEPT !.misfire = "coalesce"],
     [b EXCEPT !.enabled = FALSE]}

BuilderCall ==
    /\ pc = "build" /\ builder.calls < MaxCalls
    /\ \E b \in Calls(builder) : builder' = [b EXCEPT !.calls = @ + 1]
    /\ UNCHANGED <<decl, other, auth, older, pc, job, sent, stored, runs, results, ran>>

(* cron() parses at once, so a bad expression never gets into the builder. *)
BadCron ==
    /\ pc = "build"
    /\ pc' = "stopped"
    /\ UNCHANGED <<decl, other, auth, older, builder, job, sent, stored, runs, results, ran>>

Buildable(b) == b.name /\ ~(b.kind = "cron" /\ b.expr # None /\ b.tz = "bad")

(* next_run_at by the kind that the last of cron, run_once_at and manual   *)
(* left.                                                                   *)
NextRun(b) ==
    CASE b.kind = "cron" -> IF b.expr = None THEN None ELSE "cron"
      [] b.kind = "run_once" -> b.at
      [] OTHER -> None

Built(b) ==
    [script |-> HandleName(decl), kind |-> b.kind,
     expr |-> IF b.kind = "cron" THEN b.expr ELSE None, tz |-> b.tz, at |-> b.at,
     params |-> IF b.params THEN Serialised(decl) ELSE "empty",
     actor |-> b.actor, pool |-> b.pool, region |-> b.region, misfire |-> b.misfire,
     enabled |-> b.enabled, limits |-> b.limits, next |-> NextRun(b)]

(* The builder is consumed; what is kept of it is whether it had params.   *)
Build ==
    /\ pc = "build"
    /\ IF Buildable(builder) THEN job' = Built(builder) /\ pc' = "upsert"
       ELSE pc' = "stopped" /\ UNCHANGED job
    /\ builder' = [NewBuilder EXCEPT !.params = builder.params]
    /\ UNCHANGED <<decl, other, auth, older, sent, stored, runs, results, ran>>

----------------------------------------------------------------------------
(* CoordinatorService, and what the HTTP handlers do before they call it.  *)

Refused == [ok |-> FALSE, row |-> stored]
Done(row) == [ok |-> TRUE, row |-> row]

CronBad(j) == j.kind = "cron" /\ j.expr # None /\ (j.expr = "bad" \/ j.tz = "bad")

(* upsert_job with an id that is stored, or a name that is free. *)
Write(j, old) ==
    IF CronBad(j) \/ (old # None /\ j.script # old.script) THEN Refused
    ELSE Done([j EXCEPT !.next = IF j.kind = "cron" /\ j.expr # None THEN "cron" ELSE @])

(* A job built in this process has an id of its own: JobNameTaken. *)
ServiceUpsert(j) == IF stored # None THEN Refused ELSE Write(j, None)

(* normalize_pool: trimmed, and blank is no pool. *)
Trimmed(p) == CASE p = " p " -> "p" [] p = " " -> "" [] OTHER -> p
PoolOk(p) == Trimmed(p) # "not a pool"
Pool(p) == IF Trimmed(p) = "" THEN None ELSE Trimmed(p)

(* clamp_security_bounds: concurrency, timeout and retries end up within   *)
(* the ceilings, whatever the request asked for.                           *)
Clamped == "ok"

(* The row a request is put on top of: the one found by name, whose id and *)
(* tick columns stay, or that of Job::new.                                 *)
Base ==
    IF stored # None THEN stored
    ELSE [script |-> None, kind |-> "cron", expr |-> None, tz |-> None, at |-> None,
          params |-> "empty", actor |-> "null", pool |-> None, region |-> None,
          misfire |-> "default", enabled |-> TRUE, limits |-> "ok", next |-> None]

(* POST /jobs/upsert: a request has no time for a run-once job and no      *)
(* region, may not bring a privileged actor, and leaves the actor alone    *)
(* where it has none.                                                      *)
HttpUpsert(r) ==
    LET row == [script |-> r.script, kind |-> r.kind, expr |-> r.expr, tz |-> r.tz,
                at |-> Base.at, params |-> r.params,
                actor |-> IF r.actor = "null" THEN Base.actor ELSE r.actor,
                pool |-> IF r.pool = None THEN Base.pool ELSE Pool(r.pool),
                region |-> Base.region, misfire |-> r.misfire,
                enabled |-> r.enabled, limits |-> Clamped, next |-> Base.next]
    IN  IF r.script \notin DOMAIN Registry \/ r.actor = "system" \/ ~PoolOk(r.pool)
        THEN Refused
        ELSE Write(row, stored)

(* Mutant: a job without a pool is sent without one. *)
Request_NoPool(j) ==
    [script |-> j.script, kind |-> j.kind, expr |-> j.expr, tz |-> j.tz,
     params |-> j.params, actor |-> j.actor, misfire |-> j.misfire, enabled |-> j.enabled,
     pool |-> j.pool]

(* RemoteCoordinatorClient::upsert_job: no pool goes out as "". *)
Request(j) ==
    [script |-> j.script, kind |-> j.kind, expr |-> j.expr, tz |-> j.tz,
     params |-> j.params, actor |-> j.actor, misfire |-> j.misfire, enabled |-> j.enabled,
     pool |-> IF j.pool = None THEN "" ELSE j.pool]

(* AllowAllAdminAuth and StaticTokenAdminAuth. *)
Authorize == auth.verifier = "allow_all" \/ auth.token

(* The extractor of every route.  ChrononStateBuilder::build refuses a     *)
(* state that requires a verifier and has none; ChrononState::new does not *)
(* look.                                                                   *)
RequireAdmin == IF auth.verifier = None THEN ~auth.require ELSE Authorize

----------------------------------------------------------------------------
(* Upsert and run_now, in the process or over HTTP.                        *)

Returns(call, r) == results' = Append(results, [call |-> call, result |-> r])

(* run_now_with_params: a run takes its script and parameters from the job *)
(* row; JobNotFound.                                                       *)
NewRuns(row) ==
    IF row = None THEN <<>> ELSE <<[script |-> row.script, params |-> row.params]>>

UpsertHere ==
    /\ pc = "upsert" /\ sent = <<>>
    /\ LET u == ServiceUpsert(job) IN
       /\ stored' = u.row
       /\ Returns("upsert", IF u.ok THEN "ok" ELSE "refused")
    /\ pc' = "run"
    /\ UNCHANGED <<decl, other, auth, older, builder, job, sent, runs, ran>>

RunHere ==
    /\ pc = "run" /\ sent = <<>> /\ runs = <<>>
    /\ runs' = NewRuns(stored)
    /\ Returns("run_now", IF stored = None THEN "refused" ELSE "ok")
    /\ pc' = "execute"
    /\ UNCHANGED <<decl, other, auth, older, builder, job, sent, stored, ran>>

(* A request on its way; `id` is the job id that run_now names: the one of *)
(* the stored row, learnt by list_jobs, or the one build() made.           *)
Send(what, id) ==
    /\ Len(sent) < MaxSends
    /\ \A n \in DOMAIN sent : ~sent[n].awaited
    /\ sent' = Append(sent, [what |-> what, id |-> id, state |-> "sent", reply |-> None,
                             awaited |-> TRUE])

SendUpsert ==
    /\ pc = "upsert" /\ Send("upsert", None)
    /\ UNCHANGED <<decl, other, auth, older, pc, builder, job, stored, runs, results, ran>>

SendRunNow ==
    /\ pc = "run" /\ sent # <<>>
    /\ \E id \in {"listed", "built"} : Send("run_now", id)
    /\ UNCHANGED <<decl, other, auth, older, pc, builder, job, stored, runs, results, ran>>

(* The server gets to a request, awaited or not. *)
Serve(n) ==
    /\ sent[n].state = "sent"
    /\ LET q == sent[n]
           u == HttpUpsert(Request(job))
           reply(ok) == sent' = [sent EXCEPT ![n].state = "served",
                                             ![n].reply = IF ok THEN "ok" ELSE "refused"]
       IN  \/ ~RequireAdmin /\ reply(FALSE) /\ UNCHANGED <<stored, runs>>
           \/ /\ RequireAdmin /\ q.what = "upsert"
              /\ stored' = u.row /\ reply(u.ok)
              /\ UNCHANGED runs
           \/ /\ RequireAdmin /\ q.what = "run_now"
              /\ LET row == IF q.id = "listed" THEN stored ELSE None IN
                 /\ reply(row # None)
                 /\ runs' = runs \o NewRuns(row)
              /\ UNCHANGED stored
    /\ UNCHANGED <<decl, other, auth, older, pc, builder, job, results, ran>>

(* parse_response: an error status, or an envelope without success, is an  *)
(* Err with the server's message.                                          *)
Receive(n) ==
    /\ sent[n].awaited /\ sent[n].state = "served"
    /\ sent' = [sent EXCEPT ![n].awaited = FALSE]
    /\ Returns(sent[n].what, sent[n].reply)
    /\ pc' = IF sent[n].what = "upsert" THEN "run" ELSE "execute"
    /\ UNCHANGED <<decl, other, auth, older, builder, job, stored, runs, ran>>

(* CHRONON_REMOTE_HTTP_TIMEOUT_MS: the client gives up on an answer, not   *)
(* on the request.  The author tries again, or goes on.                    *)
TimesOut(n) ==
    /\ sent[n].awaited
    /\ sent' = [sent EXCEPT ![n].awaited = FALSE]
    /\ Returns(sent[n].what, "timeout")
    /\ \/ pc' = pc
       \/ pc' = IF sent[n].what = "upsert" THEN "run" ELSE "execute"
    /\ UNCHANGED <<decl, other, auth, older, builder, job, stored, runs, ran>>

----------------------------------------------------------------------------
(* execute_script, for the first run: look up, build the context, decode   *)
(* the parameters, call.  A failed lookup or decode is an Err of its kind  *)
(* (map_invoke_error).                                                     *)
Outcome(script, params) ==
    IF script \notin DOMAIN Registry THEN "script_not_found"
    ELSE IF Registry[script] = "other" THEN "ran_other"
    ELSE IF Decodes(decl, params) THEN "ran" ELSE "param_error"

Execute ==
    /\ ran = None /\ runs # <<>>
    /\ ran' = Outcome(runs[1].script, runs[1].params)
    /\ UNCHANGED <<decl, other, auth, older, pc, builder, job, sent, stored, runs, results>>

----------------------------------------------------------------------------
AuthorInit ==
    /\ decl \in Decls
    /\ other \in [attr : {"own", "else"}, last : BOOLEAN]
    /\ auth \in [verifier : {None, "allow_all", "token"}, require : BOOLEAN, token : BOOLEAN]
    /\ other.attr = "else" => ~other.last
    /\ auth.verifier # "token" => ~auth.token
    /\ auth.verifier # None => auth.require
    /\ pc = "source" /\ builder = NewBuilder /\ job = None /\ sent = <<>>
    /\ older \in {None} \cup Olders /\ stored = older
    /\ runs = <<>> /\ results = <<>> /\ ran = None

AuthorIdle ==
    /\ decl = None /\ other = None /\ auth = None /\ older = None /\ pc = None
    /\ builder = None /\ job = None /\ sent = <<>> /\ stored = None /\ runs = <<>> /\ results = <<>> /\ ran = None

AuthorNext ==
    \/ Expand \/ BuilderCall \/ BadCron \/ Build
    \/ UpsertHere \/ RunHere \/ SendUpsert \/ SendRunNow
    \/ \E n \in DOMAIN sent : Serve(n) \/ Receive(n) \/ TimesOut(n)
    \/ Execute

(* The stage alone: Journey leaves it to its own steps. *)
AuthorSpec == (AuthorInit \/ AuthorIdle) /\ [][AuthorNext]_authorVars

----------------------------------------------------------------------------
Told(what, r) == {n \in DOMAIN results : results[n] = [call |-> what, result |-> r]}

(* A run of a job that carries the parameters of its script's own handle,  *)
(* or none where the script needs none, gets past the decoding, by either  *)
(* way (generate_deserialization_code, JobBuilder::params).                *)
OwnParamsDecode ==
    (job # None /\ ran \notin {None, "ran_other"} /\ Told("upsert", "ok") # {})
        => ((builder.params \/ decl.fields # "required") => ran = "ran")

(* A job built from a script's handle finds a script, and it is that       *)
(* script unless another one of the same name was linked after it          *)
(* (HandleName, ScriptRegistry::register).                                 *)
RunsItsScript ==
    (ran # None /\ Told("upsert", "ok") # {})
        => /\ ran # "script_not_found"
           /\ ran = "ran_other" => other.attr = decl.attr /\ other.last

(* What the older job had there, or Job::new has. *)
FromBefore(f, default) == IF older = None THEN default ELSE older[f]

(* The row of a remote upsert of `job`. *)
RowTaken(row) ==
    /\ \A f \in {"script", "kind", "expr", "tz", "params", "misfire", "enabled"} :
         row[f] = job[f]
    /\ row.limits = "ok"
    /\ row.pool = IF job.pool = None THEN None ELSE Pool(job.pool)
    /\ row.actor = IF job.actor = "null" THEN FromBefore("actor", "null") ELSE job.actor
    /\ row.at = FromBefore("at", None) /\ row.region = FromBefore("region", None)
    /\ row.next = IF job.kind = "cron" /\ job.expr # None THEN "cron" ELSE FromBefore("next", None)

(* After the remote client's upsert returned Ok, however often it was sent *)
(* and served, the stored job has what was built in the fields a request   *)
(* carries: the pool trimmed, a job built without one (or a blank one)     *)
(* back in the default pool, the limits within the ceilings.  The other    *)
(* fields are those of the older job, or of Job::new, and what was built   *)
(* is lost: the time of a run-once job and the region; the actor where     *)
(* none was given; and next_run_at unless there is a cron expression, so   *)
(* that a run-once job has no time to run, or an older job's.              *)
RemoteUpsertTakes == (Told("upsert", "ok") # {} /\ sent # <<>>) => RowTaken(stored)

(* run_now makes one run per Ok, and more than that only if the author     *)
(* gave up on an answer (TimesOut): a retry then enqueues again.           *)
ExtraRunNeedsTimeout ==
    Len(runs) <= Cardinality(Told("run_now", "ok")) + Cardinality(Told("run_now", "timeout"))
                 + Cardinality({n \in DOMAIN sent : sent[n].awaited})

(* Where authentication is required nothing gets through without a         *)
(* verifier that said yes, by whichever constructor the state was made     *)
(* (ChrononStateBuilder::build, ChrononState::new, RequireAdmin).          *)
AuthFailsClosed ==
    (auth # None /\ auth.require /\ auth.verifier # "allow_all" /\ ~auth.token)
        => /\ \A n \in DOMAIN sent : sent[n].reply # "ok"
           /\ sent # <<>> => runs = <<>>

(* What an author writes is what is executed, in the process or over HTTP, *)
(* and what is stored as far as a request carries it, however often the    *)
(* client gives up and sends again, and nothing of it without              *)
(* authentication (JobBuilder::build, upsert_job, run_now, invoke_script). *)
AuthoredJobRuns ==
    /\ OwnParamsDecode /\ RunsItsScript /\ RemoteUpsertTakes
    /\ ExtraRunNeedsTimeout /\ AuthFailsClosed
=============================================================================
