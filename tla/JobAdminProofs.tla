--------------------------- MODULE JobAdminProofs ---------------------------
(***************************************************************************)
(* Proofs about JobAdmin, for every number of clients, jobs, names and     *)
(* requests and for both stores: the job table, its names and its          *)
(* revisions agree whatever requests cross, and a run-once job is fired    *)
(* once, and once more for each upsert that undid its completion or its    *)
(* deletion.                                                               *)
(***************************************************************************)
EXTENDS JobAdmin, FiniteSetTheorems, TLAPS

----------------------------------------------------------------------------
(* The inductive invariant.                                                *)

(* What a client, and the ticker, can have in hand. *)
Hand == [pc : {"exists", "name", "append", "write", "deleteRevisions", "deleteRow", "dropRevisions"},
         id : JobIds, job : Row, old : Nat, free : BOOLEAN, moved : BOOLEAN]
Looked == [pc : {"claim", "get"}, id : JobIds]
Taken == [pc : {"enqueue", "mark", "persist"}, id : JobIds, job : Row, old : Nat,
          free : {FALSE}, moved : {FALSE}]

Types ==
    /\ TypeOK
    /\ client \in [Clients -> {Idle} \cup Hand]
    /\ ticker \in {Idle} \cup Looked \cup Taken

Working(c) == client[c] # Idle
Upserting(c) == client[c].pc \in {"exists", "name", "append", "write"}

(* A row that was written, or read, is older than the requests to come,    *)
(* and every request adds one to the revision number at most.              *)
Dated(row) == row.tag <= requests /\ row.rev <= row.tag

(* Ids are made once: whatever the tables, the clients and the ticker have *)
(* to do with a job, its id was made.                                      *)
IdsUsed ==
    /\ \A j \in JobIds : jobs[j] # NoJob \/ fired[j] # 0 => j \in used
    /\ \A c \in Clients : Working(c) => client[c].id \in used
    /\ ticker # Idle => ticker.id \in used

(* The copy an upsert works on, against the number it was read with. *)
CopyOk(c) ==
    LET s == client[c] IN
    /\ Working(c) /\ s.old = 0 => Upserting(c)
    /\ Upserting(c) => Dated(s.job)
    /\ Upserting(c) /\ s.old = 0 => s.job.rev = 1
    /\ Upserting(c) /\ s.old # 0 /\ s.job.via = "http" => s.job.rev # s.old

(* A job that is being made is nobody else's business. *)
Newborn(c) ==
    Working(c) /\ client[c].old = 0 =>
        /\ jobs[client[c].id] = NoJob /\ fired[client[c].id] = 0
        /\ \A d \in Clients : Working(d) /\ client[d].id = client[c].id => d = c
        /\ ticker # Idle => ticker.id # client[c].id

(* A job that was there is there until a delete takes something from it,   *)
(* and only then does an upsert find it gone.                              *)
Standing(c) ==
    Working(c) /\ client[c].old # 0 =>
        /\ client[c].id \notin wiped => jobs[client[c].id] # NoJob
        /\ client[c].free \/ client[c].pc = "name" => client[c].id \in wiped

(* A client about to write has its number in the history, and its very     *)
(* configuration if the number had not moved when it looked.               *)
Listed(j, rev) == \E entry \in revisions[j] : entry[1] = rev

WriteRecorded(c) ==
    LET s == client[c] IN
    s.pc = "write" /\ s.id \notin wiped =>
        /\ Listed(s.id, s.job.rev)
        /\ s.job.via = "http" /\ ~s.moved => <<s.job.rev, s.job.tag>> \in revisions[s.id]

(* The two stores delete in their own order, and what a delete has begun   *)
(* is on record.                                                           *)
DeleteOrder(c) ==
    LET s == client[c] IN
    /\ s.pc \in {"deleteRevisions", "deleteRow"} => backend = "sql"
    /\ s.pc = "dropRevisions" => backend = "mem"
    /\ s.pc \in {"deleteRow", "dropRevisions"} => s.id \in wiped

ClientOk(c) ==
    CopyOk(c) /\ Newborn(c) /\ Standing(c) /\ WriteRecorded(c) /\ DeleteOrder(c)

(* A job no delete has touched. *)
WholeOk(j) ==
    j \notin wiped =>
        /\ jobs[j] # NoJob =>
             /\ Listed(j, jobs[j].rev)
             /\ jobs[j].via = "http" /\ j \notin overtaken =>
                  <<jobs[j].rev, jobs[j].tag>> \in revisions[j]
        /\ revisions[j] # {} /\ j \notin unmade => jobs[j] # NoJob \/ Writing(j)

(* A job a delete has touched and no upsert after it: what the first       *)
(* statement takes stays away, what the second one takes is there only     *)
(* until then.                                                             *)
WipedOk(j) ==
    j \in wiped \ undeleted =>
        \/ backend = "sql" /\ revisions[j] = {} /\ (jobs[j] # NoJob => Deleting(j))
        \/ backend = "mem" /\ jobs[j] = NoJob /\ (revisions[j] # {} => Deleting(j))

JobOk(j) == WholeOk(j) /\ WipedOk(j)

NamesApart == \A i, j \in Stored : jobs[i].name = jobs[j].name => i = j

AdminInv ==
    /\ Types /\ IdsUsed
    /\ \A j \in Stored : Dated(jobs[j])
    /\ NamesApart
    /\ \A c \in Clients : ClientOk(c)
    /\ \A j \in JobIds : JobOk(j)

(* A run-once job that was fired as often as it may be is about to be      *)
(* marked, is marked, or is gone.                                          *)
Marking(j) == ticker.pc = "mark" /\ ticker.id = j
Pending(j) == jobs[j] # NoJob /\ ~jobs[j].done /\ ~Marking(j)

FiredOk(j) ==
    /\ fired[j] <= 1 + undone[j]
    /\ Pending(j) => fired[j] <= undone[j]

FiredInv == \A j \in JobIds : FiredOk(j)

----------------------------------------------------------------------------
(* Rows and hands.                                                         *)

(* Rows that differ in what the tick loop and pause_job write alone; a     *)
(* mark is not taken back.                                                 *)
SameConfig(a, b) ==
    /\ a.tag = b.tag /\ a.rev = b.rev /\ a.via = b.via /\ a.name = b.name
    /\ b.done => a.done

(* What a row says. *)
LEMMA RowTypes ==
  ASSUME NEW row \in Row
  PROVE  /\ row.tag \in Nat /\ row.rev \in Nat \ {0} /\ row # NoJob /\ row.name \in Names
         /\ row.done \in BOOLEAN
<1>1. row # NoJob
  BY AdminAssumption
<1>2. QED
  BY <1>1, AdminAssumption DEF Row

(* The copy of a job that is there, when its request is the latest. *)
LEMMA ChangedType ==
  ASSUME NEW row \in Row, Dated(row), NEW q \in Upserts, NEW via \in {"http", "host"},
         requests \in Nat, requests < MaxRequests, via = "http" => q.bump
  PROVE  LET job == Changed(row, q, via, requests + 1)
         IN  /\ job \in Row /\ job.tag = requests + 1 /\ job.rev <= requests + 1
             /\ job.via = "http" => job.rev # row.rev
<1>1. /\ row.tag \in 1..MaxRequests /\ row.rev \in 1..(MaxRequests + 1) /\ MaxRequests \in Nat
  BY AdminAssumption DEF Row
<1> DEFINE rev == IF q.bump THEN row.rev + 1 ELSE row.rev
           next == IF q.kind = "cron" THEN "later" ELSE row.next
           actor == IF q.actor = NoActor THEN row.actor ELSE q.actor
           job == [row EXCEPT !.name = q.to, !.script = q.script, !.kind = q.kind,
                              !.enabled = q.on, !.next = next, !.rev = rev, !.actor = actor,
                              !.via = via, !.tag = requests + 1]
<1>2. rev \in 1..(MaxRequests + 1) /\ rev <= requests + 1 /\ requests + 1 \in 1..MaxRequests
  BY <1>1 DEF Dated
<1>3. next \in {"none", "later", "due"} /\ actor \in Actors
  BY DEF Row, Upserts
<1>4. q.to \in Names /\ q.script \in Scripts /\ q.kind \in Kinds /\ q.on \in BOOLEAN
  BY DEF Upserts
<1>5. Changed(row, q, via, requests + 1) = job
  BY DEF Changed, Row
<1>6. via = "http" => rev # row.rev
  BY <1>1
<1> HIDE DEF rev, next, actor
<1>7. job \in Row
  BY <1>2, <1>3, <1>4 DEF Row
<1>8. job.tag = requests + 1 /\ job.rev = rev /\ job.via = via
  BY DEF Row
<1>9. QED
  BY <1>2, <1>5, <1>6, <1>7, <1>8

(* The first copy of a new job. *)
LEMMA NewJobType ==
  ASSUME NEW q \in Upserts, NEW via \in {"http", "host"}, requests \in Nat, requests < MaxRequests
  PROVE  LET job == NewJob(q, via, requests + 1)
         IN  job \in Row /\ job.tag = requests + 1 /\ job.rev = 1
<1>1. requests + 1 \in 1..MaxRequests /\ 1 \in 1..(MaxRequests + 1)
  BY AdminAssumption
<1>2. QED
  BY <1>1 DEF NewJob, Row, Upserts

(* Time passes for a row. *)
LEMMA LapseType ==
  ASSUME NEW row \in Row
  PROVE  Lapse(row) \in Row /\ SameConfig(Lapse(row), row)
BY DEF Lapse, Row, SameConfig

(* mark_run_once_completed writes one column. *)
LEMMA CompletedType ==
  ASSUME NEW row \in Row
  PROVE  Completed(row) \in Row /\ SameConfig(Completed(row), row) /\ Completed(row).done
BY DEF Completed, Row, SameConfig

(* A client is idle, or it has something in hand. *)
LEMMA HandTypes ==
  ASSUME Types, NEW c \in Clients
  PROVE  /\ Idle.pc = "idle"
         /\ client[c] = Idle \/ client[c] \in Hand
         /\ Working(c) <=> client[c] \in Hand
         /\ Working(c) <=> client[c].pc # "idle"
         /\ Upserting(c) => Working(c)
         /\ Working(c) => /\ client[c].id \in JobIds /\ client[c].job \in Row
                          /\ client[c].old \in Nat
                          /\ client[c].free \in BOOLEAN /\ client[c].moved \in BOOLEAN
<1>1. Idle.pc = "idle"
  BY DEF Idle
<1>2. client[c] = Idle \/ client[c] \in Hand
  BY DEF Types
<1>3. \A s \in Hand : /\ s.pc # "idle" /\ s.id \in JobIds /\ s.job \in Row /\ s.old \in Nat
                      /\ s.free \in BOOLEAN /\ s.moved \in BOOLEAN
  BY DEF Hand
<1>4. QED
  BY <1>1, <1>2, <1>3 DEF Working, Upserting

(* The counters. *)
LEMMA NumbersType ==
  ASSUME Types
  PROVE  /\ requests \in Nat /\ MaxRequests \in Nat
         /\ requests < MaxRequests => requests + 1 \in 0..MaxRequests
         /\ faults < MaxFaults => faults + 1 \in 0..MaxFaults
BY AdminAssumption DEF Types, TypeOK

----------------------------------------------------------------------------
(* Steps that write no configuration: the tick loop's, pause_job, and time.*)

(* What a client has in hand, but for the columns the tick loop writes. *)
SameHand(s, t) ==
    /\ s.pc = t.pc /\ s.id = t.id /\ s.free = t.free /\ s.old = t.old /\ s.moved = t.moved
    /\ SameConfig(s.job, t.job)

(* The rows are there that were, with other tick columns perhaps. *)
Touched ==
    /\ jobs' \in [JobIds -> Row \cup {NoJob}]
    /\ \A j \in JobIds : /\ jobs'[j] = NoJob <=> jobs[j] = NoJob
                         /\ jobs[j] # NoJob => SameConfig(jobs'[j], jobs[j])

(* Such a step keeps the invariant. *)
LEMMA TouchStep ==
  ASSUME AdminInv, Types', Touched,
         requests <= requests', UNCHANGED <<backend, revisions, used, marks>>,
         \A c \in Clients : /\ client'[c] = Idle <=> client[c] = Idle
                            /\ client[c] # Idle => SameHand(client'[c], client[c]),
         \A j \in JobIds : fired'[j] = fired[j] \/ (ticker # Idle /\ ticker.id = j),
         ticker' # Idle => \/ ticker # Idle /\ ticker'.id = ticker.id
                           \/ ticker'.id \in Stored
  PROVE  AdminInv'
<1>1. /\ Types /\ requests \in Nat /\ requests' \in Nat
      /\ overtaken' = overtaken /\ wiped' = wiped /\ undeleted' = undeleted /\ unmade' = unmade
      /\ revisions' = revisions /\ backend' = backend /\ used' = used
  BY NumbersType, AdminAssumption DEF AdminInv, marks, Types, TypeOK
<1>2. Stored' = Stored /\ Stored \subseteq JobIds
  BY DEF Touched, Stored
<1>3. ASSUME NEW c \in Clients
      PROVE  /\ Working(c)' <=> Working(c)
             /\ client'[c].pc = client[c].pc
             /\ Upserting(c)' <=> Upserting(c)
  <2>1. client[c] = Idle => client'[c].pc = client[c].pc
    OBVIOUS
  <2>2. QED
    BY <2>1 DEF Working, Upserting, SameHand
<1>4. ASSUME NEW c \in Clients, Working(c)
      PROVE  /\ client'[c].id = client[c].id /\ client'[c].free = client[c].free
             /\ client'[c].old = client[c].old /\ client'[c].moved = client[c].moved
             /\ client'[c].job.rev = client[c].job.rev /\ client'[c].job.tag = client[c].job.tag
             /\ client'[c].job.via = client[c].job.via
             /\ client[c].id \in JobIds /\ client[c].job \in Row /\ client[c].id \in used
  BY <1>1, <1>4, HandTypes DEF Working, SameHand, SameConfig, AdminInv, IdsUsed
<1>5. \A j \in Stored : /\ jobs'[j].rev = jobs[j].rev /\ jobs'[j].tag = jobs[j].tag
                        /\ jobs'[j].via = jobs[j].via /\ jobs'[j].name = jobs[j].name
                        /\ jobs[j] \in Row
  BY <1>1 DEF Touched, Stored, SameConfig, Types, TypeOK
<1>6. IdsUsed'
  <2>1. \A j \in JobIds : jobs'[j] # NoJob \/ fired'[j] # 0 => j \in used
    BY DEF AdminInv, IdsUsed, Touched
  <2>2. ticker' # Idle => ticker'.id \in used
    BY <1>2 DEF AdminInv, IdsUsed, Stored
  <2>3. QED
    BY <1>1, <1>3, <1>4, <2>1, <2>2 DEF IdsUsed
<1>7. \A j \in Stored' : Dated(jobs[j])'
  BY <1>1, <1>2, <1>5, RowTypes DEF AdminInv, Dated
<1>8. NamesApart'
  BY <1>2, <1>5 DEF AdminInv, NamesApart
<1>9. ASSUME NEW c \in Clients
      PROVE  ClientOk(c)'
  <2>1. ClientOk(c)
    BY DEF AdminInv
  <2>2. Upserting(c) \/ client[c].pc \in {"write", "deleteRow", "dropRevisions"} => Working(c)
    BY <1>1, HandTypes
  <2>3. CopyOk(c)'
    BY <1>1, <1>3, <1>4, <2>1, <2>2, RowTypes DEF ClientOk, CopyOk, Dated
  <2>4. Newborn(c)'
    <3>1. SUFFICES ASSUME Working(c), client[c].old = 0
                   PROVE  /\ jobs'[client[c].id] = NoJob /\ fired'[client[c].id] = 0
                          /\ \A d \in Clients : Working(d)' /\ client'[d].id = client[c].id => d = c
                          /\ ticker' # Idle => ticker'.id # client[c].id
      BY <1>3, <1>4 DEF Newborn
    <3>2. /\ jobs[client[c].id] = NoJob /\ fired[client[c].id] = 0 /\ client[c].id \in JobIds
          /\ \A d \in Clients : Working(d) /\ client[d].id = client[c].id => d = c
          /\ ticker # Idle => ticker.id # client[c].id
      BY <1>4, <2>1, <3>1 DEF ClientOk, Newborn
    <3>3. QED
      BY <1>3, <1>4, <3>2 DEF Touched, Stored
  <2>5. Standing(c)'
    BY <1>1, <1>3, <1>4, <2>1 DEF ClientOk, Standing, Touched
  <2>6. WriteRecorded(c)'
    BY <1>1, <1>3, <1>4, <2>1, <2>2 DEF ClientOk, WriteRecorded, Listed
  <2>7. DeleteOrder(c)'
    BY <1>1, <1>3, <1>4, <2>1, <2>2 DEF ClientOk, DeleteOrder
  <2>8. QED
    BY <2>3, <2>4, <2>5, <2>6, <2>7 DEF ClientOk
<1>10. ASSUME NEW j \in JobIds
       PROVE  JobOk(j)'
  <2>1. JobOk(j) /\ (jobs'[j] = NoJob <=> jobs[j] = NoJob)
    BY DEF AdminInv, Touched
  <2>2. (Writing(j)' <=> Writing(j)) /\ (Deleting(j)' <=> Deleting(j))
    <3>1. \A c \in Clients : client[c].pc \in {"write", "deleteRow", "dropRevisions"} =>
             client'[c].id = client[c].id
      BY <1>1, <1>4, HandTypes
    <3>2. QED
      BY <1>3, <3>1 DEF Writing, Deleting
  <2>3. WholeOk(j)'
    BY <1>1, <1>5, <2>1, <2>2 DEF JobOk, WholeOk, Listed, Stored
  <2>4. QED
    BY <1>1, <2>1, <2>2, <2>3 DEF JobOk, WipedOk
<1>11. QED
  BY <1>6, <1>7, <1>8, <1>9, <1>10 DEF AdminInv

(* A step that touches the job table and moves the ticker. *)
LEMMA TickerStep ==
  ASSUME AdminInv, Touched, ticker' \in {Idle} \cup Looked \cup Taken,
         UNCHANGED <<backend, revisions, client, used, faults, marks>>,
         requests' \in 0..MaxRequests, requests <= requests', fired' \in [JobIds -> Nat],
         \A j \in JobIds : fired'[j] = fired[j] \/ (ticker # Idle /\ ticker.id = j),
         ticker' # Idle => \/ ticker # Idle /\ ticker'.id = ticker.id
                           \/ ticker'.id \in Stored
  PROVE  AdminInv'
<1>1. Types
  BY DEF AdminInv
<1>2. Types'
  BY <1>1 DEF Types, TypeOK, Touched, marks
<1>3. \A c \in Clients : /\ client'[c] = Idle <=> client[c] = Idle
                         /\ client[c] # Idle => SameHand(client'[c], client[c])
  BY DEF SameHand, SameConfig
<1>4. UNCHANGED <<backend, revisions, used, marks>>
  OBVIOUS
<1>5. QED
  BY <1>2, <1>3, <1>4, TouchStep

(* One row gets other tick columns. *)
LEMMA RowTouched ==
  ASSUME Types, NEW j \in JobIds, jobs[j] # NoJob, NEW row \in Row, SameConfig(row, jobs[j]),
         jobs' = [jobs EXCEPT ![j] = row]
  PROVE  Touched
<1>1. row # NoJob
  BY RowTypes
<1>2. QED
  BY <1>1 DEF Types, TypeOK, Touched, SameConfig

(* A step that leaves the table alone. *)
LEMMA NothingTouched ==
  ASSUME Types, jobs' = jobs
  PROVE  Touched
BY DEF Types, TypeOK, Touched, SameConfig

(* The ticker is idle, has looked at a job, or has taken it. *)
LEMMA TickerTypes ==
  ASSUME Types
  PROVE  /\ ticker.pc \in {"claim", "get"} => ticker \in Looked
         /\ ticker.pc \in {"enqueue", "mark", "persist"} => ticker \in Taken
         /\ ticker.pc \in {"claim", "get", "enqueue", "mark", "persist"} =>
              ticker.id \in JobIds /\ ticker # Idle
<1>1. Idle.pc = "idle" /\ ticker \in {Idle} \cup Looked \cup Taken
  BY DEF Idle, Types
<1>2. (ticker \in Looked => ticker.pc \in {"claim", "get"} /\ ticker.id \in JobIds)
      /\ (ticker \in Taken => ticker.pc \in {"enqueue", "mark", "persist"} /\ ticker.id \in JobIds)
  BY DEF Looked, Taken
<1>3. QED
  BY <1>1, <1>2

(* pause_job and resume_job write one column. *)
LEMMA SetEnabledTouches ==
  ASSUME Types, NEW c \in Clients, SetEnabled(c)
  PROVE  Touched
<1>1. PICK j \in Stored, on \in BOOLEAN : jobs' = [jobs EXCEPT ![j].enabled = on]
  BY DEF SetEnabled
<1>2. j \in JobIds /\ jobs[j] # NoJob /\ jobs[j] \in Row
  BY DEF Stored, Types, TypeOK
<1> DEFINE row == [jobs[j] EXCEPT !.enabled = on]
<1>3. row \in Row /\ SameConfig(row, jobs[j])
  BY <1>2 DEF Row, SameConfig
<1>4. jobs' = [jobs EXCEPT ![j] = row]
  BY <1>1
<1> HIDE DEF row
<1>5. QED
  BY <1>2, <1>3, <1>4, RowTouched

(* Whatever the tick loop writes, it writes tick columns. *)
LEMMA TickTouches ==
  ASSUME Types, TickStep
  PROVE  Touched
<1>1. jobs \in [JobIds -> Row \cup {NoJob}]
  BY DEF Types, TypeOK
<1>2. ASSUME ticker.pc \in {"claim", "enqueue", "persist"}, ticker.id \in Stored,
             NEW next \in {"none", "later", "due"}, NEW claimed \in BOOLEAN,
             \/ jobs' = [jobs EXCEPT ![ticker.id].claimed = claimed]
             \/ jobs' = [jobs EXCEPT ![ticker.id].next = next, ![ticker.id].claimed = claimed]
      PROVE  Touched
  <2>1. ticker.id \in JobIds /\ jobs[ticker.id] \in Row /\ jobs[ticker.id] # NoJob
    BY <1>1, <1>2 DEF Stored
  <2> DEFINE row1 == [jobs[ticker.id] EXCEPT !.claimed = claimed]
             row2 == [jobs[ticker.id] EXCEPT !.next = next, !.claimed = claimed]
  <2>2. row1 \in Row /\ SameConfig(row1, jobs[ticker.id]) /\ row2 \in Row /\ SameConfig(row2, jobs[ticker.id])
    BY <1>2, <2>1 DEF Row, SameConfig
  <2>3. jobs' = [jobs EXCEPT ![ticker.id] = row1] \/ jobs' = [jobs EXCEPT ![ticker.id] = row2]
    BY <1>1, <1>2, <2>1
  <2> HIDE DEF row1, row2
  <2>4. QED
    BY <2>1, <2>2, <2>3, RowTouched
<1>3. CASE jobs' = jobs
  BY <1>3, NothingTouched
<1>4. CASE ClaimJob
  <2>1. jobs' = jobs \/ (ticker.id \in Stored /\ jobs' = [jobs EXCEPT ![ticker.id].claimed = TRUE])
    BY <1>4 DEF ClaimJob
  <2>2. QED
    BY <1>2, <1>3, <1>4, <2>1 DEF ClaimJob
<1>5. CASE Enqueue
  <2>1. jobs' = jobs \/ (ticker.id \in Stored /\ jobs' = [jobs EXCEPT ![ticker.id].claimed = FALSE])
    BY <1>5 DEF Enqueue
  <2>2. QED
    BY <1>2, <1>3, <1>5, <2>1 DEF Enqueue
<1>6. CASE Persist
  <2>1. PICK next \in {"none", "later", "due"} :
          next = IF ticker.job.kind = "cron" THEN "later" ELSE "none"
    OBVIOUS
  <2>2. \/ jobs' = jobs
        \/ /\ ticker.id \in Stored
           /\ jobs' = [jobs EXCEPT ![ticker.id].next = next, ![ticker.id].claimed = FALSE]
    BY <1>6, <2>1 DEF Persist
  <2>3. QED
    BY <1>2, <1>3, <1>6, <2>2 DEF Persist
<1>7. CASE MarkCompleted
  <2>1. jobs' = jobs \/ (ticker.id \in Stored /\ jobs' = [jobs EXCEPT ![ticker.id] = Completed(jobs[ticker.id])])
    BY <1>7 DEF MarkCompleted
  <2>2. ticker.id \in Stored => ticker.id \in JobIds /\ jobs[ticker.id] \in Row /\ jobs[ticker.id] # NoJob
    BY <1>1 DEF Stored
  <2>3. QED
    BY <1>3, <2>1, <2>2, CompletedType, RowTouched
<1>8. QED
  BY <1>3, <1>4, <1>5, <1>6, <1>7 DEF TickStep, FindDue, GetDueJob

(* Where the tick loop goes. *)
LEMMA TickMoves ==
  ASSUME Types, TickStep
  PROVE  /\ ticker' \in {Idle} \cup Looked \cup Taken
         /\ UNCHANGED <<backend, revisions, client, used, requests, faults, marks>>
         /\ fired' \in [JobIds -> Nat]
         /\ \A j \in JobIds : fired'[j] = fired[j] \/ (ticker # Idle /\ ticker.id = j)
         /\ ticker' # Idle => \/ ticker # Idle /\ ticker'.id = ticker.id
                              \/ ticker'.id \in Stored
<1>1. fired \in [JobIds -> Nat]
  BY DEF Types, TypeOK
<1>2. UNCHANGED <<backend, revisions, client, used, requests, faults, marks>>
  BY DEF TickStep, FindDue, ClaimJob, GetDueJob, Enqueue, MarkCompleted, Persist
<1>3. CASE FindDue
  <2>1. PICK j \in Stored : ticker' = [pc |-> "claim", id |-> j]
    BY <1>3 DEF FindDue
  <2>2. ticker' \in Looked /\ ticker'.id = j
    BY <2>1 DEF Looked, Stored
  <2>3. QED
    BY <1>1, <1>2, <1>3, <2>2 DEF FindDue
<1>4. CASE ClaimJob
  <2>1. ticker \in Looked /\ ticker # Idle /\ fired' = fired
    BY <1>4, TickerTypes DEF ClaimJob
  <2>2. ticker' = Idle \/ ticker' = [ticker EXCEPT !.pc = "get"]
    BY <1>4 DEF ClaimJob
  <2>3. ticker' = Idle \/ (ticker' \in Looked /\ ticker'.id = ticker.id)
    BY <2>1, <2>2 DEF Looked
  <2>4. QED
    BY <1>1, <1>2, <2>1, <2>3
<1>5. CASE GetDueJob
  <2>1. ticker.id \in JobIds /\ ticker # Idle /\ fired' = fired
        /\ jobs[ticker.id] \in Row \cup {NoJob}
    BY <1>5, TickerTypes DEF GetDueJob, Types, TypeOK
  <2>2. CASE jobs[ticker.id] = NoJob
    BY <1>1, <1>2, <1>5, <2>1, <2>2 DEF GetDueJob
  <2>3. CASE jobs[ticker.id] # NoJob
    <3>1. ticker' = Busy("enqueue", ticker.id, jobs[ticker.id], jobs[ticker.id].rev)
      BY <1>5, <2>3 DEF GetDueJob
    <3>2. ticker' \in Taken /\ ticker'.id = ticker.id
      BY <2>1, <2>3, <3>1, RowTypes DEF Busy, Taken
    <3>3. QED
      BY <1>1, <1>2, <2>1, <3>2
  <2>4. QED
    BY <2>2, <2>3
<1>6. CASE Enqueue
  <2>1. ticker \in Taken /\ ticker # Idle /\ ticker.id \in JobIds
    BY <1>6, TickerTypes DEF Enqueue
  <2>2. \/ ticker' = Idle /\ fired' = fired
        \/ /\ ticker' = [ticker EXCEPT !.pc = "mark"] \/ ticker' = [ticker EXCEPT !.pc = "persist"]
           /\ fired' = [fired EXCEPT ![ticker.id] = @ + 1] \/ fired' = [fired EXCEPT ![ticker.id] = @]
    BY <1>6 DEF Enqueue
  <2>3. ticker' = Idle \/ (ticker' \in Taken /\ ticker'.id = ticker.id)
    BY <2>1, <2>2 DEF Taken
  <2>4. fired' \in [JobIds -> Nat] /\ \A j \in JobIds : j # ticker.id => fired'[j] = fired[j]
    BY <1>1, <2>1, <2>2
  <2>5. QED
    BY <1>2, <2>1, <2>3, <2>4
<1>7. CASE MarkCompleted
  <2>1. ticker \in Taken /\ ticker # Idle /\ fired' = fired /\ ticker' = [ticker EXCEPT !.pc = "persist"]
    BY <1>7, TickerTypes DEF MarkCompleted
  <2>2. ticker' \in Taken /\ ticker'.id = ticker.id
    BY <2>1 DEF Taken
  <2>3. QED
    BY <1>1, <1>2, <2>1, <2>2
<1>8. CASE Persist
  BY <1>1, <1>2, <1>8 DEF Persist
<1>9. QED
  BY <1>3, <1>4, <1>5, <1>6, <1>7, <1>8 DEF TickStep

(* Every step of the tick loop keeps the invariant. *)
LEMMA TickKeeps ==
  ASSUME AdminInv, TickStep
  PROVE  AdminInv'
<1>1. Types /\ Touched
  BY TickTouches DEF AdminInv
<1>2. requests' \in 0..MaxRequests /\ requests <= requests'
  BY <1>1, TickMoves, NumbersType DEF Types, TypeOK
<1>3. UNCHANGED <<backend, revisions, client, used, faults, marks>>
  BY <1>1, TickMoves
<1>4. QED
  BY <1>1, <1>2, <1>3, TickMoves, TickerStep

(* So do pause_job and resume_job. *)
LEMMA SetEnabledStep ==
  ASSUME AdminInv, NEW c \in Clients, SetEnabled(c)
  PROVE  AdminInv'
<1>1. Types /\ Touched
  BY SetEnabledTouches DEF AdminInv
<1>2. /\ requests < MaxRequests /\ requests' = requests + 1
      /\ UNCHANGED <<backend, revisions, client, ticker, used, faults, fired, marks>>
  BY DEF SetEnabled
<1>3. requests' \in 0..MaxRequests /\ requests <= requests'
  BY <1>1, <1>2, NumbersType
<1>4. ticker' \in {Idle} \cup Looked \cup Taken /\ fired' \in [JobIds -> Nat]
  BY <1>1, <1>2 DEF Types, TypeOK
<1>5. QED
  BY <1>1, <1>2, <1>3, <1>4, TickerStep

(* Time passes for what a client has in hand. *)
LEMMA LapseHand ==
  ASSUME NEW s \in Hand
  PROVE  LET h == [s EXCEPT !.job = Lapse(s.job)] IN h \in Hand /\ SameHand(h, s)
<1> DEFINE job == Lapse(s.job)
           h == [s EXCEPT !.job = job]
<1>1. s.job \in Row
  BY DEF Hand
<1>2. job \in Row /\ SameConfig(job, s.job)
  BY <1>1, LapseType
<1> HIDE DEF job
<1>3. h \in Hand
  BY <1>2 DEF Hand
<1>4. h.pc = s.pc /\ h.id = s.id /\ h.free = s.free /\ h.job = job /\ h.old = s.old /\ h.moved = s.moved
  BY DEF Hand
<1>5. SameHand(h, s)
  BY <1>2, <1>4 DEF SameHand
<1>6. QED
  BY <1>3, <1>5 DEF job

(* Time passes for the rows. *)
LEMMA PassTouches ==
  ASSUME Types, Pass
  PROVE  Touched
<1>1. jobs' = [j \in JobIds |-> IF jobs[j] = NoJob THEN NoJob ELSE Lapse(jobs[j])]
  BY DEF Pass
<1>2. \A j \in JobIds : jobs[j] # NoJob =>
        Lapse(jobs[j]) \in Row /\ Lapse(jobs[j]) # NoJob /\ SameConfig(Lapse(jobs[j]), jobs[j])
  BY LapseType, RowTypes DEF Types, TypeOK
<1>3. QED
  BY <1>1, <1>2 DEF Touched

(* Time passes. *)
LEMMA PassStep ==
  ASSUME AdminInv, Pass
  PROVE  AdminInv'
<1>1. Types /\ requests \in Nat /\ Touched
  BY NumbersType, PassTouches DEF AdminInv
<1>2. UNCHANGED <<backend, revisions, ticker, used, requests, faults, fired, marks>>
  BY DEF Pass
<1>3. ASSUME NEW c \in Clients
      PROVE  /\ client'[c] \in {Idle} \cup Hand
             /\ client'[c] = Idle <=> client[c] = Idle
             /\ client[c] # Idle => SameHand(client'[c], client[c])
  <2>1. client'[c] = IF client[c] = Idle THEN Idle ELSE [client[c] EXCEPT !.job = Lapse(client[c].job)]
    BY DEF Pass
  <2>2. CASE client[c] = Idle
    BY <2>1, <2>2
  <2>3. CASE client[c] # Idle
    <3>1. client[c] \in Hand
      BY <1>1, <2>3, HandTypes
    <3>2. client'[c] \in Hand /\ SameHand(client'[c], client[c])
      BY <2>1, <2>3, <3>1, LapseHand
    <3>3. client'[c].pc # "idle" /\ Idle.pc = "idle"
      BY <3>2 DEF Hand, Idle
    <3>4. client'[c] # Idle
      BY <3>3
    <3>5. QED
      BY <2>3, <3>2, <3>4
  <2>4. QED
    BY <2>2, <2>3
<1>4. Types'
  <2>1. client' \in [Clients -> {Idle} \cup Hand]
    <3>1. DOMAIN client' = Clients /\ client' = [c \in Clients |-> client'[c]]
      BY DEF Pass
    <3>2. QED
      BY <1>3, <3>1
  <2>2. \A c \in Clients : client'[c] = Idle \/ client'[c].job \in Row
    BY <1>3 DEF Hand
  <2>3. QED
    BY <1>1, <1>2, <2>1, <2>2 DEF Types, TypeOK, Touched, marks
<1>5. requests <= requests' /\ \A j \in JobIds : fired'[j] = fired[j]
  BY <1>1, <1>2
<1>6. QED
  BY <1>1, <1>2, <1>3, <1>4, <1>5, TouchStep


----------------------------------------------------------------------------
(* Steps of one client.                                                    *)

(* The others have in hand what they had. *)
Alone(c) ==
    /\ client' \in [Clients -> {Idle} \cup Hand]
    /\ \A d \in Clients : d # c => client'[d] = client[d]

LEMMA ClientMoves ==
  ASSUME Types, NEW c \in Clients, NEW s \in {Idle} \cup Hand,
         client' = [client EXCEPT ![c] = s]
  PROVE  Alone(c) /\ client'[c] = s
BY DEF Types, Alone

(* Nothing is asked of a client that is idle. *)
LEMMA IdleOk ==
  ASSUME NEW c \in Clients, client'[c] = Idle
  PROVE  ClientOk(c)'
<1>1. client'[c].pc = "idle" /\ ~Working(c)'
  BY DEF Idle, Working
<1>2. ~Upserting(c)'
  BY <1>1 DEF Upserting
<1>3. QED
  BY <1>1, <1>2 DEF ClientOk, CopyOk, Newborn, Standing, WriteRecorded, DeleteOrder

(* What a step of one client may do to the tables without another noticing: *)
(* a row goes, and revisions go, only with a delete on record; a row comes  *)
(* only of the job the client had in hand; and what it takes in hand is a   *)
(* job that is stored, or a new one.                                        *)
Discreet(c) ==
    /\ wiped \subseteq wiped'
    /\ \A j \in JobIds : jobs[j] # NoJob => jobs'[j] # NoJob \/ j \in wiped'
    /\ \A j \in JobIds : revisions[j] \subseteq revisions'[j] \/ j \in wiped'
    /\ \A j \in JobIds : jobs'[j] # NoJob =>
         jobs[j] # NoJob \/ (client[c] # Idle /\ client[c].id = j)
    /\ client'[c] # Idle =>
         \/ client[c] # Idle /\ client'[c].id = client[c].id
         \/ client'[c].id \in Stored
         \/ client'[c].id \notin used

(* The other clients' part of the invariant is kept. *)
LEMMA OthersKeep ==
  ASSUME AdminInv, NEW c \in Clients, Alone(c), Discreet(c),
         requests' \in Nat, requests <= requests', UNCHANGED <<backend, fired, ticker>>,
         NEW d \in Clients, d # c
  PROVE  ClientOk(d)'
<1>1. Types /\ ClientOk(d) /\ client'[d] = client[d] /\ requests \in Nat
  BY NumbersType DEF AdminInv, Alone
<1>2. CASE client[d] = Idle
  BY <1>1, <1>2, IdleOk
<1>3. CASE client[d] # Idle
  <2>1. /\ Working(d) /\ client[d].id \in JobIds /\ client[d].job \in Row /\ client[d].id \in used
    BY <1>1, <1>3, HandTypes DEF Working, AdminInv, IdsUsed
  <2>2. (Working(d)' <=> Working(d)) /\ (Upserting(d)' <=> Upserting(d))
    BY <1>1 DEF Working, Upserting
  <2>3. CopyOk(d)'
    BY <1>1, <2>1, <2>2, RowTypes DEF ClientOk, CopyOk, Dated
  <2>4. Newborn(d)'
    <3>1. SUFFICES ASSUME client[d].old = 0
                   PROVE  /\ jobs'[client[d].id] = NoJob /\ fired'[client[d].id] = 0
                          /\ \A e \in Clients : Working(e)' /\ client'[e].id = client[d].id => e = d
                          /\ ticker' # Idle => ticker'.id # client[d].id
      BY <1>1 DEF Newborn
    <3>2. /\ jobs[client[d].id] = NoJob /\ fired[client[d].id] = 0
          /\ \A e \in Clients : Working(e) /\ client[e].id = client[d].id => e = d
          /\ ticker # Idle => ticker.id # client[d].id
      BY <1>1, <2>1, <3>1 DEF ClientOk, Newborn
    <3>3. ~(client[c] # Idle /\ client[c].id = client[d].id)
      BY <3>2 DEF Working
    <3>4. jobs'[client[d].id] = NoJob
      BY <2>1, <3>2, <3>3 DEF Discreet
    <3>5. Working(c)' => client'[c].id # client[d].id
      BY <2>1, <3>2, <3>3 DEF Discreet, Working, Stored
    <3>6. ASSUME NEW e \in Clients, Working(e)', client'[e].id = client[d].id
          PROVE  e = d
      BY <3>2, <3>5, <3>6 DEF Alone, Working
    <3>7. QED
      BY <3>2, <3>4, <3>6
  <2>5. Standing(d)'
    BY <1>1, <2>1 DEF ClientOk, Standing, Discreet, Working
  <2>6. WriteRecorded(d)'
    BY <1>1, <2>1 DEF ClientOk, WriteRecorded, Listed, Discreet
  <2>7. DeleteOrder(d)'
    BY <1>1, <2>1 DEF ClientOk, DeleteOrder, Discreet
  <2>8. QED
    BY <2>3, <2>4, <2>5, <2>6, <2>7 DEF ClientOk
<1>4. QED
  BY <1>2, <1>3

(* A client that stops to write, or to delete, a job leaves it so that     *)
(* nobody waits for it.                                                    *)
LeavesWell(c, j) ==
    /\ client[c].pc = "write" /\ client[c].id = j =>
         j \in unmade' \/ j \in wiped' \/ jobs'[j] # NoJob
    /\ client[c].pc \in {"deleteRow", "dropRevisions"} /\ client[c].id = j => j \in undeleted'

(* A job whose tables the step leaves alone. *)
LEMMA JobFrame ==
  ASSUME AdminInv, NEW c \in Clients, Alone(c), NEW j \in JobIds,
         backend' = backend, jobs'[j] = jobs[j], revisions'[j] = revisions[j],
         j \in wiped' <=> j \in wiped, j \in overtaken' <=> j \in overtaken,
         j \in undeleted => j \in undeleted', j \in unmade => j \in unmade', LeavesWell(c, j)
  PROVE  JobOk(j)'
<1>1. JobOk(j)
  BY DEF AdminInv
<1>2. ASSUME NEW e \in Clients, client[e].pc = "write", client[e].id = j
      PROVE  Writing(j)' \/ j \in unmade' \/ j \in wiped' \/ jobs'[j] # NoJob
  <2>1. e # c => client'[e] = client[e]
    BY DEF Alone
  <2>2. QED
    BY <1>2, <2>1 DEF LeavesWell, Writing
<1>3. ASSUME NEW e \in Clients, client[e].pc \in {"deleteRow", "dropRevisions"}, client[e].id = j
      PROVE  Deleting(j)' \/ j \in undeleted'
  <2>1. e # c => client'[e] = client[e]
    BY DEF Alone
  <2>2. QED
    BY <1>3, <2>1 DEF LeavesWell, Deleting
<1>4. /\ Writing(j) => Writing(j)' \/ j \in unmade' \/ j \in wiped' \/ jobs'[j] # NoJob
      /\ Deleting(j) => Deleting(j)' \/ j \in undeleted'
  BY <1>2, <1>3 DEF Writing, Deleting
<1>5. WholeOk(j)'
  BY <1>1, <1>4 DEF JobOk, WholeOk, Listed
<1>6. WipedOk(j)'
  BY <1>1, <1>4 DEF JobOk, WipedOk
<1>7. QED
  BY <1>5, <1>6 DEF JobOk

(* A step of one client keeps the invariant if it keeps the client's own   *)
(* part and that of every job.                                             *)
LEMMA ClientStep ==
  ASSUME AdminInv, NEW c \in Clients, Alone(c), Discreet(c), Types',
         requests <= requests', UNCHANGED <<backend, fired, ticker>>,
         used \subseteq used', client'[c] # Idle => client'[c].id \in used',
         \A j \in JobIds : jobs'[j] # NoJob =>
           jobs'[j] = jobs[j] \/ (jobs'[j].tag <= requests' /\ jobs'[j].rev <= jobs'[j].tag),
         NamesApart', ClientOk(c)', \A j \in JobIds : JobOk(j)'
  PROVE  AdminInv'
<1>1. Types /\ requests \in Nat /\ requests' \in Nat
  BY NumbersType, AdminAssumption DEF AdminInv, Types, TypeOK
<1>2. IdsUsed'
  <2>1. \A j \in JobIds : jobs'[j] # NoJob \/ fired'[j] # 0 => j \in used'
    BY DEF AdminInv, IdsUsed, Discreet, Working
  <2>2. \A d \in Clients : Working(d)' => client'[d].id \in used'
    BY DEF AdminInv, IdsUsed, Working, Alone
  <2>3. ticker' # Idle => ticker'.id \in used'
    BY DEF AdminInv, IdsUsed
  <2>4. QED
    BY <2>1, <2>2, <2>3 DEF IdsUsed
<1>3. \A j \in Stored' : Dated(jobs[j])'
  <2>1. ASSUME NEW j \in JobIds, jobs'[j] # NoJob, jobs'[j] = jobs[j]
        PROVE  Dated(jobs[j])'
    <3>1. Dated(jobs[j]) /\ jobs[j] \in Row
      BY <1>1, <2>1 DEF AdminInv, Stored, Types, TypeOK
    <3>2. QED
      BY <1>1, <2>1, <3>1, RowTypes DEF Dated
  <2>2. QED
    BY <2>1 DEF Stored, Dated
<1>4. \A d \in Clients : ClientOk(d)'
  BY <1>1, OthersKeep
<1>5. QED
  BY <1>2, <1>3, <1>4 DEF AdminInv

(* Names stay apart when rows only go. *)
LEMMA NamesStay ==
  ASSUME NamesApart, \A j \in JobIds : jobs'[j] = jobs[j] \/ jobs'[j] = NoJob
  PROVE  NamesApart'
BY DEF NamesApart, Stored

(* A step that leaves the tables alone. *)
LEMMA QuietStep ==
  ASSUME AdminInv, NEW c \in Clients, Alone(c),
         UNCHANGED <<backend, jobs, revisions, fired, ticker, undone, overtaken, wiped>>,
         requests' \in 0..MaxRequests, faults' \in 0..MaxFaults, requests <= requests',
         used \subseteq used', used' \subseteq JobIds,
         undeleted \subseteq undeleted', undeleted' \subseteq JobIds,
         unmade \subseteq unmade', unmade' \subseteq JobIds,
         client'[c] # Idle =>
           /\ client'[c].id \in used'
           /\ \/ client[c] # Idle /\ client'[c].id = client[c].id
              \/ client'[c].id \in Stored
              \/ client'[c].id \notin used,
         ClientOk(c)',
         \A j \in JobIds : LeavesWell(c, j)
  PROVE  AdminInv'
<1>1. Types'
  <2>1. \A d \in Clients : client'[d] = Idle \/ client'[d].job \in Row
    BY DEF Alone, Hand
  <2>2. QED
    BY <2>1 DEF AdminInv, Types, TypeOK, Alone
<1>2. Discreet(c)
  BY DEF Discreet
<1>3. \A j \in JobIds : JobOk(j)'
  BY JobFrame
<1>4. NamesApart'
  BY NamesStay DEF AdminInv
<1>5. QED
  BY <1>1, <1>2, <1>3, <1>4, ClientStep

----------------------------------------------------------------------------
(* The steps of an upsert.                                                 *)

(* An upsert begins with a row that is there, or an id that is new. *)
LEMMA BeginStep ==
  ASSUME AdminInv, NEW c \in Clients, NEW q \in Upserts, NEW via \in {"http", "host"},
         via = "http" => q.bump, Begin(c, q, via)
  PROVE  AdminInv'
<1>1. Types /\ requests \in Nat /\ requests < MaxRequests /\ client[c] = Idle
      /\ requests' = requests + 1 /\ requests' \in 0..MaxRequests /\ requests <= requests'
  BY NumbersType DEF AdminInv, Begin
<1>2. /\ UNCHANGED <<backend, jobs, revisions, ticker, fired, faults>>
      /\ UNCHANGED <<undone, overtaken, wiped, undeleted, unmade>>
  BY DEF Begin, marks
<1>3. faults' \in 0..MaxFaults /\ undeleted' \subseteq JobIds /\ unmade' \subseteq JobIds
  BY <1>1, <1>2 DEF Types, TypeOK
<1>4. client[c].pc = "idle"
  BY <1>1 DEF Idle
<1>5. \A j \in JobIds : LeavesWell(c, j)
  BY <1>4 DEF LeavesWell
<1>6. ASSUME NEW j \in Named(q.name),
             client' = [client EXCEPT ![c] =
               Busy("exists", j, Changed(jobs[j], q, via, requests + 1), jobs[j].rev)],
             used' = used
      PROVE  AdminInv'
  <2>1. j \in JobIds /\ j \in Stored /\ jobs[j] # NoJob /\ jobs[j] \in Row /\ Dated(jobs[j])
    BY <1>1 DEF Named, Stored, AdminInv, Types, TypeOK
  <2>2. PICK job : job = Changed(jobs[j], q, via, requests + 1)
    OBVIOUS
  <2>3. /\ job \in Row /\ job.tag = requests + 1 /\ job.rev <= requests + 1
        /\ job.via = "http" => job.rev # jobs[j].rev
    BY <1>1, <2>1, <2>2, ChangedType
  <2>4. jobs[j].rev \in Nat \ {0}
    BY <2>1, RowTypes
  <2>5. PICK s \in Hand : s = Busy("exists", j, job, jobs[j].rev)
    BY <2>1, <2>3, <2>4 DEF Busy, Hand
  <2>6. /\ s.pc = "exists" /\ s.id = j /\ s.job = job /\ s.old = jobs[j].rev
        /\ s.free = FALSE /\ s.moved = FALSE
    BY <2>5 DEF Busy
  <2>7. Alone(c) /\ client'[c] = s
    BY <1>1, <1>6, <2>2, <2>5, ClientMoves
  <2>8. ClientOk(c)'
    <3>1. CopyOk(c)'
      BY <1>1, <2>3, <2>4, <2>6, <2>7 DEF CopyOk, Dated, Upserting
    <3>2. QED
      BY <1>2, <2>1, <2>4, <2>6, <2>7, <3>1
         DEF ClientOk, Newborn, Standing, WriteRecorded, DeleteOrder
  <2>9. j \in used /\ used \subseteq JobIds
    BY <1>1, <2>1 DEF AdminInv, IdsUsed, Types, TypeOK
  <2>10. QED
    BY <1>1, <1>2, <1>3, <1>5, <1>6, <2>1, <2>6, <2>7, <2>8, <2>9, QuietStep
<1>7. ASSUME NEW j \in JobIds, j \notin used,
             client' = [client EXCEPT ![c] = Busy("exists", j, NewJob(q, via, requests + 1), 0)],
             used' = used \cup {j}
      PROVE  AdminInv'
  <2>1. PICK job \in Row : job = NewJob(q, via, requests + 1)
    BY <1>1, NewJobType
  <2>2. job.tag = requests + 1 /\ job.rev = 1
    BY <1>1, <2>1, NewJobType
  <2>3. PICK s \in Hand : s = Busy("exists", j, job, 0)
    BY <1>7 DEF Busy, Hand
  <2>4. /\ s.pc = "exists" /\ s.id = j /\ s.job = job /\ s.old = 0
        /\ s.free = FALSE /\ s.moved = FALSE
    BY <2>3 DEF Busy
  <2>5. Alone(c) /\ client'[c] = s
    BY <1>1, <1>7, <2>1, <2>3, ClientMoves
  <2>6. jobs[j] = NoJob /\ fired[j] = 0 /\ (ticker # Idle => ticker.id # j)
    BY <1>7 DEF AdminInv, IdsUsed
  <2>7. \A d \in Clients : Working(d)' /\ client'[d].id = j => d = c
    BY <1>7, <2>5 DEF AdminInv, IdsUsed, Alone, Working
  <2>8. ClientOk(c)'
    <3>1. CopyOk(c)'
      BY <1>1, <2>2, <2>4, <2>5 DEF CopyOk, Dated, Upserting
    <3>2. Newborn(c)'
      BY <1>2, <2>4, <2>5, <2>6, <2>7 DEF Newborn
    <3>3. QED
      BY <2>4, <2>5, <3>1, <3>2 DEF ClientOk, Standing, WriteRecorded, DeleteOrder
  <2>9. used \subseteq JobIds
    BY <1>1 DEF Types, TypeOK
  <2>10. QED
    BY <1>1, <1>2, <1>3, <1>5, <1>7, <2>4, <2>5, <2>8, <2>9, QuietStep
<1>8. QED
  BY <1>6, <1>7 DEF Begin

(* A step that only reads, and does not stop short of a write. *)
LEMMA ReadStep ==
  ASSUME AdminInv, NEW c \in Clients, client[c].pc \in {"exists", "name"},
         NEW s \in {Idle} \cup Hand, client' = [client EXCEPT ![c] = s],
         UNCHANGED <<backend, jobs, revisions, ticker, used, requests, faults, fired, marks>>,
         s # Idle => /\ s.id = client[c].id /\ s.job = client[c].job /\ s.old = client[c].old
                     /\ s.pc \in {"name", "append", "write"},
         s # Idle /\ s.old # 0 /\ (s.free \/ s.pc = "name") => s.id \in wiped,
         s # Idle /\ s.pc = "write" /\ s.id \notin wiped =>
           /\ Listed(s.id, s.job.rev)
           /\ s.job.via = "http" /\ ~s.moved => <<s.job.rev, s.job.tag>> \in revisions[s.id]
  PROVE  AdminInv'
<1>1. /\ Types /\ Working(c) /\ Upserting(c) /\ client[c] # Idle
      /\ client[c].id \in JobIds /\ client[c].job \in Row /\ requests \in Nat
  BY HandTypes, NumbersType DEF AdminInv, Upserting, Working
<1>2. Alone(c) /\ client'[c] = s
  BY <1>1, ClientMoves
<1>3. /\ UNCHANGED <<undone, overtaken, wiped, undeleted, unmade>>
  BY DEF marks
<1>4. ClientOk(c)'
  <2>1. CASE s = Idle
    BY <1>2, <2>1, IdleOk
  <2>2. CASE s # Idle
    <3>1. ClientOk(c) /\ Working(c)' /\ Upserting(c)'
      BY <1>2, <2>2 DEF AdminInv, Working, Upserting
    <3>2. CopyOk(c)'
      BY <1>1, <1>2, <2>2, <3>1 DEF ClientOk, CopyOk, Dated
    <3>3. Newborn(c)'
      <4>1. \A d \in Clients : Working(d)' => Working(d) /\ client'[d].id = client[d].id
        BY <1>1, <1>2, <2>2 DEF Alone, Working
      <4>2. QED
        BY <1>1, <1>2, <2>2, <3>1, <4>1 DEF ClientOk, Newborn
    <3>4. Standing(c)'
      BY <1>1, <1>2, <1>3, <2>2, <3>1 DEF ClientOk, Standing
    <3>5. WriteRecorded(c)'
      BY <1>2, <1>3, <2>2 DEF WriteRecorded, Listed
    <3>6. DeleteOrder(c)'
      BY <1>2, <2>2 DEF DeleteOrder
    <3>7. QED
      BY <3>2, <3>3, <3>4, <3>5, <3>6 DEF ClientOk
  <2>3. QED
    BY <2>1, <2>2
<1>5. \A j \in JobIds : LeavesWell(c, j)
  BY DEF LeavesWell
<1>6. /\ requests' \in 0..MaxRequests /\ faults' \in 0..MaxFaults /\ requests <= requests'
      /\ used' \subseteq JobIds /\ undeleted' \subseteq JobIds /\ unmade' \subseteq JobIds
  BY <1>1, <1>3 DEF Types, TypeOK
<1>7. client[c].id \in used
  BY <1>1 DEF AdminInv, IdsUsed
<1>8. QED
  BY <1>1, <1>2, <1>3, <1>4, <1>5, <1>6, <1>7, QuietStep

(* get_job: a job whose number is the copy's is recorded under it; over    *)
(* HTTP that number is not the one the copy was read with.                 *)
LEMMA GetJobStep ==
  ASSUME AdminInv, NEW c \in Clients, GetJob(c)
  PROVE  AdminInv'
<1>1. /\ client[c].pc = "exists"
      /\ UNCHANGED <<backend, jobs, revisions, ticker, used, requests, faults, fired, marks>>
  BY DEF GetJob
<1>2. /\ Types /\ Working(c) /\ Upserting(c) /\ client[c] \in Hand /\ client[c].id \in JobIds
      /\ client[c].job \in Row /\ client[c].free \in BOOLEAN
  BY <1>1, HandTypes DEF AdminInv, Upserting
<1> DEFINE row == jobs[client[c].id]
           moved == row # NoJob /\ row.rev # client[c].old
<1>3. PICK pc : pc = AfterGetJob(client[c], row)
  OBVIOUS
<1>4. client' = [client EXCEPT ![c] = IF pc = "refused" THEN Idle
                                      ELSE [client[c] EXCEPT !.pc = pc, !.moved = moved]]
  BY <1>3 DEF GetJob
<1>5. /\ pc \in {"name", "refused", "append", "write"}
      /\ pc = "name" => row = NoJob
      /\ pc = "write" => row # NoJob /\ row.rev = client[c].job.rev
  BY <1>3 DEF AfterGetJob
<1>6. ClientOk(c) /\ JobOk(client[c].id)
  BY <1>2 DEF AdminInv
<1>7. CASE pc = "refused"
  BY <1>1, <1>4, <1>7, ReadStep
<1>8. CASE pc # "refused"
  <2>1. PICK m \in BOOLEAN : m = moved
    OBVIOUS
  <2>2. PICK s \in Hand : s = [client[c] EXCEPT !.pc = pc, !.moved = m]
    BY <1>2, <1>5, <1>8 DEF Hand
  <2>3. /\ s.id = client[c].id /\ s.job = client[c].job /\ s.old = client[c].old
        /\ s.pc = pc /\ s.free = client[c].free /\ s.moved = m
    BY <1>2, <2>2 DEF Hand
  <2>4. client' = [client EXCEPT ![c] = s]
    BY <1>4, <1>8, <2>1, <2>2
  <2>5. s.old # 0 /\ (s.free \/ s.pc = "name") => s.id \in wiped
    BY <1>2, <1>5, <1>6, <2>3 DEF ClientOk, Standing
  <2>6. ASSUME s.pc = "write", s.id \notin wiped
        PROVE  /\ Listed(s.id, s.job.rev)
               /\ s.job.via = "http" /\ ~s.moved => <<s.job.rev, s.job.tag>> \in revisions[s.id]
    <3>1. row # NoJob /\ row.rev = s.job.rev
      BY <1>5, <2>3, <2>6
    <3>2. Listed(s.id, s.job.rev)
      BY <1>6, <2>3, <2>6, <3>1 DEF JobOk, WholeOk
    <3>3. s.old # 0
      BY <1>2, <1>6, <2>3, <3>1 DEF ClientOk, Newborn
    <3>4. s.job.via = "http" => s.job.rev # s.old
      BY <1>2, <1>6, <2>3, <3>3 DEF ClientOk, CopyOk
    <3>5. s.job.via = "http" => s.moved
      BY <2>1, <2>3, <3>1, <3>4
    <3>6. QED
      BY <3>2, <3>5
  <2>7. QED
    BY <1>1, <1>5, <1>8, <2>3, <2>4, <2>5, <2>6, ReadStep
<1>9. QED
  BY <1>7, <1>8

(* get_job_by_name. *)
LEMMA CheckNameStep ==
  ASSUME AdminInv, NEW c \in Clients, CheckName(c)
  PROVE  AdminInv'
<1>1. /\ client[c].pc = "name"
      /\ UNCHANGED <<backend, jobs, revisions, ticker, used, requests, faults, fired, marks>>
      /\ client' = [client EXCEPT ![c] = IF Named(client[c].job.name) # {} THEN Idle
                                         ELSE [client[c] EXCEPT !.pc = "append", !.free = TRUE]]
  BY DEF CheckName
<1>2. Types /\ Working(c) /\ client[c] \in Hand /\ ClientOk(c)
  BY <1>1, HandTypes DEF AdminInv
<1>3. CASE Named(client[c].job.name) # {}
  BY <1>1, <1>3, ReadStep
<1>4. CASE Named(client[c].job.name) = {}
  <2>1. PICK s \in Hand : s = [client[c] EXCEPT !.pc = "append", !.free = TRUE]
    BY <1>2 DEF Hand
  <2>2. s.id = client[c].id /\ s.job = client[c].job /\ s.old = client[c].old /\ s.pc = "append"
    BY <1>2, <2>1 DEF Hand
  <2>3. client' = [client EXCEPT ![c] = s]
    BY <1>1, <1>4, <2>1
  <2>4. s.old # 0 => s.id \in wiped
    BY <1>1, <1>2, <2>2 DEF ClientOk, Standing
  <2>5. QED
    BY <1>1, <2>2, <2>3, <2>4, ReadStep
<1>5. QED
  BY <1>3, <1>4

(* What a client about to write, or to append, has in hand. *)
LEMMA InHand ==
  ASSUME AdminInv, NEW c \in Clients, client[c] # Idle
  PROVE  /\ Types /\ requests \in Nat /\ Working(c) /\ client[c] \in Hand
         /\ client[c].id \in JobIds /\ client[c].job \in Row /\ client[c].id \in used
         /\ ClientOk(c) /\ JobOk(client[c].id)
BY HandTypes, NumbersType DEF AdminInv, Working, IdsUsed

(* The same, seen from where it is. *)
LEMMA AtWork ==
  ASSUME AdminInv, NEW c \in Clients,
         client[c].pc \in {"append", "write", "deleteRevisions", "deleteRow", "dropRevisions"}
  PROVE  client[c] # Idle
BY DEF Idle

(* append_revision: of a job that stands, under the very number the write  *)
(* will have.                                                              *)
LEMMA AppendRevisionStep ==
  ASSUME AdminInv, NEW c \in Clients, AppendRevision(c)
  PROVE  AdminInv'
<1>1. /\ client[c].pc = "append" /\ client' = [client EXCEPT ![c].pc = "write"]
      /\ revisions' = [revisions EXCEPT ![client[c].id] = @ \cup {Appended(client[c])}]
      /\ undeleted' = Mark(undeleted, client[c].id, client[c].id \in wiped)
      /\ UNCHANGED <<backend, jobs, ticker, used, requests, faults, fired,
                     undone, overtaken, wiped, unmade>>
  BY DEF AppendRevision
<1>2. /\ Types /\ requests \in Nat /\ Working(c) /\ client[c] \in Hand
      /\ client[c].id \in JobIds /\ client[c].job \in Row /\ client[c].id \in used
      /\ ClientOk(c) /\ JobOk(client[c].id) /\ client[c] # Idle
  BY <1>1, AtWork, InHand
<1>3. PICK i \in JobIds : i = client[c].id
  BY <1>2
<1>4. PICK s \in Hand : s = [client[c] EXCEPT !.pc = "write"]
  BY <1>2 DEF Hand
<1>5. /\ s.id = i /\ s.job = client[c].job /\ s.old = client[c].old /\ s.pc = "write"
      /\ s.free = client[c].free /\ s.moved = client[c].moved
  BY <1>2, <1>3, <1>4 DEF Hand
<1>6. Alone(c) /\ client'[c] = s /\ client'[c] # Idle
  <2>1. client' = [client EXCEPT ![c] = s]
    BY <1>1, <1>4
  <2>2. s # Idle
    BY <1>5 DEF Idle
  <2>3. QED
    BY <1>2, <2>1, <2>2, ClientMoves
<1>7. revisions \in [JobIds -> SUBSET ((1..(MaxRequests + 1)) \X (1..MaxRequests))]
  BY <1>2 DEF Types, TypeOK
<1>8. PICK entry : entry = Appended(client[c])
  OBVIOUS
<1>9. entry \in (1..(MaxRequests + 1)) \X (1..MaxRequests)
  BY <1>2, <1>8, AdminAssumption DEF Appended, Row
<1>10. /\ revisions' \in [JobIds -> SUBSET ((1..(MaxRequests + 1)) \X (1..MaxRequests))]
       /\ revisions'[i] = revisions[i] \cup {entry}
       /\ \A j \in JobIds : j # i => revisions'[j] = revisions[j]
  BY <1>1, <1>3, <1>7, <1>8, <1>9
<1>11. i \notin wiped => entry = <<s.job.rev, s.job.tag>>
  <2>1. Upserting(c)
    BY <1>1 DEF Upserting
  <2>2. i \notin wiped /\ client[c].free => client[c].job.rev = 1
    BY <1>2, <1>3, <2>1 DEF ClientOk, CopyOk, Standing
  <2>3. QED
    BY <1>5, <1>8, <2>2 DEF Appended
<1>12. /\ undeleted \subseteq undeleted' /\ undeleted' \subseteq JobIds
       /\ i \in wiped => i \in undeleted'
  BY <1>1, <1>2, <1>3 DEF Mark, Types, TypeOK
<1>13. Types'
  <2>1. \A d \in Clients : client'[d] = Idle \/ client'[d].job \in Row
    BY <1>6 DEF Alone, Hand
  <2>2. QED
    BY <1>1, <1>2, <1>6, <1>10, <1>12, <2>1 DEF Types, TypeOK, Alone
<1>14. ClientOk(c)'
  <2>1. Upserting(c) /\ Upserting(c)' /\ Working(c)'
    BY <1>1, <1>5, <1>6 DEF Upserting, Working
  <2>2. CopyOk(c)'
    BY <1>1, <1>2, <1>5, <1>6, <2>1 DEF ClientOk, CopyOk, Dated
  <2>3. Newborn(c)'
    <3>1. \A d \in Clients : Working(d)' => Working(d) /\ client'[d].id = client[d].id
      BY <1>2, <1>3, <1>5, <1>6 DEF Alone, Working
    <3>2. QED
      BY <1>1, <1>2, <1>3, <1>5, <1>6, <3>1 DEF ClientOk, Newborn
  <2>4. Standing(c)'
    BY <1>1, <1>2, <1>3, <1>5, <1>6 DEF ClientOk, Standing
  <2>5. WriteRecorded(c)'
    <3>1. i \notin wiped => <<s.job.rev, s.job.tag>> \in revisions'[i]
      BY <1>10, <1>11
    <3>2. <<s.job.rev, s.job.tag>>[1] = s.job.rev
      OBVIOUS
    <3>3. QED
      BY <1>1, <1>5, <1>6, <3>1, <3>2 DEF WriteRecorded, Listed
  <2>6. DeleteOrder(c)'
    BY <1>5, <1>6 DEF DeleteOrder
  <2>7. QED
    BY <2>2, <2>3, <2>4, <2>5, <2>6 DEF ClientOk
<1>15. ASSUME NEW j \in JobIds
       PROVE  JobOk(j)'
  <2>1. CASE j # i
    <3>1. LeavesWell(c, j)
      BY <1>1 DEF LeavesWell
    <3>2. QED
      BY <1>1, <1>6, <1>10, <1>12, <2>1, <3>1, JobFrame
  <2>2. CASE j = i
    <3>1. Writing(i)'
      BY <1>5, <1>6 DEF Writing
    <3>2. WholeOk(i)'
      BY <1>1, <1>2, <1>3, <1>10, <3>1 DEF JobOk, WholeOk, Listed
    <3>3. WipedOk(i)'
      BY <1>1, <1>12 DEF WipedOk
    <3>4. QED
      BY <2>2, <3>2, <3>3 DEF JobOk
  <2>3. QED
    BY <2>1, <2>2
<1>16. Discreet(c)
  BY <1>1, <1>2, <1>3, <1>5, <1>6, <1>10 DEF Discreet
<1>17. NamesApart'
  BY <1>1, NamesStay DEF AdminInv
<1>18. used \subseteq used' /\ client'[c].id \in used' /\ requests <= requests'
       /\ UNCHANGED <<backend, fired, ticker>>
       /\ \A j \in JobIds : jobs'[j] = jobs[j]
  BY <1>1, <1>2, <1>3, <1>5, <1>6
<1>19. QED
  BY <1>6, <1>13, <1>14, <1>15, <1>16, <1>17, <1>18, ClientStep

(* The store's upsert_job: a name that is free, or an upsert refused. *)
LEMMA WriteJobStep ==
  ASSUME AdminInv, NEW c \in Clients, WriteJob(c)
  PROVE  AdminInv'
<1>1. /\ client[c].pc = "write" /\ client' = [client EXCEPT ![c] = Idle]
      /\ UNCHANGED <<backend, revisions, ticker, used, requests, faults, fired, wiped>>
  BY DEF WriteJob
<1>2. /\ Types /\ requests \in Nat /\ Working(c) /\ client[c] \in Hand
      /\ client[c].id \in JobIds /\ client[c].job \in Row /\ client[c].id \in used
      /\ ClientOk(c) /\ JobOk(client[c].id) /\ client[c] # Idle
  BY <1>1, AtWork, InHand
<1>3. Alone(c) /\ client'[c] = Idle
  BY <1>1, <1>2, ClientMoves
<1>4. ClientOk(c)'
  BY <1>3, IdleOk
<1>5. CASE ~NameFree(client[c].id, client[c].job.name)
  <2>1. /\ unmade' = Mark(unmade, client[c].id, client[c].old = 0)
        /\ UNCHANGED <<jobs, undone, overtaken, undeleted>>
    BY <1>5 DEF WriteJob
  <2>2. unmade \subseteq unmade' /\ unmade' \subseteq JobIds
        /\ (client[c].old = 0 => client[c].id \in unmade')
    BY <1>2, <2>1 DEF Mark, Types, TypeOK
  <2>3. \A j \in JobIds : LeavesWell(c, j)
    BY <1>1, <1>2, <2>1, <2>2 DEF LeavesWell, ClientOk, Standing
  <2>4. /\ requests' \in 0..MaxRequests /\ faults' \in 0..MaxFaults /\ requests <= requests'
        /\ used' \subseteq JobIds /\ undeleted' \subseteq JobIds
    BY <1>1, <1>2, <2>1 DEF Types, TypeOK
  <2>5. QED
    BY <1>1, <1>3, <1>4, <2>1, <2>2, <2>3, <2>4, QuietStep
<1>6. CASE NameFree(client[c].id, client[c].job.name)
  <2>1. PICK i \in JobIds : i = client[c].id
    BY <1>2
  <2>2. PICK job \in Row : job = client[c].job
    BY <1>2
  <2>3. /\ jobs' = [jobs EXCEPT ![i] = job]
        /\ undone' = [undone EXCEPT ![i] = IF PutsBack(client[c]) THEN undone[i] + 1 ELSE undone[i]]
        /\ overtaken' = IF client[c].moved THEN overtaken \cup {i} ELSE overtaken \ {i}
        /\ undeleted' = Mark(undeleted, i, i \in wiped)
        /\ unmade' = unmade
    BY <1>6, <2>1, <2>2 DEF WriteJob
  <2>4. /\ jobs \in [JobIds -> Row \cup {NoJob}] /\ undone \in [JobIds -> Nat]
        /\ undeleted \subseteq JobIds /\ overtaken \subseteq JobIds
    BY <1>2 DEF Types, TypeOK
  <2>5. /\ jobs' \in [JobIds -> Row \cup {NoJob}] /\ jobs'[i] = job /\ job # NoJob
        /\ \A j \in JobIds : j # i => jobs'[j] = jobs[j]
    BY <2>3, <2>4, RowTypes
  <2>6. undone' \in [JobIds -> Nat]
    BY <2>3, <2>4
  <2>7. /\ undeleted \subseteq undeleted' /\ undeleted' \subseteq JobIds
        /\ i \in wiped => i \in undeleted'
        /\ overtaken' \subseteq JobIds /\ (i \notin overtaken' => ~client[c].moved)
        /\ \A j \in JobIds : j # i => (j \in overtaken' <=> j \in overtaken)
    BY <2>3, <2>4 DEF Mark
  <2>8. Types'
    <3>1. \A d \in Clients : client'[d] = Idle \/ client'[d].job \in Row
      BY <1>3 DEF Alone, Hand
    <3>2. QED
      BY <1>1, <1>2, <1>3, <2>3, <2>5, <2>6, <2>7, <3>1 DEF Types, TypeOK, Alone
  <2>9. ASSUME NEW j \in JobIds
        PROVE  JobOk(j)'
    <3>1. CASE j # i
      <4>1. LeavesWell(c, j)
        BY <1>1, <2>1, <3>1 DEF LeavesWell
      <4>2. QED
        BY <1>1, <1>3, <2>3, <2>5, <2>7, <3>1, <4>1, JobFrame
    <3>2. CASE j = i
      <4>1. WholeOk(i)'
        BY <1>1, <1>2, <2>1, <2>2, <2>5, <2>7 DEF ClientOk, WriteRecorded, WholeOk, Listed
      <4>2. WipedOk(i)'
        BY <1>1, <2>7 DEF WipedOk
      <4>3. QED
        BY <3>2, <4>1, <4>2 DEF JobOk
    <3>3. QED
      BY <3>1, <3>2
  <2>10. Discreet(c)
    BY <1>1, <1>2, <1>3, <2>1, <2>5 DEF Discreet
  <2>11. NamesApart'
    <3>1. \A j \in JobIds : j # i /\ jobs[j] # NoJob => jobs[j].name # job.name
      BY <1>6, <2>1, <2>2 DEF NameFree, Named, Stored
    <3>2. QED
      BY <2>5, <3>1 DEF AdminInv, NamesApart, Stored
  <2>12. job.tag <= requests' /\ job.rev <= job.tag
    BY <1>1, <1>2, <2>2 DEF ClientOk, CopyOk, Upserting, Dated
  <2>13. \A j \in JobIds : jobs'[j] # NoJob =>
           jobs'[j] = jobs[j] \/ (jobs'[j].tag <= requests' /\ jobs'[j].rev <= jobs'[j].tag)
    BY <2>5, <2>12
  <2>14. requests <= requests' /\ used \subseteq used' /\ UNCHANGED <<backend, fired, ticker>>
    BY <1>1, <1>2
  <2>15. QED
    BY <1>3, <1>4, <2>8, <2>9, <2>10, <2>11, <2>13, <2>14, ClientStep
<1>7. QED
  BY <1>5, <1>6

(* A client dies. *)
LEMMA DiesStep ==
  ASSUME AdminInv, NEW c \in Clients, Dies(c)
  PROVE  AdminInv'
<1>1. /\ client[c] # Idle /\ client[c].pc # "dropRevisions" /\ faults < MaxFaults
      /\ faults' = faults + 1 /\ client' = [client EXCEPT ![c] = Idle]
      /\ undeleted' = Mark(undeleted, client[c].id, client[c].pc = "deleteRow")
      /\ unmade' = Mark(unmade, client[c].id, client[c].pc = "write" /\ client[c].old = 0)
      /\ UNCHANGED <<backend, jobs, revisions, ticker, used, requests, fired,
                     undone, overtaken, wiped>>
  BY DEF Dies
<1>2. /\ Types /\ requests \in Nat /\ Working(c) /\ client[c] \in Hand
      /\ client[c].id \in JobIds /\ ClientOk(c)
  BY <1>1, InHand
<1>3. Alone(c) /\ client'[c] = Idle
  BY <1>1, <1>2, ClientMoves
<1>4. ClientOk(c)'
  BY <1>3, IdleOk
<1>5. /\ undeleted \subseteq undeleted' /\ undeleted' \subseteq JobIds
      /\ unmade \subseteq unmade' /\ unmade' \subseteq JobIds
      /\ client[c].pc = "deleteRow" => client[c].id \in undeleted'
      /\ client[c].pc = "write" /\ client[c].old = 0 => client[c].id \in unmade'
  BY <1>1, <1>2 DEF Mark, Types, TypeOK
<1>6. \A j \in JobIds : LeavesWell(c, j)
  BY <1>1, <1>2, <1>5 DEF LeavesWell, ClientOk, Standing
<1>7. /\ requests' \in 0..MaxRequests /\ faults' \in 0..MaxFaults /\ requests <= requests'
      /\ used' \subseteq JobIds
  BY <1>1, <1>2, NumbersType DEF Types, TypeOK
<1>8. QED
  BY <1>1, <1>3, <1>4, <1>5, <1>6, <1>7, QuietStep

----------------------------------------------------------------------------
(* The steps of a delete.                                                  *)

(* The first step of a delete: a read in SQL, the row in memory. *)
LEMMA DeleteBegins ==
  ASSUME AdminInv, NEW c \in Clients, Delete(c)
  PROVE  AdminInv'
<1>1. /\ client[c] = Idle /\ requests < MaxRequests /\ requests' = requests + 1
      /\ UNCHANGED <<backend, revisions, ticker, used, faults, fired,
                     undone, overtaken, undeleted, unmade>>
  BY DEF Delete
<1>2. /\ Types /\ requests \in Nat /\ client[c].pc = "idle"
      /\ requests' \in 0..MaxRequests /\ requests <= requests'
  BY <1>1, NumbersType DEF AdminInv, Idle
<1>3. PICK j \in Stored :
        \/ /\ backend = "sql"
           /\ client' = [client EXCEPT ![c] = Busy("deleteRevisions", j, jobs[j], jobs[j].rev)]
           /\ UNCHANGED <<jobs, wiped>>
        \/ /\ backend = "mem"
           /\ client' = [client EXCEPT ![c] = Busy("dropRevisions", j, jobs[j], jobs[j].rev)]
           /\ jobs' = [jobs EXCEPT ![j] = NoJob]
           /\ wiped' = wiped \cup {j}
  BY DEF Delete
<1>4. /\ j \in JobIds /\ jobs[j] # NoJob /\ jobs[j] \in Row /\ j \in used
      /\ jobs[j].rev \in Nat \ {0}
  BY <1>2, RowTypes DEF Stored, AdminInv, IdsUsed, Types, TypeOK
<1>5. ASSUME NEW pc \in {"deleteRevisions", "dropRevisions"},
             client' = [client EXCEPT ![c] = Busy(pc, j, jobs[j], jobs[j].rev)],
             jobs'[j] = NoJob => j \in wiped',
             pc = "deleteRevisions" => backend = "sql",
             pc = "dropRevisions" => backend = "mem" /\ j \in wiped'
      PROVE  /\ Alone(c) /\ client'[c].id = j /\ client'[c].pc = pc
             /\ ClientOk(c)'
  <2>1. PICK s \in Hand : s = Busy(pc, j, jobs[j], jobs[j].rev)
    BY <1>4, <1>5 DEF Busy, Hand
  <2>2. s.pc = pc /\ s.id = j /\ s.old = jobs[j].rev /\ s.free = FALSE
    BY <2>1 DEF Busy
  <2>3. Alone(c) /\ client'[c] = s
    BY <1>2, <1>5, <2>1, ClientMoves
  <2>4. ~Upserting(c)'
    BY <1>5, <2>2, <2>3 DEF Upserting
  <2>5. CopyOk(c)' /\ Newborn(c)'
    BY <1>4, <2>2, <2>3, <2>4 DEF CopyOk, Newborn
  <2>6. Standing(c)' /\ WriteRecorded(c)' /\ DeleteOrder(c)'
    BY <1>1, <1>5, <2>2, <2>3 DEF Standing, WriteRecorded, DeleteOrder
  <2>7. QED
    BY <2>2, <2>3, <2>5, <2>6 DEF ClientOk
<1>6. CASE /\ backend = "sql"
           /\ client' = [client EXCEPT ![c] = Busy("deleteRevisions", j, jobs[j], jobs[j].rev)]
           /\ UNCHANGED <<jobs, wiped>>
  <2>1. Alone(c) /\ client'[c].id = j /\ ClientOk(c)'
    BY <1>4, <1>5, <1>6
  <2>2. \A i \in JobIds : LeavesWell(c, i)
    BY <1>2 DEF LeavesWell
  <2>3. faults' \in 0..MaxFaults /\ used' \subseteq JobIds
        /\ undeleted' \subseteq JobIds /\ unmade' \subseteq JobIds
    BY <1>1, <1>2 DEF Types, TypeOK
  <2>4. QED
    BY <1>1, <1>2, <1>4, <1>6, <2>1, <2>2, <2>3, QuietStep
<1>7. CASE /\ backend = "mem"
           /\ client' = [client EXCEPT ![c] = Busy("dropRevisions", j, jobs[j], jobs[j].rev)]
           /\ jobs' = [jobs EXCEPT ![j] = NoJob]
           /\ wiped' = wiped \cup {j}
  <2>1. Alone(c) /\ client'[c].id = j /\ client'[c].pc = "dropRevisions" /\ ClientOk(c)'
    BY <1>4, <1>5, <1>7
  <2>2. /\ jobs' \in [JobIds -> Row \cup {NoJob}] /\ jobs'[j] = NoJob
        /\ \A i \in JobIds : i # j => jobs'[i] = jobs[i]
    BY <1>2, <1>4, <1>7 DEF Types, TypeOK
  <2>3. Types'
    <3>1. \A d \in Clients : client'[d] = Idle \/ client'[d].job \in Row
      BY <2>1 DEF Alone, Hand
    <3>2. QED
      BY <1>1, <1>2, <1>4, <1>7, <2>1, <2>2, <3>1 DEF Types, TypeOK, Alone
  <2>4. ASSUME NEW i \in JobIds
        PROVE  JobOk(i)'
    <3>1. CASE i # j
      <4>1. LeavesWell(c, i)
        BY <1>2 DEF LeavesWell
      <4>2. QED
        BY <1>1, <1>7, <2>1, <2>2, <3>1, <4>1, JobFrame
    <3>2. CASE i = j
      <4>1. Deleting(j)'
        BY <2>1 DEF Deleting
      <4>2. QED
        BY <1>1, <1>7, <2>2, <3>2, <4>1 DEF JobOk, WholeOk, WipedOk
    <3>3. QED
      BY <3>1, <3>2
  <2>5. Discreet(c)
    BY <1>1, <1>7, <2>1, <2>2 DEF Discreet
  <2>6. NamesApart'
    BY <2>2, NamesStay DEF AdminInv
  <2>7. /\ used \subseteq used' /\ client'[c].id \in used' /\ UNCHANGED <<backend, fired, ticker>>
        /\ \A i \in JobIds : jobs'[i] # NoJob => jobs'[i] = jobs[i]
    BY <1>1, <1>4, <2>1, <2>2
  <2>8. QED
    BY <1>2, <2>1, <2>3, <2>4, <2>5, <2>6, <2>7, ClientStep
<1>8. QED
  BY <1>3, <1>6, <1>7

(* DELETE of the revisions: the row is still there, and on record as going.*)
LEMMA DeleteRevisionsStep ==
  ASSUME AdminInv, NEW c \in Clients, DeleteRevisions(c)
  PROVE  AdminInv'
<1>1. /\ client[c].pc = "deleteRevisions" /\ client' = [client EXCEPT ![c].pc = "deleteRow"]
      /\ revisions' = [revisions EXCEPT ![client[c].id] = {}]
      /\ wiped' = wiped \cup {client[c].id}
      /\ UNCHANGED <<backend, jobs, ticker, used, requests, faults, fired,
                     undone, overtaken, undeleted, unmade>>
  BY DEF DeleteRevisions
<1>2. /\ Types /\ requests \in Nat /\ Working(c) /\ client[c] \in Hand
      /\ client[c].id \in JobIds /\ client[c].id \in used
      /\ ClientOk(c) /\ client[c] # Idle
  BY <1>1, AtWork, InHand
<1>3. PICK i \in JobIds : i = client[c].id
  BY <1>2
<1>4. PICK s \in Hand : s = [client[c] EXCEPT !.pc = "deleteRow"]
  BY <1>2 DEF Hand
<1>5. s.id = i /\ s.old = client[c].old /\ s.pc = "deleteRow"
  BY <1>2, <1>3, <1>4 DEF Hand
<1>6. Alone(c) /\ client'[c] = s /\ client'[c] # Idle
  <2>1. client' = [client EXCEPT ![c] = s]
    BY <1>1, <1>4
  <2>2. s # Idle
    BY <1>5 DEF Idle
  <2>3. QED
    BY <1>2, <2>1, <2>2, ClientMoves
<1>7. /\ revisions' \in [JobIds -> SUBSET ((1..(MaxRequests + 1)) \X (1..MaxRequests))]
      /\ revisions'[i] = {} /\ \A j \in JobIds : j # i => revisions'[j] = revisions[j]
  BY <1>1, <1>2, <1>3 DEF Types, TypeOK
<1>8. Types'
  <2>1. \A d \in Clients : client'[d] = Idle \/ client'[d].job \in Row
    BY <1>6 DEF Alone, Hand
  <2>2. QED
    BY <1>1, <1>2, <1>6, <1>7, <2>1 DEF Types, TypeOK, Alone
<1>9. client[c].old # 0 /\ backend = "sql"
  BY <1>1, <1>2 DEF ClientOk, CopyOk, DeleteOrder, Upserting
<1>10. ClientOk(c)'
  <2>1. ~Upserting(c)'
    BY <1>5, <1>6 DEF Upserting
  <2>2. CopyOk(c)' /\ Newborn(c)'
    BY <1>5, <1>6, <1>9, <2>1 DEF CopyOk, Newborn
  <2>3. Standing(c)' /\ WriteRecorded(c)' /\ DeleteOrder(c)'
    BY <1>1, <1>3, <1>5, <1>6, <1>9 DEF Standing, WriteRecorded, DeleteOrder
  <2>4. QED
    BY <2>2, <2>3 DEF ClientOk
<1>11. ASSUME NEW j \in JobIds
       PROVE  JobOk(j)'
  <2>1. CASE j # i
    <3>1. LeavesWell(c, j)
      BY <1>1 DEF LeavesWell
    <3>2. QED
      BY <1>1, <1>3, <1>6, <1>7, <2>1, <3>1, JobFrame
  <2>2. CASE j = i
    <3>1. Deleting(i)'
      BY <1>5, <1>6 DEF Deleting
    <3>2. QED
      BY <1>1, <1>3, <1>7, <1>9, <2>2, <3>1 DEF JobOk, WholeOk, WipedOk
  <2>3. QED
    BY <2>1, <2>2
<1>12. Discreet(c)
  BY <1>1, <1>2, <1>3, <1>5, <1>6, <1>7 DEF Discreet
<1>13. NamesApart'
  BY <1>1, NamesStay DEF AdminInv
<1>14. used \subseteq used' /\ client'[c].id \in used' /\ requests <= requests'
       /\ UNCHANGED <<backend, fired, ticker>> /\ \A j \in JobIds : jobs'[j] = jobs[j]
  BY <1>1, <1>2, <1>3, <1>5, <1>6
<1>15. QED
  BY <1>6, <1>8, <1>10, <1>11, <1>12, <1>13, <1>14, ClientStep

(* The last statement of a delete, in either store. *)
LEMMA DeleteEnds ==
  ASSUME AdminInv, NEW c \in Clients, DeleteRow(c) \/ DropRevisions(c)
  PROVE  AdminInv'
<1>1. /\ client[c].pc \in {"deleteRow", "dropRevisions"} /\ client' = [client EXCEPT ![c] = Idle]
      /\ UNCHANGED <<backend, ticker, used, requests, faults, fired>>
      /\ UNCHANGED <<undone, overtaken, wiped, undeleted, unmade>>
      /\ \/ /\ client[c].pc = "deleteRow" /\ revisions' = revisions
            /\ jobs' = [jobs EXCEPT ![client[c].id] = NoJob]
         \/ /\ client[c].pc = "dropRevisions" /\ jobs' = jobs
            /\ revisions' = [revisions EXCEPT ![client[c].id] = {}]
  BY DEF DeleteRow, DropRevisions, marks
<1>2. /\ Types /\ requests \in Nat /\ client[c].id \in JobIds /\ client[c] # Idle
      /\ ClientOk(c) /\ JobOk(client[c].id)
  BY <1>1, AtWork, InHand
<1>3. PICK i \in JobIds : i = client[c].id
  BY <1>2
<1>4. Alone(c) /\ client'[c] = Idle
  BY <1>1, <1>2, ClientMoves
<1>5. ClientOk(c)'
  BY <1>4, IdleOk
<1>6. /\ jobs' \in [JobIds -> Row \cup {NoJob}]
      /\ revisions' \in [JobIds -> SUBSET ((1..(MaxRequests + 1)) \X (1..MaxRequests))]
      /\ jobs'[i] = jobs[i] \/ jobs'[i] = NoJob
      /\ \A j \in JobIds : j # i => jobs'[j] = jobs[j] /\ revisions'[j] = revisions[j]
      /\ \/ client[c].pc = "deleteRow" /\ revisions'[i] = revisions[i] /\ jobs'[i] = NoJob
         \/ client[c].pc = "dropRevisions" /\ revisions'[i] = {} /\ jobs'[i] = jobs[i]
  BY <1>1, <1>2, <1>3 DEF Types, TypeOK
<1>7. Types'
  <2>1. \A d \in Clients : client'[d] = Idle \/ client'[d].job \in Row
    BY <1>4 DEF Alone, Hand
  <2>2. QED
    BY <1>1, <1>2, <1>4, <1>6, <2>1 DEF Types, TypeOK, Alone
<1>8. i \in wiped
  BY <1>1, <1>2, <1>3 DEF ClientOk, DeleteOrder
<1>9. ASSUME NEW j \in JobIds
      PROVE  JobOk(j)'
  <2>1. CASE j # i
    <3>1. LeavesWell(c, j)
      BY <1>1, <1>3, <2>1 DEF LeavesWell
    <3>2. QED
      BY <1>1, <1>4, <1>6, <2>1, <3>1, JobFrame
  <2>2. CASE j = i
    <3>1. client[c].pc = "deleteRow" => backend = "sql"
      BY <1>2 DEF ClientOk, DeleteOrder
    <3>2. client[c].pc = "dropRevisions" => backend = "mem"
      BY <1>2 DEF ClientOk, DeleteOrder
    <3>3. WipedOk(i)'
      BY <1>1, <1>2, <1>3, <1>6, <1>8, <3>1, <3>2 DEF JobOk, WipedOk
    <3>4. WholeOk(i)'
      BY <1>1, <1>8 DEF WholeOk
    <3>5. QED
      BY <2>2, <3>3, <3>4 DEF JobOk
  <2>3. QED
    BY <2>1, <2>2
<1>10. Discreet(c)
  BY <1>1, <1>4, <1>6, <1>8 DEF Discreet
<1>11. NamesApart'
  BY <1>6, NamesStay DEF AdminInv
<1>12. used \subseteq used' /\ requests <= requests' /\ UNCHANGED <<backend, fired, ticker>>
       /\ \A j \in JobIds : jobs'[j] # NoJob => jobs'[j] = jobs[j]
  BY <1>1, <1>2, <1>6
<1>13. QED
  BY <1>4, <1>5, <1>7, <1>9, <1>10, <1>11, <1>12, ClientStep

----------------------------------------------------------------------------
(* The invariant holds at first, and every step keeps it.                  *)

(* No table has anything in it at first. *)
LEMMA AdminInit ==
  ASSUME Init
  PROVE  AdminInv
<1>1. Types
  BY AdminAssumption DEF Init, Types, TypeOK
<1>2. Stored = {} /\ \A c \in Clients : client[c] = Idle /\ client[c].pc = "idle"
  BY DEF Init, Stored, Idle
<1>3. \A c \in Clients : ~Working(c) /\ ~Upserting(c)
  BY <1>2 DEF Working, Upserting
<1>4. IdsUsed
  BY <1>3 DEF Init, IdsUsed
<1>5. \A c \in Clients : ClientOk(c)
  BY <1>2, <1>3 DEF ClientOk, CopyOk, Newborn, Standing, WriteRecorded, DeleteOrder
<1>6. \A j \in JobIds : JobOk(j)
  BY DEF Init, JobOk, WholeOk, WipedOk
<1>7. NamesApart
  BY <1>2 DEF NamesApart
<1>8. QED
  BY <1>1, <1>2, <1>4, <1>5, <1>6, <1>7 DEF AdminInv

(* Every action keeps the invariant. *)
LEMMA AdminNext ==
  ASSUME AdminInv, [Next]_vars
  PROVE  AdminInv'
<1>1. ASSUME NEW c \in Clients, HttpUpsert(c)
      PROVE  AdminInv'
  <2>1. PICK q \in HttpUpserts : Begin(c, q, "http")
    BY <1>1 DEF HttpUpsert
  <2>2. q \in Upserts /\ q.bump
    BY AdminAssumption
  <2>3. QED
    BY <2>1, <2>2, BeginStep
<1>2. ASSUME NEW c \in Clients, HostUpsert(c)
      PROVE  AdminInv'
  <2>1. PICK q \in HostUpserts : Begin(c, q, "host")
    BY <1>2 DEF HostUpsert
  <2>2. q \in Upserts
    BY AdminAssumption
  <2>3. QED
    BY <2>1, <2>2, BeginStep
<1>3. ASSUME NEW c \in Clients, Delete(c) \/ SetEnabled(c) \/ Dies(c)
      PROVE  AdminInv'
  BY <1>3, DeleteBegins, SetEnabledStep, DiesStep
<1>4. ASSUME NEW c \in Clients, UpsertStep(c)
      PROVE  AdminInv'
  BY <1>4, GetJobStep, CheckNameStep, AppendRevisionStep, WriteJobStep DEF UpsertStep
<1>5. ASSUME NEW c \in Clients, DeleteStep(c)
      PROVE  AdminInv'
  BY <1>5, DeleteRevisionsStep, DeleteEnds DEF DeleteStep
<1>6. CASE TickStep
  BY <1>6, TickKeeps
<1>7. CASE Pass
  BY <1>7, PassStep
<1>8. CASE UNCHANGED vars
  <2>1. /\ Types /\ jobs' = jobs /\ ticker' = ticker /\ requests' = requests
        /\ UNCHANGED <<backend, revisions, client, used, faults, marks>> /\ fired' = fired
    BY <1>8 DEF vars, marks, AdminInv
  <2>2. Touched
    BY <2>1, NothingTouched
  <2>3. /\ ticker' \in {Idle} \cup Looked \cup Taken /\ requests' \in 0..MaxRequests
        /\ requests <= requests' /\ fired' \in [JobIds -> Nat]
    BY <2>1, NumbersType DEF Types, TypeOK
  <2>4. QED
    BY <2>1, <2>2, <2>3, TickerStep
<1>9. QED
  BY <1>1, <1>2, <1>3, <1>4, <1>5, <1>6, <1>7, <1>8 DEF Next

(* The invariant holds throughout. *)
LEMMA AdminAlways == Spec => []AdminInv
<1>1. Init => AdminInv
  BY AdminInit
<1>2. AdminInv /\ [Next]_vars => AdminInv'
  BY AdminNext
<1>3. QED
  BY <1>1, <1>2, PTL DEF Spec

(* What the invariant says of the tables. *)
LEMMA AdminConsistent ==
  ASSUME AdminInv
  PROVE  JobsConsistent
<1>1. ASSUME NEW n \in Names
      PROVE  Cardinality(Named(n)) <= 1
  <2>1. CASE Named(n) = {}
    <3>1. Cardinality(Named(n)) = 0
      BY <2>1, FS_EmptySet
    <3>2. QED
      BY <3>1
  <2>2. CASE Named(n) # {}
    <3>1. PICK j : j \in Named(n)
      BY <2>2
    <3>2. \A i \in Named(n) : i = j
      BY <3>1 DEF AdminInv, NamesApart, Named
    <3>3. Named(n) = {j}
      BY <3>1, <3>2
    <3>4. Cardinality(Named(n)) = 1
      BY <3>3, FS_Singleton
    <3>5. QED
      BY <3>4
  <2>3. QED
    BY <2>1, <2>2
<1>2. ChangesRecorded
  <2>1. SUFFICES ASSUME NEW j \in JobIds, jobs[j] # NoJob, j \notin undeleted, ~Deleting(j)
                 PROVE  /\ \E entry \in revisions[j] : entry[1] = jobs[j].rev
                        /\ jobs[j].via = "http" /\ j \notin overtaken =>
                             <<jobs[j].rev, jobs[j].tag>> \in revisions[j]
    BY DEF ChangesRecorded, Stored
  <2>2. JobOk(j)
    BY DEF AdminInv
  <2>3. j \notin wiped
    BY <2>1, <2>2 DEF JobOk, WipedOk
  <2>4. QED
    BY <2>1, <2>2, <2>3 DEF JobOk, WholeOk, Listed
<1>3. RevisionsHaveJob
  <2>1. ASSUME NEW j \in JobIds, j \notin undeleted, j \notin unmade, revisions[j] # {}
        PROVE  j \in Stored \/ Writing(j) \/ Deleting(j)
    BY <2>1 DEF AdminInv, JobOk, WholeOk, WipedOk, Stored
  <2>2. ASSUME NEW j \in wiped \ undeleted, j \in Stored
        PROVE  Deleting(j)
    BY <2>2 DEF AdminInv, JobOk, WipedOk, Stored
  <2>3. QED
    BY <2>1, <2>2 DEF RevisionsHaveJob
<1>4. QED
  BY <1>1, <1>2, <1>3 DEF AdminInv, Types, JobsConsistent, NamesUnique

(* The job table, its names and its revisions agree, for every number of   *)
(* clients, jobs and requests and for both stores, whatever calls of       *)
(* upsert_job and delete_job cross: two jobs never share a name; every job *)
(* that no delete is at has its revision number in its history, with the   *)
(* very configuration if it came over HTTP and was not overtaken; and      *)
(* revisions have a job.  The exceptions are those of the property: jobs   *)
(* an upsert brought back after their delete, a delete cut short, and new  *)
(* jobs refused, or given up, after their first revision.                  *)
THEOREM JobsConsistentCorrect == Spec => []JobsConsistent
<1>1. AdminInv => JobsConsistent
  BY AdminConsistent
<1>2. QED
  BY <1>1, AdminAlways, PTL

----------------------------------------------------------------------------
(* A run-once job is fired once, and once more for each time it was put    *)
(* back.                                                                   *)

(* A job that is not fired, and comes to be pending only if it was. *)
LEMMA FiredKept ==
  ASSUME NEW j \in JobIds, FiredOk(j), fired'[j] = fired[j], undone'[j] = undone[j],
         Pending(j)' => Pending(j)
  PROVE  FiredOk(j)'
BY DEF FiredOk

(* Steps that take no mark back and do not move a ticker that is to mark.  *)
LEMMA FiredTouched ==
  ASSUME FiredInv, Types, Touched, fired' = fired, undone' = undone,
         ticker.pc = "mark" => ticker' = ticker
  PROVE  FiredInv'
<1>1. ASSUME NEW j \in JobIds, Pending(j)'
      PROVE  Pending(j)
  <2>1. jobs'[j] # NoJob /\ ~jobs'[j].done /\ ~Marking(j)'
    BY <1>1 DEF Pending
  <2>2. jobs[j] # NoJob /\ ~jobs[j].done
    BY <2>1 DEF Touched, SameConfig
  <2>3. ~Marking(j)
    BY <2>1 DEF Marking
  <2>4. QED
    BY <2>2, <2>3 DEF Pending
<1>2. QED
  BY <1>1, FiredKept DEF FiredInv

(* A run-once job is fired when it is stored and not marked: it was        *)
(* pending, and now the ticker is to mark it.                              *)
LEMMA FiredEnqueue ==
  ASSUME AdminInv, FiredInv, Enqueue
  PROVE  FiredInv'
<1>1. Types /\ TickStep
  BY DEF AdminInv, TickStep
<1>2. ticker.pc = "enqueue" /\ undone' = undone
  BY DEF Enqueue, marks
<1>3. ticker \in Taken /\ ticker.id \in JobIds /\ fired \in [JobIds -> Nat] /\ undone \in [JobIds -> Nat]
  BY <1>1, <1>2, TickerTypes DEF Types, TypeOK
<1>4. CASE fired' = fired
  BY <1>1, <1>2, <1>4, TickTouches, FiredTouched
<1>5. CASE fired' # fired
  <2>1. /\ ticker.job.kind = "run_once" /\ ticker.id \in Stored /\ ~jobs[ticker.id].done
        /\ fired' = [fired EXCEPT ![ticker.id] = @ + 1] /\ jobs' = jobs
        /\ ticker' = [ticker EXCEPT !.pc = "mark"]
    <3>1. ticker.job.kind # "run_once" => fired' = fired
      <4>1. ASSUME ticker.job.kind # "run_once"
            PROVE  fired' = [fired EXCEPT ![ticker.id] = fired[ticker.id]]
        BY <4>1 DEF Enqueue
      <4>2. QED
        BY <1>3, <4>1
    <3>2. QED
      BY <1>5, <3>1 DEF Enqueue
  <2>2. ticker'.pc = "mark" /\ ticker'.id = ticker.id
    BY <1>3, <2>1 DEF Taken
  <2>3. ASSUME NEW j \in JobIds
        PROVE  FiredOk(j)'
    <3>1. FiredOk(j)
      BY DEF FiredInv
    <3>2. CASE j = ticker.id
      <4>1. Pending(j)
        BY <1>2, <2>1, <3>2 DEF Pending, Marking, Stored
      <4>2. ~Pending(j)'
        BY <2>2, <3>2 DEF Pending, Marking
      <4>3. fired[j] <= undone[j] /\ fired'[j] = fired[j] + 1
        BY <1>3, <2>1, <3>1, <3>2, <4>1 DEF FiredOk
      <4>4. fired'[j] <= 1 + undone'[j]
        BY <1>2, <1>3, <4>3
      <4>5. QED
        BY <4>2, <4>4 DEF FiredOk
    <3>3. CASE j # ticker.id
      <4>1. fired'[j] = fired[j] /\ undone'[j] = undone[j] /\ (Pending(j)' => Pending(j))
        BY <1>2, <1>3, <2>1, <3>3 DEF Pending, Marking
      <4>2. QED
        BY <3>1, <4>1, FiredKept
    <3>4. QED
      BY <3>2, <3>3
  <2>4. QED
    BY <2>3 DEF FiredInv
<1>6. QED
  BY <1>4, <1>5

(* mark_run_once_completed leaves the job marked, or it is gone. *)
LEMMA FiredMark ==
  ASSUME AdminInv, FiredInv, MarkCompleted
  PROVE  FiredInv'
<1>1. Types /\ TickStep
  BY DEF AdminInv, TickStep
<1>2. /\ ticker.pc = "mark" /\ fired' = fired /\ undone' = undone
      /\ jobs' = IF ticker.id \in Stored
                 THEN [jobs EXCEPT ![ticker.id] = Completed(jobs[ticker.id])] ELSE jobs
  BY DEF MarkCompleted, marks
<1>3. ticker.id \in JobIds /\ jobs \in [JobIds -> Row \cup {NoJob}]
  BY <1>1, <1>2, TickerTypes DEF Types, TypeOK
<1>4. jobs'[ticker.id] = NoJob \/ jobs'[ticker.id].done
  BY <1>2, <1>3, CompletedType DEF Stored
<1>5. \A j \in JobIds : j # ticker.id => jobs'[j] = jobs[j]
  BY <1>2, <1>3
<1>6. ASSUME NEW j \in JobIds, Pending(j)'
      PROVE  Pending(j)
  <2>1. j # ticker.id
    BY <1>4, <1>6 DEF Pending
  <2>2. QED
    BY <1>5, <1>6, <2>1 DEF Pending, Marking
<1>7. QED
  BY <1>2, <1>6, FiredKept DEF FiredInv

(* A whole-row write: the job is new and was never fired, or it was there  *)
(* and not marked, or it is put back and that is counted.                  *)
LEMMA FiredWrite ==
  ASSUME AdminInv, FiredInv, NEW c \in Clients, WriteJob(c)
  PROVE  FiredInv'
<1>1. client[c].pc = "write" /\ UNCHANGED <<ticker, fired>>
  BY DEF WriteJob
<1>2. /\ Types /\ Working(c) /\ client[c].id \in JobIds /\ client[c].job \in Row /\ ClientOk(c)
  BY <1>1, AtWork, InHand
<1>3. /\ jobs \in [JobIds -> Row \cup {NoJob}] /\ undone \in [JobIds -> Nat]
      /\ fired \in [JobIds -> Nat]
  BY <1>2 DEF Types, TypeOK
<1>4. CASE ~NameFree(client[c].id, client[c].job.name)
  <2>1. UNCHANGED <<jobs, undone>>
    BY <1>4 DEF WriteJob
  <2>2. QED
    BY <1>1, <1>2, <2>1, NothingTouched, FiredTouched
<1>5. CASE NameFree(client[c].id, client[c].job.name)
  <2>1. PICK i \in JobIds : i = client[c].id
    BY <1>2
  <2>2. /\ jobs' = [jobs EXCEPT ![i] = client[c].job]
        /\ undone' = [undone EXCEPT ![i] = IF PutsBack(client[c]) THEN undone[i] + 1 ELSE undone[i]]
    BY <1>5, <2>1 DEF WriteJob
  <2>3. \A j \in JobIds : j # i => jobs'[j] = jobs[j] /\ undone'[j] = undone[j]
    BY <1>3, <2>2
  <2>4. jobs'[i] = client[c].job /\ FiredOk(i)
    BY <1>3, <2>2 DEF FiredInv
  <2>5. CASE PutsBack(client[c])
    <3>1. undone'[i] = undone[i] + 1 /\ fired'[i] = fired[i]
      BY <1>1, <1>3, <2>2, <2>5
    <3>2. fired'[i] <= undone'[i] /\ fired'[i] <= 1 + undone'[i]
      BY <1>3, <2>4, <3>1 DEF FiredOk
    <3>3. FiredOk(i)'
      BY <3>2 DEF FiredOk
    <3>4. \A j \in JobIds : j # i => FiredOk(j)'
      BY <1>1, <2>3, FiredKept DEF FiredInv, Pending, Marking
    <3>5. QED
      BY <3>3, <3>4 DEF FiredInv
  <2>6. CASE ~PutsBack(client[c])
    <3>1. undone'[i] = undone[i] /\ fired'[i] = fired[i]
      BY <1>1, <1>3, <2>2, <2>6
    <3>2. FiredOk(i)'
      <4>1. CASE jobs[i] = NoJob /\ client[c].old = 0
        <5>1. fired[i] = 0
          BY <1>2, <2>1, <4>1 DEF ClientOk, Newborn
        <5>2. QED
          BY <1>3, <3>1, <5>1 DEF FiredOk
      <4>2. CASE ~(jobs[i] = NoJob /\ client[c].old = 0)
        <5>1. ASSUME ~client[c].job.done
              PROVE  jobs[i] # NoJob /\ ~jobs[i].done
          BY <2>1, <2>6, <4>2, <5>1 DEF PutsBack
        <5>2. Pending(i)' => Pending(i)
          BY <1>1, <2>4, <5>1 DEF Pending, Marking
        <5>3. QED
          BY <2>4, <3>1, <5>2, FiredKept
      <4>3. QED
        BY <4>1, <4>2
    <3>3. \A j \in JobIds : j # i => FiredOk(j)'
      BY <1>1, <2>3, FiredKept DEF FiredInv, Pending, Marking
    <3>4. QED
      BY <3>2, <3>3 DEF FiredInv
  <2>7. QED
    BY <2>5, <2>6
<1>6. QED
  BY <1>4, <1>5

(* A row that goes is not pending. *)
LEMMA FiredGone ==
  ASSUME FiredInv, UNCHANGED <<ticker, fired, undone>>,
         \A j \in JobIds : jobs'[j] = jobs[j] \/ jobs'[j] = NoJob
  PROVE  FiredInv'
<1>1. \A j \in JobIds : Pending(j)' => Pending(j)
  BY DEF Pending, Marking
<1>2. QED
  BY <1>1, FiredKept DEF FiredInv

(* Every step keeps the count. *)
LEMMA FiredNext ==
  ASSUME AdminInv, FiredInv, [Next]_vars
  PROVE  FiredInv'
<1>1. Types /\ jobs \in [JobIds -> Row \cup {NoJob}]
  BY DEF AdminInv, Types, TypeOK
<1>2. ASSUME NEW c \in Clients,
             HttpUpsert(c) \/ HostUpsert(c) \/ Dies(c) \/ GetJob(c) \/ CheckName(c)
             \/ AppendRevision(c) \/ DeleteRevisions(c) \/ DropRevisions(c)
      PROVE  FiredInv'
  <2>1. jobs' = jobs /\ UNCHANGED <<ticker, fired, undone>>
    BY <1>2 DEF HttpUpsert, HostUpsert, Begin, Dies, GetJob, CheckName, AppendRevision,
                DeleteRevisions, DropRevisions, marks
  <2>2. QED
    BY <2>1, FiredGone
<1>3. ASSUME NEW c \in Clients, Delete(c)
      PROVE  FiredInv'
  <2>1. UNCHANGED <<ticker, fired, undone>>
    BY <1>3 DEF Delete
  <2>2. \/ jobs' = jobs
        \/ \E j \in Stored : jobs' = [jobs EXCEPT ![j] = NoJob]
    BY <1>3 DEF Delete
  <2>3. \A j \in JobIds : jobs'[j] = jobs[j] \/ jobs'[j] = NoJob
    BY <1>1, <2>2 DEF Stored
  <2>4. QED
    BY <2>1, <2>3, FiredGone
<1>4. ASSUME NEW c \in Clients, DeleteRow(c)
      PROVE  FiredInv'
  <2>1. jobs' = [jobs EXCEPT ![client[c].id] = NoJob] /\ UNCHANGED <<ticker, fired, undone>>
    BY <1>4 DEF DeleteRow, marks
  <2>2. \A j \in JobIds : jobs'[j] = jobs[j] \/ jobs'[j] = NoJob
    BY <1>1, <2>1
  <2>3. QED
    BY <2>1, <2>2, FiredGone
<1>5. ASSUME NEW c \in Clients, SetEnabled(c)
      PROVE  FiredInv'
  <2>1. Touched /\ UNCHANGED <<ticker, fired, undone>>
    BY <1>1, <1>5, SetEnabledTouches DEF SetEnabled, marks
  <2>2. QED
    BY <1>1, <2>1, FiredTouched
<1>6. CASE Pass
  <2>1. Touched /\ UNCHANGED <<ticker, fired, undone>>
    BY <1>1, <1>6, PassTouches DEF Pass, marks
  <2>2. QED
    BY <1>1, <2>1, FiredTouched
<1>7. CASE FindDue \/ ClaimJob \/ GetDueJob \/ Persist
  <2>1. Touched
    BY <1>1, <1>7, TickTouches DEF TickStep
  <2>2. ticker.pc # "mark" /\ fired' = fired /\ undone' = undone
    BY <1>7 DEF FindDue, ClaimJob, GetDueJob, Persist, marks
  <2>3. QED
    BY <1>1, <2>1, <2>2, FiredTouched
<1>8. CASE UNCHANGED vars
  <2>1. jobs' = jobs /\ UNCHANGED <<ticker, fired, undone>>
    BY <1>8 DEF vars, marks
  <2>2. QED
    BY <2>1, FiredGone
<1>9. QED
  BY <1>2, <1>3, <1>4, <1>5, <1>6, <1>7, <1>8, FiredWrite, FiredEnqueue, FiredMark
     DEF Next, UpsertStep, DeleteStep, TickStep

(* The count holds throughout. *)
LEMMA FiredAlways == Spec => []FiredInv
<1>1. Init => FiredInv
  <2>1. ASSUME Init, NEW j \in JobIds
        PROVE  FiredOk(j)
    <3>1. fired[j] = 0 /\ undone[j] = 0
      BY <2>1 DEF Init
    <3>2. QED
      BY <3>1 DEF FiredOk
  <2>2. QED
    BY <2>1 DEF FiredInv
<1>2. AdminInv /\ FiredInv /\ [Next]_vars => FiredInv'
  BY FiredNext
<1>3. QED
  BY <1>1, <1>2, AdminAlways, PTL DEF Spec

(* The tick loop fires a run-once job once (try_claim_run_once,            *)
(* mark_run_once_completed), whatever clients change, delete, pause or     *)
(* rename between its read and its mark, and once more for each upsert     *)
(* that undid its completion or its deletion with a row read before: no    *)
(* other crossing of requests makes a second run.                          *)
THEOREM FiredOnceCorrect == Spec => []FiredOnce
<1>1. FiredInv => FiredOnce
  BY DEF FiredInv, FiredOk, FiredOnce
<1>2. QED
  BY <1>1, FiredAlways, PTL

=============================================================================
