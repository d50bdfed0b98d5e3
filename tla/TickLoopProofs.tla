--------------------------- MODULE TickLoopProofs ---------------------------
(***************************************************************************)
(* Proofs about TickLoop, for every number of jobs and coordinators, every *)
(* lease, lookahead and batch: what the tick claim guarantees while        *)
(* nothing crashes, stalls or fails, for jobs without a misfire window;    *)
(* what a run-once job costs, whatever fails; and what a single            *)
(* coordinator guarantees, whatever fails.                                 *)
(***************************************************************************)
EXTENDS TickLoop, FiniteSetTheorems, SequenceTheorems, TLAPS

----------------------------------------------------------------------------
(* What the helpers do.                                                    *)

(* The next multiple of a period is strictly later. *)
LEMMA NextMultiple ==
  ASSUME NEW p \in Nat, p > 0, NEW t \in Nat
  PROVE  (t \div p + 1) * p \in Nat /\ (t \div p + 1) * p > t
<1>1. t \div p \in Nat
  OBVIOUS
<1>2. (t \div p + 1) * p > t
  OBVIOUS
<1>3. QED
  BY <1>1, <1>2

(* CronExpr::next_after finds a time strictly later. *)
LEMMA CronNextLater ==
  ASSUME NEW j \in Jobs, NEW after \in Nat
  PROVE  CronNext(j, after) \in Nat /\ CronNext(j, after) > after
<1>1. Period[j] \in Nat /\ Period[j] > 0
  BY JobsAssumption
<1>2. QED
  BY <1>1, NextMultiple DEF CronNext

(* The next_run_at written after a fire is a time or none. *)
LEMMA NextRunAtType ==
  ASSUME NEW j \in Jobs, NEW at \in Nat
  PROVE  NextRunAt(j, at) \in Nat \cup {None}
  BY CronNextLater DEF NextRunAt

(* A coordinator that is past the listing has a current job. *)
LEMMA CurrentType ==
  ASSUME TypeOK, NEW c \in Coordinators, co[c].pc # "tick"
  PROVE  /\ Current(c) \in Jobs
         /\ co[c].todo \in Seq(Jobs) /\ co[c].todo # <<>>
         /\ co[c].at \in Nat /\ co[c].next \in Nat \cup {None}
<1>1. co[c].todo \in Seq(Jobs) /\ co[c].todo # <<>>
  BY DEF TypeOK, Coordinator
<1>2. Head(co[c].todo) \in Jobs
  BY <1>1
<1>3. QED
  BY <1>1, <1>2 DEF Current, TypeOK, Coordinator

(* Going on to another call changes nothing else of a coordinator. *)
LEMMA GotoEffect ==
  ASSUME TypeOK, NEW c \in Coordinators, NEW p \in Calls, Goto(c, p)
  PROVE  /\ co' \in [Coordinators -> Coordinator]
         /\ co'[c].pc = p /\ co'[c].todo = co[c].todo
         /\ co'[c].at = co[c].at /\ co'[c].next = co[c].next
         /\ \A d \in Coordinators : d # c => co'[d] = co[d]
<1>1. co \in [Coordinators -> Coordinator] /\ co[c] \in Coordinator
  BY DEF TypeOK
<1>2. co' = [co EXCEPT ![c] = [co[c] EXCEPT !.pc = p]]
  BY DEF Goto
<1> DEFINE new == [co[c] EXCEPT !.pc = p]
<1>3. /\ new \in Coordinator /\ new.pc = p /\ new.todo = co[c].todo
      /\ new.at = co[c].at /\ new.next = co[c].next
  BY <1>1 DEF Coordinator
<1> HIDE DEF new
<1>4. QED
  BY <1>1, <1>2, <1>3 DEF new

(* Done with a job: the next one is current, or the tick is over. *)
LEMMA NextJobEffect ==
  ASSUME TypeOK, NEW c \in Coordinators, co[c].pc # "tick", NextJob(c)
  PROVE  /\ co' \in [Coordinators -> Coordinator]
         /\ co'[c].pc \in {"tick", "each"}
         /\ co'[c].pc # "tick" <=> co'[c].todo # <<>>
         /\ \A d \in Coordinators : d # c => co'[d] = co[d]
<1>1. co \in [Coordinators -> Coordinator] /\ co[c] \in Coordinator
  BY DEF TypeOK
<1>2. co[c].todo \in Seq(Jobs) /\ co[c].todo # <<>>
  BY CurrentType
<1> DEFINE p == IF Len(co[c].todo) = 1 THEN "tick" ELSE "each"
           new == [co[c] EXCEPT !.todo = Tail(@), !.at = 0, !.next = None, !.pc = p]
<1>3. co' = [co EXCEPT ![c] = new]
  BY DEF NextJob
<1>4. Tail(co[c].todo) \in Seq(Jobs) /\ (Len(co[c].todo) = 1 <=> Tail(co[c].todo) = <<>>)
  <2>1. /\ Tail(co[c].todo) \in Seq(Jobs)
        /\ Len(Tail(co[c].todo)) = Len(co[c].todo) - 1
        /\ Len(co[c].todo) \in Nat
    BY <1>2, HeadTailProperties, LenProperties
  <2>2. Tail(co[c].todo) = <<>> <=> Len(Tail(co[c].todo)) = 0
    BY <2>1, EmptySeq
  <2>3. QED
    BY <2>1, <2>2
<1>5. p \in Calls /\ p \in {"tick", "each"} /\ (p # "tick" <=> Tail(co[c].todo) # <<>>)
  BY <1>4 DEF Calls
<1> HIDE DEF p
<1>6. new \in Coordinator /\ new.pc = p /\ new.todo = Tail(co[c].todo)
  BY <1>1, <1>4, <1>5 DEF Coordinator
<1> HIDE DEF new
<1>7. co'[c] = new /\ co' \in [Coordinators -> Coordinator]
      /\ \A d \in Coordinators : d # c => co'[d] = co[d]
  BY <1>1, <1>3, <1>6
<1>8. QED
  BY <1>5, <1>6, <1>7

(* A due list is a non-empty sequence of jobs. *)
LEMMA DueListType ==
  ASSUME NEW due \in SUBSET Jobs, due # {}, NEW s \in DueLists(due)
  PROVE  s \in Seq(Jobs) /\ s # <<>>
<1> DEFINE n == IF Cardinality(due) < Batch THEN Cardinality(due) ELSE Batch
<1>1. IsFiniteSet(due) /\ Cardinality(due) \in Nat
  BY JobsAssumption, FS_Subset, FS_CardinalityType
<1>2. Cardinality(due) # 0
  BY <1>1, FS_EmptySet
<1>3. n \in Nat /\ n > 0
  BY <1>1, <1>2, TimesAssumption
<1>4. s \in [1..n -> due]
  BY DEF DueLists
<1> HIDE DEF n
<1>5. s \in Seq(Jobs) /\ Len(s) = n
  BY <1>3, <1>4
<1>6. QED
  BY <1>3, <1>5

(* The listing. *)
LEMMA FindDueEffect ==
  ASSUME TypeOK, NEW c \in Coordinators, FindDue(c)
  PROVE  /\ co' \in [Coordinators -> Coordinator]
         /\ co'[c].pc \in {"tick", "soon"}
         /\ co'[c].pc # "tick" <=> co'[c].todo # <<>>
         /\ \A d \in Coordinators : d # c => co'[d] = co[d]
         /\ UNCHANGED <<now, jobs, runs, admin, faults>>
<1> DEFINE until == now + (IF co[c].draining THEN Lookahead ELSE 0)
           due == {j \in Jobs : Due(j, until)}
<1>1. co \in [Coordinators -> Coordinator] /\ co[c] \in Coordinator /\ now \in Nat
  BY DEF TypeOK
<1>2. CASE due = {}
  <2> DEFINE new == [co[c] EXCEPT !.draining = FALSE]
  <2>1. co' = [co EXCEPT ![c] = new]
    BY <1>2 DEF FindDue
  <2>2. new \in Coordinator /\ new.pc = co[c].pc /\ new.todo = co[c].todo
    BY <1>1 DEF Coordinator
  <2>3. co[c].pc = "tick" /\ co[c].todo = <<>>
    BY DEF FindDue, TypeOK
  <2> HIDE DEF new
  <2>4. QED
    BY <1>1, <2>1, <2>2, <2>3 DEF FindDue
<1>3. CASE due # {}
  <2>1. PICK s \in DueLists(due) :
          co' = [co EXCEPT ![c].pc = "soon", ![c].todo = s, ![c].at = now,
                           ![c].draining = Len(s) >= Batch \div 2]
    BY <1>3 DEF FindDue
  <2>2. s \in Seq(Jobs) /\ s # <<>>
    <3> HIDE DEF until
    <3>1. due \in SUBSET Jobs
      OBVIOUS
    <3> HIDE DEF due
    <3>2. QED
      BY <1>3, <3>1, DueListType
  <2> DEFINE b == Len(s) >= Batch \div 2
             new == [co[c] EXCEPT !.pc = "soon", !.todo = s, !.at = now, !.draining = b]
  <2>3. co' = [co EXCEPT ![c] = new]
    BY <2>1
  <2>4. b \in BOOLEAN
    OBVIOUS
  <2> HIDE DEF b, due, until
  <2>5. new \in Coordinator /\ new.pc = "soon" /\ new.todo = s
    BY <1>1, <2>2, <2>4 DEF Coordinator, Calls
  <2> HIDE DEF new
  <2>6. QED
    BY <1>1, <2>2, <2>3, <2>5 DEF FindDue
<1>4. QED
  BY <1>2, <1>3

(* min_next_run_at_in_partitions *)
LEMMA MinNextEffect ==
  ASSUME TypeOK, NEW c \in Coordinators, MinNext(c)
  PROVE  /\ co' \in [Coordinators -> Coordinator]
         /\ co'[c].pc = "each" /\ co'[c].todo = co[c].todo
         /\ co'[c].at = co[c].at /\ co'[c].next = co[c].next
         /\ \A d \in Coordinators : d # c => co'[d] = co[d]
<1>1. co \in [Coordinators -> Coordinator] /\ co[c] \in Coordinator
  BY DEF TypeOK
<1> DEFINE soon == \E j \in Jobs :
                     /\ jobs[j].exists /\ jobs[j].enabled
                     /\ jobs[j].next # None /\ jobs[j].next <= co[c].at + Soon
           b == co[c].draining \/ soon
           new == [co[c] EXCEPT !.pc = "each", !.draining = b]
<1>2. co' = [co EXCEPT ![c] = new]
  BY DEF MinNext
<1>3. b \in BOOLEAN
  OBVIOUS
<1> HIDE DEF b
<1>4. /\ new \in Coordinator /\ new.pc = "each" /\ new.todo = co[c].todo
      /\ new.at = co[c].at /\ new.next = co[c].next
  BY <1>1, <1>3 DEF Coordinator, Calls
<1> HIDE DEF new
<1>5. QED
  BY <1>1, <1>2, <1>4

(* claim_job_for_tick that is granted: the claim is TTL from now, and the  *)
(* coordinator remembers the time.                                         *)
LEMMA ClaimJobEffect ==
  ASSUME TypeOK, NEW c \in Coordinators, ClaimJob(c), TickClaimFree(Current(c))
  PROVE  /\ co' \in [Coordinators -> Coordinator]
         /\ co'[c].pc = "read" /\ co'[c].todo = co[c].todo /\ co'[c].at = now
         /\ \A d \in Coordinators : d # c => co'[d] = co[d]
         /\ Current(c) \in Jobs
         /\ jobs' \in [Jobs -> Row]
         /\ jobs'[Current(c)].claim = now + TTL
         /\ jobs'[Current(c)].next = jobs[Current(c)].next
         /\ jobs'[Current(c)].exists = jobs[Current(c)].exists
         /\ jobs'[Current(c)].onceDone = jobs[Current(c)].onceDone
         /\ \A j \in Jobs : j # Current(c) => jobs'[j] = jobs[j]
<1>1. co \in [Coordinators -> Coordinator] /\ co[c] \in Coordinator /\ now \in Nat
      /\ jobs \in [Jobs -> Row] /\ TTL \in Nat
  BY TimesAssumption DEF TypeOK
<1>2. Current(c) \in Jobs
  BY CurrentType DEF ClaimJob
<1> DEFINE new == [co[c] EXCEPT !.pc = "read", !.at = now]
           row == [jobs[Current(c)] EXCEPT !.claim = now + TTL]
<1>3. co' = [co EXCEPT ![c] = new] /\ jobs' = [jobs EXCEPT ![Current(c)] = row]
  BY DEF ClaimJob
<1>4. new \in Coordinator /\ new.pc = "read" /\ new.todo = co[c].todo /\ new.at = now
  BY <1>1 DEF Coordinator, Calls
<1>5. jobs[Current(c)] \in Row
  BY <1>1, <1>2
<1>6. /\ row \in Row /\ row.claim = now + TTL
      /\ row.next = jobs[Current(c)].next /\ row.exists = jobs[Current(c)].exists
      /\ row.onceDone = jobs[Current(c)].onceDone
  BY <1>1, <1>5 DEF Row
<1> HIDE DEF new, row
<1>7. QED
  BY <1>1, <1>2, <1>3, <1>4, <1>6

(* get_job that finds the job: its next_run_at is remembered. *)
LEMMA ReadJobEffect ==
  ASSUME TypeOK, NEW c \in Coordinators, ReadJob(c), jobs[Current(c)].exists
  PROVE  /\ co' \in [Coordinators -> Coordinator]
         /\ co'[c].pc = "count" /\ co'[c].todo = co[c].todo /\ co'[c].at = co[c].at
         /\ co'[c].next = jobs[Current(c)].next
         /\ \A d \in Coordinators : d # c => co'[d] = co[d]
<1>1. co \in [Coordinators -> Coordinator] /\ co[c] \in Coordinator /\ jobs \in [Jobs -> Row]
  BY DEF TypeOK
<1>2. Current(c) \in Jobs
  BY CurrentType DEF ReadJob
<1> DEFINE new == [co[c] EXCEPT !.pc = "count", !.next = jobs[Current(c)].next]
<1>3. co' = [co EXCEPT ![c] = new]
  BY DEF ReadJob
<1>4. jobs[Current(c)].next \in Nat \cup {None}
  BY <1>1, <1>2 DEF Row
<1>5. /\ new \in Coordinator /\ new.pc = "count" /\ new.todo = co[c].todo
      /\ new.at = co[c].at /\ new.next = jobs[Current(c)].next
  BY <1>1, <1>4 DEF Coordinator, Calls
<1> HIDE DEF new
<1>6. QED
  BY <1>1, <1>3, <1>5

(* A run is finished: it is no longer active, and nothing else changes. *)
LEMMA FinishEffect ==
  ASSUME TypeOK, NEW j \in Jobs, NEW i \in DOMAIN runs[j], FinishRun(j, i)
  PROVE  /\ runs' \in [Jobs -> Seq(Run)]
         /\ \A q \in Jobs :
              /\ DOMAIN runs'[q] = DOMAIN runs[q]
              /\ \A k \in DOMAIN runs[q] :
                   /\ runs'[q][k].fire = runs[q][k].fire
                   /\ runs'[q][k].at = runs[q][k].at
                   /\ runs'[q][k].manual = runs[q][k].manual
                   /\ runs'[q][k].active => runs[q][k].active
<1>1. runs \in [Jobs -> Seq(Run)] /\ runs[j] \in Seq(Run) /\ runs[j][i] \in Run
  BY DEF TypeOK
<1> DEFINE done == [runs[j][i] EXCEPT !.active = FALSE]
           list == [runs[j] EXCEPT ![i] = done]
<1>2. runs' = [runs EXCEPT ![j] = list]
  BY DEF FinishRun
<1>3. /\ done \in Run /\ done.fire = runs[j][i].fire /\ done.at = runs[j][i].at
      /\ done.manual = runs[j][i].manual /\ ~done.active
  BY <1>1 DEF Run
<1> HIDE DEF done
<1>4. /\ list \in Seq(Run) /\ DOMAIN list = DOMAIN runs[j]
      /\ \A k \in DOMAIN runs[j] : list[k] = IF k = i THEN done ELSE runs[j][k]
  BY <1>1, <1>3
<1> HIDE DEF list
<1>5. \A k \in DOMAIN runs[j] :
        /\ list[k].fire = runs[j][k].fire /\ list[k].at = runs[j][k].at
        /\ list[k].manual = runs[j][k].manual
        /\ list[k].active => runs[j][k].active
  BY <1>3, <1>4
<1>6. /\ runs' \in [Jobs -> Seq(Run)] /\ runs'[j] = list
      /\ \A q \in Jobs : q # j => runs'[q] = runs[q]
  BY <1>1, <1>2, <1>4
<1>7. QED
  BY <1>4, <1>5, <1>6

(* create_run: the run is the last of its job. *)
LEMMA AppendEffect ==
  ASSUME TypeOK, NEW j \in Jobs, NEW run \in Run,
         runs' = [runs EXCEPT ![j] = Append(@, run)]
  PROVE  /\ runs' \in [Jobs -> Seq(Run)]
         /\ DOMAIN runs'[j] = DOMAIN runs[j] \cup {Len(runs[j]) + 1}
         /\ Len(runs[j]) + 1 \notin DOMAIN runs[j]
         /\ runs'[j][Len(runs[j]) + 1] = run
         /\ \A k \in DOMAIN runs[j] : runs'[j][k] = runs[j][k]
         /\ \A q \in Jobs : q # j => runs'[q] = runs[q]
<1>1. runs \in [Jobs -> Seq(Run)] /\ runs[j] \in Seq(Run)
  BY DEF TypeOK
<1> DEFINE list == Append(runs[j], run)
<1>2. /\ list \in Seq(Run) /\ Len(runs[j]) \in Nat
      /\ DOMAIN runs[j] = 1..Len(runs[j]) /\ DOMAIN list = 1..(Len(runs[j]) + 1)
      /\ list[Len(runs[j]) + 1] = run
      /\ \A k \in 1..Len(runs[j]) : list[k] = runs[j][k]
  BY <1>1
<1>3. runs' = [runs EXCEPT ![j] = list]
  OBVIOUS
<1> HIDE DEF list
<1>4. /\ runs' \in [Jobs -> Seq(Run)] /\ runs'[j] = list
      /\ \A q \in Jobs : q # j => runs'[q] = runs[q]
  BY <1>1, <1>2, <1>3
<1>5. QED
  BY <1>2, <1>4

(* A write to the current job's row. *)
LEMMA WriteJobEffect ==
  ASSUME TypeOK, NEW c \in Coordinators, co[c].pc # "tick", NEW row \in Row, WriteJob(c, row)
  PROVE  /\ jobs' \in [Jobs -> Row]
         /\ jobs[Current(c)].exists => jobs'[Current(c)] = row
         /\ ~jobs[Current(c)].exists => jobs' = jobs
         /\ \A j \in Jobs : j # Current(c) => jobs'[j] = jobs[j]
  BY CurrentType DEF WriteJob, TypeOK

(* The rows that the calls of a tick write. *)
LEMMA RowTypes ==
  ASSUME NEW row \in Row
  PROVE  /\ [row EXCEPT !.onceDone = TRUE, !.onceBy = Nobody, !.onceUntil = None] \in Row
         /\ \A next \in Nat \cup {None} : [row EXCEPT !.next = next, !.claim = None] \in Row
         /\ [row EXCEPT !.onceBy = Nobody, !.onceUntil = None] \in Row
         /\ [row EXCEPT !.claim = None] \in Row
         /\ \A c \in Coordinators, t \in Int : [row EXCEPT !.onceBy = c, !.onceUntil = t] \in Row
         /\ [row EXCEPT !.exists = FALSE] \in Row
         /\ \A b \in BOOLEAN : [row EXCEPT !.enabled = b] \in Row
<1>1. None \in Int
  BY DEF None
<1>2. QED
  BY <1>1 DEF Row

(* The calls that can follow a count, and an error. *)
LEMMA GateType ==
  ASSUME TypeOK, NEW c \in Coordinators, co[c].pc = "count", NEW n \in Nat
  PROVE  /\ Gate(c, n) \in {"release", "skip_mark", "skip_persist", "once", "create"}
         /\ Gate(c, n) \in Calls
         /\ Gate(c, n) \in {"skip_mark", "skip_persist"} => Window[Current(c)] # 0
         /\ Gate(c, n) \in {"once", "create"} => n < Concurrency[Current(c)]
         /\ Gate(c, n) = "once" => Kind[Current(c)] = "run_once"
         /\ Gate(c, n) = "create" => Kind[Current(c)] # "run_once"
<1>1. Current(c) \in Jobs
  BY CurrentType
<1> DEFINE j == Current(c)
<1>2. Concurrency[j] \in Nat
  BY <1>1, JobsAssumption
<1> DEFINE ok == MisfireOk(j, ScheduledFor(c), co[c].at)
<1>3. Window[j] = 0 => ok
  BY DEF MisfireOk
<1>4. Gate(c, n) = CASE n >= Concurrency[j] -> "release"
          [] n < Concurrency[j] /\ ~ok ->
               IF Kind[j] = "run_once" THEN "skip_mark" ELSE "skip_persist"
          [] OTHER -> IF Kind[j] = "run_once" THEN "once" ELSE "create"
  BY DEF Gate
<1> HIDE DEF j, ok
<1>5. QED
  BY <1>2, <1>3, <1>4 DEF Calls, j

(* A store error leads to no skip but from a skip. *)
LEMMA AfterErrorType ==
  ASSUME TypeOK, NEW c \in Coordinators,
         co[c].pc \notin {"tick", "count", "each", "read", "persist", "release"}
  PROVE  /\ AfterError(c) \in Calls /\ AfterError(c) # "tick"
         /\ AfterError(c) = "skip_persist" => co[c].pc = "skip_mark"
         /\ AfterError(c) # "skip_mark"
  BY DEF AfterError, TypeOK, Coordinator, Calls

(* A coordinator that has just started. *)
LEMMA IdleType == Idle \in Coordinator
<1>1. <<>> \in Seq(Jobs)
  BY EmptySeq
<1>2. QED
  BY <1>1 DEF Idle, Coordinator, Calls

----------------------------------------------------------------------------
(* The type invariant.                                                     *)

(* Every step keeps every variable in its type. *)
LEMMA TypeStep == TypeOK /\ [Next]_vars => TypeOK'
<1> SUFFICES ASSUME TypeOK, [Next]_vars
             PROVE  TypeOK'
  OBVIOUS
<1>0. \A c \in Coordinators : co[c] \in Coordinator
  BY DEF TypeOK
<1>1. ASSUME Tick
      PROVE  TypeOK'
  BY <1>1, TimesAssumption DEF Tick, Fault, TypeOK
<1>2. ASSUME NEW j \in Jobs, NEW i \in DOMAIN runs[j], FinishRun(j, i)
      PROVE  TypeOK'
  BY <1>2, FinishEffect DEF FinishRun, TypeOK
<1>3. ASSUME NEW j \in Jobs, RunNow(j)
      PROVE  TypeOK'
  <2> DEFINE run == [fire |-> now, at |-> now, active |-> TRUE, manual |-> TRUE]
  <2>1. run \in Run
    BY DEF Run, TypeOK
  <2>2. runs' = [runs EXCEPT ![j] = Append(@, run)]
    BY <1>3 DEF RunNow
  <2> HIDE DEF run
  <2>3. runs' \in [Jobs -> Seq(Run)]
    BY <2>1, <2>2, AppendEffect
  <2>4. QED
    BY <1>3, <2>3 DEF RunNow, TypeOK
<1>4. ASSUME NEW j \in Jobs, NEW e \in BOOLEAN, SetEnabled(j, e)
      PROVE  TypeOK'
  <2>1. jobs \in [Jobs -> Row] /\ jobs' = [jobs EXCEPT ![j] = [jobs[j] EXCEPT !.enabled = e]]
    BY <1>4 DEF SetEnabled, TypeOK
  <2>2. [jobs[j] EXCEPT !.enabled = e] \in Row
    BY <2>1 DEF Row
  <2>3. jobs' \in [Jobs -> Row]
    BY <2>1, <2>2
  <2>4. QED
    BY <1>4, <2>3, TimesAssumption DEF SetEnabled, TypeOK
<1>5. ASSUME NEW j \in Jobs, DeleteJob(j)
      PROVE  TypeOK'
  <2>1. jobs \in [Jobs -> Row] /\ jobs' = [jobs EXCEPT ![j] = [jobs[j] EXCEPT !.exists = FALSE]]
    BY <1>5 DEF DeleteJob, TypeOK
  <2>2. [jobs[j] EXCEPT !.exists = FALSE] \in Row
    BY <2>1 DEF Row
  <2>3. jobs' \in [Jobs -> Row]
    BY <2>1, <2>2
  <2>4. QED
    BY <1>5, <2>3, TimesAssumption DEF DeleteJob, TypeOK
<1>6. ASSUME NEW c \in Coordinators, FindDue(c)
      PROVE  TypeOK'
  BY <1>6, FindDueEffect DEF TypeOK
<1>7. ASSUME NEW c \in Coordinators, MinNext(c)
      PROVE  TypeOK'
  BY <1>7, MinNextEffect DEF MinNext, TypeOK
<1>8. ASSUME NEW c \in Coordinators, ClaimJob(c)
      PROVE  TypeOK'
  <2>1. CASE TickClaimFree(Current(c))
    <3>1. /\ co' \in [Coordinators -> Coordinator] /\ jobs' \in [Jobs -> Row]
          /\ co'[c].pc = "read" /\ co'[c].todo = co[c].todo
          /\ \A d \in Coordinators : d # c => co'[d] = co[d]
      BY <1>8, <2>1, ClaimJobEffect
    <3>2. co[c].todo # <<>>
      BY <1>8, CurrentType DEF ClaimJob
    <3>3. \A d \in Coordinators : co'[d].pc # "tick" <=> co'[d].todo # <<>>
      BY <3>1, <3>2 DEF TypeOK
    <3>4. QED
      BY <1>8, <3>1, <3>3 DEF ClaimJob, TypeOK
  <2>2. CASE ~TickClaimFree(Current(c))
    BY <1>8, <2>2, NextJobEffect DEF ClaimJob, TypeOK
  <2>3. QED
    BY <2>1, <2>2
<1>9. ASSUME NEW c \in Coordinators, NEW p \in Calls, p # "tick", co[c].pc # "tick",
             Goto(c, p), jobs' \in [Jobs -> Row], runs' \in [Jobs -> Seq(Run)],
             faults' = faults \/ Fault, UNCHANGED <<now, admin>>
      PROVE  TypeOK'
  BY <1>9, GotoEffect, TimesAssumption DEF TypeOK, Fault
<1>10. ASSUME NEW c \in Coordinators, co[c].pc # "tick",
              NextJob(c), jobs' \in [Jobs -> Row],
              faults' = faults \/ Fault, UNCHANGED <<now, runs, admin>>
       PROVE  TypeOK'
  <2>1. /\ co' \in [Coordinators -> Coordinator]
        /\ co'[c].pc # "tick" <=> co'[c].todo # <<>>
        /\ \A d \in Coordinators : d # c => co'[d] = co[d]
    BY <1>10, NextJobEffect
  <2>2. \A d \in Coordinators : co'[d].pc # "tick" <=> co'[d].todo # <<>>
    BY <2>1 DEF TypeOK
  <2>3. faults' \in 0..MaxFaults
    BY <1>10, TimesAssumption DEF TypeOK, Fault
  <2>4. QED
    BY <1>10, <2>1, <2>2, <2>3 DEF TypeOK
<1>11. jobs \in [Jobs -> Row] /\ runs \in [Jobs -> Seq(Run)]
  BY DEF TypeOK
<1>12. ASSUME NEW c \in Coordinators, ReadJob(c)
       PROVE  TypeOK'
  <2>1. CASE jobs[Current(c)].exists
    BY <1>12, <2>1, ReadJobEffect DEF ReadJob, TypeOK
  <2>2. CASE ~jobs[Current(c)].exists
    BY <1>9, <1>11, <1>12, <2>2 DEF ReadJob, Calls
  <2>3. QED
    BY <2>1, <2>2
<1>13. ASSUME NEW c \in Coordinators, CountActive(c)
       PROVE  TypeOK'
  <2>1. Current(c) \in Jobs
    BY <1>13, CurrentType DEF CountActive
  <2>2. Cardinality(ActiveRuns(Current(c))) \in Nat
    <3>1. runs[Current(c)] \in Seq(Run)
      BY <1>11, <2>1
    <3>2. IsFiniteSet(DOMAIN runs[Current(c)])
      BY <3>1, LenProperties, FS_Interval
    <3>3. QED
      BY <3>2, FS_Subset, FS_CardinalityType DEF ActiveRuns
  <2>3. \A n \in Nat : Gate(c, n) \in Calls /\ Gate(c, n) # "tick"
    BY <1>13, GateType DEF CountActive
  <2>4. QED
    BY <1>9, <1>11, <1>13, <2>2, <2>3 DEF CountActive
<1>14. ASSUME NEW c \in Coordinators, TryClaimRunOnce(c)
       PROVE  TypeOK'
  <2>1. Current(c) \in Jobs /\ co[c].at \in Nat /\ jobs[Current(c)] \in Row /\ co[c].pc # "tick"
    BY <1>11, <1>14, CurrentType DEF TryClaimRunOnce
  <2>2. CASE OnceFree(c, jobs[Current(c)])
    <3> DEFINE row == [jobs[Current(c)] EXCEPT !.onceBy = c, !.onceUntil = co[c].at + TTL]
    <3>1. jobs' = [jobs EXCEPT ![Current(c)] = row]
      BY <1>14, <2>2 DEF TryClaimRunOnce
    <3>2. row \in Row
      <4>1. co[c].at + TTL \in Int
        BY <2>1, TimesAssumption
      <4>2. QED
        BY <2>1, <4>1 DEF Row
    <3> HIDE DEF row
    <3>3. jobs' \in [Jobs -> Row]
      BY <1>11, <2>1, <3>1, <3>2
    <3>4. QED
      BY <1>9, <1>11, <1>14, <2>1, <2>2, <3>3 DEF TryClaimRunOnce, Calls
  <2>3. CASE ~OnceFree(c, jobs[Current(c)])
    BY <1>9, <1>11, <1>14, <2>1, <2>3 DEF TryClaimRunOnce, Calls
  <2>4. QED
    BY <2>2, <2>3
<1>15. ASSUME NEW c \in Coordinators, CreateRun(c)
       PROVE  TypeOK'
  <2> DEFINE run == [fire |-> ScheduledFor(c), at |-> co[c].at, active |-> TRUE, manual |-> FALSE]
             p == IF Kind[Current(c)] = "run_once" THEN "mark" ELSE "persist"
  <2>1. Current(c) \in Jobs /\ co[c].pc # "tick" /\ co[c].at \in Nat
        /\ co[c].next \in Nat \cup {None}
    BY <1>15, CurrentType DEF CreateRun
  <2>2. run \in Run
    BY <2>1 DEF Run, ScheduledFor
  <2>3. runs' = [runs EXCEPT ![Current(c)] = Append(@, run)] /\ Goto(c, p) /\ p \in Calls
        /\ p # "tick"
    BY <1>15 DEF CreateRun, Calls
  <2> HIDE DEF run, p
  <2>4. runs' \in [Jobs -> Seq(Run)]
    BY <2>1, <2>2, <2>3, AppendEffect
  <2>5. QED
    BY <1>9, <1>11, <1>15, <2>1, <2>3, <2>4 DEF CreateRun
<1>16. ASSUME NEW c \in Coordinators, MarkCompleted(c)
       PROVE  TypeOK'
  <2> DEFINE row == [jobs[Current(c)] EXCEPT !.onceDone = TRUE, !.onceBy = Nobody,
                                             !.onceUntil = None]
             p == IF co[c].pc = "mark" THEN "persist" ELSE "skip_persist"
  <2>1. Current(c) \in Jobs /\ co[c].pc # "tick" /\ jobs[Current(c)] \in Row
    BY <1>11, <1>16, CurrentType DEF MarkCompleted
  <2>2. row \in Row /\ WriteJob(c, row) /\ Goto(c, p) /\ p \in Calls /\ p # "tick"
    <3>1. row \in Row
      BY <2>1, RowTypes
    <3>2. QED
      BY <1>16, <3>1 DEF MarkCompleted, Calls
  <2> HIDE DEF row, p
  <2>3. jobs' \in [Jobs -> Row]
    BY <2>1, <2>2, WriteJobEffect
  <2>4. QED
    BY <1>9, <1>11, <1>16, <2>1, <2>2, <2>3 DEF MarkCompleted
<1>17. ASSUME NEW c \in Coordinators, Persist(c)
       PROVE  TypeOK'
  <2> DEFINE row == [jobs[Current(c)] EXCEPT !.next = NextRunAt(Current(c), co[c].at),
                                             !.claim = None]
  <2>1. Current(c) \in Jobs /\ co[c].pc # "tick" /\ jobs[Current(c)] \in Row /\ co[c].at \in Nat
    BY <1>11, <1>17, CurrentType DEF Persist
  <2>2. NextRunAt(Current(c), co[c].at) \in Nat \cup {None}
    BY <2>1, NextRunAtType
  <2>3. row \in Row /\ WriteJob(c, row)
    <3>1. row \in Row
      BY <2>1, <2>2, RowTypes
    <3>2. QED
      BY <1>17, <3>1 DEF Persist
  <2> HIDE DEF row
  <2>4. jobs' \in [Jobs -> Row]
    BY <2>1, <2>3, WriteJobEffect
  <2>5. QED
    BY <1>9, <1>10, <1>11, <1>17, <2>1, <2>4 DEF Persist, Calls
<1>18. ASSUME NEW c \in Coordinators, ReleaseOnce(c)
       PROVE  TypeOK'
  <2> DEFINE row == [jobs[Current(c)] EXCEPT !.onceBy = Nobody, !.onceUntil = None]
  <2>1. Current(c) \in Jobs /\ co[c].pc # "tick" /\ jobs[Current(c)] \in Row
    BY <1>11, <1>18, CurrentType DEF ReleaseOnce
  <2>2. row \in Row /\ (WriteJob(c, row) \/ UNCHANGED jobs)
    <3>1. row \in Row
      BY <2>1, RowTypes
    <3>2. QED
      BY <1>18, <3>1 DEF ReleaseOnce
  <2> HIDE DEF row
  <2>3. jobs' \in [Jobs -> Row]
    BY <1>11, <2>1, <2>2, WriteJobEffect
  <2>4. QED
    BY <1>9, <1>11, <1>18, <2>1, <2>3 DEF ReleaseOnce, Calls
<1>19. ASSUME NEW c \in Coordinators, ReleaseClaim(c)
       PROVE  TypeOK'
  <2> DEFINE row == [jobs[Current(c)] EXCEPT !.claim = None]
  <2>1. Current(c) \in Jobs /\ co[c].pc # "tick" /\ jobs[Current(c)] \in Row
    BY <1>11, <1>19, CurrentType DEF ReleaseClaim
  <2>2. row \in Row /\ WriteJob(c, row)
    <3>1. row \in Row
      BY <2>1, RowTypes
    <3>2. QED
      BY <1>19, <3>1 DEF ReleaseClaim
  <2> HIDE DEF row
  <2>3. jobs' \in [Jobs -> Row]
    BY <2>1, <2>2, WriteJobEffect
  <2>4. QED
    BY <1>10, <1>11, <1>19, <2>1, <2>3 DEF ReleaseClaim
<1>20. ASSUME NEW c \in Coordinators, StoreError(c)
       PROVE  TypeOK'
  <2>1. CASE co[c].pc \in {"each", "read", "persist", "release"}
    BY <1>10, <1>11, <1>20, <2>1 DEF StoreError
  <2>2. CASE co[c].pc \notin {"each", "read", "persist", "release"}
    BY <1>9, <1>11, <1>20, <2>2, AfterErrorType DEF StoreError
  <2>3. QED
    BY <2>1, <2>2
<1>21. ASSUME NEW c \in Coordinators, Crash(c)
       PROVE  TypeOK'
  <2>1. co' = [co EXCEPT ![c] = Idle] /\ Idle.pc = "tick" /\ Idle.todo = <<>>
    BY <1>21 DEF Crash, Idle
  <2>2. QED
    BY <1>21, <2>1, IdleType, TimesAssumption DEF Crash, Fault, TypeOK
<1>22. CASE UNCHANGED vars
  BY <1>22 DEF vars, TypeOK
<1>23. QED
  BY <1>1, <1>2, <1>3, <1>4, <1>5, <1>6, <1>7, <1>8, <1>12, <1>13, <1>14, <1>15, <1>16,
     <1>17, <1>18, <1>19, <1>20, <1>21, <1>22 DEF Next, OneTick

(* Nothing is enqueued and every coordinator is idle. *)
LEMMA TypeInit == Init => TypeOK
<1> SUFFICES ASSUME Init
             PROVE  TypeOK
  OBVIOUS
<1>1. jobs \in [Jobs -> Row]
  BY JobsAssumption DEF Init, Row, None
<1>2. \A j \in Jobs : <<>> \in Seq(Run)
  BY EmptySeq
<1>3. Idle.pc = "tick" /\ Idle.todo = <<>>
  BY DEF Idle
<1>4. QED
  BY <1>1, <1>2, <1>3, IdleType, TimesAssumption DEF Init, TypeOK

----------------------------------------------------------------------------
(* What the calls do to the job table.                                     *)

(* The call leaves the row's claim alone; its fires. *)
SameClaim(j) == jobs'[j].claim = jobs[j].claim

SameFires(j) ==
    /\ jobs'[j].next = jobs[j].next
    /\ jobs'[j].exists = jobs[j].exists
    /\ jobs'[j].onceDone = jobs[j].onceDone

(* try_claim_run_once *)
LEMMA TryClaimRunOnceEffect ==
  ASSUME TypeOK, NEW c \in Coordinators, TryClaimRunOnce(c)
  PROVE  \A j \in Jobs : SameClaim(j) /\ SameFires(j)
<1>1. jobs \in [Jobs -> Row] /\ Current(c) \in Jobs /\ jobs[Current(c)] \in Row
      /\ co[c].at \in Nat
  BY CurrentType DEF TryClaimRunOnce, TypeOK
<1>2. CASE OnceFree(c, jobs[Current(c)])
  <2> DEFINE row == [jobs[Current(c)] EXCEPT !.onceBy = c, !.onceUntil = co[c].at + TTL]
  <2>1. jobs' = [jobs EXCEPT ![Current(c)] = row]
    BY <1>2 DEF TryClaimRunOnce
  <2>2. /\ row.claim = jobs[Current(c)].claim /\ row.next = jobs[Current(c)].next
        /\ row.exists = jobs[Current(c)].exists /\ row.onceDone = jobs[Current(c)].onceDone
    BY <1>1 DEF Row
  <2> HIDE DEF row
  <2>3. QED
    BY <1>1, <2>1, <2>2 DEF SameClaim, SameFires
<1>3. CASE ~OnceFree(c, jobs[Current(c)])
  BY <1>3 DEF TryClaimRunOnce, SameClaim, SameFires
<1>4. QED
  BY <1>2, <1>3

(* mark_run_once_completed *)
LEMMA MarkCompletedEffect ==
  ASSUME TypeOK, NEW c \in Coordinators, MarkCompleted(c)
  PROVE  /\ \A j \in Jobs : SameClaim(j) /\ jobs'[j].next = jobs[j].next
                            /\ jobs'[j].exists = jobs[j].exists
         /\ \A j \in Jobs : j # Current(c) => SameFires(j)
         /\ jobs[Current(c)].exists => jobs'[Current(c)].onceDone
<1>1. jobs \in [Jobs -> Row] /\ Current(c) \in Jobs /\ jobs[Current(c)] \in Row
      /\ co[c].pc # "tick"
  BY CurrentType DEF MarkCompleted, TypeOK
<1> DEFINE row == [jobs[Current(c)] EXCEPT !.onceDone = TRUE, !.onceBy = Nobody,
                                           !.onceUntil = None]
<1>2. row \in Row /\ WriteJob(c, row)
  BY <1>1, RowTypes DEF MarkCompleted
<1>3. /\ row.claim = jobs[Current(c)].claim /\ row.next = jobs[Current(c)].next
      /\ row.exists = jobs[Current(c)].exists /\ row.onceDone
  BY <1>1 DEF Row
<1> HIDE DEF row
<1>4. /\ jobs[Current(c)].exists => jobs'[Current(c)] = row
      /\ ~jobs[Current(c)].exists => jobs' = jobs
      /\ \A j \in Jobs : j # Current(c) => jobs'[j] = jobs[j]
  BY <1>1, <1>2, WriteJobEffect
<1>5. QED
  BY <1>1, <1>3, <1>4 DEF SameClaim, SameFires

(* persist_post_tick_job_state *)
LEMMA PersistEffect ==
  ASSUME TypeOK, NEW c \in Coordinators, Persist(c)
  PROVE  /\ \A j \in Jobs : j # Current(c) => SameClaim(j) /\ SameFires(j)
         /\ \A j \in Jobs : jobs'[j].exists = jobs[j].exists
                            /\ jobs'[j].onceDone = jobs[j].onceDone
         /\ jobs[Current(c)].exists =>
              jobs'[Current(c)].next = NextRunAt(Current(c), co[c].at)
         /\ ~jobs[Current(c)].exists => jobs' = jobs
<1>1. jobs \in [Jobs -> Row] /\ Current(c) \in Jobs /\ jobs[Current(c)] \in Row
      /\ co[c].pc # "tick" /\ co[c].at \in Nat
  BY CurrentType DEF Persist, TypeOK
<1> DEFINE row == [jobs[Current(c)] EXCEPT !.next = NextRunAt(Current(c), co[c].at),
                                           !.claim = None]
<1>2. row \in Row /\ WriteJob(c, row)
  BY <1>1, RowTypes, NextRunAtType DEF Persist
<1>3. /\ row.next = NextRunAt(Current(c), co[c].at)
      /\ row.exists = jobs[Current(c)].exists /\ row.onceDone = jobs[Current(c)].onceDone
  BY <1>1 DEF Row
<1> HIDE DEF row
<1>4. /\ jobs[Current(c)].exists => jobs'[Current(c)] = row
      /\ ~jobs[Current(c)].exists => jobs' = jobs
      /\ \A j \in Jobs : j # Current(c) => jobs'[j] = jobs[j]
  BY <1>1, <1>2, WriteJobEffect
<1>5. QED
  BY <1>1, <1>3, <1>4 DEF SameClaim, SameFires

(* release_run_once_claim *)
LEMMA ReleaseOnceEffect ==
  ASSUME TypeOK, NEW c \in Coordinators, ReleaseOnce(c)
  PROVE  \A j \in Jobs : SameClaim(j) /\ SameFires(j)
<1>1. jobs \in [Jobs -> Row] /\ Current(c) \in Jobs /\ jobs[Current(c)] \in Row
      /\ co[c].pc # "tick"
  BY CurrentType DEF ReleaseOnce, TypeOK
<1> DEFINE row == [jobs[Current(c)] EXCEPT !.onceBy = Nobody, !.onceUntil = None]
<1>2. row \in Row /\ (WriteJob(c, row) \/ jobs' = jobs)
  BY <1>1, RowTypes DEF ReleaseOnce
<1>3. /\ row.claim = jobs[Current(c)].claim /\ row.next = jobs[Current(c)].next
      /\ row.exists = jobs[Current(c)].exists /\ row.onceDone = jobs[Current(c)].onceDone
  BY <1>1 DEF Row
<1> HIDE DEF row
<1>4. CASE WriteJob(c, row)
  <2>1. /\ jobs[Current(c)].exists => jobs'[Current(c)] = row
        /\ ~jobs[Current(c)].exists => jobs' = jobs
        /\ \A j \in Jobs : j # Current(c) => jobs'[j] = jobs[j]
    BY <1>1, <1>2, <1>4, WriteJobEffect
  <2>2. QED
    BY <1>1, <1>3, <2>1 DEF SameClaim, SameFires
<1>5. CASE jobs' = jobs
  BY <1>5 DEF SameClaim, SameFires
<1>6. QED
  BY <1>2, <1>4, <1>5

(* release_job_tick_claim *)
LEMMA ReleaseClaimEffect ==
  ASSUME TypeOK, NEW c \in Coordinators, ReleaseClaim(c)
  PROVE  /\ \A j \in Jobs : j # Current(c) => SameClaim(j)
         /\ \A j \in Jobs : SameFires(j)
<1>1. jobs \in [Jobs -> Row] /\ Current(c) \in Jobs /\ jobs[Current(c)] \in Row
      /\ co[c].pc # "tick"
  BY CurrentType DEF ReleaseClaim, TypeOK
<1> DEFINE row == [jobs[Current(c)] EXCEPT !.claim = None]
<1>2. row \in Row /\ WriteJob(c, row)
  BY <1>1, RowTypes DEF ReleaseClaim
<1>3. /\ row.next = jobs[Current(c)].next
      /\ row.exists = jobs[Current(c)].exists /\ row.onceDone = jobs[Current(c)].onceDone
  BY <1>1 DEF Row
<1> HIDE DEF row
<1>4. /\ jobs[Current(c)].exists => jobs'[Current(c)] = row
      /\ ~jobs[Current(c)].exists => jobs' = jobs
      /\ \A j \in Jobs : j # Current(c) => jobs'[j] = jobs[j]
  BY <1>1, <1>2, WriteJobEffect
<1>5. QED
  BY <1>1, <1>3, <1>4 DEF SameClaim, SameFires

(* pause_job and resume_job; delete_job. *)
LEMMA AdminEffect ==
  ASSUME TypeOK, NEW q \in Jobs,
         \/ \E e \in BOOLEAN : SetEnabled(q, e)
         \/ DeleteJob(q)
  PROVE  /\ \A j \in Jobs : SameClaim(j) /\ jobs'[j].next = jobs[j].next
                            /\ jobs'[j].onceDone = jobs[j].onceDone
                            /\ (jobs'[j].exists => jobs[j].exists)
         /\ UNCHANGED <<now, runs, co, faults>>
<1>1. jobs \in [Jobs -> Row] /\ jobs[q] \in Row
  BY DEF TypeOK
<1>2. ASSUME NEW e \in BOOLEAN, SetEnabled(q, e)
      PROVE  \A j \in Jobs : SameClaim(j) /\ SameFires(j)
  <2> DEFINE row == [jobs[q] EXCEPT !.enabled = e]
  <2>1. jobs' = [jobs EXCEPT ![q] = row]
    BY <1>2 DEF SetEnabled
  <2>2. /\ row.claim = jobs[q].claim /\ row.next = jobs[q].next
        /\ row.exists = jobs[q].exists /\ row.onceDone = jobs[q].onceDone
    BY <1>1 DEF Row
  <2> HIDE DEF row
  <2>3. QED
    BY <1>1, <2>1, <2>2 DEF SameClaim, SameFires
<1>3. ASSUME DeleteJob(q)
      PROVE  \A j \in Jobs : SameClaim(j) /\ jobs'[j].next = jobs[j].next
                             /\ jobs'[j].onceDone = jobs[j].onceDone
                             /\ (jobs'[j].exists => jobs[j].exists)
  <2> DEFINE row == [jobs[q] EXCEPT !.exists = FALSE]
  <2>1. jobs' = [jobs EXCEPT ![q] = row]
    BY <1>3 DEF DeleteJob
  <2>2. /\ row.claim = jobs[q].claim /\ row.next = jobs[q].next
        /\ ~row.exists /\ row.onceDone = jobs[q].onceDone
    BY <1>1 DEF Row
  <2> HIDE DEF row
  <2>3. QED
    BY <1>1, <2>1, <2>2 DEF SameClaim
<1>4. CASE \E e \in BOOLEAN : SetEnabled(q, e)
  BY <1>2, <1>4 DEF SameFires, SetEnabled
<1>5. CASE DeleteJob(q)
  BY <1>3, <1>5 DEF DeleteJob
<1>6. QED
  BY <1>4, <1>5

(* The active runs of a job are finitely many. *)
LEMMA ActiveRunsFinite ==
  ASSUME TypeOK, NEW j \in Jobs
  PROVE  /\ IsFiniteSet(ActiveRuns(j)) /\ Cardinality(ActiveRuns(j)) \in Nat
         /\ IsFiniteSet(ScheduledActive(j)) /\ Cardinality(ScheduledActive(j)) \in Nat
         /\ Cardinality(ScheduledActive(j)) <= Cardinality(ActiveRuns(j))
<1>1. runs[j] \in Seq(Run)
  BY DEF TypeOK
<1>2. IsFiniteSet(DOMAIN runs[j])
  BY <1>1, LenProperties, FS_Interval
<1>3. IsFiniteSet(ActiveRuns(j)) /\ Cardinality(ActiveRuns(j)) \in Nat
  BY <1>2, FS_Subset, FS_CardinalityType DEF ActiveRuns
<1>4. ScheduledActive(j) \subseteq ActiveRuns(j)
  BY DEF ScheduledActive
<1>5. QED
  BY <1>3, <1>4, FS_Subset, FS_CardinalityType

----------------------------------------------------------------------------
(* The inductive invariant of the tick claim.                              *)

(* A coordinator is at work on a job from claim_job_for_tick until its     *)
(* last write, a pending release included.                                 *)
Working(c) == co[c].pc \notin {"tick", "soon", "each"}

Holding(c, j) == Working(c) /\ Current(c) = j

(* Only a misfire window leads to a skip. *)
SkipsHaveWindow ==
    \A c \in Coordinators :
        co[c].pc \in {"skip_mark", "skip_persist"} => Window[Current(c)] # 0

(* The claim on the row is the holder's own, and it is still live. *)
ClaimsHeld ==
    \A j \in Jobs, c \in Coordinators : Window[j] = 0 /\ Holding(c, j) =>
        /\ jobs[j].claim = co[c].at + TTL
        /\ now <= co[c].at + TTL
        /\ co[c].pc # "release_once"

OneHolder ==
    \A j \in Jobs, c, d \in Coordinators :
        Window[j] = 0 /\ Holding(c, j) /\ Holding(d, j) => c = d

ClaimInv == SkipsHaveWindow /\ (faults = 0 => ClaimsHeld /\ OneHolder)

(* A coordinator that goes on with its job keeps its claim. *)
LEMMA HolderStays ==
  ASSUME TypeOK, ClaimsHeld, OneHolder, NEW c \in Coordinators,
         Working(c), now' = now,
         co'[c].todo = co[c].todo, co'[c].at = co[c].at, co'[c].pc # "release_once",
         \A d \in Coordinators : d # c => co'[d] = co[d],
         \A j \in Jobs : Window[j] = 0 => jobs'[j].claim = jobs[j].claim
  PROVE  ClaimsHeld' /\ OneHolder'
<1>1. \A d \in Coordinators, j \in Jobs : Holding(d, j)' => Holding(d, j) /\ co'[d].at = co[d].at
  BY DEF Holding, Working, Current
<1>2. \A d \in Coordinators, j \in Jobs :
        Window[j] = 0 /\ Holding(d, j)' => co'[d].pc # "release_once"
  BY DEF ClaimsHeld, Holding, Working, Current
<1>3. ClaimsHeld'
  BY <1>1, <1>2 DEF ClaimsHeld
<1>4. OneHolder'
  BY <1>1 DEF OneHolder
<1>5. QED
  BY <1>3, <1>4

(* A coordinator that is done with its job, or has none yet, may change    *)
(* the claim of that job only.                                             *)
LEMMA HolderLeaves ==
  ASSUME TypeOK, ClaimsHeld, OneHolder, NEW c \in Coordinators,
         ~Working(c)', now' = now,
         \A d \in Coordinators : d # c => co'[d] = co[d],
         \A j \in Jobs : jobs'[j].claim = jobs[j].claim \/ Holding(c, j)
  PROVE  ClaimsHeld' /\ OneHolder'
<1>1. \A d \in Coordinators, j \in Jobs :
        Holding(d, j)' => d # c /\ Holding(d, j) /\ co'[d] = co[d]
  BY DEF Holding, Working, Current
<1>2. \A d \in Coordinators, j \in Jobs :
        Window[j] = 0 /\ Holding(d, j)' => ~Holding(c, j)
  BY <1>1 DEF OneHolder
<1>3. ClaimsHeld'
  BY <1>1, <1>2 DEF ClaimsHeld
<1>4. OneHolder'
  BY <1>1 DEF OneHolder
<1>5. QED
  BY <1>3, <1>4

(* A granted claim has no holder before it. *)
LEMMA ClaimGranted ==
  ASSUME TypeOK, ClaimsHeld, OneHolder, NEW c \in Coordinators,
         ClaimJob(c), TickClaimFree(Current(c))
  PROVE  ClaimsHeld' /\ OneHolder'
<1> DEFINE j == Current(c)
<1>1. /\ co'[c].pc = "read" /\ co'[c].todo = co[c].todo /\ co'[c].at = now
      /\ \A d \in Coordinators : d # c => co'[d] = co[d]
      /\ j \in Jobs /\ jobs'[j].claim = now + TTL /\ now' = now
      /\ \A q \in Jobs : q # j => jobs'[q] = jobs[q]
  BY ClaimJobEffect DEF ClaimJob
<1>2. now \in Nat /\ TTL \in Nat /\ \A d \in Coordinators : co[d].at \in Nat
  BY TimesAssumption DEF TypeOK, Coordinator
<1>3. \A d \in Coordinators : Window[j] = 0 => ~Holding(d, j)
  BY <1>1, <1>2 DEF ClaimsHeld, TickClaimFree
<1>4. \A q \in Jobs : Holding(c, q)' => q = j
  BY <1>1 DEF Holding, Current
<1>5. \A d \in Coordinators, q \in Jobs :
        d # c /\ Holding(d, q)' => Holding(d, q) /\ co'[d] = co[d]
  BY <1>1 DEF Holding, Working, Current
<1> HIDE DEF j
<1>6. ClaimsHeld'
  BY <1>1, <1>2, <1>3, <1>4, <1>5 DEF ClaimsHeld
<1>7. OneHolder'
  BY <1>1, <1>3, <1>4, <1>5 DEF OneHolder
<1>8. QED
  BY <1>6, <1>7

(* Time passes without a stall: no claim has run out. *)
LEMMA ClaimOutlastsTick ==
  ASSUME TypeOK, ClaimsHeld, OneHolder, Tick, faults' = faults
  PROVE  ClaimsHeld' /\ OneHolder'
<1>1. /\ now \in Nat /\ TTL \in Nat /\ faults \in Nat
      /\ \A d \in Coordinators : co[d].at \in Nat
  BY TimesAssumption DEF TypeOK, Coordinator
<1>2. ~\E c \in Coordinators : Stalls(c)
  BY <1>1 DEF Tick, Fault
<1>3. now' = now + 1 /\ jobs' = jobs /\ co' = co
  BY DEF Tick
<1>4. \A c \in Coordinators, j \in Jobs : Holding(c, j)' <=> Holding(c, j)
  BY <1>3 DEF Holding, Working, Current
<1>5. \A c \in Coordinators, j \in Jobs :
        Window[j] = 0 /\ Holding(c, j) => now + 1 <= co[c].at + TTL
  <2> SUFFICES ASSUME NEW c \in Coordinators, NEW j \in Jobs, Window[j] = 0, Holding(c, j)
               PROVE  now + 1 <= co[c].at + TTL
    OBVIOUS
  <2>1. now <= co[c].at + TTL
    BY DEF ClaimsHeld
  <2>2. now # co[c].at + TTL
    BY <1>2 DEF Stalls, Holding, Working
  <2>3. QED
    BY <1>1, <2>1, <2>2
<1>6. ClaimsHeld'
  BY <1>3, <1>4, <1>5 DEF ClaimsHeld
<1>7. OneHolder'
  BY <1>4 DEF OneHolder
<1>8. QED
  BY <1>6, <1>7

(* A fault is counted, and no count goes down. *)
LEMMA NoFaultStep ==
  ASSUME TypeOK, [Next]_vars, faults' = 0
  PROVE  faults = 0 /\ faults' = faults /\ ~Fault
<1>1. faults \in Nat
  BY TimesAssumption DEF TypeOK
<1>2. faults' = faults \/ Fault
  BY DEF Next, OneTick, vars, Tick, FinishRun, RunNow, SetEnabled, DeleteJob, FindDue, MinNext,
         ClaimJob, ReadJob, CountActive, TryClaimRunOnce, CreateRun, MarkCompleted, Persist,
         ReleaseOnce, ReleaseClaim, StoreError, Crash
<1>3. QED
  BY <1>1, <1>2 DEF Fault

(* Only the misfire gate leads to the skip path. *)
LEMMA SkipStep ==
  ASSUME TypeOK, SkipsHaveWindow, [Next]_vars
  PROVE  SkipsHaveWindow'
<1> DEFINE Skipping(p) == p \in {"skip_mark", "skip_persist"}
<1>1. ASSUME NEW c \in Coordinators,
             \A d \in Coordinators : d # c => co'[d] = co[d],
             Skipping(co'[c].pc) => Window[Current(c)'] # 0
      PROVE  SkipsHaveWindow'
  BY <1>1 DEF SkipsHaveWindow, Current
<1>2. ASSUME NEW c \in Coordinators, NEW p \in Calls, Goto(c, p),
             Skipping(p) => Window[Current(c)] # 0
      PROVE  SkipsHaveWindow'
  <2>1. /\ co'[c].pc = p /\ co'[c].todo = co[c].todo
        /\ \A d \in Coordinators : d # c => co'[d] = co[d]
    BY <1>2, GotoEffect
  <2>2. Current(c)' = Current(c)
    BY <2>1 DEF Current
  <2>3. QED
    BY <1>1, <1>2, <2>1, <2>2
<1>3. ASSUME NEW c \in Coordinators, co[c].pc # "tick", NextJob(c)
      PROVE  SkipsHaveWindow'
  BY <1>1, <1>3, NextJobEffect
<1>4. CASE co' = co
  BY <1>4 DEF SkipsHaveWindow, Current
<1>5. ASSUME NEW c \in Coordinators, FindDue(c)
      PROVE  SkipsHaveWindow'
  BY <1>1, <1>5, FindDueEffect
<1>6. ASSUME NEW c \in Coordinators, MinNext(c)
      PROVE  SkipsHaveWindow'
  BY <1>1, <1>6, MinNextEffect
<1>7. ASSUME NEW c \in Coordinators, ClaimJob(c)
      PROVE  SkipsHaveWindow'
  <2>1. CASE TickClaimFree(Current(c))
    BY <1>1, <1>7, <2>1, ClaimJobEffect
  <2>2. CASE ~TickClaimFree(Current(c))
    BY <1>3, <1>7, <2>2 DEF ClaimJob
  <2>3. QED
    BY <2>1, <2>2
<1>8. ASSUME NEW c \in Coordinators, ReadJob(c)
      PROVE  SkipsHaveWindow'
  <2>1. CASE jobs[Current(c)].exists
    BY <1>1, <1>8, <2>1, ReadJobEffect
  <2>2. CASE ~jobs[Current(c)].exists
    BY <1>2, <1>8, <2>2 DEF ReadJob, Calls
  <2>3. QED
    BY <2>1, <2>2
<1>9. ASSUME NEW c \in Coordinators, CountActive(c)
      PROVE  SkipsHaveWindow'
  <2>1. \E n \in Nat : Goto(c, Gate(c, n))
    BY <1>9, CurrentType, ActiveRunsFinite DEF CountActive
  <2>2. PICK n \in Nat : Goto(c, Gate(c, n))
    BY <2>1
  <2>3. Gate(c, n) \in Calls /\ (Skipping(Gate(c, n)) => Window[Current(c)] # 0)
    BY <1>9, GateType DEF CountActive
  <2>4. QED
    BY <1>2, <2>2, <2>3
<1>10. ASSUME NEW c \in Coordinators, TryClaimRunOnce(c)
       PROVE  SkipsHaveWindow'
  BY <1>2, <1>10 DEF TryClaimRunOnce, Calls
<1>11. ASSUME NEW c \in Coordinators, CreateRun(c)
       PROVE  SkipsHaveWindow'
  BY <1>2, <1>11 DEF CreateRun, Calls
<1>12. ASSUME NEW c \in Coordinators, MarkCompleted(c)
       PROVE  SkipsHaveWindow'
  <2>1. co[c].pc = "skip_mark" => Window[Current(c)] # 0
    BY DEF SkipsHaveWindow
  <2>2. QED
    BY <1>2, <1>12, <2>1 DEF MarkCompleted, Calls
<1>13. ASSUME NEW c \in Coordinators, Persist(c)
       PROVE  SkipsHaveWindow'
  BY <1>2, <1>3, <1>13 DEF Persist, Calls
<1>14. ASSUME NEW c \in Coordinators, ReleaseOnce(c)
       PROVE  SkipsHaveWindow'
  BY <1>2, <1>14 DEF ReleaseOnce, Calls
<1>15. ASSUME NEW c \in Coordinators, ReleaseClaim(c)
       PROVE  SkipsHaveWindow'
  BY <1>3, <1>15 DEF ReleaseClaim
<1>16. ASSUME NEW c \in Coordinators, StoreError(c)
       PROVE  SkipsHaveWindow'
  <2>1. CASE co[c].pc \in {"each", "read", "persist", "release"}
    BY <1>3, <1>16, <2>1 DEF StoreError
  <2>2. CASE co[c].pc \notin {"each", "read", "persist", "release"}
    <3>1. /\ AfterError(c) \in Calls /\ Goto(c, AfterError(c))
          /\ Skipping(AfterError(c)) => co[c].pc = "skip_mark"
      BY <1>16, <2>2, AfterErrorType DEF StoreError
    <3>2. co[c].pc = "skip_mark" => Window[Current(c)] # 0
      BY DEF SkipsHaveWindow
    <3>3. QED
      BY <1>2, <3>1, <3>2
  <2>3. QED
    BY <2>1, <2>2
<1>17. ASSUME NEW c \in Coordinators, Crash(c)
       PROVE  SkipsHaveWindow'
  <2>1. /\ co'[c].pc = "tick"
        /\ \A d \in Coordinators : d # c => co'[d] = co[d]
    BY <1>17 DEF Crash, Idle, TypeOK
  <2>2. QED
    BY <1>1, <2>1
<1>18. CASE Tick \/ (\E j \in Jobs : \E i \in DOMAIN runs[j] : FinishRun(j, i))
            \/ (\E j \in Jobs : RunNow(j)) \/ (\E j \in Jobs, e \in BOOLEAN : SetEnabled(j, e))
            \/ (\E j \in Jobs : DeleteJob(j)) \/ UNCHANGED vars
  BY <1>4, <1>18 DEF Tick, FinishRun, RunNow, SetEnabled, DeleteJob, vars
<1>19. QED
  BY <1>5, <1>6, <1>7, <1>8, <1>9, <1>10, <1>11, <1>12, <1>13, <1>14, <1>15, <1>16, <1>17,
     <1>18 DEF Next, OneTick

(* While nothing fails, a claim has one holder and outlasts its work. *)
LEMMA ClaimStep ==
  ASSUME TypeOK, SkipsHaveWindow, ClaimsHeld, OneHolder, [Next]_vars, faults' = 0
  PROVE  ClaimsHeld' /\ OneHolder'
<1> DEFINE Kept == ClaimsHeld' /\ OneHolder'
<1>0. faults = 0 /\ faults' = faults /\ ~Fault
  BY NoFaultStep
<1>1. ASSUME Tick
      PROVE  Kept
  BY <1>0, <1>1, ClaimOutlastsTick
<1>2. ASSUME now' = now, co' = co, \A j \in Jobs : SameClaim(j)
      PROVE  Kept
  <2>1. \A c \in Coordinators, j \in Jobs : Holding(c, j)' <=> Holding(c, j)
    BY <1>2 DEF Holding, Working, Current
  <2>2. QED
    BY <1>2, <2>1 DEF ClaimsHeld, OneHolder, SameClaim
<1>3. ASSUME NEW j \in Jobs, (\E e \in BOOLEAN : SetEnabled(j, e)) \/ DeleteJob(j)
      PROVE  Kept
  BY <1>2, <1>3, AdminEffect
<1>4. CASE (\E j \in Jobs : \E i \in DOMAIN runs[j] : FinishRun(j, i))
           \/ (\E j \in Jobs : RunNow(j)) \/ UNCHANGED vars
  BY <1>2, <1>4 DEF FinishRun, RunNow, vars, SameClaim
<1>5. ASSUME NEW c \in Coordinators, FindDue(c) \/ MinNext(c)
      PROVE  Kept
  <2>1. /\ ~Working(c)' /\ now' = now /\ jobs' = jobs
        /\ \A d \in Coordinators : d # c => co'[d] = co[d]
    BY <1>5, FindDueEffect, MinNextEffect DEF Working, MinNext
  <2>2. QED
    BY <2>1, HolderLeaves
<1>6. ASSUME NEW c \in Coordinators, NEW p \in Calls, Goto(c, p), Working(c), now' = now,
             p # "release_once", \A j \in Jobs : Window[j] = 0 => SameClaim(j)
      PROVE  Kept
  <2>1. /\ co'[c].pc = p /\ co'[c].todo = co[c].todo /\ co'[c].at = co[c].at
        /\ \A d \in Coordinators : d # c => co'[d] = co[d]
    BY <1>6, GotoEffect
  <2>2. QED
    BY <1>6, <2>1, HolderStays DEF SameClaim
<1>7. ASSUME NEW c \in Coordinators, co[c].pc # "tick", NextJob(c), now' = now,
             \A j \in Jobs : SameClaim(j) \/ Holding(c, j)
      PROVE  Kept
  <2>1. /\ ~Working(c)' /\ \A d \in Coordinators : d # c => co'[d] = co[d]
    BY <1>7, NextJobEffect DEF Working
  <2>2. QED
    BY <1>7, <2>1, HolderLeaves DEF SameClaim
<1>8. ASSUME NEW c \in Coordinators, ClaimJob(c)
      PROVE  Kept
  <2>1. CASE TickClaimFree(Current(c))
    BY <1>8, <2>1, ClaimGranted
  <2>2. CASE ~TickClaimFree(Current(c))
    BY <1>7, <1>8, <2>2 DEF ClaimJob, SameClaim
  <2>3. QED
    BY <2>1, <2>2
<1>9. ASSUME NEW c \in Coordinators, ReadJob(c)
      PROVE  Kept
  <2>1. CASE jobs[Current(c)].exists
    <3>1. /\ co'[c].pc = "count" /\ co'[c].todo = co[c].todo /\ co'[c].at = co[c].at
          /\ \A d \in Coordinators : d # c => co'[d] = co[d]
      BY <1>9, <2>1, ReadJobEffect
    <3>2. Working(c) /\ now' = now /\ jobs' = jobs
      BY <1>9 DEF ReadJob, Working
    <3>3. QED
      BY <3>1, <3>2, HolderStays
  <2>2. CASE ~jobs[Current(c)].exists
    BY <1>6, <1>9, <2>2 DEF ReadJob, Working, Calls, SameClaim
  <2>3. QED
    BY <2>1, <2>2
<1>10. ASSUME NEW c \in Coordinators, CountActive(c)
       PROVE  Kept
  <2>1. PICK n \in Nat : Goto(c, Gate(c, n))
    BY <1>10, CurrentType, ActiveRunsFinite DEF CountActive
  <2>2. Gate(c, n) \in Calls /\ Gate(c, n) # "release_once"
    BY <1>10, GateType DEF CountActive
  <2>3. Working(c) /\ now' = now /\ jobs' = jobs
    BY <1>10 DEF CountActive, Working
  <2>4. QED
    BY <1>6, <2>1, <2>2, <2>3 DEF SameClaim
<1>11. ASSUME NEW c \in Coordinators, TryClaimRunOnce(c)
       PROVE  Kept
  <2>1. \A j \in Jobs : SameClaim(j)
    BY <1>11, TryClaimRunOnceEffect
  <2>2. QED
    BY <1>6, <1>11, <2>1 DEF TryClaimRunOnce, Working, Calls
<1>12. ASSUME NEW c \in Coordinators, CreateRun(c)
       PROVE  Kept
  BY <1>6, <1>12 DEF CreateRun, Working, Calls, SameClaim
<1>13. ASSUME NEW c \in Coordinators, MarkCompleted(c)
       PROVE  Kept
  <2>1. \A j \in Jobs : SameClaim(j)
    BY <1>13, MarkCompletedEffect
  <2>2. QED
    BY <1>6, <1>13, <2>1 DEF MarkCompleted, Working, Calls
<1>14. ASSUME NEW c \in Coordinators, Persist(c)
       PROVE  Kept
  <2>1. /\ \A j \in Jobs : j # Current(c) => SameClaim(j)
        /\ now' = now /\ co[c].pc \in {"persist", "skip_persist"} /\ Working(c)
    BY <1>14, PersistEffect DEF Persist, Working
  <2>2. CASE co[c].pc = "persist"
    <3>1. NextJob(c)
      BY <1>14, <2>2 DEF Persist
    <3>2. \A j \in Jobs : SameClaim(j) \/ Holding(c, j)
      BY <2>1 DEF Holding
    <3>3. QED
      BY <1>7, <2>1, <2>2, <3>1, <3>2
  <2>3. CASE co[c].pc = "skip_persist"
    <3>1. Goto(c, "release")
      BY <1>14, <2>3 DEF Persist
    <3>2. \A j \in Jobs : Window[j] = 0 => SameClaim(j)
      BY <2>1, <2>3 DEF SkipsHaveWindow
    <3>3. QED
      BY <1>6, <2>1, <3>1, <3>2 DEF Calls
  <2>4. QED
    BY <2>1, <2>2, <2>3
<1>15. ASSUME NEW c \in Coordinators, ReleaseOnce(c)
       PROVE  Kept
  <2>1. \A j \in Jobs : SameClaim(j)
    BY <1>15, ReleaseOnceEffect
  <2>2. QED
    BY <1>6, <1>15, <2>1 DEF ReleaseOnce, Working, Calls
<1>16. ASSUME NEW c \in Coordinators, ReleaseClaim(c)
       PROVE  Kept
  <2>1. /\ \A j \in Jobs : j # Current(c) => SameClaim(j)
        /\ Working(c) /\ now' = now /\ NextJob(c) /\ co[c].pc # "tick"
    BY <1>16, ReleaseClaimEffect DEF ReleaseClaim, Working
  <2>2. \A j \in Jobs : SameClaim(j) \/ Holding(c, j)
    BY <2>1 DEF Holding
  <2>3. QED
    BY <1>7, <2>1, <2>2
<1>17. ASSUME NEW c \in Coordinators, StoreError(c) \/ Crash(c)
       PROVE  Kept
  BY <1>0, <1>17 DEF StoreError, Crash
<1> HIDE DEF Kept
<1>18. QED
  BY <1>1, <1>3, <1>4, <1>5, <1>8, <1>9, <1>10, <1>11, <1>12, <1>13, <1>14, <1>15, <1>16, <1>17
     DEF Next, OneTick, Kept

----------------------------------------------------------------------------
(* The concurrency limit.                                                  *)

(* The limit is kept, and there is room for the run that a coordinator     *)
(* past count_active_runs is about to create.                              *)
RoomLeft ==
    \A j \in Jobs : Window[j] = 0 =>
        /\ Cardinality(ScheduledActive(j)) <= Concurrency[j]
        /\ \A c \in Coordinators :
             Holding(c, j) /\ co[c].pc \in {"once", "create"} =>
                 Cardinality(ScheduledActive(j)) < Concurrency[j]

(* No run is added, and no coordinator gets past the count: the room left  *)
(* stays.                                                                  *)
LEMMA RoomStays ==
  ASSUME TypeOK, RoomLeft,
         \A j \in Jobs : ScheduledActive(j)' \subseteq ScheduledActive(j),
         \A c \in Coordinators, j \in Jobs :
            Holding(c, j)' /\ co'[c].pc \in {"once", "create"} =>
                Holding(c, j) /\ co[c].pc \in {"once", "create"}
  PROVE  RoomLeft'
<1> SUFFICES ASSUME NEW j \in Jobs, Window[j] = 0
             PROVE  /\ Cardinality(ScheduledActive(j)') <= Concurrency[j]
                    /\ \A c \in Coordinators :
                         Holding(c, j)' /\ co'[c].pc \in {"once", "create"} =>
                             Cardinality(ScheduledActive(j)') < Concurrency[j]
  BY DEF RoomLeft
<1>1. IsFiniteSet(ScheduledActive(j)) /\ Cardinality(ScheduledActive(j)) \in Nat
  BY ActiveRunsFinite
<1>2. /\ IsFiniteSet(ScheduledActive(j)')
      /\ Cardinality(ScheduledActive(j)') \in Nat
      /\ Cardinality(ScheduledActive(j)') <= Cardinality(ScheduledActive(j))
  BY <1>1, FS_Subset, FS_CardinalityType
<1>3. Concurrency[j] \in Nat
  BY JobsAssumption
<1> HIDE DEF ScheduledActive
<1>4. QED
  BY <1>1, <1>2, <1>3 DEF RoomLeft

(* The count finds fewer active runs than the limit: the scheduled ones    *)
(* are among them.                                                         *)
LEMMA RoomCounted ==
  ASSUME TypeOK, RoomLeft, NEW c \in Coordinators, CountActive(c), ~Fault
  PROVE  RoomLeft'
<1> DEFINE j == Current(c)
           n == Cardinality(ActiveRuns(j))
<1>1. j \in Jobs /\ n \in Nat /\ Goto(c, Gate(c, n)) /\ runs' = runs /\ co[c].pc = "count"
  BY CurrentType, ActiveRunsFinite DEF CountActive
<1>2. /\ Gate(c, n) \in Calls
      /\ Gate(c, n) \in {"once", "create"} => n < Concurrency[j]
  BY <1>1, GateType
<1>3. Cardinality(ScheduledActive(j)) \in Nat /\ Cardinality(ScheduledActive(j)) <= n
  BY <1>1, ActiveRunsFinite
<1>4. Concurrency[j] \in Nat
  BY <1>1, JobsAssumption
<1>5. /\ co'[c].pc = Gate(c, n) /\ co'[c].todo = co[c].todo
      /\ \A d \in Coordinators : d # c => co'[d] = co[d]
  BY <1>1, <1>2, GotoEffect
<1>6. \A q \in Jobs : ScheduledActive(q)' = ScheduledActive(q)
  BY <1>1 DEF ScheduledActive, ActiveRuns
<1>7. \A q \in Jobs : Holding(c, q)' => q = j
  BY <1>5 DEF Holding, Current
<1>8. \A d \in Coordinators, q \in Jobs : d # c => (Holding(d, q)' <=> Holding(d, q))
  BY <1>5 DEF Holding, Working, Current
<1>9. co'[c].pc \in {"once", "create"} => Cardinality(ScheduledActive(j)) < Concurrency[j]
  <2> HIDE DEF n, j
  <2>1. QED
    BY <1>1, <1>2, <1>3, <1>4, <1>5
<1> HIDE DEF n, j
<1>10. QED
  BY <1>5, <1>6, <1>7, <1>8, <1>9 DEF RoomLeft

(* The run created takes the room that was counted, and its creator is the *)
(* only one at work on the job.                                            *)
LEMMA RoomTaken ==
  ASSUME TypeOK, OneHolder, RoomLeft, NEW c \in Coordinators, CreateRun(c)
  PROVE  RoomLeft'
<1>0. PICK j \in Jobs : j = Current(c)
  BY CurrentType DEF CreateRun
<1> DEFINE run == [fire |-> ScheduledFor(c), at |-> co[c].at, active |-> TRUE, manual |-> FALSE]
           p == IF Kind[j] = "run_once" THEN "mark" ELSE "persist"
           n == Len(runs[j]) + 1
<1>1. /\ co[c].at \in Nat /\ co[c].next \in Nat \cup {None}
      /\ co[c].pc = "create" /\ Holding(c, j)
  BY <1>0, CurrentType DEF CreateRun, Holding, Working
<1>2. run \in Run
  BY <1>1 DEF Run, ScheduledFor
<1>3. /\ runs' = [runs EXCEPT ![j] = Append(@, run)] /\ Goto(c, p)
      /\ p \in Calls /\ p \notin {"once", "create"}
  BY <1>0 DEF CreateRun, Calls
<1> HIDE DEF run, p
<1>4. /\ DOMAIN runs'[j] = DOMAIN runs[j] \cup {n}
      /\ \A k \in DOMAIN runs[j] : runs'[j][k] = runs[j][k]
      /\ \A q \in Jobs : q # j => runs'[q] = runs[q]
  BY <1>1, <1>2, <1>3, AppendEffect
<1>5. /\ co'[c].pc = p /\ co'[c].todo = co[c].todo
      /\ \A d \in Coordinators : d # c => co'[d] = co[d]
  BY <1>3, GotoEffect
<1>6. \A q \in Jobs : q # j => ScheduledActive(q)' = ScheduledActive(q)
  BY <1>4 DEF ScheduledActive, ActiveRuns
<1>7. ScheduledActive(j)' \subseteq ScheduledActive(j) \cup {n}
  BY <1>4 DEF ScheduledActive, ActiveRuns
<1>8. Window[j] = 0 => Cardinality(ScheduledActive(j)) < Concurrency[j]
  BY <1>1 DEF RoomLeft
<1>9. IsFiniteSet(ScheduledActive(j)) /\ Cardinality(ScheduledActive(j)) \in Nat
  BY <1>1, ActiveRunsFinite
<1>10. Concurrency[j] \in Nat
  BY <1>1, JobsAssumption
<1> HIDE DEF n
<1>11. Window[j] = 0 => Cardinality(ScheduledActive(j)') <= Concurrency[j]
  <2>1. /\ IsFiniteSet(ScheduledActive(j) \cup {n})
        /\ Cardinality(ScheduledActive(j) \cup {n}) \in Nat
        /\ Cardinality(ScheduledActive(j) \cup {n}) <= Cardinality(ScheduledActive(j)) + 1
    <3>1. /\ IsFiniteSet(ScheduledActive(j) \cup {n})
          /\ Cardinality(ScheduledActive(j) \cup {n}) =
               IF n \in ScheduledActive(j) THEN Cardinality(ScheduledActive(j))
                                           ELSE Cardinality(ScheduledActive(j)) + 1
      BY <1>9, FS_AddElement
    <3> HIDE DEF ScheduledActive
    <3>2. QED
      BY <1>9, <3>1
  <2>2. /\ Cardinality(ScheduledActive(j)') \in Nat
        /\ Cardinality(ScheduledActive(j)') <= Cardinality(ScheduledActive(j) \cup {n})
    BY <1>7, <2>1, FS_Subset, FS_CardinalityType
  <2>3. QED
    BY <1>8, <1>9, <1>10, <2>1, <2>2
<1>12. \A d \in Coordinators, q \in Jobs : d # c => (Holding(d, q)' <=> Holding(d, q))
  BY <1>5 DEF Holding, Working, Current
<1>13. \A d \in Coordinators : Window[j] = 0 /\ Holding(d, j) => d = c
  BY <1>1 DEF OneHolder
<1>14. \A d \in Coordinators, q \in Jobs :
         Window[q] = 0 /\ Holding(d, q)' /\ co'[d].pc \in {"once", "create"} =>
            d # c /\ q # j
  BY <1>3, <1>5, <1>12, <1>13
<1>15. QED
  BY <1>5, <1>6, <1>11, <1>12, <1>14 DEF RoomLeft

(* While nothing fails, coordinators keep to the limit between them. *)
LEMMA RoomStep ==
  ASSUME TypeOK, OneHolder, RoomLeft, [Next]_vars, faults' = 0
  PROVE  RoomLeft'
<1> DEFINE AtLimit(p) == p \in {"once", "create"}
<1>0. ~Fault
  BY NoFaultStep
<1>1. ASSUME co' = co, \A j \in Jobs : ScheduledActive(j)' \subseteq ScheduledActive(j)
      PROVE  RoomLeft'
  BY <1>1, RoomStays DEF Holding, Working, Current
<1>2. ASSUME NEW c \in Coordinators, runs' = runs, ~Working(c)',
             \A d \in Coordinators : d # c => co'[d] = co[d]
      PROVE  RoomLeft'
  <2>1. \A j \in Jobs : ScheduledActive(j)' = ScheduledActive(j)
    BY <1>2 DEF ScheduledActive, ActiveRuns
  <2>2. \A d \in Coordinators, j \in Jobs :
          Holding(d, j)' => Holding(d, j) /\ co'[d] = co[d]
    BY <1>2 DEF Holding, Working, Current
  <2>3. QED
    BY <2>1, <2>2, RoomStays
<1>3. ASSUME NEW c \in Coordinators, runs' = runs, co'[c].todo = co[c].todo,
             AtLimit(co'[c].pc) => AtLimit(co[c].pc),
             \A d \in Coordinators : d # c => co'[d] = co[d]
      PROVE  RoomLeft'
  <2>1. \A j \in Jobs : ScheduledActive(j)' = ScheduledActive(j)
    BY <1>3 DEF ScheduledActive, ActiveRuns
  <2>2. \A d \in Coordinators, j \in Jobs :
          Holding(d, j)' /\ AtLimit(co'[d].pc) => Holding(d, j) /\ AtLimit(co[d].pc)
    BY <1>3 DEF Holding, Working, Current
  <2>3. QED
    BY <2>1, <2>2, RoomStays
<1>4. ASSUME NEW c \in Coordinators, NEW p \in Calls, Goto(c, p), runs' = runs,
             AtLimit(p) => AtLimit(co[c].pc)
      PROVE  RoomLeft'
  BY <1>3, <1>4, GotoEffect
<1>5. ASSUME NEW c \in Coordinators, co[c].pc # "tick", NextJob(c), runs' = runs
      PROVE  RoomLeft'
  BY <1>2, <1>5, NextJobEffect DEF Working
<1>6. ASSUME NEW j \in Jobs, NEW i \in DOMAIN runs[j], FinishRun(j, i)
      PROVE  RoomLeft'
  <2>1. \A q \in Jobs :
           /\ DOMAIN runs'[q] = DOMAIN runs[q]
           /\ \A k \in DOMAIN runs[q] :
                /\ runs'[q][k].manual = runs[q][k].manual
                /\ runs'[q][k].active => runs[q][k].active
    BY <1>6, FinishEffect
  <2>2. \A q \in Jobs : ScheduledActive(q)' \subseteq ScheduledActive(q)
    BY <2>1 DEF ScheduledActive, ActiveRuns
  <2>3. QED
    BY <1>1, <1>6, <2>2 DEF FinishRun
<1>7. ASSUME NEW j \in Jobs, RunNow(j)
      PROVE  RoomLeft'
  <2> DEFINE run == [fire |-> now, at |-> now, active |-> TRUE, manual |-> TRUE]
             n == Len(runs[j]) + 1
  <2>1. run \in Run /\ run.manual
    BY DEF Run, TypeOK
  <2>2. runs' = [runs EXCEPT ![j] = Append(@, run)]
    BY <1>7 DEF RunNow
  <2> HIDE DEF run
  <2>3. /\ DOMAIN runs'[j] = DOMAIN runs[j] \cup {n} /\ runs'[j][n] = run
        /\ \A k \in DOMAIN runs[j] : runs'[j][k] = runs[j][k]
        /\ \A q \in Jobs : q # j => runs'[q] = runs[q]
    BY <2>1, <2>2, AppendEffect
  <2> HIDE DEF n
  <2>4. \A q \in Jobs : ScheduledActive(q)' \subseteq ScheduledActive(q)
    BY <2>1, <2>3 DEF ScheduledActive, ActiveRuns
  <2>5. QED
    BY <1>1, <1>7, <2>4 DEF RunNow
<1>8. CASE Tick \/ (\E j \in Jobs, e \in BOOLEAN : SetEnabled(j, e))
           \/ (\E j \in Jobs : DeleteJob(j)) \/ UNCHANGED vars
  <2>1. runs' = runs /\ co' = co
    BY <1>8 DEF Tick, SetEnabled, DeleteJob, vars
  <2>2. QED
    BY <1>1, <2>1 DEF ScheduledActive, ActiveRuns
<1>9. ASSUME NEW c \in Coordinators, FindDue(c) \/ MinNext(c)
      PROVE  RoomLeft'
  <2>1. /\ ~Working(c)' /\ runs' = runs
        /\ \A d \in Coordinators : d # c => co'[d] = co[d]
    BY <1>9, FindDueEffect, MinNextEffect DEF Working, MinNext
  <2>2. QED
    BY <1>2, <2>1
<1>10. ASSUME NEW c \in Coordinators, ClaimJob(c)
       PROVE  RoomLeft'
  <2>1. CASE TickClaimFree(Current(c))
    BY <1>3, <1>10, <2>1, ClaimJobEffect DEF ClaimJob
  <2>2. CASE ~TickClaimFree(Current(c))
    BY <1>5, <1>10, <2>2 DEF ClaimJob
  <2>3. QED
    BY <2>1, <2>2
<1>11. ASSUME NEW c \in Coordinators, ReadJob(c)
       PROVE  RoomLeft'
  <2>1. CASE jobs[Current(c)].exists
    BY <1>3, <1>11, <2>1, ReadJobEffect DEF ReadJob
  <2>2. CASE ~jobs[Current(c)].exists
    BY <1>4, <1>11, <2>2 DEF ReadJob, Calls
  <2>3. QED
    BY <2>1, <2>2
<1>12. ASSUME NEW c \in Coordinators, CountActive(c)
       PROVE  RoomLeft'
  BY <1>0, <1>12, RoomCounted
<1>13. ASSUME NEW c \in Coordinators, CreateRun(c)
       PROVE  RoomLeft'
  BY <1>13, RoomTaken
<1>14. ASSUME NEW c \in Coordinators, TryClaimRunOnce(c)
       PROVE  RoomLeft'
  BY <1>4, <1>14 DEF TryClaimRunOnce, Calls
<1>15. ASSUME NEW c \in Coordinators, MarkCompleted(c)
       PROVE  RoomLeft'
  BY <1>4, <1>15 DEF MarkCompleted, Calls
<1>16. ASSUME NEW c \in Coordinators, Persist(c)
       PROVE  RoomLeft'
  BY <1>4, <1>5, <1>16 DEF Persist, Calls
<1>17. ASSUME NEW c \in Coordinators, ReleaseOnce(c)
       PROVE  RoomLeft'
  BY <1>4, <1>17 DEF ReleaseOnce, Calls
<1>18. ASSUME NEW c \in Coordinators, ReleaseClaim(c)
       PROVE  RoomLeft'
  BY <1>5, <1>18 DEF ReleaseClaim
<1>19. ASSUME NEW c \in Coordinators, StoreError(c) \/ Crash(c)
       PROVE  RoomLeft'
  BY <1>0, <1>19 DEF StoreError, Crash
<1>20. QED
  BY <1>6, <1>7, <1>8, <1>9, <1>10, <1>11, <1>12, <1>13, <1>14, <1>15, <1>16, <1>17, <1>18,
     <1>19 DEF Next, OneTick

----------------------------------------------------------------------------
(* The inductive invariant: the claim and the concurrency limit. *)
TickInv == TypeOK /\ ClaimInv /\ (faults = 0 => RoomLeft)

(* The inductive invariant holds from the start: nobody holds a job and    *)
(* there is no run.                                                        *)
LEMMA TickInvInit == Init => TickInv
<1> SUFFICES ASSUME Init
             PROVE  TickInv
  OBVIOUS
<1>1. TypeOK
  BY TypeInit
<1>2. \A c \in Coordinators : co[c].pc = "tick"
  BY DEF Init, Idle
<1>3. ClaimInv
  BY <1>2 DEF ClaimInv, SkipsHaveWindow, ClaimsHeld, OneHolder, Holding, Working
<1>4. \A j \in Jobs : ScheduledActive(j) = {}
  BY DEF Init, ScheduledActive, ActiveRuns
<1>5. \A j \in Jobs : Cardinality(ScheduledActive(j)) = 0 /\ Concurrency[j] \in Nat
  BY <1>4, FS_EmptySet, JobsAssumption
<1>6. RoomLeft
  BY <1>2, <1>5 DEF RoomLeft
<1>7. QED
  BY <1>1, <1>3, <1>6 DEF TickInv

(* Every step keeps the inductive invariant. *)
LEMMA TickInvStep == TickInv /\ [Next]_vars => TickInv'
<1> SUFFICES ASSUME TickInv, [Next]_vars
             PROVE  TickInv'
  OBVIOUS
<1>1. TypeOK' /\ SkipsHaveWindow'
  BY TypeStep, SkipStep DEF TickInv, ClaimInv
<1>2. faults' = 0 => ClaimsHeld' /\ OneHolder' /\ RoomLeft'
  <2> SUFFICES ASSUME faults' = 0
               PROVE  ClaimsHeld' /\ OneHolder' /\ RoomLeft'
    OBVIOUS
  <2>1. TypeOK /\ SkipsHaveWindow /\ ClaimsHeld /\ OneHolder /\ RoomLeft
    BY NoFaultStep DEF TickInv, ClaimInv
  <2>2. QED
    BY <2>1, ClaimStep, RoomStep
<1>3. QED
  BY <1>1, <1>2 DEF TickInv, ClaimInv

(* It always holds. *)
LEMMA TickInvAlways == Spec => []TickInv
  BY TickInvInit, TickInvStep, PTL DEF Spec

(* The calls of enqueue_due_job are one: with no fault, one coordinator at *)
(* a time is past claim_job_for_tick for a job without a misfire window,   *)
(* and the coordinators keep to the job's concurrency between them.        *)
THEOREM TickClaimsSerializeCorrect == Spec => []TickClaimsSerialize
<1>1. TickInv => TickClaimsSerialize
  <2> SUFFICES ASSUME TickInv
               PROVE  TickClaimsSerialize
    OBVIOUS
  <2>1. \A c \in Coordinators, j \in Jobs : Claiming(c, j) => Holding(c, j)
    BY DEF Claiming, Holding, Working
  <2>2. SoleClaimant
    BY <2>1 DEF TickInv, ClaimInv, OneHolder, SoleClaimant
  <2>3. WithinConcurrency
    BY DEF TickInv, RoomLeft, WithinConcurrency
  <2>4. QED
    BY <2>2, <2>3 DEF TickInv, TickClaimsSerialize
<1>2. QED
  BY <1>1, TickInvAlways, PTL

----------------------------------------------------------------------------
(* Fires that are not enqueued ahead of their time.                        *)

(* next_run_at has moved past every fire that was enqueued in its time. *)
Settled(j) ==
    \A i \in Scheduled(j) : runs[j][i].fire <= runs[j][i].at => runs[j][i].at < jobs[j].next

(* A holder's `now` is no later than the clock, and no run was enqueued    *)
(* later than either.                                                      *)
RunsInThePast(j) ==
    /\ \A c \in Coordinators : Holding(c, j) => co[c].at <= now
    /\ \A i \in Scheduled(j) :
         /\ runs[j][i].at <= now
         /\ \A c \in Coordinators : Holding(c, j) => runs[j][i].at <= co[c].at

(* The next_run_at that a holder read is still the row's. *)
ReadIsCurrent(j) ==
    \A c \in Coordinators :
        Holding(c, j) /\ co[c].pc \in {"count", "once", "create"} => co[c].next = jobs[j].next

(* A cron job: its fires are settled, but between create_run and persist,  *)
(* and after a delete, which no claim follows.                             *)
CronMoves(j) ==
    /\ jobs[j].next # None
    /\ \A c \in Coordinators : Holding(c, j) => co[c].pc \notin {"once", "mark"}
    /\ /\ jobs[j].exists
       /\ \A c \in Coordinators : Holding(c, j) => co[c].pc # "persist"
       => Settled(j)
    /\ \A c \in Coordinators : Holding(c, j) /\ co[c].pc \in {"count", "create"} => Settled(j)
    /\ \A i, k \in Scheduled(j) :
         /\ runs[j][i].fire <= runs[j][i].at
         /\ runs[j][k].fire <= runs[j][k].at
         /\ runs[j][i].fire = runs[j][k].fire
         => i = k

(* A run-once job: nothing is enqueued before the run that is then marked. *)
OnceMoves(j) ==
    /\ \A i, k \in Scheduled(j) : i = k
    /\ /\ jobs[j].exists /\ ~jobs[j].onceDone
       /\ \A c \in Coordinators : Holding(c, j) => co[c].pc # "mark"
       => Scheduled(j) = {}
    /\ \A c \in Coordinators : Holding(c, j) /\ co[c].pc = "create" => Scheduled(j) = {}

FireOk(j) ==
    /\ RunsInThePast(j)
    /\ ReadIsCurrent(j)
    /\ Kind[j] = "cron" => CronMoves(j)
    /\ Kind[j] = "run_once" => OnceMoves(j)

FireInv == faults = 0 => \A j \in Jobs : Window[j] = 0 => FireOk(j)

(* The scheduled runs of a job are not added to, and keep their times. *)
SameRuns(j) ==
    \A i \in Scheduled(j)' :
        /\ i \in Scheduled(j)
        /\ runs'[j][i].fire = runs[j][i].fire /\ runs'[j][i].at = runs[j][i].at

(* The times that are compared are integers. *)
LEMMA TimesAreIntegers ==
  ASSUME TypeOK, NEW j \in Jobs
  PROVE  /\ now \in Nat /\ jobs[j].next \in Int /\ jobs[j].next \in Nat \cup {None}
         /\ \A i \in Scheduled(j) : runs[j][i].fire \in Nat /\ runs[j][i].at \in Nat
         /\ \A c \in Coordinators : co[c].at \in Nat
<1>1. jobs[j] \in Row /\ runs[j] \in Seq(Run) /\ \A c \in Coordinators : co[c] \in Coordinator
  BY DEF TypeOK
<1>2. \A i \in Scheduled(j) : runs[j][i] \in Run
  BY <1>1 DEF Scheduled
<1>3. now \in Nat
  BY TimesAssumption DEF TypeOK
<1>4. jobs[j].next \in Nat \cup {None} /\ None \in Int
  BY <1>1 DEF Row, None
<1>5. QED
  BY <1>1, <1>2, <1>3, <1>4 DEF Run, Coordinator

(* A step that leaves the job's runs and fires alone, and whose holders    *)
(* stay where they are, leave it or go on to a call that enqueues nothing. *)
LEMMA FireKept ==
  ASSUME TypeOK, TypeOK', NEW j \in Jobs, FireOk(j), SameRuns(j), now <= now',
         jobs'[j].next = jobs[j].next, jobs'[j].onceDone = jobs[j].onceDone,
         jobs'[j].exists => jobs[j].exists,
         \A c \in Coordinators : Holding(c, j)' =>
            /\ Holding(c, j) /\ co'[c].at = co[c].at /\ co'[c].next = co[c].next
            /\ co'[c].pc # co[c].pc => co'[c].pc \notin {"count", "once", "create", "mark"},
         \A c \in Coordinators : Holding(c, j) /\ co[c].pc \in {"persist", "mark"} =>
            Holding(c, j)' /\ co'[c].pc = co[c].pc
  PROVE  FireOk(j)'
<1>1. /\ now \in Nat /\ now' \in Nat /\ jobs[j].next \in Int
      /\ \A i \in Scheduled(j) : runs[j][i].fire \in Nat /\ runs[j][i].at \in Nat
  BY TimesAreIntegers, TimesAssumption DEF TypeOK
<1>2. RunsInThePast(j)'
  <2>1. \A c \in Coordinators : co[c].at \in Nat
    BY TimesAreIntegers
  <2>2. \A c \in Coordinators : Holding(c, j)' => co'[c].at <= now'
    BY <1>1, <2>1 DEF FireOk, RunsInThePast
  <2>3. \A i \in Scheduled(j)' :
          /\ runs'[j][i].at <= now'
          /\ \A c \in Coordinators : Holding(c, j)' => runs'[j][i].at <= co'[c].at
    BY <1>1, <2>1 DEF FireOk, RunsInThePast, SameRuns
  <2>4. QED
    BY <2>2, <2>3 DEF RunsInThePast
<1>3. ReadIsCurrent(j)'
  BY DEF FireOk, ReadIsCurrent
<1>4. Settled(j) => Settled(j)'
  BY DEF Settled, SameRuns
<1>5. Kind[j] = "cron" => CronMoves(j)'
  <2> SUFFICES ASSUME Kind[j] = "cron", CronMoves(j)
               PROVE  CronMoves(j)'
    BY DEF FireOk
  <2>1. jobs'[j].next # None
    BY DEF CronMoves
  <2>2. \A c \in Coordinators : Holding(c, j)' => co'[c].pc \notin {"once", "mark"}
    BY DEF CronMoves
  <2>3. jobs'[j].exists /\ (\A c \in Coordinators : Holding(c, j)' => co'[c].pc # "persist")
          => Settled(j)'
    BY <1>4 DEF CronMoves
  <2>4. \A c \in Coordinators :
          Holding(c, j)' /\ co'[c].pc \in {"count", "create"} => Settled(j)'
    BY <1>4 DEF CronMoves
  <2>5. \A i, k \in Scheduled(j)' :
          /\ runs'[j][i].fire <= runs'[j][i].at
          /\ runs'[j][k].fire <= runs'[j][k].at
          /\ runs'[j][i].fire = runs'[j][k].fire
          => i = k
    BY DEF CronMoves, SameRuns
  <2>6. QED
    BY <2>1, <2>2, <2>3, <2>4, <2>5 DEF CronMoves
<1>6. Kind[j] = "run_once" => OnceMoves(j)'
  <2> SUFFICES ASSUME Kind[j] = "run_once", OnceMoves(j)
               PROVE  OnceMoves(j)'
    BY DEF FireOk
  <2>1. Scheduled(j)' \subseteq Scheduled(j)
    BY DEF SameRuns
  <2>2. \A i, k \in Scheduled(j)' : i = k
    BY <2>1 DEF OnceMoves
  <2>3. /\ jobs'[j].exists /\ ~jobs'[j].onceDone
        /\ \A c \in Coordinators : Holding(c, j)' => co'[c].pc # "mark"
        => Scheduled(j) = {}
    BY DEF OnceMoves
  <2>4. \A c \in Coordinators : Holding(c, j)' /\ co'[c].pc = "create" => Scheduled(j) = {}
    BY DEF OnceMoves
  <2>5. QED
    BY <2>1, <2>2, <2>3, <2>4 DEF OnceMoves
<1>7. QED
  BY <1>2, <1>3, <1>5, <1>6 DEF FireOk

(* claim_job_for_tick is granted: the new holder's `now` is the clock. *)
LEMMA FireClaimed ==
  ASSUME TypeOK, TypeOK', NEW j \in Jobs, Window[j] = 0, FireOk(j), OneHolder', ClaimsHeld,
         NEW c \in Coordinators, j = Current(c), ClaimJob(c), TickClaimFree(j)
  PROVE  FireOk(j)'
<1>1. /\ co'[c].pc = "read" /\ co'[c].todo = co[c].todo /\ co'[c].at = now
      /\ \A d \in Coordinators : d # c => co'[d] = co[d]
      /\ SameFires(j) /\ now' = now /\ runs' = runs
  BY ClaimJobEffect DEF ClaimJob, SameFires
<1>2. Holding(c, j)'
  BY <1>1 DEF Holding, Working, Current
<1>3. \A d \in Coordinators : Holding(d, j)' => d = c
  BY <1>2 DEF OneHolder
<1>4. Scheduled(j)' = Scheduled(j) /\ (Settled(j) => Settled(j)')
  BY <1>1 DEF Scheduled, Settled, SameFires
<1>5. RunsInThePast(j)' /\ ReadIsCurrent(j)'
  <2>1. now \in Nat
    BY TimesAreIntegers
  <2>2. RunsInThePast(j)'
    BY <1>1, <1>3, <1>4, <2>1 DEF FireOk, RunsInThePast
  <2>3. QED
    BY <1>1, <1>3, <2>2 DEF ReadIsCurrent
<1>6. \A d \in Coordinators : ~Holding(d, j)
  <2>1. now \in Nat /\ TTL \in Nat /\ \A d \in Coordinators : co[d].at \in Nat
    BY TimesAssumption, TimesAreIntegers
  <2>2. jobs[j].claim < now
    BY DEF TickClaimFree
  <2>3. QED
    BY <2>1, <2>2 DEF ClaimsHeld
<1>7. Kind[j] = "cron" => CronMoves(j)'
  BY <1>1, <1>3, <1>4, <1>6 DEF FireOk, CronMoves, SameFires
<1>8. Kind[j] = "run_once" => OnceMoves(j)'
  BY <1>1, <1>3, <1>4, <1>6 DEF FireOk, OnceMoves, SameFires
<1>9. QED
  BY <1>5, <1>7, <1>8 DEF FireOk

(* The only holder of the job goes from one call to the next, and its      *)
(* fires and its runs are left alone.                                      *)
HolderMoves(c, j) ==
    /\ Holding(c, j) /\ Holding(c, j)' /\ co'[c].at = co[c].at
    /\ \A d \in Coordinators : Holding(d, j) \/ Holding(d, j)' => d = c
    /\ runs' = runs /\ now' = now /\ SameFires(j)

(* get_job finds the job: its fires are settled, nobody being between      *)
(* create_run and persist.                                                 *)
LEMMA FireRead ==
  ASSUME TypeOK, NEW j \in Jobs, FireOk(j), NEW c \in Coordinators, HolderMoves(c, j),
         co[c].pc = "read", co'[c].pc = "count",
         co'[c].next = jobs[j].next, jobs[j].exists
  PROVE  FireOk(j)'
<1>1. Scheduled(j)' = Scheduled(j) /\ (Settled(j) => Settled(j)')
  BY DEF Scheduled, Settled, SameFires, HolderMoves
<1>2. RunsInThePast(j)' /\ ReadIsCurrent(j)'
  BY <1>1 DEF FireOk, RunsInThePast, ReadIsCurrent, HolderMoves, SameFires
<1>3. Kind[j] = "cron" => CronMoves(j)'
  <2> SUFFICES ASSUME CronMoves(j)
               PROVE  CronMoves(j)'
    BY DEF FireOk
  <2>1. Settled(j)
    BY DEF CronMoves, HolderMoves
  <2>2. QED
    BY <1>1, <2>1 DEF CronMoves, HolderMoves, SameFires
<1>4. Kind[j] = "run_once" => OnceMoves(j)'
  BY <1>1 DEF FireOk, OnceMoves, HolderMoves, SameFires
<1>5. QED
  BY <1>2, <1>3, <1>4 DEF FireOk

(* From the count to the call that enqueues. *)
LEMMA FireGate ==
  ASSUME TypeOK, NEW j \in Jobs, FireOk(j), NEW c \in Coordinators, HolderMoves(c, j),
         co[c].pc = "count", co'[c].next = co[c].next,
         \/ Kind[j] = "run_once" /\ co'[c].pc = "once"
         \/ Kind[j] # "run_once" /\ co'[c].pc = "create"
  PROVE  FireOk(j)'
<1>1. Scheduled(j)' = Scheduled(j) /\ (Settled(j) => Settled(j)')
  BY DEF Scheduled, Settled, SameFires, HolderMoves
<1>2. RunsInThePast(j)' /\ ReadIsCurrent(j)'
  BY <1>1 DEF FireOk, RunsInThePast, ReadIsCurrent, HolderMoves, SameFires
<1>3. Kind[j] = "cron" => CronMoves(j)'
  <2> SUFFICES ASSUME Kind[j] = "cron", CronMoves(j)
               PROVE  CronMoves(j)'
    BY DEF FireOk
  <2>1. Settled(j) /\ co'[c].pc = "create"
    BY DEF CronMoves, HolderMoves
  <2>2. QED
    BY <1>1, <2>1 DEF CronMoves, HolderMoves, SameFires
<1>4. Kind[j] = "run_once" => OnceMoves(j)'
  BY <1>1 DEF FireOk, OnceMoves, HolderMoves, SameFires
<1>5. QED
  BY <1>2, <1>3, <1>4 DEF FireOk

(* try_claim_run_once is granted: no run was enqueued yet. *)
LEMMA FireOnceGranted ==
  ASSUME TypeOK, NEW j \in Jobs, FireOk(j), NEW c \in Coordinators, HolderMoves(c, j),
         co[c].pc = "once", co'[c].next = co[c].next, co'[c].pc = "create",
         jobs[j].exists, ~jobs[j].onceDone
  PROVE  FireOk(j)'
<1>1. Scheduled(j)' = Scheduled(j) /\ (Settled(j) => Settled(j)')
  BY DEF Scheduled, Settled, SameFires, HolderMoves
<1>2. RunsInThePast(j)' /\ ReadIsCurrent(j)'
  BY <1>1 DEF FireOk, RunsInThePast, ReadIsCurrent, HolderMoves, SameFires
<1>3. Kind[j] # "cron"
  BY DEF FireOk, CronMoves, HolderMoves
<1>4. Kind[j] = "run_once" => OnceMoves(j)'
  <2> SUFFICES ASSUME OnceMoves(j)
               PROVE  OnceMoves(j)'
    BY DEF FireOk
  <2>1. Scheduled(j) = {}
    BY DEF OnceMoves, HolderMoves
  <2>2. QED
    BY <1>1, <2>1 DEF OnceMoves, HolderMoves, SameFires
<1>5. QED
  BY <1>2, <1>3, <1>4 DEF FireOk

(* create_run: every fire enqueued in its time before was settled, so that *)
(* the one being enqueued is later than all of them.                       *)
LEMMA FireCreated ==
  ASSUME TypeOK, TypeOK', NEW j \in Jobs, Window[j] = 0, FireOk(j), OneHolder, OneHolder',
         NEW c \in Coordinators, j = Current(c), CreateRun(c)
  PROVE  FireOk(j)'
<1> DEFINE run == [fire |-> ScheduledFor(c), at |-> co[c].at, active |-> TRUE, manual |-> FALSE]
           p == IF Kind[j] = "run_once" THEN "mark" ELSE "persist"
           n == Len(runs[j]) + 1
<1>1. /\ co[c].at \in Nat /\ co[c].next \in Nat \cup {None}
      /\ co[c].pc = "create" /\ Holding(c, j)
  BY CurrentType DEF CreateRun, Holding, Working
<1>2. run \in Run /\ ~run.manual /\ run.at = co[c].at /\ run.fire = ScheduledFor(c)
  BY <1>1 DEF Run, ScheduledFor
<1>3. /\ runs' = [runs EXCEPT ![j] = Append(@, run)] /\ Goto(c, p) /\ p \in Calls
      /\ now' = now /\ SameFires(j)
  BY DEF CreateRun, Calls, SameFires
<1> HIDE DEF run
<1>4. /\ DOMAIN runs'[j] = DOMAIN runs[j] \cup {n}
      /\ n \notin DOMAIN runs[j] /\ runs'[j][n] = run
      /\ \A k \in DOMAIN runs[j] : runs'[j][k] = runs[j][k]
  BY <1>2, <1>3, AppendEffect
<1> HIDE DEF n
<1>5. /\ Scheduled(j)' = Scheduled(j) \cup {n} /\ n \notin Scheduled(j)
      /\ runs'[j][n].at = co[c].at /\ runs'[j][n].fire = ScheduledFor(c)
      /\ \A i \in Scheduled(j) : runs'[j][i] = runs[j][i]
  BY <1>2, <1>4 DEF Scheduled
<1>6. /\ co'[c].pc = p /\ co'[c].todo = co[c].todo /\ co'[c].at = co[c].at
      /\ \A d \in Coordinators : d # c => co'[d] = co[d]
  BY <1>3, GotoEffect
<1>7. Holding(c, j)'
  BY <1>3, <1>6 DEF Holding, Working, Current
<1>8. \A d \in Coordinators : Holding(d, j) \/ Holding(d, j)' => d = c
  BY <1>1, <1>7 DEF OneHolder
<1>9. /\ now \in Nat /\ jobs[j].next \in Int
      /\ \A i \in Scheduled(j) : runs[j][i].fire \in Nat /\ runs[j][i].at \in Nat
  BY TimesAreIntegers
<1>10. co[c].at <= now
  BY <1>1 DEF FireOk, RunsInThePast
<1>11. RunsInThePast(j)'
  <2>1. \A i \in Scheduled(j) : runs[j][i].at <= now /\ runs[j][i].at <= co[c].at
    BY <1>1 DEF FireOk, RunsInThePast
  <2>2. \A i \in Scheduled(j)' : runs'[j][i].at <= now' /\ runs'[j][i].at <= co'[c].at
    <3>1. \A i \in Scheduled(j) : runs'[j][i].at <= now' /\ runs'[j][i].at <= co'[c].at
      BY <1>3, <1>5, <1>6, <2>1
    <3>2. runs'[j][n].at <= now' /\ runs'[j][n].at <= co'[c].at
      <4>1. runs'[j][n].at = co[c].at /\ co'[c].at = co[c].at /\ now' = now /\ co[c].at \in Nat
        BY <1>1, <1>3, <1>5, <1>6
      <4>2. QED
        BY <1>10, <4>1
    <3>3. QED
      BY <1>5, <3>1, <3>2
  <2>3. QED
    BY <1>3, <1>6, <1>8, <1>10, <2>2 DEF RunsInThePast
<1>12. ReadIsCurrent(j)'
  BY <1>6, <1>8 DEF ReadIsCurrent
<1>13. Kind[j] = "cron" => CronMoves(j)'
  <2> SUFFICES ASSUME Kind[j] = "cron", CronMoves(j), ReadIsCurrent(j)
               PROVE  CronMoves(j)'
    BY DEF FireOk
  <2>1. Settled(j) /\ jobs[j].next # None /\ co[c].next = jobs[j].next
    BY <1>1 DEF CronMoves, ReadIsCurrent
  <2>2. ScheduledFor(c) = jobs[j].next
    BY <2>1 DEF ScheduledFor
  <2>3. co'[c].pc = "persist"
    BY <1>6
  <2>4. \A i \in Scheduled(j) :
          runs[j][i].fire <= runs[j][i].at => runs[j][i].fire # runs'[j][n].fire
    BY <1>5, <1>9, <2>1, <2>2 DEF Settled
  <2>5. \A i, k \in Scheduled(j)' :
          /\ runs'[j][i].fire <= runs'[j][i].at
          /\ runs'[j][k].fire <= runs'[j][k].at
          /\ runs'[j][i].fire = runs'[j][k].fire
          => i = k
    BY <1>5, <2>4 DEF CronMoves
  <2>6. QED
    BY <1>3, <1>7, <1>8, <2>1, <2>3, <2>5 DEF CronMoves, SameFires
<1>14. Kind[j] = "run_once" => OnceMoves(j)'
  <2> SUFFICES ASSUME Kind[j] = "run_once", OnceMoves(j)
               PROVE  OnceMoves(j)'
    BY DEF FireOk
  <2>1. Scheduled(j) = {} /\ co'[c].pc = "mark"
    BY <1>1, <1>6 DEF OnceMoves
  <2>2. QED
    BY <1>5, <1>7, <1>8, <2>1 DEF OnceMoves
<1>15. QED
  BY <1>11, <1>12, <1>13, <1>14 DEF FireOk

(* mark_run_once_completed: the job is done, or its row is gone. *)
LEMMA FireMarked ==
  ASSUME TypeOK, TypeOK', NEW j \in Jobs, Window[j] = 0, FireOk(j), OneHolder, OneHolder',
         NEW c \in Coordinators, j = Current(c), MarkCompleted(c), co[c].pc = "mark"
  PROVE  FireOk(j)'
<1>1. /\ jobs'[j].next = jobs[j].next /\ jobs'[j].exists = jobs[j].exists
      /\ jobs[j].exists => jobs'[j].onceDone
      /\ runs' = runs /\ now' = now /\ Goto(c, "persist")
  BY MarkCompletedEffect DEF MarkCompleted
<1>2. /\ co'[c].pc = "persist" /\ co'[c].todo = co[c].todo /\ co'[c].at = co[c].at
      /\ \A d \in Coordinators : d # c => co'[d] = co[d]
  BY <1>1, GotoEffect DEF Calls
<1>3. Holding(c, j) /\ Holding(c, j)'
  BY <1>2 DEF Holding, Working, Current
<1>4. \A d \in Coordinators : Holding(d, j) \/ Holding(d, j)' => d = c
  BY <1>3 DEF OneHolder
<1>5. Scheduled(j)' = Scheduled(j)
  BY <1>1 DEF Scheduled
<1>6. RunsInThePast(j)' /\ ReadIsCurrent(j)'
  BY <1>1, <1>2, <1>3, <1>4, <1>5 DEF FireOk, RunsInThePast, ReadIsCurrent
<1>7. Kind[j] # "cron"
  BY <1>3 DEF FireOk, CronMoves
<1>8. Kind[j] = "run_once" => OnceMoves(j)'
  BY <1>1, <1>2, <1>4, <1>5 DEF FireOk, OnceMoves
<1>9. QED
  BY <1>6, <1>7, <1>8 DEF FireOk

(* persist_post_tick_job_state: the next fire of a cron job is later than  *)
(* everything enqueued so far.                                             *)
LEMMA FirePersisted ==
  ASSUME TypeOK, TypeOK', NEW j \in Jobs, Window[j] = 0, FireOk(j), OneHolder,
         NEW c \in Coordinators, j = Current(c), Persist(c), co[c].pc = "persist"
  PROVE  FireOk(j)'
<1>1. /\ jobs'[j].exists = jobs[j].exists /\ jobs'[j].onceDone = jobs[j].onceDone
      /\ jobs[j].exists => jobs'[j].next = NextRunAt(j, co[c].at)
      /\ ~jobs[j].exists => jobs'[j].next = jobs[j].next
      /\ runs' = runs /\ now' = now /\ NextJob(c)
  BY PersistEffect DEF Persist
<1>2. /\ co'[c].pc \in {"tick", "each"}
      /\ \A d \in Coordinators : d # c => co'[d] = co[d]
  BY <1>1, NextJobEffect
<1>3. Holding(c, j) /\ \A d \in Coordinators : Holding(d, j) => d = c
  BY DEF Holding, Working, OneHolder
<1>4. \A d \in Coordinators : ~Holding(d, j)'
  BY <1>2, <1>3 DEF Holding, Working, Current
<1>5. Scheduled(j)' = Scheduled(j)
  BY <1>1 DEF Scheduled
<1>6. RunsInThePast(j)' /\ ReadIsCurrent(j)'
  BY <1>1, <1>4, <1>5 DEF FireOk, RunsInThePast, ReadIsCurrent
<1>7. Kind[j] = "cron" => CronMoves(j)'
  <2> SUFFICES ASSUME Kind[j] = "cron", CronMoves(j), RunsInThePast(j)
               PROVE  CronMoves(j)'
    BY DEF FireOk
  <2>1. \A i \in Scheduled(j) : runs[j][i].at <= co[c].at /\ runs[j][i].at \in Nat
    BY <1>3, TimesAreIntegers DEF RunsInThePast
  <2>2. co[c].at \in Nat
    BY TimesAreIntegers
  <2>3. jobs[j].exists => jobs'[j].next \in Nat /\ jobs'[j].next > co[c].at
    BY <1>1, <2>2, CronNextLater DEF NextRunAt
  <2>4. jobs'[j].next # None
    <3>1. CASE jobs[j].exists
      BY <2>3, <3>1 DEF None
    <3>2. CASE ~jobs[j].exists
      BY <1>1, <3>2 DEF CronMoves
    <3>3. QED
      BY <3>1, <3>2
  <2>5. jobs'[j].exists => Settled(j)'
    BY <1>1, <1>5, <2>1, <2>2, <2>3 DEF Settled
  <2>6. QED
    BY <1>1, <1>4, <1>5, <2>4, <2>5 DEF CronMoves
<1>8. Kind[j] = "run_once" => OnceMoves(j)'
  BY <1>1, <1>3, <1>4, <1>5 DEF FireOk, OnceMoves
<1>9. QED
  BY <1>6, <1>7, <1>8 DEF FireOk

(* While nothing fails, every call of every coordinator keeps the fires of *)
(* a job without a misfire window in order.                                *)
LEMMA FireStep ==
  ASSUME TypeOK, TypeOK', SkipsHaveWindow, ClaimsHeld, OneHolder, OneHolder', [Next]_vars,
         faults' = 0, NEW j \in Jobs, Window[j] = 0, FireOk(j)
  PROVE  FireOk(j)'
<1>0. ~Fault /\ now \in Nat
  BY NoFaultStep, TimesAreIntegers
(* Nothing moves but the clock, the switches of a job, or a manual run. *)
<1>1. ASSUME co' = co, SameRuns(j), now <= now', jobs'[j].next = jobs[j].next,
             jobs'[j].onceDone = jobs[j].onceDone, jobs'[j].exists => jobs[j].exists
      PROVE  FireOk(j)'
  <2>1. \A c \in Coordinators : Holding(c, j)' <=> Holding(c, j)
    BY <1>1 DEF Holding, Working, Current
  <2>2. QED
    BY <1>1, <2>1, FireKept
<1>2. CASE Tick
  BY <1>0, <1>1, <1>2 DEF Tick, SameRuns, Scheduled
<1>3. CASE UNCHANGED vars
  BY <1>0, <1>1, <1>3 DEF vars, SameRuns, Scheduled
<1>4. ASSUME NEW q \in Jobs, (\E e \in BOOLEAN : SetEnabled(q, e)) \/ DeleteJob(q)
      PROVE  FireOk(j)'
  <2>1. /\ jobs'[j].next = jobs[j].next /\ jobs'[j].onceDone = jobs[j].onceDone
        /\ jobs'[j].exists => jobs[j].exists
        /\ now' = now /\ runs' = runs /\ co' = co
    BY <1>4, AdminEffect
  <2>2. QED
    BY <1>0, <1>1, <2>1 DEF SameRuns, Scheduled
<1>5. ASSUME NEW q \in Jobs, NEW i \in DOMAIN runs[q], FinishRun(q, i)
      PROVE  FireOk(j)'
  <2>1. /\ DOMAIN runs'[j] = DOMAIN runs[j]
        /\ \A k \in DOMAIN runs[j] :
              /\ runs'[j][k].fire = runs[j][k].fire
              /\ runs'[j][k].at = runs[j][k].at
              /\ runs'[j][k].manual = runs[j][k].manual
    BY <1>5, FinishEffect
  <2>2. SameRuns(j)
    BY <2>1 DEF SameRuns, Scheduled
  <2>3. QED
    BY <1>0, <1>1, <1>5, <2>2 DEF FinishRun
<1>6. ASSUME NEW q \in Jobs, RunNow(q)
      PROVE  FireOk(j)'
  <2> DEFINE run == [fire |-> now, at |-> now, active |-> TRUE, manual |-> TRUE]
             n == Len(runs[q]) + 1
  <2>1. run \in Run /\ run.manual
    BY <1>0 DEF Run
  <2>2. runs' = [runs EXCEPT ![q] = Append(@, run)]
    BY <1>6 DEF RunNow
  <2> HIDE DEF run
  <2>3. /\ DOMAIN runs'[q] = DOMAIN runs[q] \cup {n} /\ runs'[q][n] = run
        /\ \A k \in DOMAIN runs[q] : runs'[q][k] = runs[q][k]
        /\ \A r \in Jobs : r # q => runs'[r] = runs[r]
    BY <2>1, <2>2, AppendEffect
  <2> HIDE DEF n
  <2>4. SameRuns(j)
    BY <2>1, <2>3 DEF SameRuns, Scheduled
  <2>5. QED
    BY <1>0, <1>1, <1>6, <2>4 DEF RunNow
(* A coordinator moves that does not hold the job, before or after, or     *)
(* leaves it or goes on without having enqueued.                           *)
<1>7. ASSUME NEW c \in Coordinators, now' = now, runs' = runs,
             \A d \in Coordinators : d # c => co'[d] = co[d], SameFires(j),
             Holding(c, j) => co[c].pc \notin {"persist", "mark"},
             Holding(c, j)' =>
                /\ Holding(c, j) /\ co'[c].at = co[c].at /\ co'[c].next = co[c].next
                /\ co'[c].pc \notin {"count", "once", "create", "mark"}
      PROVE  FireOk(j)'
  <2>1. \A d \in Coordinators : d # c => (Holding(d, j)' <=> Holding(d, j))
    BY <1>7 DEF Holding, Working, Current
  <2>2. SameRuns(j)
    BY <1>7 DEF SameRuns, Scheduled
  <2>3. \A d \in Coordinators : Holding(d, j)' =>
          /\ Holding(d, j) /\ co'[d].at = co[d].at /\ co'[d].next = co[d].next
          /\ co'[d].pc # co[d].pc => co'[d].pc \notin {"count", "once", "create", "mark"}
    BY <1>7, <2>1
  <2>4. \A d \in Coordinators : Holding(d, j) /\ co[d].pc \in {"persist", "mark"} =>
          Holding(d, j)' /\ co'[d].pc = co[d].pc
    BY <1>7, <2>1
  <2>5. QED
    BY <1>0, <1>7, <2>2, <2>3, <2>4, FireKept DEF SameFires
<1>8. ASSUME NEW c \in Coordinators, FindDue(c) \/ MinNext(c)
      PROVE  FireOk(j)'
  <2>1. /\ ~Working(c)' /\ ~Working(c) /\ now' = now /\ runs' = runs /\ jobs' = jobs
        /\ \A d \in Coordinators : d # c => co'[d] = co[d]
    BY <1>8, FindDueEffect, MinNextEffect DEF Working, MinNext, FindDue
  <2>2. QED
    BY <1>7, <2>1 DEF Holding, SameFires
<1>9. ASSUME NEW c \in Coordinators, co[c].pc # "tick", NextJob(c), now' = now, runs' = runs,
             SameFires(j), Holding(c, j) => co[c].pc \notin {"persist", "mark"}
      PROVE  FireOk(j)'
  <2>1. ~Working(c)' /\ \A d \in Coordinators : d # c => co'[d] = co[d]
    BY <1>9, NextJobEffect DEF Working
  <2>2. QED
    BY <1>7, <1>9, <2>1 DEF Holding
<1>10. ASSUME NEW c \in Coordinators, NEW p \in Calls, Working(c), Goto(c, p), now' = now,
              runs' = runs, SameFires(j),
              Holding(c, j) => /\ co[c].pc \notin {"persist", "mark"}
                               /\ p \notin {"count", "once", "create", "mark"}
       PROVE  FireOk(j)'
  <2>1. /\ co'[c].pc = p /\ co'[c].todo = co[c].todo /\ co'[c].at = co[c].at
        /\ co'[c].next = co[c].next
        /\ \A d \in Coordinators : d # c => co'[d] = co[d]
    BY <1>10, GotoEffect
  <2>2. Holding(c, j)' => Holding(c, j)
    BY <1>10, <2>1 DEF Holding, Current
  <2>3. QED
    BY <1>7, <1>10, <2>1, <2>2
<1>11. ASSUME NEW c \in Coordinators, Working(c), Working(c)', Current(c) = j,
              co'[c].todo = co[c].todo, co'[c].at = co[c].at,
              runs' = runs, now' = now, SameFires(j)
       PROVE  HolderMoves(c, j)
  <2>1. Holding(c, j) /\ Holding(c, j)'
    BY <1>11 DEF Holding, Current
  <2>2. \A d \in Coordinators : Holding(d, j) \/ Holding(d, j)' => d = c
    BY <2>1 DEF OneHolder
  <2>3. QED
    BY <1>11, <2>1, <2>2 DEF HolderMoves
<1>12. ASSUME NEW c \in Coordinators, ClaimJob(c)
       PROVE  FireOk(j)'
  <2>1. CASE TickClaimFree(Current(c)) /\ Current(c) = j
    BY <1>12, <2>1, FireClaimed
  <2>2. CASE TickClaimFree(Current(c)) /\ Current(c) # j
    <3>1. /\ co'[c].todo = co[c].todo /\ ~Working(c) /\ now' = now /\ runs' = runs
          /\ SameFires(j)
          /\ \A d \in Coordinators : d # c => co'[d] = co[d]
      BY <1>12, <2>2, ClaimJobEffect DEF ClaimJob, Working, SameFires
    <3>2. ~Holding(c, j) /\ ~Holding(c, j)'
      BY <2>2, <3>1 DEF Holding, Current
    <3>3. QED
      BY <1>7, <3>1, <3>2
  <2>3. CASE ~TickClaimFree(Current(c))
    <3>1. co[c].pc = "each" /\ NextJob(c) /\ now' = now /\ runs' = runs /\ SameFires(j)
      BY <1>12, <2>3 DEF ClaimJob, SameFires
    <3>2. QED
      BY <1>9, <3>1
  <2>4. QED
    BY <2>1, <2>2, <2>3
<1>13. ASSUME NEW c \in Coordinators, ReadJob(c)
       PROVE  FireOk(j)'
  <2>0. Working(c) /\ co[c].pc = "read" /\ now' = now /\ runs' = runs /\ SameFires(j)
    BY <1>13 DEF ReadJob, Working, SameFires
  <2>1. CASE jobs[Current(c)].exists
    <3>1. /\ co'[c].pc = "count" /\ co'[c].todo = co[c].todo /\ co'[c].at = co[c].at
          /\ co'[c].next = jobs[Current(c)].next
          /\ \A d \in Coordinators : d # c => co'[d] = co[d]
      BY <1>13, <2>1, ReadJobEffect
    <3>2. CASE Current(c) = j
      <4>1. HolderMoves(c, j)
        BY <1>11, <2>0, <3>1, <3>2 DEF Working
      <4>2. QED
        BY <2>0, <2>1, <3>1, <3>2, <4>1, FireRead
    <3>3. CASE Current(c) # j
      <4>1. ~Holding(c, j) /\ ~Holding(c, j)'
        BY <3>1, <3>3 DEF Holding, Current
      <4>2. QED
        BY <1>7, <2>0, <3>1, <4>1
    <3>4. QED
      BY <3>2, <3>3
  <2>2. CASE ~jobs[Current(c)].exists
    BY <1>10, <1>13, <2>0, <2>2 DEF ReadJob, Calls
  <2>3. QED
    BY <2>1, <2>2
<1>14. ASSUME NEW c \in Coordinators, CountActive(c)
       PROVE  FireOk(j)'
  <2>0. Working(c) /\ co[c].pc = "count" /\ now' = now /\ runs' = runs /\ SameFires(j)
    BY <1>14 DEF CountActive, Working, SameFires
  <2>1. PICK n \in Nat : Goto(c, Gate(c, n))
    BY <1>14, CurrentType, ActiveRunsFinite DEF CountActive
  <2>2. /\ Gate(c, n) \in {"release", "skip_mark", "skip_persist", "once", "create"}
        /\ Gate(c, n) \in Calls
        /\ Gate(c, n) = "once" => Kind[Current(c)] = "run_once"
        /\ Gate(c, n) = "create" => Kind[Current(c)] # "run_once"
    BY <2>0, GateType
  <2>3. CASE Current(c) = j /\ Gate(c, n) \in {"once", "create"}
    <3>1. /\ co'[c].pc = Gate(c, n) /\ co'[c].todo = co[c].todo /\ co'[c].at = co[c].at
          /\ co'[c].next = co[c].next
      BY <2>1, <2>2, GotoEffect
    <3>2. HolderMoves(c, j)
      BY <1>11, <2>0, <2>3, <3>1 DEF Working
    <3>3. QED
      BY <2>0, <2>2, <2>3, <3>1, <3>2, FireGate
  <2>4. CASE ~(Current(c) = j /\ Gate(c, n) \in {"once", "create"})
    BY <1>10, <2>0, <2>1, <2>2, <2>4 DEF Holding
  <2>5. QED
    BY <2>3, <2>4
<1>15. ASSUME NEW c \in Coordinators, TryClaimRunOnce(c)
       PROVE  FireOk(j)'
  <2>0. Working(c) /\ co[c].pc = "once" /\ now' = now /\ runs' = runs /\ SameFires(j)
    BY <1>15, TryClaimRunOnceEffect DEF TryClaimRunOnce, Working
  <2>1. CASE OnceFree(c, jobs[Current(c)]) /\ Current(c) = j
    <3>1. Goto(c, "create") /\ jobs[j].exists /\ ~jobs[j].onceDone
      BY <1>15, <2>1 DEF TryClaimRunOnce, OnceFree
    <3>2. /\ co'[c].pc = "create" /\ co'[c].todo = co[c].todo /\ co'[c].at = co[c].at
          /\ co'[c].next = co[c].next
      BY <3>1, GotoEffect DEF Calls
    <3>3. HolderMoves(c, j)
      BY <1>11, <2>0, <2>1, <3>2 DEF Working
    <3>4. QED
      BY <2>0, <3>1, <3>2, <3>3, FireOnceGranted
  <2>2. CASE OnceFree(c, jobs[Current(c)]) /\ Current(c) # j
    BY <1>10, <1>15, <2>0, <2>2 DEF TryClaimRunOnce, Calls, Holding
  <2>3. CASE ~OnceFree(c, jobs[Current(c)])
    BY <1>10, <1>15, <2>0, <2>3 DEF TryClaimRunOnce, Calls
  <2>4. QED
    BY <2>1, <2>2, <2>3
<1>16. ASSUME NEW c \in Coordinators, CreateRun(c)
       PROVE  FireOk(j)'
  <2>1. CASE Current(c) = j
    BY <1>16, <2>1, FireCreated
  <2>2. CASE Current(c) # j
    <3>1. PICK p \in Calls : Goto(c, p)
      BY <1>16 DEF CreateRun, Calls
    <3>2. /\ co'[c].todo = co[c].todo
          /\ \A d \in Coordinators : d # c => co'[d] = co[d]
      BY <3>1, GotoEffect
    <3>3. runs'[j] = runs[j] /\ jobs' = jobs /\ now' = now
      BY <1>16, <2>2 DEF CreateRun, TypeOK
    <3>4. \A d \in Coordinators :
            (Holding(d, j)' <=> Holding(d, j)) /\ (Holding(d, j) => co'[d] = co[d])
      BY <2>2, <3>2 DEF Holding, Working, Current
    <3>5. SameRuns(j)
      BY <3>3 DEF SameRuns, Scheduled
    <3>6. QED
      BY <1>0, <3>3, <3>4, <3>5, FireKept
  <2>3. QED
    BY <2>1, <2>2
<1>17. ASSUME NEW c \in Coordinators, MarkCompleted(c)
       PROVE  FireOk(j)'
  <2>0. /\ Working(c) /\ now' = now /\ runs' = runs /\ co[c].pc \in {"mark", "skip_mark"}
        /\ Current(c) # j => SameFires(j)
        /\ \E p \in Calls : Goto(c, p)
    BY <1>17, MarkCompletedEffect DEF MarkCompleted, Working, Calls
  <2>1. co[c].pc = "skip_mark" => Current(c) # j
    BY DEF SkipsHaveWindow
  <2>2. CASE Current(c) = j
    BY <1>17, <2>0, <2>1, <2>2, FireMarked
  <2>3. CASE Current(c) # j
    BY <1>10, <2>0, <2>3 DEF Holding
  <2>4. QED
    BY <2>2, <2>3
<1>18. ASSUME NEW c \in Coordinators, Persist(c)
       PROVE  FireOk(j)'
  <2>0. /\ Working(c) /\ now' = now /\ runs' = runs
        /\ co[c].pc \in {"persist", "skip_persist"}
        /\ Current(c) # j => SameFires(j)
        /\ NextJob(c) \/ Goto(c, "release")
    BY <1>18, PersistEffect DEF Persist, Working
  <2>1. co[c].pc = "skip_persist" => Current(c) # j
    BY DEF SkipsHaveWindow
  <2>2. CASE Current(c) = j
    BY <1>18, <2>0, <2>1, <2>2, FirePersisted
  <2>3. CASE Current(c) # j /\ NextJob(c)
    BY <1>9, <2>0, <2>3 DEF Holding
  <2>4. CASE Current(c) # j /\ Goto(c, "release")
    BY <1>10, <2>0, <2>4 DEF Holding, Calls
  <2>5. QED
    BY <2>0, <2>2, <2>3, <2>4
<1>19. ASSUME NEW c \in Coordinators, ReleaseOnce(c)
       PROVE  FireOk(j)'
  <2>1. SameFires(j)
    BY <1>19, ReleaseOnceEffect
  <2>2. QED
    BY <1>10, <1>19, <2>1 DEF ReleaseOnce, Calls, Working
<1>20. ASSUME NEW c \in Coordinators, ReleaseClaim(c)
       PROVE  FireOk(j)'
  <2>1. SameFires(j)
    BY <1>20, ReleaseClaimEffect
  <2>2. QED
    BY <1>9, <1>20, <2>1 DEF ReleaseClaim
<1>21. ASSUME NEW c \in Coordinators, StoreError(c) \/ Crash(c)
       PROVE  FireOk(j)'
  BY <1>0, <1>21 DEF StoreError, Crash
<1>22. QED
  BY <1>2, <1>3, <1>4, <1>5, <1>6, <1>8, <1>12, <1>13, <1>14, <1>15, <1>16, <1>17, <1>18,
     <1>19, <1>20, <1>21 DEF Next, OneTick

(* At the start nothing was enqueued and nobody holds a job. *)
LEMMA FireInvInit == Init => FireInv
<1> SUFFICES ASSUME Init, NEW j \in Jobs
             PROVE  FireOk(j)
  BY DEF FireInv
<1>1. \A c \in Coordinators : ~Holding(c, j)
  BY DEF Init, Idle, Holding, Working
<1>2. Scheduled(j) = {}
  BY DEF Init, Scheduled
<1>3. jobs[j].next = FirstFire[j] /\ FirstFire[j] \in Nat
  BY JobsAssumption DEF Init
<1>4. jobs[j].next # None
  BY <1>3 DEF None
<1>5. QED
  BY <1>1, <1>2, <1>4 DEF FireOk, RunsInThePast, ReadIsCurrent, CronMoves, OnceMoves, Settled

(* Every step keeps the fires in order. *)
LEMMA FireInvStep == TickInv /\ TickInv' /\ FireInv /\ [Next]_vars => FireInv'
<1> SUFFICES ASSUME TickInv, TickInv', FireInv, [Next]_vars, faults' = 0,
                    NEW j \in Jobs, Window[j] = 0
             PROVE  FireOk(j)'
  BY DEF FireInv
<1>1. faults = 0
  BY NoFaultStep DEF TickInv
<1>2. TypeOK /\ TypeOK' /\ SkipsHaveWindow /\ ClaimsHeld /\ OneHolder /\ OneHolder' /\ FireOk(j)
  BY <1>1 DEF TickInv, ClaimInv, FireInv
<1>3. QED
  BY <1>2, FireStep

(* A fire of a job without a misfire window that is not enqueued ahead of  *)
(* its time is enqueued once, however the coordinators' calls interleave   *)
(* and however stale their due lists are (tick_loop.rs, enqueue_due_job).  *)
THEOREM OnTimeFireOnceCorrect == Spec => []OnTimeFireOnce
<1>1. TickInv /\ FireInv => OnTimeFireOnce
  <2> SUFFICES ASSUME TickInv, FireInv, faults = 0,
                      NEW j \in Jobs, NEW t \in 0..MaxTime, Window[j] = 0
               PROVE  Cardinality(OnTimeRuns(j, t)) <= 1
    BY DEF OnTimeFireOnce
  <2>1. FireOk(j) /\ TypeOK
    BY DEF FireInv, TickInv
  <2>2. \A i \in OnTimeRuns(j, t) :
          i \in Scheduled(j) /\ runs[j][i].fire = t /\ runs[j][i].at >= t
    BY DEF OnTimeRuns, Scheduled
  <2>3. \A i \in Scheduled(j) : runs[j][i].at \in Nat
    BY <2>1, TimesAreIntegers
  <2>4. \A i, k \in OnTimeRuns(j, t) : i = k
    <3>1. CASE Kind[j] = "cron"
      BY <2>1, <2>2, <2>3, <3>1 DEF FireOk, CronMoves
    <3>2. CASE Kind[j] = "run_once"
      BY <2>1, <2>2, <3>2 DEF FireOk, OnceMoves
    <3>3. QED
      BY <3>1, <3>2, JobsAssumption
  <2> HIDE DEF OnTimeRuns
  <2>5. CASE OnTimeRuns(j, t) = {}
    BY <2>5, FS_EmptySet
  <2>6. CASE OnTimeRuns(j, t) # {}
    <3>1. PICK i \in OnTimeRuns(j, t) : TRUE
      BY <2>6
    <3>2. OnTimeRuns(j, t) = {i}
      BY <2>4, <3>1
    <3>3. Cardinality({i}) = 1
      BY FS_Singleton
    <3>4. QED
      BY <3>2, <3>3
  <2>7. QED
    BY <2>5, <2>6
<1>2. QED
  BY <1>1, TickInvAlways, FireInvInit, FireInvStep, PTL DEF Spec

----------------------------------------------------------------------------
(* What a run-once job costs.  No run-once claim is needed for the count:  *)
(* the tick claim pays for one holder, and faults pay for all others.      *)

(* The holders of a job but for those whose run is already created. *)
Pending(j) == {c \in Coordinators : Holding(c, j) /\ co[c].pc # "mark"}

(* Holders on the skip path whose mark failed: they clear the claim twice. *)
Unmarked(j) == {c \in Coordinators : Holding(c, j) /\ co[c].pc = "skip_persist"}

Creating(j) == {c \in Coordinators : Holding(c, j) /\ co[c].pc = "create"}

(* Somebody holds the job under the claim that is in the row, and live. *)
LiveClaim(j) ==
    \E c \in Coordinators :
        Holding(c, j) /\ jobs[j].claim = co[c].at + TTL /\ now <= co[c].at + TTL

Credit(j) == IF LiveClaim(j) THEN 1 ELSE 0

(* The job may still be enqueued. *)
Open(j) == jobs[j].exists /\ ~jobs[j].onceDone

(* Until the job is marked, its runs and those that may still enqueue it   *)
(* are paid for by faults, but for one under a live claim.                 *)
OncePaid(j) ==
    Open(j) =>
        Cardinality(Scheduled(j)) + Cardinality(Pending(j)) + Cardinality(Unmarked(j))
            <= faults + Credit(j)

OnceBound(j) == Cardinality(Scheduled(j)) + Cardinality(Creating(j)) <= 1 + faults

OnceOk(j) == OncePaid(j) /\ OnceBound(j)

OnceInv == \A j \in Jobs : Kind[j] = "run_once" => OnceOk(j)

(* A set that differs from a finite one in at most one element. *)
LEMMA OneElementStep ==
  ASSUME NEW A, IsFiniteSet(A), NEW B, NEW x, \A y : y # x => (y \in A <=> y \in B)
  PROVE  /\ IsFiniteSet(B) /\ Cardinality(A) \in Nat /\ Cardinality(B) \in Nat
         /\ (x \in A <=> x \in B) => Cardinality(B) = Cardinality(A)
         /\ x \in B /\ x \notin A => Cardinality(B) = Cardinality(A) + 1
         /\ x \in A /\ x \notin B => Cardinality(B) = Cardinality(A) - 1
<1>1. CASE x \in A <=> x \in B
  <2>1. A = B
    BY <1>1
  <2>2. QED
    BY <1>1, <2>1, FS_CardinalityType
<1>2. CASE x \in B /\ x \notin A
  <2>1. B = A \cup {x}
    BY <1>2
  <2>2. QED
    BY <1>2, <2>1, FS_AddElement, FS_CardinalityType
<1>3. CASE x \in A /\ x \notin B
  <2>1. B = A \ {x}
    BY <1>3
  <2>2. QED
    BY <1>3, <2>1, FS_RemoveElement, FS_CardinalityType
<1>4. QED
  BY <1>1, <1>2, <1>3

(* The sets that are counted are finite, and the counts numbers. *)
Counts(j) ==
    /\ IsFiniteSet(Scheduled(j)) /\ Cardinality(Scheduled(j)) \in Nat
    /\ IsFiniteSet(Pending(j)) /\ Cardinality(Pending(j)) \in Nat
    /\ IsFiniteSet(Unmarked(j)) /\ Cardinality(Unmarked(j)) \in Nat
    /\ IsFiniteSet(Creating(j)) /\ Cardinality(Creating(j)) \in Nat
    /\ Cardinality(Creating(j)) <= Cardinality(Pending(j))
    /\ faults \in Nat /\ Credit(j) \in {0, 1}

LEMMA OnceSets == TypeOK => \A j \in Jobs : Counts(j)
<1> SUFFICES ASSUME TypeOK, NEW j \in Jobs
             PROVE  Counts(j)
  OBVIOUS
<1>1. runs[j] \in Seq(Run)
  BY DEF TypeOK
<1>2. IsFiniteSet(DOMAIN runs[j])
  BY <1>1, LenProperties, FS_Interval
<1>3. IsFiniteSet(Scheduled(j)) /\ Cardinality(Scheduled(j)) \in Nat
  BY <1>2, FS_Subset, FS_CardinalityType DEF Scheduled
<1>4. \A S \in SUBSET Coordinators : IsFiniteSet(S) /\ Cardinality(S) \in Nat
  BY JobsAssumption, FS_Subset, FS_CardinalityType
<1>5. Pending(j) \subseteq Coordinators /\ Unmarked(j) \subseteq Coordinators
      /\ Creating(j) \subseteq Pending(j)
  BY DEF Pending, Unmarked, Creating
<1>6. Cardinality(Creating(j)) <= Cardinality(Pending(j)) /\ Creating(j) \subseteq Coordinators
  BY <1>4, <1>5, FS_Subset
<1>7. faults \in Nat /\ Credit(j) \in {0, 1}
  BY TimesAssumption DEF TypeOK, Credit
<1>8. QED
  BY <1>3, <1>4, <1>5, <1>6, <1>7 DEF Counts

LEMMA OnceSetsNext == TypeOK' => (\A j \in Jobs : Counts(j))'
  BY OnceSets, PTL

(* What a coordinator counts for a job. *)
Weight(c, j) ==
    IF ~Holding(c, j) \/ co[c].pc = "mark" THEN 0 ELSE IF co[c].pc = "skip_persist" THEN 2 ELSE 1

(* One coordinator moves: the count changes by what it counts for. *)
LEMMA WeightMoves ==
  ASSUME TypeOK, TypeOK', NEW j \in Jobs, NEW c \in Coordinators,
         \A d \in Coordinators : d # c => co'[d] = co[d]
  PROVE  /\ Cardinality(Pending(j))' + Cardinality(Unmarked(j))' + Weight(c, j)
              = Cardinality(Pending(j)) + Cardinality(Unmarked(j)) + Weight(c, j)'
         /\ (c \in Creating(j)' => c \in Creating(j)) =>
              Cardinality(Creating(j))' <= Cardinality(Creating(j))
         /\ c \in Creating(j) /\ c \notin Creating(j)' =>
              Cardinality(Creating(j))' = Cardinality(Creating(j)) - 1
<1>1. \A d : d # c => /\ d \in Pending(j) <=> d \in Pending(j)'
                      /\ d \in Unmarked(j) <=> d \in Unmarked(j)'
                      /\ d \in Creating(j) <=> d \in Creating(j)'
  BY DEF Pending, Unmarked, Creating, Holding, Working, Current
<1>2. /\ IsFiniteSet(Pending(j)) /\ IsFiniteSet(Unmarked(j)) /\ IsFiniteSet(Creating(j))
  BY OnceSets DEF Counts
<1>3. /\ c \in Pending(j) <=> Holding(c, j) /\ co[c].pc # "mark"
      /\ c \in Unmarked(j) <=> Holding(c, j) /\ co[c].pc = "skip_persist"
      /\ c \in Pending(j)' <=> Holding(c, j)' /\ co'[c].pc # "mark"
      /\ c \in Unmarked(j)' <=> Holding(c, j)' /\ co'[c].pc = "skip_persist"
  BY DEF Pending, Unmarked
<1> DEFINE P == Cardinality(Pending(j))
           Q == Cardinality(Pending(j))'
           U == Cardinality(Unmarked(j))
           V == Cardinality(Unmarked(j))'
           pin == IF c \in Pending(j) THEN 1 ELSE 0
           qin == IF c \in Pending(j)' THEN 1 ELSE 0
           uin == IF c \in Unmarked(j) THEN 1 ELSE 0
           vin == IF c \in Unmarked(j)' THEN 1 ELSE 0
<1>4. P \in Nat /\ Q \in Nat /\ Q = P + qin - pin
  BY <1>1, <1>2, OneElementStep
<1>5. U \in Nat /\ V \in Nat /\ V = U + vin - uin
  BY <1>1, <1>2, OneElementStep
<1>6. Weight(c, j) = pin + uin
  BY <1>3 DEF Weight
<1>7. Weight(c, j)' = qin + vin
  BY <1>3 DEF Weight
<1>8. pin \in {0, 1} /\ qin \in {0, 1} /\ uin \in {0, 1} /\ vin \in {0, 1}
  OBVIOUS
<1>9. /\ (c \in Creating(j)' => c \in Creating(j)) =>
           Cardinality(Creating(j))' <= Cardinality(Creating(j))
      /\ c \in Creating(j) /\ c \notin Creating(j)' =>
           Cardinality(Creating(j))' = Cardinality(Creating(j)) - 1
  BY <1>1, <1>2, OneElementStep
<1> HIDE DEF P, Q, U, V, pin, qin, uin, vin
<1>10. Q + V + (pin + uin) = P + U + (qin + vin)
  BY <1>4, <1>5, <1>8
<1>11. QED
  BY <1>6, <1>7, <1>9, <1>10 DEF P, Q, U, V

(* A step that adds nothing to the count, or pays for what it adds. *)
LEMMA OnceBalance ==
  ASSUME TypeOK, TypeOK', NEW j \in Jobs, OnceOk(j), faults <= faults',
         Open(j)' => /\ Open(j)
                     /\ Cardinality(Scheduled(j))' + Cardinality(Pending(j))'
                          + Cardinality(Unmarked(j))' + Credit(j) + faults
                        <= Cardinality(Scheduled(j)) + Cardinality(Pending(j))
                             + Cardinality(Unmarked(j)) + Credit(j)' + faults',
         ~Open(j)' => Cardinality(Scheduled(j))' + Cardinality(Creating(j))'
                        <= Cardinality(Scheduled(j)) + Cardinality(Creating(j))
  PROVE  OnceOk(j)'
<1> DEFINE s == Cardinality(Scheduled(j))
           t == Cardinality(Scheduled(j))'
           p == Cardinality(Pending(j))
           q == Cardinality(Pending(j))'
           u == Cardinality(Unmarked(j))
           v == Cardinality(Unmarked(j))'
           k == Cardinality(Creating(j))
           l == Cardinality(Creating(j))'
<1>1. /\ {s, t, p, q, u, v, k, l, faults, faults'} \subseteq Nat
      /\ Credit(j) \in {0, 1} /\ Credit(j)' \in {0, 1} /\ k <= p /\ l <= q
  BY OnceSets, OnceSetsNext DEF Counts
<1>2. /\ Open(j) => s + p + u <= faults + Credit(j)
      /\ s + k <= 1 + faults
  BY DEF OnceOk, OncePaid, OnceBound
<1>3. Open(j)' => Open(j) /\ t + q + v + Credit(j) + faults <= s + p + u + Credit(j)' + faults'
  OBVIOUS
<1>4. ~Open(j)' => t + l <= s + k
  OBVIOUS
<1> HIDE DEF s, t, p, q, u, v, k, l
<1>5. Open(j)' => t + q + v <= faults' + Credit(j)'
  BY <1>1, <1>2, <1>3
<1>6. t + l <= 1 + faults'
  BY <1>1, <1>2, <1>4, <1>5
<1>7. QED
  BY <1>5, <1>6 DEF OnceOk, OncePaid, OnceBound, s, t, p, q, u, v, k, l

(* A live claim lasts while the row's claim and its holder stay. *)
LEMMA CreditStays ==
  ASSUME TypeOK, NEW j \in Jobs, now' = now, SameClaim(j),
         \A c \in Coordinators : Holding(c, j) => Holding(c, j)' /\ co'[c].at = co[c].at
  PROVE  Credit(j) <= Credit(j)'
<1>1. LiveClaim(j) => LiveClaim(j)'
  BY DEF LiveClaim, SameClaim
<1>2. QED
  BY <1>1 DEF Credit

(* The books of a call that enqueues nothing: what it weighs more is paid  *)
(* for, or the claim that is lost is.                                      *)
LEMMA Ledger ==
  ASSUME NEW s \in Nat, NEW t \in Nat, NEW m \in Nat, NEW n \in Nat, NEW f \in Nat, NEW g \in Nat,
         NEW w \in {0, 1, 2}, NEW x \in {0, 1, 2}, NEW a \in {0, 1}, NEW b \in {0, 1},
         t <= s, n + w = m + x,
         (a <= b /\ x + f <= w + g) \/ x + f + 1 <= w + g
  PROVE  t + n + a + f <= s + m + b + g
  OBVIOUS

(* A call of a coordinator that enqueues nothing. *)
LEMMA OnceCall ==
  ASSUME TypeOK, TypeOK', NEW j \in Jobs, OnceOk(j), NEW c \in Coordinators,
         \A d \in Coordinators : d # c => co'[d] = co[d],
         SameRuns(j), faults <= faults', Open(j)' => Open(j),
         \/ /\ Credit(j) <= Credit(j)'
            /\ Weight(c, j)' + faults <= Weight(c, j) + faults'
         \/ Weight(c, j)' + faults + 1 <= Weight(c, j) + faults'
         \/ ~Open(j)',
         c \in Creating(j)' => c \in Creating(j) \/ Open(j)'
  PROVE  OnceOk(j)'
<1> DEFINE s == Cardinality(Scheduled(j))
           t == Cardinality(Scheduled(j))'
           p == Cardinality(Pending(j))
           q == Cardinality(Pending(j))'
           u == Cardinality(Unmarked(j))
           v == Cardinality(Unmarked(j))'
           w == Weight(c, j)
           x == Weight(c, j)'
<1>1. /\ s \in Nat /\ t \in Nat /\ p \in Nat /\ q \in Nat /\ u \in Nat /\ v \in Nat
      /\ faults \in Nat /\ faults' \in Nat /\ Credit(j) \in {0, 1} /\ Credit(j)' \in {0, 1}
      /\ IsFiniteSet(Scheduled(j))
      /\ Cardinality(Creating(j)) \in Nat /\ Cardinality(Creating(j))' \in Nat
  BY OnceSets, OnceSetsNext DEF Counts
<1>2. w \in {0, 1, 2} /\ x \in {0, 1, 2}
  BY DEF Weight
<1>3. t <= s
  <2>1. Scheduled(j)' \subseteq Scheduled(j)
    BY DEF SameRuns
  <2>2. QED
    BY <1>1, <2>1, FS_Subset
<1>4. q + v + w = p + u + x
  BY WeightMoves
<1>5. ~Open(j)' => Cardinality(Creating(j))' <= Cardinality(Creating(j))
  BY WeightMoves
<1>6. Open(j)' => t + q + v + Credit(j) + faults <= s + p + u + Credit(j)' + faults'
  <2>1. Open(j)' => \/ Credit(j) <= Credit(j)' /\ x + faults <= w + faults'
                    \/ x + faults + 1 <= w + faults'
    OBVIOUS
  <2>2. p + u \in Nat /\ q + v \in Nat
    BY <1>1
  <2> HIDE DEF s, t, p, q, u, v, w, x
  <2>3. Open(j)' => t + (q + v) + Credit(j) + faults <= s + (p + u) + Credit(j)' + faults'
    BY <1>1, <1>2, <1>3, <1>4, <2>1, <2>2, Ledger
  <2>4. QED
    BY <1>1, <2>3
<1>7. ~Open(j)' => t + Cardinality(Creating(j))' <= s + Cardinality(Creating(j))
  <2> HIDE DEF s, t
  <2>1. QED
    BY <1>1, <1>3, <1>5
<1>8. QED
  BY <1>6, <1>7, OnceBalance

(* A coordinator goes on to another call for the same job. *)
LEMMA OnceGoto ==
  ASSUME TypeOK, TypeOK', NEW j \in Jobs, OnceOk(j), NEW c \in Coordinators, Working(c),
         NEW p \in Calls, p \notin {"tick", "soon", "each"}, Goto(c, p),
         now' = now, runs' = runs, faults <= faults', SameClaim(j), Open(j)' => Open(j),
         Current(c) = j =>
            /\ p = "skip_persist" /\ co[c].pc # "skip_persist" => faults' = faults + 1
            /\ co[c].pc = "mark" => faults' = faults + 1 \/ ~Open(j)'
            /\ p = "mark" => co[c].pc = "mark"
            /\ p = "create" /\ co[c].pc # "create" => Open(j)'
            /\ co[c].pc = "mark" => p # "skip_persist"
  PROVE  OnceOk(j)'
<1>1. /\ co'[c].pc = p /\ co'[c].todo = co[c].todo /\ co'[c].at = co[c].at
      /\ \A d \in Coordinators : d # c => co'[d] = co[d]
  BY GotoEffect
<1>2. \A d \in Coordinators : Holding(d, j)' <=> Holding(d, j)
  BY <1>1 DEF Holding, Working, Current
<1>3. Credit(j) <= Credit(j)'
  BY <1>1, <1>2, CreditStays
<1>4. faults \in Nat /\ faults' \in Nat
  BY OnceSets, OnceSetsNext DEF Counts
<1>5. Weight(c, j)' + faults <= Weight(c, j) + faults' \/ ~Open(j)'
  <2>1. CASE Current(c) # j
    <3>1. Weight(c, j) = 0 /\ Weight(c, j)' = 0
      BY <1>2, <2>1 DEF Weight, Holding
    <3>2. 0 + faults <= 0 + faults'
      BY <1>4
    <3>3. Weight(c, j)' + faults <= Weight(c, j) + faults'
      BY <3>1, <3>2, Zenon
    <3>4. QED
      BY <3>3
  <2>2. CASE Current(c) = j
    <3>1. Holding(c, j) /\ Holding(c, j)'
      BY <1>2, <2>2 DEF Holding
    <3>2. /\ Weight(c, j) = IF co[c].pc = "mark" THEN 0 ELSE IF co[c].pc = "skip_persist" THEN 2 ELSE 1
          /\ Weight(c, j)' = IF p = "mark" THEN 0 ELSE IF p = "skip_persist" THEN 2 ELSE 1
      BY <1>1, <3>1 DEF Weight
    <3>3. CASE co[c].pc = "mark"
      <4>1. Weight(c, j) = 0 /\ Weight(c, j)' \in {0, 1}
        BY <2>2, <3>2, <3>3
      <4>2. CASE faults' = faults + 1
        BY <1>4, <4>1, <4>2
      <4>3. QED
        BY <2>2, <3>3, <4>2
    <3>4. CASE co[c].pc = "skip_persist"
      <4>1. Weight(c, j) = 2 /\ Weight(c, j)' \in {0, 1, 2}
        BY <3>2, <3>4
      <4>2. Weight(c, j)' + faults <= Weight(c, j) + faults'
        BY <1>4, <4>1
      <4>3. QED
        BY <4>2
    <3>5. CASE co[c].pc \notin {"mark", "skip_persist"}
      <4>1. Weight(c, j) = 1 /\ Weight(c, j)' \in {0, 1, 2}
        BY <3>2, <3>5
      <4>2. Weight(c, j)' = 2 => faults' = faults + 1
        BY <2>2, <3>2, <3>5
      <4>3. Weight(c, j)' + faults <= Weight(c, j) + faults'
        BY <1>4, <4>1, <4>2
      <4>4. QED
        BY <4>3
    <3>6. QED
      BY <3>3, <3>4, <3>5
  <2>3. QED
    BY <2>1, <2>2
<1>6. c \in Creating(j)' => c \in Creating(j) \/ Open(j)'
  BY <1>1, <1>2 DEF Creating, Holding
<1>7. SameRuns(j)
  BY DEF SameRuns, Scheduled
<1>8. QED
  BY <1>1, <1>3, <1>5, <1>6, <1>7, OnceCall

(* A coordinator is done with its job, or had none. *)
LEMMA OnceLeaves ==
  ASSUME TypeOK, TypeOK', NEW j \in Jobs, OnceOk(j), NEW c \in Coordinators, ~Working(c)',
         \A d \in Coordinators : d # c => co'[d] = co[d],
         now' = now, runs' = runs, faults <= faults', Open(j)' => Open(j),
         \/ faults' = faults + 1 /\ SameClaim(j)
         \/ ~Holding(c, j) /\ SameClaim(j)
         \/ Holding(c, j) /\ co[c].pc # "mark"
  PROVE  OnceOk(j)'
<1>1. faults \in Nat /\ faults' \in Nat /\ Credit(j) \in {0, 1} /\ Credit(j)' \in {0, 1}
  BY OnceSets, OnceSetsNext DEF Counts
<1>2. ~Holding(c, j)' /\ Weight(c, j)' = 0 /\ c \notin Creating(j)' /\ Weight(c, j) \in {0, 1, 2}
  BY DEF Holding, Weight, Creating
<1>3. SameRuns(j)
  BY DEF SameRuns, Scheduled
<1>4. CASE Holding(c, j) /\ co[c].pc # "mark"
  <2>1. Weight(c, j) \in {1, 2}
    BY <1>4 DEF Weight
  <2>2. Weight(c, j)' + faults + 1 <= Weight(c, j) + faults'
    BY <1>1, <1>2, <2>1
  <2>3. QED
    BY <1>2, <1>3, <2>2, OnceCall
<1>5. CASE faults' = faults + 1
  <2>1. Weight(c, j)' + faults + 1 <= Weight(c, j) + faults'
    BY <1>1, <1>2, <1>5
  <2>2. QED
    BY <1>2, <1>3, <2>1, OnceCall
<1>6. CASE ~Holding(c, j) /\ SameClaim(j)
  <2>1. \A d \in Coordinators : Holding(d, j) => Holding(d, j)' /\ co'[d].at = co[d].at
    BY <1>6 DEF Holding, Working, Current
  <2>2. Credit(j) <= Credit(j)'
    BY <1>6, <2>1, CreditStays
  <2>3. Weight(c, j)' + faults <= Weight(c, j) + faults'
    BY <1>1, <1>2
  <2>4. QED
    BY <1>2, <1>3, <2>2, <2>3, OnceCall
<1>7. QED
  BY <1>4, <1>5, <1>6

(* The gate does not send a run-once job to persist without a mark. *)
LEMMA OnceGate ==
  ASSUME TypeOK, NEW c \in Coordinators, co[c].pc = "count", NEW n \in Nat,
         Kind[Current(c)] = "run_once"
  PROVE  Gate(c, n) \in {"release", "skip_mark", "once"}
<1>1. Concurrency[Current(c)] \in Nat
  BY CurrentType, JobsAssumption
<1>2. QED
  BY <1>1 DEF Gate

(* The claim is granted: nobody had one that was live. *)
LEMMA OnceClaimed ==
  ASSUME TypeOK, TypeOK', NEW j \in Jobs, OnceOk(j), NEW c \in Coordinators,
         ClaimJob(c), TickClaimFree(j), Current(c) = j
  PROVE  OnceOk(j)'
<1>1. /\ co'[c].pc = "read" /\ co'[c].todo = co[c].todo /\ co'[c].at = now
      /\ \A d \in Coordinators : d # c => co'[d] = co[d]
      /\ jobs'[j].claim = now + TTL /\ now' = now /\ runs' = runs /\ faults' = faults
      /\ jobs'[j].exists = jobs[j].exists /\ jobs'[j].onceDone = jobs[j].onceDone
      /\ ~Working(c)
  BY ClaimJobEffect DEF ClaimJob, Working
<1>2. now \in Nat /\ TTL \in Nat /\ \A d \in Coordinators : co[d].at \in Nat
  BY TimesAssumption DEF TypeOK, Coordinator
<1>3. Credit(j) = 0
  <2>1. ~LiveClaim(j)
    BY <1>2 DEF LiveClaim, TickClaimFree
  <2>2. QED
    BY <2>1 DEF Credit
<1>4. Holding(c, j)'
  BY <1>1 DEF Holding, Working, Current
<1>5. Credit(j)' = 1
  <2>1. LiveClaim(j)'
    BY <1>1, <1>2, <1>4 DEF LiveClaim
  <2>2. QED
    BY <2>1 DEF Credit
<1>6. Weight(c, j) = 0 /\ Weight(c, j)' = 1
  BY <1>1, <1>4 DEF Weight, Holding
<1>7. Open(j)' <=> Open(j)
  BY <1>1 DEF Open
<1> DEFINE p == Cardinality(Pending(j))
           q == Cardinality(Pending(j))'
           u == Cardinality(Unmarked(j))
           v == Cardinality(Unmarked(j))'
           s == Cardinality(Scheduled(j))
           t == Cardinality(Scheduled(j))'
<1>8. /\ s \in Nat /\ t \in Nat /\ p \in Nat /\ q \in Nat /\ u \in Nat /\ v \in Nat
      /\ faults \in Nat
      /\ Cardinality(Creating(j)) \in Nat /\ Cardinality(Creating(j))' \in Nat
  BY OnceSets, OnceSetsNext DEF Counts
<1>9. s = t
  BY <1>1 DEF Scheduled
<1>10. q + v = p + u + 1
  <2>1. q + v + Weight(c, j) = p + u + Weight(c, j)'
    BY <1>1, WeightMoves
  <2>2. QED
    BY <1>6, <1>8, <2>1
<1>11. Cardinality(Creating(j))' <= Cardinality(Creating(j))
  <2>1. c \notin Creating(j)'
    BY <1>1 DEF Creating
  <2>2. QED
    BY <1>1, <2>1, WeightMoves
<1>12. t + q + v + Credit(j) + faults <= s + p + u + Credit(j)' + faults'
  <2> HIDE DEF p, q, u, v, s, t
  <2>1. t + q + v = s + p + u + 1
    BY <1>8, <1>9, <1>10
  <2>2. faults' = faults
    BY <1>1
  <2>3. QED
    BY <1>3, <1>5, <1>8, <2>1, <2>2
<1>13. t + Cardinality(Creating(j))' <= s + Cardinality(Creating(j))
  <2> HIDE DEF s, t
  <2>1. QED
    BY <1>8, <1>9, <1>11
<1>14. faults <= faults'
  BY <1>1, <1>8
<1>15. QED
  BY <1>7, <1>12, <1>13, <1>14, OnceBalance

(* The run is created: what was pending is now a run. *)
LEMMA OnceCreated ==
  ASSUME TypeOK, TypeOK', NEW j \in Jobs, Kind[j] = "run_once", OnceOk(j),
         NEW c \in Coordinators, CreateRun(c), Current(c) = j
  PROVE  OnceOk(j)'
<1> DEFINE run == [fire |-> ScheduledFor(c), at |-> co[c].at, active |-> TRUE, manual |-> FALSE]
           n == Len(runs[j]) + 1
<1>1. run \in Run /\ ~run.manual
  BY CurrentType DEF CreateRun, Run, ScheduledFor
<1>2. runs' = [runs EXCEPT ![j] = Append(@, run)]
  BY DEF CreateRun
<1> HIDE DEF run
<1>3. /\ DOMAIN runs'[j] = DOMAIN runs[j] \cup {n} /\ n \notin DOMAIN runs[j]
      /\ runs'[j][n] = run
      /\ \A k \in DOMAIN runs[j] : runs'[j][k] = runs[j][k]
  BY <1>1, <1>2, AppendEffect
<1> HIDE DEF n
<1>4. Scheduled(j)' = Scheduled(j) \cup {n} /\ n \notin Scheduled(j)
  BY <1>1, <1>3 DEF Scheduled
<1>5. /\ co[c].pc = "create" /\ Goto(c, "mark") /\ now' = now /\ jobs' = jobs /\ faults' = faults
  BY DEF CreateRun
<1>6. /\ co'[c].pc = "mark" /\ co'[c].todo = co[c].todo /\ co'[c].at = co[c].at
      /\ \A d \in Coordinators : d # c => co'[d] = co[d]
  BY <1>5, GotoEffect DEF Calls
<1>7. \A d \in Coordinators : Holding(d, j)' <=> Holding(d, j)
  BY <1>5, <1>6 DEF Holding, Working, Current
<1>8. Credit(j) <= Credit(j)'
  BY <1>5, <1>6, <1>7, CreditStays DEF SameClaim
<1>9. Holding(c, j) /\ Weight(c, j) = 1 /\ Weight(c, j)' = 0
  BY <1>5, <1>6, <1>7 DEF Weight, Holding, Working
<1>10. c \in Creating(j) /\ c \notin Creating(j)'
  BY <1>5, <1>6, <1>9 DEF Creating
<1> DEFINE p == Cardinality(Pending(j))
           q == Cardinality(Pending(j))'
           u == Cardinality(Unmarked(j))
           v == Cardinality(Unmarked(j))'
           s == Cardinality(Scheduled(j))
           t == Cardinality(Scheduled(j))'
           k == Cardinality(Creating(j))
           l == Cardinality(Creating(j))'
<1>11. /\ s \in Nat /\ t \in Nat /\ p \in Nat /\ q \in Nat /\ u \in Nat /\ v \in Nat
       /\ k \in Nat /\ l \in Nat /\ faults \in Nat /\ IsFiniteSet(Scheduled(j))
       /\ Credit(j) \in {0, 1} /\ Credit(j)' \in {0, 1}
  BY OnceSets, OnceSetsNext DEF Counts
<1>12. t = s + 1
  BY <1>4, <1>11, FS_AddElement
<1>13. q + v + 1 = p + u /\ l = k - 1
  <2>1. q + v + Weight(c, j) = p + u + Weight(c, j)' /\ l = k - 1
    BY <1>6, <1>10, WeightMoves
  <2>2. QED
    BY <1>9, <1>11, <2>1
<1>14. Open(j)' <=> Open(j)
  BY <1>5 DEF Open
<1>15. t + q + v + Credit(j) + faults <= s + p + u + Credit(j)' + faults'
  <2> HIDE DEF p, q, u, v, s, t
  <2>1. t + q + v = s + p + u
    BY <1>11, <1>12, <1>13
  <2>2. QED
    BY <1>5, <1>8, <1>11, <2>1
<1>16. t + l <= s + k
  <2> HIDE DEF s, t, k, l
  <2>1. QED
    BY <1>11, <1>12, <1>13
<1>17. faults <= faults'
  BY <1>5, <1>11
<1>18. QED
  BY <1>14, <1>15, <1>16, <1>17, OnceBalance

(* Nobody moves: the clock, the switches of the job or the workers do. *)
LEMMA OnceQuiet ==
  ASSUME TypeOK, TypeOK', NEW j \in Jobs, OnceOk(j), co' = co, SameRuns(j), SameClaim(j),
         Open(j)' => Open(j),
         \/ now' = now /\ faults' = faults
         \/ Tick
  PROVE  OnceOk(j)'
<1>1. /\ faults \in Nat /\ faults' \in Nat /\ Credit(j) \in {0, 1} /\ Credit(j)' \in {0, 1}
      /\ IsFiniteSet(Scheduled(j)) /\ Cardinality(Scheduled(j)) \in Nat
      /\ Cardinality(Scheduled(j))' \in Nat /\ Cardinality(Pending(j)) \in Nat
      /\ Cardinality(Unmarked(j)) \in Nat /\ Cardinality(Creating(j)) \in Nat
  BY OnceSets, OnceSetsNext DEF Counts
<1>2. \A d \in Coordinators : Holding(d, j)' <=> Holding(d, j)
  BY DEF Holding, Working, Current
<1>3. Pending(j)' = Pending(j) /\ Unmarked(j)' = Unmarked(j) /\ Creating(j)' = Creating(j)
  BY <1>2 DEF Pending, Unmarked, Creating
<1>4. Cardinality(Scheduled(j))' <= Cardinality(Scheduled(j))
  <2>1. Scheduled(j)' \subseteq Scheduled(j)
    BY DEF SameRuns
  <2>2. QED
    BY <1>1, <2>1, FS_Subset
<1>5. Credit(j) + faults <= Credit(j)' + faults' /\ faults <= faults'
  <2>1. CASE now' = now /\ faults' = faults
    <3>1. Credit(j) <= Credit(j)'
      BY <1>2, <2>1, CreditStays
    <3>2. QED
      BY <1>1, <2>1, <3>1
  <2>2. CASE Tick
    <3>1. CASE faults' = faults + 1
      BY <1>1, <3>1
    <3>2. CASE faults' # faults + 1
      <4>1. now' = now + 1 /\ faults' = faults /\ \A c \in Coordinators : ~Stalls(c)
        BY <2>2, <3>2 DEF Tick, Fault
      <4>2. now \in Nat /\ TTL \in Nat /\ \A c \in Coordinators : co[c].at \in Nat
        BY TimesAssumption DEF TypeOK, Coordinator
      <4>3. \A c \in Coordinators : Holding(c, j) => now # co[c].at + TTL
        BY <4>1 DEF Stalls, Holding, Working
      <4>4. LiveClaim(j) => LiveClaim(j)'
        <5> SUFFICES ASSUME NEW c \in Coordinators, Holding(c, j),
                            jobs[j].claim = co[c].at + TTL, now <= co[c].at + TTL
                     PROVE  LiveClaim(j)'
          BY DEF LiveClaim
        <5>1. now + 1 <= co[c].at + TTL
          BY <4>2, <4>3
        <5>2. Holding(c, j)' /\ jobs'[j].claim = co'[c].at + TTL /\ now' <= co'[c].at + TTL
          BY <1>2, <4>1, <5>1 DEF SameClaim
        <5>3. QED
          BY <5>2 DEF LiveClaim
      <4>5. QED
        BY <1>1, <4>1, <4>4 DEF Credit
    <3>3. QED
      BY <3>1, <3>2
  <2>3. QED
    BY <2>1, <2>2
<1>6. QED
  BY <1>1, <1>3, <1>4, <1>5, OnceBalance

(* Every step keeps the count, whatever stalls, fails or crashes. *)
LEMMA OnceStep ==
  ASSUME TypeOK, TypeOK', [Next]_vars, NEW j \in Jobs, Kind[j] = "run_once", OnceOk(j)
  PROVE  OnceOk(j)'
<1>0. faults \in Nat /\ now \in Nat
  BY TimesAssumption DEF TypeOK
<1>1. CASE Tick
  BY <1>1, OnceQuiet DEF Tick, SameRuns, Scheduled, SameClaim, Open
<1>2. CASE UNCHANGED vars
  BY <1>2, OnceQuiet DEF vars, SameRuns, Scheduled, SameClaim, Open
<1>3. ASSUME NEW q \in Jobs, (\E e \in BOOLEAN : SetEnabled(q, e)) \/ DeleteJob(q)
      PROVE  OnceOk(j)'
  <2>1. /\ jobs'[j].onceDone = jobs[j].onceDone /\ (jobs'[j].exists => jobs[j].exists)
        /\ SameClaim(j) /\ now' = now /\ runs' = runs /\ co' = co /\ faults' = faults
    BY <1>3, AdminEffect
  <2>2. QED
    BY <2>1, OnceQuiet DEF SameRuns, Scheduled, Open
<1>4. ASSUME NEW q \in Jobs, NEW i \in DOMAIN runs[q], FinishRun(q, i)
      PROVE  OnceOk(j)'
  <2>1. /\ DOMAIN runs'[j] = DOMAIN runs[j]
        /\ \A k \in DOMAIN runs[j] :
              /\ runs'[j][k].fire = runs[j][k].fire
              /\ runs'[j][k].at = runs[j][k].at
              /\ runs'[j][k].manual = runs[j][k].manual
    BY <1>4, FinishEffect
  <2>2. SameRuns(j)
    BY <2>1 DEF SameRuns, Scheduled
  <2>3. QED
    BY <1>4, <2>2, OnceQuiet DEF FinishRun, SameClaim, Open
<1>5. ASSUME NEW q \in Jobs, RunNow(q)
      PROVE  OnceOk(j)'
  <2> DEFINE run == [fire |-> now, at |-> now, active |-> TRUE, manual |-> TRUE]
             n == Len(runs[q]) + 1
  <2>1. run \in Run /\ run.manual
    BY <1>0 DEF Run
  <2>2. runs' = [runs EXCEPT ![q] = Append(@, run)]
    BY <1>5 DEF RunNow
  <2> HIDE DEF run
  <2>3. /\ DOMAIN runs'[q] = DOMAIN runs[q] \cup {n} /\ runs'[q][n] = run
        /\ \A k \in DOMAIN runs[q] : runs'[q][k] = runs[q][k]
        /\ \A r \in Jobs : r # q => runs'[r] = runs[r]
    BY <2>1, <2>2, AppendEffect
  <2> HIDE DEF n
  <2>4. SameRuns(j)
    BY <2>1, <2>3 DEF SameRuns, Scheduled
  <2>5. QED
    BY <1>5, <2>4, OnceQuiet DEF RunNow, SameClaim, Open
<1>6. ASSUME NEW c \in Coordinators, FindDue(c) \/ MinNext(c)
      PROVE  OnceOk(j)'
  <2>1. /\ ~Working(c)' /\ ~Working(c) /\ UNCHANGED <<now, runs, jobs, faults>>
        /\ \A d \in Coordinators : d # c => co'[d] = co[d]
    BY <1>6, FindDueEffect, MinNextEffect DEF Working, MinNext, FindDue
  <2>2. QED
    BY <1>0, <2>1, OnceLeaves DEF Holding, SameClaim, Open
<1>7. ASSUME NEW c \in Coordinators, ClaimJob(c)
      PROVE  OnceOk(j)'
  <2>1. CASE TickClaimFree(Current(c)) /\ Current(c) = j
    BY <1>7, <2>1, OnceClaimed
  <2>2. CASE TickClaimFree(Current(c)) /\ Current(c) # j
    <3>1. /\ co'[c].todo = co[c].todo /\ jobs'[j] = jobs[j]
          /\ UNCHANGED <<now, runs, faults>>
          /\ \A d \in Coordinators : d # c => co'[d] = co[d]
      BY <1>7, <2>2, ClaimJobEffect DEF ClaimJob
    <3>2. ~Holding(c, j) /\ ~Holding(c, j)'
      BY <2>2, <3>1 DEF Holding, Current
    <3>3. \A d \in Coordinators : Holding(d, j) => Holding(d, j)' /\ co'[d].at = co[d].at
      BY <3>1, <3>2 DEF Holding, Working, Current
    <3>4. Credit(j) <= Credit(j)'
      BY <3>1, <3>3, CreditStays DEF SameClaim
    <3>5. Weight(c, j)' + faults <= Weight(c, j) + faults'
      BY <1>0, <3>1, <3>2 DEF Weight
    <3>6. c \notin Creating(j)' /\ SameRuns(j) /\ (Open(j)' => Open(j)) /\ faults <= faults'
      BY <1>0, <3>1, <3>2 DEF Creating, SameRuns, Scheduled, Open
    <3>7. QED
      BY <3>1, <3>4, <3>5, <3>6, OnceCall
  <2>3. CASE ~TickClaimFree(Current(c))
    <3>1. /\ co[c].pc = "each" /\ NextJob(c) /\ UNCHANGED <<now, runs, jobs, faults>>
      BY <1>7, <2>3 DEF ClaimJob
    <3>2. /\ ~Working(c)' /\ ~Working(c)
          /\ \A d \in Coordinators : d # c => co'[d] = co[d]
      BY <3>1, NextJobEffect DEF Working
    <3>3. QED
      BY <1>0, <3>1, <3>2, OnceLeaves DEF Holding, SameClaim, Open
  <2>4. QED
    BY <2>1, <2>2, <2>3
<1>8. ASSUME NEW c \in Coordinators, ReadJob(c)
      PROVE  OnceOk(j)'
  <2>0. Working(c) /\ co[c].pc = "read" /\ UNCHANGED <<now, runs, jobs, faults>>
    BY <1>8 DEF ReadJob, Working
  <2>1. CASE jobs[Current(c)].exists
    <3>1. /\ co'[c].pc = "count" /\ co'[c].todo = co[c].todo /\ co'[c].at = co[c].at
          /\ \A d \in Coordinators : d # c => co'[d] = co[d]
      BY <1>8, <2>1, ReadJobEffect
    <3>2. \A d \in Coordinators : Holding(d, j)' <=> Holding(d, j)
      BY <2>0, <3>1 DEF Holding, Working, Current
    <3>3. Credit(j) <= Credit(j)'
      BY <2>0, <3>1, <3>2, CreditStays DEF SameClaim
    <3>4. Weight(c, j)' = Weight(c, j) /\ Weight(c, j) \in {0, 1, 2} /\ c \notin Creating(j)'
      BY <2>0, <3>1, <3>2 DEF Weight, Creating
    <3>5. Weight(c, j)' + faults <= Weight(c, j) + faults'
      BY <1>0, <2>0, <3>4
    <3>6. SameRuns(j) /\ (Open(j)' => Open(j)) /\ faults <= faults'
      BY <1>0, <2>0 DEF SameRuns, Scheduled, Open
    <3>7. QED
      BY <3>1, <3>3, <3>4, <3>5, <3>6, OnceCall
  <2>2. CASE ~jobs[Current(c)].exists
    <3>1. Goto(c, "release") /\ SameClaim(j) /\ (Open(j)' => Open(j)) /\ faults <= faults'
      BY <1>0, <1>8, <2>0, <2>2 DEF ReadJob, SameClaim, Open
    <3>2. QED
      BY <2>0, <3>1, OnceGoto DEF Calls
  <2>3. QED
    BY <2>1, <2>2
<1>9. ASSUME NEW c \in Coordinators, CountActive(c)
      PROVE  OnceOk(j)'
  <2>0. /\ Working(c) /\ co[c].pc = "count" /\ UNCHANGED <<now, runs, jobs>>
        /\ faults <= faults' /\ SameClaim(j) /\ (Open(j)' => Open(j))
    BY <1>0, <1>9 DEF CountActive, Working, Fault, SameClaim, Open
  <2>1. PICK n \in Nat : Goto(c, Gate(c, n))
    BY <1>9, CurrentType, ActiveRunsFinite DEF CountActive
  <2>2. /\ Gate(c, n) \in {"release", "skip_mark", "skip_persist", "once", "create"}
        /\ Gate(c, n) \in Calls
        /\ Current(c) = j => Gate(c, n) \in {"release", "skip_mark", "once"}
    BY <2>0, GateType, OnceGate
  <2>3. QED
    BY <2>0, <2>1, <2>2, OnceGoto
<1>10. ASSUME NEW c \in Coordinators, TryClaimRunOnce(c)
       PROVE  OnceOk(j)'
  <2>0. /\ Working(c) /\ co[c].pc = "once" /\ UNCHANGED <<now, runs, faults>>
        /\ SameClaim(j) /\ SameFires(j) /\ faults <= faults'
    BY <1>0, <1>10, TryClaimRunOnceEffect DEF TryClaimRunOnce, Working
  <2>1. Open(j)' <=> Open(j)
    BY <2>0 DEF SameFires, Open
  <2>2. CASE OnceFree(c, jobs[Current(c)])
    <3>1. Goto(c, "create") /\ (Current(c) = j => Open(j)')
      BY <1>10, <2>1, <2>2 DEF TryClaimRunOnce, OnceFree, Open
    <3>2. QED
      BY <2>0, <2>1, <3>1, OnceGoto DEF Calls
  <2>3. CASE ~OnceFree(c, jobs[Current(c)])
    <3>1. Goto(c, "release")
      BY <1>10, <2>3 DEF TryClaimRunOnce
    <3>2. QED
      BY <2>0, <2>1, <3>1, OnceGoto DEF Calls
  <2>4. QED
    BY <2>2, <2>3
<1>11. ASSUME NEW c \in Coordinators, CreateRun(c)
       PROVE  OnceOk(j)'
  <2>1. CASE Current(c) = j
    BY <1>11, <2>1, OnceCreated
  <2>2. CASE Current(c) # j
    <3>1. PICK p \in Calls : Goto(c, p)
      BY <1>11 DEF CreateRun, Calls
    <3>2. /\ co'[c].todo = co[c].todo
          /\ \A d \in Coordinators : d # c => co'[d] = co[d]
      BY <3>1, GotoEffect
    <3>3. runs'[j] = runs[j] /\ UNCHANGED <<jobs, now, faults>>
      BY <1>11, <2>2 DEF CreateRun, TypeOK
    <3>4. ~Holding(c, j) /\ ~Holding(c, j)'
      BY <2>2, <3>2 DEF Holding, Current
    <3>5. \A d \in Coordinators : Holding(d, j) => Holding(d, j)' /\ co'[d].at = co[d].at
      BY <3>2, <3>4 DEF Holding, Working, Current
    <3>6. Credit(j) <= Credit(j)'
      BY <3>3, <3>5, CreditStays DEF SameClaim
    <3>7. Weight(c, j)' + faults <= Weight(c, j) + faults'
      BY <1>0, <3>3, <3>4 DEF Weight
    <3>8. c \notin Creating(j)' /\ SameRuns(j) /\ (Open(j)' => Open(j)) /\ faults <= faults'
      BY <1>0, <3>3, <3>4 DEF Creating, SameRuns, Scheduled, Open
    <3>9. QED
      BY <3>2, <3>6, <3>7, <3>8, OnceCall
  <2>3. QED
    BY <2>1, <2>2
<1>12. ASSUME NEW c \in Coordinators, MarkCompleted(c)
       PROVE  OnceOk(j)'
  <2>01. Working(c) /\ UNCHANGED <<now, runs, faults>> /\ co[c].pc \in {"mark", "skip_mark"}
    BY <1>12 DEF MarkCompleted, Working
  <2>02. SameClaim(j)
    BY <1>12, MarkCompletedEffect
  <2>0. /\ Working(c) /\ UNCHANGED <<now, runs, faults>> /\ co[c].pc \in {"mark", "skip_mark"}
        /\ SameClaim(j) /\ faults <= faults'
    BY <1>0, <2>01, <2>02
  <2>1. PICK p \in {"persist", "skip_persist"} : Goto(c, p) /\ (co[c].pc = "mark" => p = "persist")
    BY <1>12 DEF MarkCompleted
  <2>2. (Open(j)' => Open(j)) /\ (Current(c) = j => ~Open(j)')
    BY <1>12, MarkCompletedEffect DEF Open, SameFires
  <2>3. CASE Current(c) # j
    BY <2>0, <2>1, <2>2, <2>3, OnceGoto DEF Calls
  <2>4. CASE Current(c) = j
    <3>1. /\ co'[c].pc = p /\ \A d \in Coordinators : d # c => co'[d] = co[d]
      BY <2>1, GotoEffect DEF Calls
    <3>2. c \notin Creating(j)' /\ SameRuns(j)
      BY <2>0, <3>1 DEF Creating, SameRuns, Scheduled
    <3>3. QED
      BY <2>0, <2>2, <2>4, <3>1, <3>2, OnceCall
  <2>5. QED
    BY <2>3, <2>4
<1>13. ASSUME NEW c \in Coordinators, Persist(c)
       PROVE  OnceOk(j)'
  <2>01. /\ Working(c) /\ UNCHANGED <<now, runs, faults>>
         /\ co[c].pc \in {"persist", "skip_persist"}
    BY <1>13 DEF Persist, Working
  <2>02. /\ Current(c) # j => SameClaim(j)
         /\ jobs'[j].exists = jobs[j].exists /\ jobs'[j].onceDone = jobs[j].onceDone
    BY <1>13, PersistEffect DEF SameClaim
  <2>0. /\ Working(c) /\ UNCHANGED <<now, runs, faults>>
        /\ co[c].pc \in {"persist", "skip_persist"}
        /\ Current(c) # j => SameClaim(j)
        /\ (Open(j)' => Open(j)) /\ faults <= faults'
    BY <1>0, <2>01, <2>02 DEF Open
  <2>1. CASE co[c].pc = "persist"
    <3>1. /\ ~Working(c)' /\ \A d \in Coordinators : d # c => co'[d] = co[d]
      BY <1>13, <2>1, NextJobEffect DEF Persist, Working
    <3>2. QED
      BY <2>0, <2>1, <3>1, OnceLeaves DEF Holding
  <2>2. CASE co[c].pc = "skip_persist"
    <3>1. Goto(c, "release")
      BY <1>13, <2>2 DEF Persist
    <3>2. CASE Current(c) # j
      BY <2>0, <3>1, <3>2, OnceGoto DEF Calls
    <3>3. CASE Current(c) = j
      <4>1. /\ co'[c].pc = "release" /\ co'[c].todo = co[c].todo
            /\ \A d \in Coordinators : d # c => co'[d] = co[d]
        BY <3>1, GotoEffect DEF Calls
      <4>2. Weight(c, j) = 2 /\ Weight(c, j)' = 1 /\ c \notin Creating(j)'
        BY <2>0, <2>2, <3>3, <4>1 DEF Weight, Holding, Working, Current, Creating
      <4>3. Weight(c, j)' + faults + 1 <= Weight(c, j) + faults'
        BY <1>0, <2>0, <4>2
      <4>4. SameRuns(j)
        BY <2>0 DEF SameRuns, Scheduled
      <4>5. QED
        BY <2>0, <4>1, <4>2, <4>3, <4>4, OnceCall
    <3>4. QED
      BY <3>2, <3>3
  <2>3. QED
    BY <2>0, <2>1, <2>2
<1>14. ASSUME NEW c \in Coordinators, ReleaseOnce(c)
       PROVE  OnceOk(j)'
  <2>1. SameClaim(j) /\ (Open(j)' => Open(j))
    BY <1>14, ReleaseOnceEffect DEF SameFires, Open
  <2>2. /\ Working(c) /\ co[c].pc = "release_once" /\ Goto(c, "release")
        /\ UNCHANGED <<now, runs, faults>> /\ faults <= faults'
    BY <1>0, <1>14 DEF ReleaseOnce, Working
  <2>3. QED
    BY <2>1, <2>2, OnceGoto DEF Calls
<1>15. ASSUME NEW c \in Coordinators, ReleaseClaim(c)
       PROVE  OnceOk(j)'
  <2>1. (Current(c) # j => SameClaim(j)) /\ (Open(j)' => Open(j))
    BY <1>15, ReleaseClaimEffect DEF SameFires, Open
  <2>2. /\ Working(c) /\ co[c].pc = "release" /\ NextJob(c)
        /\ UNCHANGED <<now, runs, faults>> /\ faults <= faults'
    BY <1>0, <1>15 DEF ReleaseClaim, Working
  <2>3. /\ ~Working(c)' /\ \A d \in Coordinators : d # c => co'[d] = co[d]
    BY <2>2, NextJobEffect DEF Working
  <2>4. QED
    BY <2>1, <2>2, <2>3, OnceLeaves DEF Holding
<1>16. ASSUME NEW c \in Coordinators, StoreError(c)
       PROVE  OnceOk(j)'
  <2>0. /\ UNCHANGED <<now, runs, jobs>> /\ faults' = faults + 1 /\ faults <= faults'
        /\ co[c].pc \notin {"tick", "count"} /\ SameClaim(j) /\ (Open(j)' => Open(j))
    BY <1>0, <1>16 DEF StoreError, Fault, SameClaim, Open
  <2>1. CASE co[c].pc \in {"each", "read", "persist", "release"}
    <3>1. /\ ~Working(c)' /\ \A d \in Coordinators : d # c => co'[d] = co[d]
      BY <1>16, <2>0, <2>1, NextJobEffect DEF StoreError, Working
    <3>2. QED
      BY <2>0, <3>1, OnceLeaves
  <2>2. CASE co[c].pc = "soon"
    <3>1. Goto(c, "each")
      BY <1>16, <2>2 DEF StoreError, AfterError
    <3>2. /\ co'[c].pc = "each" /\ \A d \in Coordinators : d # c => co'[d] = co[d]
      BY <3>1, GotoEffect DEF Calls
    <3>3. QED
      BY <2>0, <3>2, OnceLeaves DEF Working
  <2>3. CASE co[c].pc \notin {"each", "read", "persist", "release", "soon"}
    <3>1. co[c].pc \in {"once", "create", "mark", "skip_mark", "skip_persist", "release_once"}
      BY <2>0, <2>3 DEF TypeOK, Coordinator, Calls
    <3>2. Goto(c, AfterError(c))
      BY <1>16, <3>1 DEF StoreError
    <3>3. /\ AfterError(c) \in {"release", "release_once", "persist", "skip_persist"}
          /\ co[c].pc = "mark" => AfterError(c) = "persist"
      BY <3>1 DEF AfterError
    <3>4. Working(c)
      BY <3>1 DEF Working
    <3>5. QED
      BY <2>0, <3>2, <3>3, <3>4, OnceGoto DEF Calls
  <2>4. QED
    BY <2>1, <2>2, <2>3
<1>17. ASSUME NEW c \in Coordinators, Crash(c)
       PROVE  OnceOk(j)'
  <2>1. /\ co'[c].pc = "tick" /\ \A d \in Coordinators : d # c => co'[d] = co[d]
        /\ UNCHANGED <<now, runs, jobs>> /\ faults' = faults + 1 /\ faults <= faults'
    BY <1>0, <1>17 DEF Crash, Idle, TypeOK, Fault
  <2>2. QED
    BY <2>1, OnceLeaves DEF Working, SameClaim, Open
<1>18. QED
  BY <1>1, <1>2, <1>3, <1>4, <1>5, <1>6, <1>7, <1>8, <1>9, <1>10, <1>11, <1>12, <1>13, <1>14,
     <1>15, <1>16, <1>17 DEF Next, OneTick

LEMMA OnceInvInit == Init => OnceInv
<1> SUFFICES ASSUME Init, NEW j \in Jobs
             PROVE  OnceOk(j)
  BY DEF OnceInv
<1>1. \A c \in Coordinators : ~Holding(c, j)
  BY DEF Init, Idle, Holding, Working
<1>2. Scheduled(j) = {} /\ Pending(j) = {} /\ Unmarked(j) = {} /\ Creating(j) = {} /\ faults = 0
  BY <1>1 DEF Init, Scheduled, Pending, Unmarked, Creating
<1>3. Cardinality({}) = 0 /\ Credit(j) \in {0, 1}
  BY FS_EmptySet DEF Credit
<1>4. QED
  BY <1>2, <1>3 DEF OnceOk, OncePaid, OnceBound

(* A run-once job is enqueued at most once, plus once for every crash,     *)
(* stall or error, however many coordinators race on it, with or without a *)
(* misfire window (enqueue_due_job, try_claim_run_once).                   *)
THEOREM RunOnceOnceCorrect == Spec => []RunOnceOnce
<1>1. TypeOK /\ TypeOK' /\ OnceInv /\ [Next]_vars => OnceInv'
  BY OnceStep DEF OnceInv
<1>2. TypeOK /\ OnceInv => RunOnceOnce
  <2> SUFFICES ASSUME TypeOK, NEW j \in Jobs, OnceOk(j)
               PROVE  Cardinality(Scheduled(j)) <= 1 + faults
    BY DEF OnceInv, RunOnceOnce
  <2>1. /\ Cardinality(Scheduled(j)) \in Nat /\ Cardinality(Creating(j)) \in Nat
        /\ faults \in Nat
    BY OnceSets DEF Counts
  <2>2. QED
    BY <2>1 DEF OnceOk, OnceBound
<1>3. QED
  BY <1>1, <1>2, OnceInvInit, TypeInit, TypeStep, PTL DEF Spec

----------------------------------------------------------------------------
(* One coordinator, whatever crashes, stalls or fails, with any misfire    *)
(* policy: what it finds in the rows makes it neither repeat a fire that   *)
(* no fault pays for, nor pass one over.                                   *)

(* The calls between get_job and the writes that end the job. *)
ReadCalls == {"count", "once", "create", "mark", "persist", "skip_mark", "skip_persist"}

Created(c, j) == Holding(c, j) /\ co[c].pc \in {"mark", "persist"}

(* The due list names a job once, and only jobs with a next_run_at: the    *)
(* current one loses its own when a skip is written.                       *)
ListOk(c) ==
    /\ \A i, k \in DOMAIN co[c].todo : co[c].todo[i] = co[c].todo[k] => i = k
    /\ \A i \in DOMAIN co[c].todo :
         jobs[co[c].todo[i]].next = None => i = 1 /\ co[c].pc = "release"

(* Nobody else moves next_run_at. *)
ReadOk(c) == co[c].pc \in ReadCalls => co[c].next = jobs[Current(c)].next

(* No run is from the future. *)
PastOk(c) ==
    /\ co[c].at <= now
    /\ \A j \in Jobs : \A i \in Scheduled(j) :
         runs[j][i].at <= now /\ (Working(c) => runs[j][i].at <= co[c].at)

(* The runs of the fire in next_run_at are paid for by faults: one more is *)
(* created, and then next_run_at moves past it or a fault is charged.      *)
PaidOk(c) ==
    \A j \in Jobs, t \in Nat :
        /\ Cardinality(OnTimeRuns(j, t)) <= 1 + faults
        /\ jobs[j].next = t /\ (jobs[j].exists \/ Holding(c, j)) /\ ~Created(c, j)
             => Cardinality(OnTimeRuns(j, t)) <= faults

(* next_run_at moves on after a run, or after a misfire that is given up. *)
CreatedOk(c) ==
    co[c].pc \in {"mark", "persist"} =>
        \E i \in Scheduled(Current(c)) :
            /\ runs[Current(c)][i].fire = co[c].next
            /\ runs[Current(c)][i].at = co[c].at

SkipOk(c) ==
    co[c].pc \in {"skip_mark", "skip_persist"} => ~MisfireOk(Current(c), co[c].next, co[c].at)

AloneOk(c) ==
    ListOk(c) /\ ReadOk(c) /\ PastOk(c) /\ PaidOk(c) /\ CreatedOk(c) /\ SkipOk(c)

OnlyOne == \A c, d \in Coordinators : c = d

AloneInv == OnlyOne => \A c \in Coordinators : AloneOk(c)

(* The scheduled runs stay, with their times. *)
KeptRuns(j) ==
    /\ Scheduled(j)' = Scheduled(j)
    /\ \A i \in Scheduled(j) :
         runs'[j][i].fire = runs[j][i].fire /\ runs'[j][i].at = runs[j][i].at

(* The runs of a fire are scheduled runs, and finitely many. *)
LEMMA OnTimeFinite ==
  ASSUME TypeOK, NEW j \in Jobs, NEW t
  PROVE  /\ OnTimeRuns(j, t) = {i \in Scheduled(j) : runs[j][i].fire = t /\ runs[j][i].at >= t}
         /\ IsFiniteSet(OnTimeRuns(j, t)) /\ Cardinality(OnTimeRuns(j, t)) \in Nat
<1>1. runs[j] \in Seq(Run)
  BY DEF TypeOK
<1>2. IsFiniteSet(DOMAIN runs[j])
  BY <1>1, LenProperties, FS_Interval
<1>3. OnTimeRuns(j, t) \subseteq DOMAIN runs[j]
  BY DEF OnTimeRuns
<1>4. QED
  BY <1>2, <1>3, FS_Subset, FS_CardinalityType DEF OnTimeRuns, Scheduled

LEMMA OnTimeKept ==
  ASSUME TypeOK, NEW j \in Jobs, NEW t, KeptRuns(j)
  PROVE  OnTimeRuns(j, t)' = OnTimeRuns(j, t)
<1>1. OnTimeRuns(j, t)' = {i \in Scheduled(j)' : runs'[j][i].fire = t /\ runs'[j][i].at >= t}
  BY DEF OnTimeRuns, Scheduled
<1>2. QED
  BY <1>1, OnTimeFinite DEF KeptRuns

LEMMA SameIsKept ==
  ASSUME runs' = runs, NEW j \in Jobs
  PROVE  KeptRuns(j)
  BY DEF KeptRuns, Scheduled

LEMMA FaultsType ==
  ASSUME TypeOK
  PROVE  faults \in Nat /\ now \in Nat
  BY TimesAssumption DEF TypeOK

(* The coordinator goes on with its job or stays where it is. *)
LEMMA AloneGoesOn ==
  ASSUME TypeOK, TypeOK', NEW c \in Coordinators, AloneOk(c),
         co'[c].todo = co[c].todo, co'[c].at = co[c].at, co'[c].next = co[c].next,
         Working(c)' <=> Working(c),
         now <= now', faults <= faults',
         \A j \in Jobs : KeptRuns(j) /\ jobs'[j].next = jobs[j].next
                                     /\ (jobs'[j].exists => jobs[j].exists),
         co'[c].pc \in ReadCalls => co[c].pc \in ReadCalls,
         co[c].pc \in {"mark", "persist"} <=> co'[c].pc \in {"mark", "persist"},
         co'[c].pc \in {"skip_mark", "skip_persist"} =>
            \/ co[c].pc \in {"skip_mark", "skip_persist"}
            \/ ~MisfireOk(Current(c), co[c].next, co[c].at),
         co[c].pc = "release" => co'[c].pc = "release"
  PROVE  AloneOk(c)'
<1>1. /\ faults \in Nat /\ faults' \in Nat /\ now \in Nat /\ now' \in Nat
      /\ co[c] \in Coordinator /\ co[c].at \in Nat /\ co[c].todo \in Seq(Jobs)
  BY TimesAssumption DEF TypeOK, Coordinator
<1>2. Current(c)' = Current(c)
  BY DEF Current
<1>3. \A i \in DOMAIN co[c].todo : co[c].todo[i] \in Jobs
  BY <1>1
<1>4. co[c].pc # "tick" => Current(c) \in Jobs
  BY CurrentType
<1>5. ListOk(c)'
  BY <1>3 DEF AloneOk, ListOk
<1>6. ReadOk(c)'
  BY <1>2, <1>4 DEF AloneOk, ReadOk, ReadCalls
<1>7. PastOk(c)'
  <2>1. co'[c].at <= now'
    BY <1>1 DEF AloneOk, PastOk
  <2>2. ASSUME NEW j \in Jobs, NEW i \in Scheduled(j)'
        PROVE  runs'[j][i].at <= now' /\ (Working(c)' => runs'[j][i].at <= co'[c].at)
    <3>1. i \in Scheduled(j) /\ runs'[j][i].at = runs[j][i].at
      BY <2>2 DEF KeptRuns
    <3>2. runs[j][i].at \in Nat
      BY <3>1, TimesAreIntegers
    <3>3. runs[j][i].at <= now /\ (Working(c) => runs[j][i].at <= co[c].at)
      BY <3>1 DEF AloneOk, PastOk
    <3>4. QED
      BY <1>1, <3>1, <3>2, <3>3
  <2>3. QED
    BY <2>1, <2>2 DEF PastOk
<1>8. PaidOk(c)'
  <2> SUFFICES ASSUME NEW j \in Jobs, NEW t \in Nat
               PROVE  /\ Cardinality(OnTimeRuns(j, t)') <= 1 + faults'
                      /\ /\ jobs'[j].next = t
                         /\ jobs'[j].exists \/ Holding(c, j)'
                         /\ ~Created(c, j)'
                         => Cardinality(OnTimeRuns(j, t)') <= faults'
    BY DEF PaidOk
  <2>1. OnTimeRuns(j, t)' = OnTimeRuns(j, t) /\ Cardinality(OnTimeRuns(j, t)) \in Nat
    BY OnTimeKept, OnTimeFinite
  <2>2. (Holding(c, j)' <=> Holding(c, j)) /\ (Created(c, j)' <=> Created(c, j))
    BY <1>2 DEF Holding, Created
  <2>3. /\ Cardinality(OnTimeRuns(j, t)) <= 1 + faults
        /\ jobs[j].next = t /\ (jobs[j].exists \/ Holding(c, j)) /\ ~Created(c, j)
             => Cardinality(OnTimeRuns(j, t)) <= faults
    BY DEF AloneOk, PaidOk
  <2>4. jobs'[j].next = jobs[j].next /\ (jobs'[j].exists => jobs[j].exists)
    OBVIOUS
  <2> DEFINE card == Cardinality(OnTimeRuns(j, t))
  <2>5. card \in Nat /\ (card <= faults => card <= faults') /\ (card <= 1 + faults => card <= 1 + faults')
    BY <1>1, <2>1
  <2>6. QED
    BY <2>1, <2>2, <2>3, <2>4, <2>5
<1>9. CreatedOk(c)'
  BY <1>2, <1>4 DEF AloneOk, CreatedOk, KeptRuns
<1>10. SkipOk(c)'
  BY <1>2 DEF AloneOk, SkipOk, MisfireOk
<1>11. QED
  BY <1>5, <1>6, <1>7, <1>8, <1>9, <1>10 DEF AloneOk

(* The coordinator is done with its job, or has none: a fire that it has   *)
(* enqueued is behind next_run_at, or paid for, or its row is gone.        *)
LEMMA AloneDrops ==
  ASSUME TypeOK, TypeOK', NEW c \in Coordinators, AloneOk(c), ListOk(c)',
         ~Working(c)', co'[c].at <= now, now' = now, faults <= faults', runs' = runs,
         \A j \in Jobs :
            /\ jobs'[j].exists => jobs[j].exists
            /\ \/ jobs'[j].next = jobs[j].next /\ ~Created(c, j)
               \/ faults' = faults + 1
               \/ Holding(c, j) /\ jobs'[j].next > co[c].at
               \/ jobs'[j].next = None
               \/ ~jobs'[j].exists
  PROVE  AloneOk(c)'
<1>1. /\ faults \in Nat /\ faults' \in Nat /\ now \in Nat
      /\ co[c] \in Coordinator /\ co[c].at \in Nat /\ co'[c].at \in Nat
  BY TimesAssumption DEF TypeOK, Coordinator
<1>2. co'[c].pc \in {"tick", "soon", "each"} /\ \A j \in Jobs : ~Holding(c, j)'
  BY DEF Holding, Working
<1>3. PastOk(c)'
  <2>1. \A j \in Jobs : \A i \in Scheduled(j)' : runs'[j][i].at <= now'
    BY DEF AloneOk, PastOk, Scheduled
  <2>2. QED
    BY <2>1 DEF PastOk
<1>4. PaidOk(c)'
  <2> SUFFICES ASSUME NEW j \in Jobs, NEW t \in Nat
               PROVE  /\ Cardinality(OnTimeRuns(j, t)') <= 1 + faults'
                      /\ /\ jobs'[j].next = t
                         /\ jobs'[j].exists \/ Holding(c, j)'
                         /\ ~Created(c, j)'
                         => Cardinality(OnTimeRuns(j, t)') <= faults'
    BY DEF PaidOk
  <2> DEFINE card == Cardinality(OnTimeRuns(j, t))
  <2>1. OnTimeRuns(j, t)' = OnTimeRuns(j, t) /\ card \in Nat
    BY OnTimeKept, OnTimeFinite, SameIsKept
  <2>2. /\ card <= 1 + faults
        /\ jobs[j].next = t /\ (jobs[j].exists \/ Holding(c, j)) /\ ~Created(c, j) => card <= faults
    BY DEF AloneOk, PaidOk
  <2>3. ASSUME jobs'[j].next = t, jobs'[j].exists
        PROVE  card <= faults'
    <3>1. CASE jobs'[j].next = jobs[j].next /\ ~Created(c, j)
      <4>1. card <= faults
        BY <2>2, <2>3, <3>1
      <4>2. QED
        BY <1>1, <2>1, <4>1
    <3>2. CASE faults' = faults + 1
      BY <1>1, <2>1, <2>2, <3>2
    <3>3. CASE Holding(c, j) /\ jobs'[j].next > co[c].at
      <4>1. \A i \in Scheduled(j) : runs[j][i].at <= co[c].at /\ runs[j][i].at \in Nat
        BY <3>3, TimesAreIntegers DEF AloneOk, PastOk, Holding
      <4>2. \A i \in Scheduled(j) : ~(runs[j][i].at >= t)
        BY <1>1, <2>3, <3>3, <4>1
      <4>3. OnTimeRuns(j, t) = {}
        BY <4>2, OnTimeFinite
      <4>4. card = 0
        BY <4>3, FS_EmptySet
      <4>5. QED
        BY <1>1, <4>4
    <3>4. CASE jobs'[j].next = None
      BY <2>3, <3>4 DEF None
    <3>5. QED
      BY <2>3, <3>1, <3>2, <3>3, <3>4
  <2>4. card <= 1 + faults'
    BY <1>1, <2>1, <2>2
  <2>5. QED
    BY <1>2, <2>1, <2>3, <2>4
<1>5. ReadOk(c)' /\ CreatedOk(c)' /\ SkipOk(c)'
  BY <1>2 DEF ReadOk, ReadCalls, CreatedOk, SkipOk
<1>6. QED
  BY <1>3, <1>4, <1>5 DEF AloneOk

(* The rest of a due list. *)
LEMMA ListTail ==
  ASSUME TypeOK, NEW c \in Coordinators, ListOk(c), co[c].pc # "tick",
         NextJob(c), \A j \in Jobs : j # Current(c) => jobs'[j].next = jobs[j].next
  PROVE  ListOk(c)' /\ co'[c].at = 0
<1>1. co \in [Coordinators -> Coordinator] /\ co[c] \in Coordinator
  BY DEF TypeOK
<1>2. co[c].todo \in Seq(Jobs) /\ co[c].todo # <<>>
  BY CurrentType
<1> DEFINE s == co[c].todo
<1>3. co'[c].todo = Tail(s) /\ co'[c].at = 0
  BY <1>1 DEF NextJob, Coordinator
<1>4. /\ Tail(s) \in Seq(Jobs) /\ Len(s) \in Nat /\ Head(s) = s[1]
      /\ DOMAIN s = 1..Len(s) /\ DOMAIN Tail(s) = 1..(Len(s) - 1) /\ 1 \in DOMAIN s
      /\ \A i \in 1..(Len(s) - 1) : i + 1 \in DOMAIN s /\ Tail(s)[i] = s[i + 1]
  BY <1>2
<1>5. /\ \A i, k \in DOMAIN s : s[i] = s[k] => i = k
      /\ \A i \in DOMAIN s : jobs[s[i]].next = None => i = 1
      /\ \A i \in DOMAIN s : s[i] \in Jobs
  BY <1>2 DEF ListOk
<1> HIDE DEF s
<1>6. \A i \in DOMAIN Tail(s) :
        /\ i + 1 \in DOMAIN s /\ Tail(s)[i] = s[i + 1] /\ i \in Nat /\ i + 1 # 1
  BY <1>4
<1>7. \A i, k \in DOMAIN Tail(s) : Tail(s)[i] = Tail(s)[k] => i = k
  <2> SUFFICES ASSUME NEW i \in DOMAIN Tail(s), NEW k \in DOMAIN Tail(s), Tail(s)[i] = Tail(s)[k]
               PROVE  i = k
    OBVIOUS
  <2>1. i + 1 = k + 1
    BY <1>5, <1>6
  <2>2. QED
    BY <1>6, <2>1
<1>8. \A i \in DOMAIN Tail(s) : jobs'[Tail(s)[i]].next # None
  <2> SUFFICES ASSUME NEW i \in DOMAIN Tail(s)
               PROVE  jobs'[Tail(s)[i]].next # None
    OBVIOUS
  <2>1. s[i + 1] # s[1] /\ jobs[s[i + 1]].next # None /\ s[i + 1] \in Jobs
    BY <1>4, <1>5, <1>6
  <2>2. Current(c) = s[1]
    BY <1>4 DEF Current, s
  <2>3. QED
    BY <1>6, <2>1, <2>2
<1>9. QED
  BY <1>3, <1>7, <1>8 DEF ListOk

(* The listing: each due job once, and each with a next_run_at. *)
LEMMA ListFound ==
  ASSUME TypeOK, NEW c \in Coordinators, FindDue(c), ListOk(c)
  PROVE  ListOk(c)' /\ co'[c].at \in {co[c].at, now}
<1> DEFINE until == now + (IF co[c].draining THEN Lookahead ELSE 0)
           due == {j \in Jobs : Due(j, until)}
<1>1. co \in [Coordinators -> Coordinator] /\ co[c] \in Coordinator /\ now \in Nat
  BY TimesAssumption DEF TypeOK
<1>2. jobs' = jobs /\ co[c].pc = "tick"
  BY DEF FindDue
<1>3. CASE due = {}
  <2>1. co' = [co EXCEPT ![c].draining = FALSE]
    BY <1>3 DEF FindDue
  <2>2. co'[c].todo = co[c].todo /\ co'[c].at = co[c].at /\ co'[c].pc = co[c].pc
    BY <1>1, <2>1 DEF Coordinator
  <2>3. QED
    BY <1>2, <2>2 DEF ListOk
<1>4. CASE due # {}
  <2>1. PICK s \in DueLists(due) :
          co' = [co EXCEPT ![c].pc = "soon", ![c].todo = s, ![c].at = now,
                           ![c].draining = Len(s) >= Batch \div 2]
    BY <1>4 DEF FindDue
  <2>2. co'[c].todo = s /\ co'[c].at = now
    BY <1>1, <2>1 DEF Coordinator
  <2> DEFINE n == IF Cardinality(due) < Batch THEN Cardinality(due) ELSE Batch
  <2>3. /\ s \in [1..n -> due]
        /\ \A i, k \in 1..n : i < k => s[i] # s[k]
    BY DEF DueLists
  <2>4. \A j \in due : jobs[j].next # None
    BY DEF Due
  <2> HIDE DEF n, due, until
  <2>5. \A i, k \in DOMAIN s : s[i] = s[k] => i = k
    BY <2>3
  <2>6. \A i \in DOMAIN s : jobs[s[i]].next # None
    BY <2>3, <2>4
  <2>7. QED
    BY <1>2, <2>2, <2>5, <2>6 DEF ListOk
<1>5. QED
  BY <1>3, <1>4

(* claim_job_for_tick is granted. *)
LEMMA AloneClaims ==
  ASSUME TypeOK, TypeOK', NEW c \in Coordinators, AloneOk(c), ClaimJob(c),
         TickClaimFree(Current(c))
  PROVE  AloneOk(c)'
<1> DEFINE q == Current(c)
<1>1. /\ co[c].pc = "each" /\ co'[c].pc = "read" /\ co'[c].todo = co[c].todo
      /\ co'[c].at = now /\ now' = now /\ runs' = runs /\ faults' = faults /\ q \in Jobs
      /\ jobs'[q].next = jobs[q].next /\ jobs'[q].exists = jobs[q].exists
      /\ \A j \in Jobs : j # q => jobs'[j] = jobs[j]
  BY ClaimJobEffect DEF ClaimJob
<1>2. /\ \A j \in Jobs : jobs'[j].next = jobs[j].next /\ jobs'[j].exists = jobs[j].exists
      /\ jobs[q].exists
  BY <1>1 DEF TickClaimFree
<1>3. Current(c)' = q
  BY <1>1 DEF Current
<1> HIDE DEF q
<1>4. now \in Nat /\ co[c].todo \in Seq(Jobs)
  BY TimesAssumption DEF TypeOK, Coordinator
<1>5. ListOk(c)'
  <2>1. \A i \in DOMAIN co[c].todo : co[c].todo[i] \in Jobs
    BY <1>4
  <2>2. QED
    BY <1>1, <1>2, <2>1 DEF AloneOk, ListOk
<1>6. PastOk(c)'
  BY <1>1, <1>4 DEF AloneOk, PastOk, Scheduled
<1>7. PaidOk(c)'
  <2> SUFFICES ASSUME NEW j \in Jobs, NEW t \in Nat
               PROVE  /\ Cardinality(OnTimeRuns(j, t)') <= 1 + faults'
                      /\ /\ jobs'[j].next = t
                         /\ jobs'[j].exists \/ Holding(c, j)'
                         /\ ~Created(c, j)'
                         => Cardinality(OnTimeRuns(j, t)') <= faults'
    BY DEF PaidOk
  <2>1. OnTimeRuns(j, t)' = OnTimeRuns(j, t)
    BY <1>1, OnTimeKept, SameIsKept
  <2>2. ~Created(c, j) /\ (Holding(c, j)' => jobs[j].exists)
    BY <1>1, <1>2, <1>3 DEF Created, Holding
  <2>3. QED
    BY <1>1, <1>2, <2>1, <2>2 DEF AloneOk, PaidOk
<1>8. ReadOk(c)' /\ CreatedOk(c)' /\ SkipOk(c)'
  BY <1>1 DEF ReadOk, ReadCalls, CreatedOk, SkipOk
<1>9. QED
  BY <1>5, <1>6, <1>7, <1>8 DEF AloneOk

(* get_job finds the job. *)
LEMMA AloneReads ==
  ASSUME TypeOK, TypeOK', NEW c \in Coordinators, AloneOk(c), ReadJob(c),
         jobs[Current(c)].exists
  PROVE  AloneOk(c)'
<1>1. /\ co[c].pc = "read" /\ co'[c].pc = "count" /\ co'[c].todo = co[c].todo
      /\ co'[c].at = co[c].at /\ co'[c].next = jobs[Current(c)].next
      /\ UNCHANGED <<now, jobs, runs, faults>>
  BY ReadJobEffect DEF ReadJob
<1>2. Current(c)' = Current(c) /\ Working(c) /\ Working(c)'
  BY <1>1 DEF Current, Working
<1>3. ListOk(c)'
  BY <1>1 DEF AloneOk, ListOk
<1>4. PastOk(c)'
  BY <1>1, <1>2 DEF AloneOk, PastOk, Scheduled
<1>5. PaidOk(c)'
  <2> SUFFICES ASSUME NEW j \in Jobs, NEW t \in Nat
               PROVE  /\ Cardinality(OnTimeRuns(j, t)') <= 1 + faults'
                      /\ /\ jobs'[j].next = t
                         /\ jobs'[j].exists \/ Holding(c, j)'
                         /\ ~Created(c, j)'
                         => Cardinality(OnTimeRuns(j, t)') <= faults'
    BY DEF PaidOk
  <2>1. OnTimeRuns(j, t)' = OnTimeRuns(j, t)
    BY <1>1, OnTimeKept, SameIsKept
  <2>2. ~Created(c, j) /\ (Holding(c, j)' <=> Holding(c, j))
    BY <1>1, <1>2 DEF Created, Holding
  <2>3. QED
    BY <1>1, <2>1, <2>2 DEF AloneOk, PaidOk
<1>6. ReadOk(c)' /\ CreatedOk(c)' /\ SkipOk(c)'
  BY <1>1, <1>2 DEF ReadOk, CreatedOk, SkipOk
<1>7. QED
  BY <1>3, <1>4, <1>5, <1>6 DEF AloneOk

(* What get_job read: a time, and still the row's. *)
LEMMA AloneRead ==
  ASSUME TypeOK, NEW c \in Coordinators, AloneOk(c), co[c].pc \in ReadCalls
  PROVE  /\ Current(c) \in Jobs /\ co[c].next = jobs[Current(c)].next
         /\ co[c].next \in Nat /\ co[c].at \in Nat
         /\ ScheduledFor(c) = co[c].next
<1>1. /\ Current(c) \in Jobs /\ co[c].todo \in Seq(Jobs) /\ co[c].todo # <<>>
      /\ co[c].at \in Nat /\ co[c].next \in Nat \cup {None}
  BY CurrentType DEF ReadCalls
<1>2. 1 \in DOMAIN co[c].todo /\ co[c].todo[1] = Current(c)
  BY <1>1 DEF Current
<1>3. jobs[Current(c)].next # None
  BY <1>2 DEF AloneOk, ListOk, ReadCalls
<1>4. QED
  BY <1>1, <1>3 DEF AloneOk, ReadOk, ScheduledFor

(* create_run: the fire in next_run_at has one run more. *)
LEMMA AloneCreates ==
  ASSUME TypeOK, TypeOK', NEW c \in Coordinators, AloneOk(c), CreateRun(c),
         NEW q \in Jobs, q = Current(c)
  PROVE  AloneOk(c)'
<1> DEFINE run == [fire |-> ScheduledFor(c), at |-> co[c].at, active |-> TRUE, manual |-> FALSE]
           p == IF Kind[q] = "run_once" THEN "mark" ELSE "persist"
           n == Len(runs[q]) + 1
<1>1. co[c].pc = "create" /\ co[c].pc \in ReadCalls
  BY DEF CreateRun, ReadCalls
<1>2. /\ q \in Jobs /\ co[c].next = jobs[q].next /\ co[c].next \in Nat /\ co[c].at \in Nat
      /\ ScheduledFor(c) = co[c].next
  BY <1>1, AloneRead
<1>3. run \in Run /\ ~run.manual /\ run.at = co[c].at /\ run.fire = co[c].next
  BY <1>2 DEF Run
<1>4. /\ runs' = [runs EXCEPT ![q] = Append(@, run)] /\ Goto(c, p) /\ p \in Calls
      /\ UNCHANGED <<now, jobs, faults>> /\ p \in {"mark", "persist"}
  BY DEF CreateRun, Calls
<1> HIDE DEF run, p
<1>5. /\ DOMAIN runs'[q] = DOMAIN runs[q] \cup {n}
      /\ n \notin DOMAIN runs[q] /\ runs'[q][n] = run
      /\ \A k \in DOMAIN runs[q] : runs'[q][k] = runs[q][k]
      /\ \A j \in Jobs : j # q => runs'[j] = runs[j]
  BY <1>2, <1>3, <1>4, AppendEffect
<1> HIDE DEF n
<1>6. /\ Scheduled(q)' = Scheduled(q) \cup {n} /\ n \notin Scheduled(q)
      /\ runs'[q][n].at = co[c].at /\ runs'[q][n].fire = co[c].next
      /\ \A i \in Scheduled(q) : runs'[q][i] = runs[q][i]
  BY <1>3, <1>5 DEF Scheduled
<1>7. /\ co'[c].pc = p /\ co'[c].todo = co[c].todo /\ co'[c].at = co[c].at
      /\ co'[c].next = co[c].next
  BY <1>4, GotoEffect
<1>8. Current(c)' = Current(c) /\ Working(c) /\ Working(c)'
  BY <1>1, <1>4, <1>7 DEF Current, Working
<1>9. now \in Nat /\ faults \in Nat
  BY FaultsType
<1>10. ListOk(c)'
  BY <1>1, <1>4, <1>7 DEF AloneOk, ListOk
<1>11. ReadOk(c)'
  BY <1>2, <1>4, <1>7, <1>8 DEF ReadOk
<1>12. PastOk(c)'
  <2>1. co[c].at <= now
    BY DEF AloneOk, PastOk
  <2>2. ASSUME NEW j \in Jobs, NEW i \in Scheduled(j)'
        PROVE  runs'[j][i].at <= now /\ runs'[j][i].at <= co[c].at
    <3>1. CASE j = q /\ i = n
      BY <1>2, <1>6, <2>1, <3>1
    <3>2. CASE ~(j = q /\ i = n)
      <4>1. i \in Scheduled(j) /\ runs'[j][i] = runs[j][i]
        BY <1>5, <1>6, <2>2, <3>2 DEF Scheduled
      <4>2. QED
        BY <1>8, <4>1 DEF AloneOk, PastOk
    <3>3. QED
      BY <3>1, <3>2
  <2>3. QED
    BY <1>4, <1>7, <2>1, <2>2 DEF PastOk
<1>13. PaidOk(c)'
  <2> SUFFICES ASSUME NEW j \in Jobs, NEW t \in Nat
               PROVE  /\ Cardinality(OnTimeRuns(j, t)') <= 1 + faults'
                      /\ /\ jobs'[j].next = t
                         /\ jobs'[j].exists \/ Holding(c, j)'
                         /\ ~Created(c, j)'
                         => Cardinality(OnTimeRuns(j, t)') <= faults'
    BY DEF PaidOk
  <2>0. OnTimeRuns(j, t)' = {i \in Scheduled(j)' : runs'[j][i].fire = t /\ runs'[j][i].at >= t}
    BY DEF OnTimeRuns, Scheduled
  <2>1. CASE j # q
    <3>1. KeptRuns(j)
      BY <1>5, <2>1 DEF KeptRuns, Scheduled
    <3>2. OnTimeRuns(j, t)' = OnTimeRuns(j, t)
      BY <3>1, OnTimeKept
    <3>3. ~Created(c, j) /\ ~Holding(c, j) /\ ~Holding(c, j)'
      BY <1>8, <2>1 DEF Created, Holding
    <3>4. QED
      BY <1>4, <3>2, <3>3 DEF AloneOk, PaidOk
  <2>2. CASE j = q /\ t # co[c].next
    <3>1. OnTimeRuns(j, t)' = OnTimeRuns(j, t)
      BY <1>6, <2>0, <2>2, OnTimeFinite
    <3>2. QED
      BY <1>2, <1>4, <2>2, <3>1 DEF AloneOk, PaidOk
  <2>3. CASE j = q /\ t = co[c].next
    <3>1. Created(c, j)' /\ Holding(c, j) /\ ~Created(c, j)
      BY <1>1, <1>4, <1>7, <1>8, <2>3 DEF Created, Holding
    <3>2. Cardinality(OnTimeRuns(j, t)) <= faults
      BY <1>2, <2>3, <3>1 DEF AloneOk, PaidOk
    <3>3. IsFiniteSet(OnTimeRuns(j, t)) /\ Cardinality(OnTimeRuns(j, t)) \in Nat
      BY OnTimeFinite
    <3>4. OnTimeRuns(j, t)' \in {OnTimeRuns(j, t), OnTimeRuns(j, t) \cup {n}}
      BY <1>6, <2>0, <2>3, OnTimeFinite
    <3>5. n \notin OnTimeRuns(j, t)
      BY <1>6, <2>3, OnTimeFinite
    <3>6. Cardinality(OnTimeRuns(j, t) \cup {n}) = Cardinality(OnTimeRuns(j, t)) + 1
      BY <3>3, <3>5, FS_AddElement
    <3>7. Cardinality(OnTimeRuns(j, t)')
            \in {Cardinality(OnTimeRuns(j, t)), Cardinality(OnTimeRuns(j, t)) + 1}
      BY <3>4, <3>6
    <3>8. QED
      BY <1>4, <1>9, <3>1, <3>2, <3>3, <3>7
  <2>4. QED
    BY <2>1, <2>2, <2>3
<1>14. CreatedOk(c)'
  BY <1>6, <1>7, <1>8 DEF CreatedOk
<1>15. SkipOk(c)'
  BY <1>4, <1>7 DEF SkipOk
<1>16. QED
  BY <1>10, <1>11, <1>12, <1>13, <1>14, <1>15 DEF AloneOk

(* The next_run_at that is written is later than the holder's `now`. *)
LEMMA PersistMoves ==
  ASSUME TypeOK, NEW c \in Coordinators, Persist(c)
  PROVE  /\ Current(c) \in Jobs
         /\ \A j \in Jobs : jobs'[j].exists = jobs[j].exists
         /\ \A j \in Jobs : j # Current(c) => jobs'[j].next = jobs[j].next
         /\ jobs'[Current(c)].exists =>
              jobs'[Current(c)].next > co[c].at \/ jobs'[Current(c)].next = None
<1>1. Current(c) \in Jobs /\ co[c].at \in Nat
  BY CurrentType DEF Persist
<1>2. NextRunAt(Current(c), co[c].at) > co[c].at \/ NextRunAt(Current(c), co[c].at) = None
  BY <1>1, CronNextLater DEF NextRunAt
<1>3. QED
  BY <1>1, <1>2, PersistEffect DEF SameFires

(* A skip is written: next_run_at is past every fire enqueued so far. *)
LEMMA AloneSkips ==
  ASSUME TypeOK, TypeOK', NEW c \in Coordinators, AloneOk(c), Persist(c),
         co[c].pc = "skip_persist"
  PROVE  AloneOk(c)'
<1> DEFINE q == Current(c)
<1>1. Goto(c, "release") /\ UNCHANGED <<now, runs, faults>>
  BY DEF Persist
<1>2. /\ co'[c].pc = "release" /\ co'[c].todo = co[c].todo /\ co'[c].at = co[c].at
  BY <1>1, GotoEffect DEF Calls
<1>3. Current(c)' = q /\ Working(c) /\ Working(c)'
  BY <1>2 DEF Current, Working
<1>4. /\ q \in Jobs
      /\ \A j \in Jobs : jobs'[j].exists = jobs[j].exists
      /\ \A j \in Jobs : j # q => jobs'[j].next = jobs[j].next
      /\ jobs'[q].exists => jobs'[q].next > co[c].at \/ jobs'[q].next = None
      /\ ~jobs[q].exists => jobs' = jobs
  BY PersistMoves, PersistEffect
<1>5. co[c].todo \in Seq(Jobs) /\ co[c].todo # <<>> /\ q = co[c].todo[1]
  BY CurrentType DEF Current
<1> HIDE DEF q
<1>6. now \in Nat /\ faults \in Nat /\ co[c].at \in Nat
  BY TimesAreIntegers, FaultsType, <1>4
<1>7. ListOk(c)'
  <2>1. \A i \in DOMAIN co[c].todo : co[c].todo[i] \in Jobs /\ 1 \in DOMAIN co[c].todo
    BY <1>5
  <2>2. \A i \in DOMAIN co[c].todo : i # 1 => co[c].todo[i] # q /\ jobs[co[c].todo[i]].next # None
    BY <1>5, <2>1 DEF AloneOk, ListOk
  <2>3. QED
    BY <1>2, <1>4, <2>1, <2>2 DEF AloneOk, ListOk
<1>8. PastOk(c)'
  BY <1>1, <1>2, <1>3 DEF AloneOk, PastOk, Scheduled
<1>9. PaidOk(c)'
  <2> SUFFICES ASSUME NEW j \in Jobs, NEW t \in Nat
               PROVE  /\ Cardinality(OnTimeRuns(j, t)') <= 1 + faults'
                      /\ /\ jobs'[j].next = t
                         /\ jobs'[j].exists \/ Holding(c, j)'
                         /\ ~Created(c, j)'
                         => Cardinality(OnTimeRuns(j, t)') <= faults'
    BY DEF PaidOk
  <2>1. OnTimeRuns(j, t)' = OnTimeRuns(j, t)
    BY <1>1, OnTimeKept, SameIsKept
  <2>2. (Holding(c, j)' <=> Holding(c, j)) /\ ~Created(c, j)
    BY <1>3 DEF Holding, Created, q
  <2>3. CASE jobs'[j].next = jobs[j].next
    BY <1>1, <1>4, <2>1, <2>2, <2>3 DEF AloneOk, PaidOk
  <2>4. CASE jobs'[j].next # jobs[j].next
    <3>1. j = q /\ jobs'[q].exists
      BY <1>4, <2>4
    <3>2. \A i \in Scheduled(j) : runs[j][i].at <= co[c].at /\ runs[j][i].at \in Nat
      BY <1>3, TimesAreIntegers DEF AloneOk, PastOk
    <3>3. ASSUME jobs'[j].next = t
          PROVE  Cardinality(OnTimeRuns(j, t)) <= faults
      <4>1. t > co[c].at
        BY <1>4, <3>1, <3>3 DEF None
      <4>2. \A i \in Scheduled(j) : ~(runs[j][i].at >= t)
        BY <1>6, <3>2, <4>1
      <4>3. OnTimeRuns(j, t) = {}
        BY <4>2, OnTimeFinite
      <4>4. QED
        BY <1>6, <4>3, FS_EmptySet
    <3>4. Cardinality(OnTimeRuns(j, t)) <= 1 + faults
      BY DEF AloneOk, PaidOk
    <3>5. QED
      BY <1>1, <2>1, <3>3, <3>4
  <2>5. QED
    BY <2>3, <2>4
<1>10. ReadOk(c)' /\ CreatedOk(c)' /\ SkipOk(c)'
  BY <1>2 DEF ReadOk, ReadCalls, CreatedOk, SkipOk
<1>11. QED
  BY <1>7, <1>8, <1>9, <1>10 DEF AloneOk

(* The call after the count is a skip only when the misfire is given up. *)
LEMMA GateSkips ==
  ASSUME TypeOK, NEW c \in Coordinators, co[c].pc = "count", NEW n \in Nat,
         Gate(c, n) \in {"skip_mark", "skip_persist"}
  PROVE  ~MisfireOk(Current(c), ScheduledFor(c), co[c].at)
<1>1. Current(c) \in Jobs
  BY CurrentType
<1>2. Concurrency[Current(c)] \in Nat
  BY <1>1, JobsAssumption
<1>3. QED
  BY <1>2 DEF Gate

(* A call that only sends the coordinator on to another one. *)
LEMMA AloneGoto ==
  ASSUME TypeOK, TypeOK', NEW c \in Coordinators, AloneOk(c), NEW p \in Calls, Goto(c, p),
         now' = now, runs' = runs, faults <= faults',
         \A j \in Jobs : jobs'[j].next = jobs[j].next /\ (jobs'[j].exists => jobs[j].exists),
         Working(c) <=> p \notin {"tick", "soon", "each"},
         p \in ReadCalls => co[c].pc \in ReadCalls,
         co[c].pc \in {"mark", "persist"} <=> p \in {"mark", "persist"},
         p \in {"skip_mark", "skip_persist"} =>
            \/ co[c].pc \in {"skip_mark", "skip_persist"}
            \/ ~MisfireOk(Current(c), co[c].next, co[c].at),
         co[c].pc = "release" => p = "release"
  PROVE  AloneOk(c)'
<1>1. /\ co'[c].pc = p /\ co'[c].todo = co[c].todo
      /\ co'[c].at = co[c].at /\ co'[c].next = co[c].next
  BY GotoEffect
<1>2. Working(c)' <=> Working(c)
  BY <1>1 DEF Working
<1>3. now <= now' /\ \A j \in Jobs : KeptRuns(j)
  BY FaultsType, SameIsKept
<1>4. QED
  BY <1>1, <1>2, <1>3, AloneGoesOn

(* The coordinator's calls, its errors and crashes, and whatever happens   *)
(* around it keep the invariant.                                           *)
LEMMA AloneStep ==
  ASSUME TypeOK, TypeOK', [Next]_vars, OnlyOne, NEW c \in Coordinators, AloneOk(c)
  PROVE  AloneOk(c)'
<1>0. /\ faults \in Nat /\ now \in Nat /\ now <= now /\ faults <= faults
      /\ co[c] \in Coordinator /\ co \in [Coordinators -> Coordinator]
      /\ \A d \in Coordinators : d = c
  BY FaultsType DEF TypeOK, OnlyOne
<1>1. ASSUME UNCHANGED co, now <= now', faults <= faults',
             \A j \in Jobs : KeptRuns(j) /\ jobs'[j].next = jobs[j].next
                                         /\ (jobs'[j].exists => jobs[j].exists)
      PROVE  AloneOk(c)'
  <2>1. Working(c)' <=> Working(c)
    BY <1>1 DEF Working
  <2>2. QED
    BY <1>1, <2>1, AloneGoesOn
<1>2. CASE UNCHANGED vars
  BY <1>0, <1>1, <1>2, SameIsKept DEF vars
<1>3. CASE Tick
  <2>1. now <= now' /\ faults <= faults'
    BY <1>0, <1>3 DEF Tick, Fault
  <2>2. UNCHANGED <<jobs, runs, co>>
    BY <1>3 DEF Tick
  <2>3. QED
    BY <1>1, <2>1, <2>2, SameIsKept
<1>4. ASSUME NEW q \in Jobs, NEW i \in DOMAIN runs[q], FinishRun(q, i)
      PROVE  AloneOk(c)'
  <2>1. \A j \in Jobs : KeptRuns(j)
    BY <1>4, FinishEffect DEF KeptRuns, Scheduled
  <2>2. UNCHANGED <<now, jobs, co, faults>>
    BY <1>4 DEF FinishRun
  <2>3. QED
    BY <1>0, <1>1, <2>1, <2>2
<1>5. ASSUME NEW q \in Jobs, RunNow(q)
      PROVE  AloneOk(c)'
  <2> DEFINE run == [fire |-> now, at |-> now, active |-> TRUE, manual |-> TRUE]
             n == Len(runs[q]) + 1
  <2>1. run \in Run /\ run.manual
    BY <1>0 DEF Run
  <2>2. runs' = [runs EXCEPT ![q] = Append(@, run)] /\ UNCHANGED <<now, jobs, co, faults>>
    BY <1>5 DEF RunNow
  <2> HIDE DEF run
  <2>3. /\ DOMAIN runs'[q] = DOMAIN runs[q] \cup {n} /\ runs'[q][n] = run
        /\ \A k \in DOMAIN runs[q] : runs'[q][k] = runs[q][k]
        /\ \A r \in Jobs : r # q => runs'[r] = runs[r]
    BY <2>1, <2>2, AppendEffect
  <2> HIDE DEF n
  <2>4. \A j \in Jobs : KeptRuns(j)
    <3>1. KeptRuns(q)
      BY <2>1, <2>3 DEF KeptRuns, Scheduled
    <3>2. \A j \in Jobs : j # q => KeptRuns(j)
      BY <2>3 DEF KeptRuns, Scheduled
    <3>3. QED
      BY <3>1, <3>2
  <2>5. QED
    BY <1>0, <1>1, <2>2, <2>4
<1>6. ASSUME NEW q \in Jobs, (\E e \in BOOLEAN : SetEnabled(q, e)) \/ DeleteJob(q)
      PROVE  AloneOk(c)'
  <2>1. /\ UNCHANGED <<now, runs, co, faults>>
        /\ \A j \in Jobs : jobs'[j].next = jobs[j].next /\ (jobs'[j].exists => jobs[j].exists)
    BY <1>6, AdminEffect
  <2>2. QED
    BY <1>0, <1>1, <2>1, SameIsKept
<1>7. ASSUME NextJob(c), co[c].pc # "tick", UNCHANGED <<now, runs>>, faults <= faults',
             \A j \in Jobs : j # Current(c) => jobs'[j].next = jobs[j].next,
             \A j \in Jobs :
                /\ jobs'[j].exists => jobs[j].exists
                /\ \/ jobs'[j].next = jobs[j].next /\ ~Created(c, j)
                   \/ faults' = faults + 1
                   \/ Holding(c, j) /\ jobs'[j].next > co[c].at
                   \/ jobs'[j].next = None
                   \/ ~jobs'[j].exists
      PROVE  AloneOk(c)'
  <2>1. ListOk(c)' /\ co'[c].at = 0
    BY <1>7, ListTail DEF AloneOk
  <2>2. ~Working(c)'
    BY <1>7, NextJobEffect DEF Working
  <2>3. co'[c].at <= now
    BY <1>0, <2>1
  <2>4. QED
    BY <1>7, <2>1, <2>2, <2>3, AloneDrops
<1>8. CASE FindDue(c)
  <2>1. ListOk(c)' /\ co'[c].at \in {co[c].at, now}
    BY <1>8, ListFound DEF AloneOk
  <2>2. /\ ~Working(c)' /\ UNCHANGED <<now, jobs, runs, faults>> /\ \A j \in Jobs : ~Created(c, j)
    BY <1>8, FindDueEffect DEF Working, Created, FindDue
  <2>3. co'[c].at <= now
    BY <1>0, <2>1 DEF AloneOk, PastOk
  <2>4. QED
    BY <1>0, <2>1, <2>2, <2>3, AloneDrops
<1>9. CASE MinNext(c)
  <2>1. /\ co[c].pc = "soon" /\ co'[c].pc = "each" /\ co'[c].todo = co[c].todo
        /\ co'[c].at = co[c].at /\ co'[c].next = co[c].next
        /\ UNCHANGED <<now, jobs, runs, faults>>
    BY <1>9, MinNextEffect DEF MinNext
  <2>2. (Working(c)' <=> Working(c)) /\ \A j \in Jobs : KeptRuns(j)
    BY <2>1, SameIsKept DEF Working
  <2>3. QED
    BY <1>0, <2>1, <2>2, AloneGoesOn DEF ReadCalls
<1>10. CASE ClaimJob(c)
  <2>1. CASE TickClaimFree(Current(c))
    BY <1>10, <2>1, AloneClaims
  <2>2. CASE ~TickClaimFree(Current(c))
    <3>1. co[c].pc = "each" /\ NextJob(c) /\ UNCHANGED <<now, jobs, runs, faults>>
      BY <1>10, <2>2 DEF ClaimJob
    <3>2. \A j \in Jobs : ~Created(c, j)
      BY <3>1 DEF Created
    <3>3. QED
      BY <1>0, <1>7, <3>1, <3>2
  <2>3. QED
    BY <2>1, <2>2
<1>11. CASE ReadJob(c)
  <2>1. CASE jobs[Current(c)].exists
    BY <1>11, <2>1, AloneReads
  <2>2. CASE ~jobs[Current(c)].exists
    <3>1. co[c].pc = "read" /\ Goto(c, "release") /\ UNCHANGED <<now, jobs, runs, faults>>
      BY <1>11, <2>2 DEF ReadJob
    <3>2. Working(c)
      BY <3>1 DEF Working
    <3>3. QED
      BY <1>0, <3>1, <3>2, AloneGoto DEF Calls, ReadCalls
  <2>3. QED
    BY <2>1, <2>2
<1>12. CASE CountActive(c)
  <2>1. /\ Working(c) /\ co[c].pc = "count" /\ UNCHANGED <<now, jobs, runs>>
        /\ faults <= faults'
    BY <1>0, <1>12 DEF CountActive, Working, Fault
  <2>2. PICK n \in Nat : Goto(c, Gate(c, n))
    BY <1>12, CurrentType, ActiveRunsFinite DEF CountActive
  <2>3. /\ Gate(c, n) \in {"release", "skip_mark", "skip_persist", "once", "create"}
        /\ Gate(c, n) \in Calls
    BY <2>1, GateType
  <2>4. Gate(c, n) \in {"skip_mark", "skip_persist"} =>
          ~MisfireOk(Current(c), co[c].next, co[c].at)
    <3>1. ScheduledFor(c) = co[c].next
      BY <2>1, AloneRead DEF ReadCalls
    <3>2. QED
      BY <2>1, <3>1, GateSkips
  <2>5. QED
    BY <2>1, <2>2, <2>3, <2>4, AloneGoto DEF ReadCalls
<1>13. CASE TryClaimRunOnce(c)
  <2>1. /\ Working(c) /\ co[c].pc = "once" /\ UNCHANGED <<now, runs, faults>>
    BY <1>13 DEF TryClaimRunOnce, Working
  <2>2. \A j \in Jobs : jobs'[j].next = jobs[j].next /\ jobs'[j].exists = jobs[j].exists
    BY <1>13, TryClaimRunOnceEffect DEF SameFires
  <2>3. PICK p \in {"create", "release"} : Goto(c, p)
    BY <1>13 DEF TryClaimRunOnce
  <2>4. QED
    BY <1>0, <2>1, <2>2, <2>3, AloneGoto DEF Calls, ReadCalls
<1>14. CASE CreateRun(c)
  <2>1. PICK q \in Jobs : q = Current(c)
    BY <1>14, CurrentType DEF CreateRun
  <2>2. QED
    BY <1>14, <2>1, AloneCreates
<1>15. CASE MarkCompleted(c)
  <2>1. /\ Working(c) /\ co[c].pc \in {"mark", "skip_mark"} /\ UNCHANGED <<now, runs, faults>>
    BY <1>15 DEF MarkCompleted, Working
  <2>2. \A j \in Jobs : jobs'[j].next = jobs[j].next /\ jobs'[j].exists = jobs[j].exists
    BY <1>15, MarkCompletedEffect
  <2>3. PICK p \in Calls : Goto(c, p) /\ p = IF co[c].pc = "mark" THEN "persist" ELSE "skip_persist"
    BY <1>15 DEF MarkCompleted, Calls
  <2>4. QED
    BY <1>0, <2>1, <2>2, <2>3, AloneGoto DEF ReadCalls
<1>16. CASE Persist(c)
  <2>1. CASE co[c].pc = "skip_persist"
    BY <1>16, <2>1, AloneSkips
  <2>2. CASE co[c].pc = "persist"
    <3>1. NextJob(c) /\ UNCHANGED <<now, runs, faults>>
      BY <1>16, <2>2 DEF Persist
    <3>2. /\ Current(c) \in Jobs
          /\ \A j \in Jobs : jobs'[j].exists = jobs[j].exists
          /\ \A j \in Jobs : j # Current(c) => jobs'[j].next = jobs[j].next
          /\ jobs'[Current(c)].exists =>
               jobs'[Current(c)].next > co[c].at \/ jobs'[Current(c)].next = None
      BY <1>16, PersistMoves
    <3>3. Holding(c, Current(c)) /\ \A j \in Jobs : j # Current(c) => ~Created(c, j)
      BY <2>2 DEF Holding, Working, Created
    <3>4. \A j \in Jobs :
                /\ jobs'[j].exists => jobs[j].exists
                /\ \/ jobs'[j].next = jobs[j].next /\ ~Created(c, j)
                   \/ faults' = faults + 1
                   \/ Holding(c, j) /\ jobs'[j].next > co[c].at
                   \/ jobs'[j].next = None
                   \/ ~jobs'[j].exists
      BY <3>2, <3>3
    <3>5. QED
      BY <1>0, <1>7, <2>2, <3>1, <3>2, <3>4
  <2>3. QED
    BY <1>16, <2>1, <2>2 DEF Persist
<1>17. CASE ReleaseOnce(c)
  <2>1. /\ Working(c) /\ co[c].pc = "release_once" /\ UNCHANGED <<now, runs, faults>>
        /\ Goto(c, "release")
    BY <1>17 DEF ReleaseOnce, Working
  <2>2. \A j \in Jobs : jobs'[j].next = jobs[j].next /\ jobs'[j].exists = jobs[j].exists
    BY <1>17, ReleaseOnceEffect DEF SameFires
  <2>3. QED
    BY <1>0, <2>1, <2>2, AloneGoto DEF Calls, ReadCalls
<1>18. CASE ReleaseClaim(c)
  <2>1. co[c].pc = "release" /\ NextJob(c) /\ UNCHANGED <<now, runs, faults>>
    BY <1>18 DEF ReleaseClaim
  <2>2. \A j \in Jobs : jobs'[j].next = jobs[j].next /\ jobs'[j].exists = jobs[j].exists
    BY <1>18, ReleaseClaimEffect DEF SameFires
  <2>3. \A j \in Jobs : ~Created(c, j)
    BY <2>1 DEF Created
  <2>4. QED
    BY <1>0, <1>7, <2>1, <2>2, <2>3
<1>19. CASE StoreError(c)
  <2>1. /\ co[c].pc \notin {"tick", "count"} /\ faults' = faults + 1
        /\ UNCHANGED <<now, jobs, runs>>
    BY <1>19 DEF StoreError, Fault
  <2>2. faults <= faults'
    BY <1>0, <2>1
  <2>3. CASE co[c].pc \in {"each", "read", "persist", "release"}
    <3>1. NextJob(c)
      BY <1>19, <2>3 DEF StoreError
    <3>2. QED
      BY <1>7, <2>1, <2>2, <3>1
  <2>4. CASE co[c].pc \notin {"each", "read", "persist", "release"}
    <3>1. Goto(c, AfterError(c))
      BY <1>19, <2>4 DEF StoreError
    <3>2. co[c].pc \in {"soon", "once", "create", "mark", "skip_mark", "skip_persist", "release_once"}
      BY <1>0, <2>1, <2>4 DEF Coordinator, Calls
    <3>3. PICK p \in Calls : p = AfterError(c)
      BY <2>1, <2>4, AfterErrorType
    <3>4. /\ co[c].pc = "soon" => p = "each"
          /\ co[c].pc = "mark" => p = "persist"
          /\ co[c].pc = "skip_mark" => p = "skip_persist"
          /\ co[c].pc \in {"once", "create", "skip_persist", "release_once"} =>
               p \in {"release", "release_once"}
      BY <3>2, <3>3 DEF AfterError
    <3>5. Working(c) <=> co[c].pc # "soon"
      BY <3>2 DEF Working
    <3>6. QED
      BY <2>1, <2>2, <3>1, <3>2, <3>3, <3>4, <3>5, AloneGoto DEF ReadCalls
  <2>5. QED
    BY <2>3, <2>4
<1>20. CASE Crash(c)
  <2>1. co'[c] = Idle /\ faults' = faults + 1 /\ UNCHANGED <<now, jobs, runs>>
    BY <1>0, <1>20 DEF Crash, Fault
  <2>2. ListOk(c)' /\ co'[c].at = 0 /\ ~Working(c)'
    BY <2>1 DEF Idle, ListOk, Working
  <2>3. co'[c].at <= now /\ faults <= faults'
    BY <1>0, <2>1, <2>2
  <2>4. QED
    BY <2>1, <2>2, <2>3, AloneDrops
<1>21. QED
  BY <1>0, <1>2, <1>3, <1>4, <1>5, <1>6, <1>8, <1>9, <1>10, <1>11, <1>12, <1>13, <1>14, <1>15,
     <1>16, <1>17, <1>18, <1>19, <1>20 DEF Next, OneTick

LEMMA AloneInit == Init => AloneInv
<1> SUFFICES ASSUME Init, NEW c \in Coordinators
             PROVE  AloneOk(c)
  BY DEF AloneInv
<1>1. /\ co[c] = Idle /\ now = 0 /\ faults = 0
      /\ \A j \in Jobs : runs[j] = <<>>
  BY DEF Init
<1>2. \A j \in Jobs : Scheduled(j) = {} /\ \A t \in Nat : OnTimeRuns(j, t) = {}
  BY <1>1 DEF Scheduled, OnTimeRuns
<1>3. ListOk(c) /\ ReadOk(c) /\ CreatedOk(c) /\ SkipOk(c)
  BY <1>1 DEF Idle, ListOk, ReadOk, ReadCalls, CreatedOk, SkipOk
<1>4. PastOk(c)
  BY <1>1, <1>2 DEF Idle, PastOk
<1>5. PaidOk(c)
  <2>1. \A j \in Jobs, t \in Nat : Cardinality(OnTimeRuns(j, t)) = 0
    BY <1>2, FS_EmptySet
  <2>2. QED
    BY <1>1, <2>1 DEF PaidOk
<1>6. QED
  BY <1>3, <1>4, <1>5 DEF AloneOk

LEMMA AloneInvStep == TypeOK /\ TypeOK' /\ AloneInv /\ [Next]_vars => AloneInv'
<1> SUFFICES ASSUME TypeOK, TypeOK', AloneInv, [Next]_vars, OnlyOne, NEW c \in Coordinators
             PROVE  AloneOk(c)'
  BY DEF AloneInv, OnlyOne
<1>1. AloneOk(c)
  BY DEF AloneInv
<1>2. QED
  BY <1>1, AloneStep

LEMMA AloneInvAlways == Spec => [](TypeOK /\ AloneInv)
<1>1. Spec => []TypeOK
  BY TypeInit, TypeStep, PTL DEF Spec
<1>2. QED
  BY <1>1, AloneInit, AloneInvStep, PTL DEF Spec

(* A single coordinator enqueues a fire that it does not enqueue ahead of  *)
(* its time at most once, and once more for every crash, stall or store    *)
(* error, with any misfire policy.                                         *)
THEOREM RepeatNeedsFaultCorrect == Spec => []RepeatNeedsFault
<1>1. TypeOK /\ AloneInv => RepeatNeedsFault
  <2> SUFFICES ASSUME AloneInv, \A c, d \in Coordinators : c = d, TypeOK,
                      NEW j \in Jobs, NEW t \in 0..MaxTime
               PROVE  Cardinality(OnTimeRuns(j, t)) <= 1 + faults
    BY DEF RepeatNeedsFault
  <2>1. t \in Nat
    BY TimesAssumption
  <2>2. PICK c \in Coordinators : TRUE
    BY JobsAssumption
  <2>3. QED
    BY <2>1, <2>2 DEF AloneInv, OnlyOne, AloneOk, PaidOk
<1>2. QED
  BY <1>1, AloneInvAlways, PTL

(* Division rounds down, and keeps the order. *)
LEMMA DivisionMonotone ==
  ASSUME NEW x \in Int, NEW y \in Int, x <= y, NEW s \in Nat, s > 0
  PROVE  x \div s \in Int /\ y \div s \in Int /\ x \div s <= y \div s
<1>1. /\ x \div s \in Int /\ y \div s \in Int
      /\ s * (x \div s) <= x /\ y < s * (y \div s) + s
  OBVIOUS
<1>2. QED
  BY <1>1

(* Multiples below the next one are not later than the time it follows. *)
LEMMA NoMultipleBetween ==
  ASSUME NEW p \in Nat, p > 0, NEW at \in Nat, NEW t \in Nat, t % p = 0,
         t < (at \div p + 1) * p
  PROVE  t <= at
<1>1. /\ t = p * (t \div p) /\ t \div p \in Nat
      /\ at \div p \in Nat /\ p * (at \div p) <= at
  OBVIOUS
<1>2. t \div p <= at \div p
  BY <1>1
<1>3. p * (t \div p) <= p * (at \div p)
  BY <1>1, <1>2
<1>4. QED
  BY <1>1, <1>3

(* A misfire that was given up is not made up for later. *)
LEMMA MisfireStays ==
  ASSUME NEW j \in Jobs, NEW fire \in Nat, NEW at \in Nat, NEW later \in Nat, at <= later,
         ~MisfireOk(j, fire, at)
  PROVE  ~MisfireOk(j, fire, later)
<1>1. Second \in Nat /\ Second > 0 /\ Window[j] \in Nat
  BY TimesAssumption, JobsAssumption
<1>2. /\ (at - fire) \div Second \in Int /\ (later - fire) \div Second \in Int
      /\ (at - fire) \div Second <= (later - fire) \div Second
  <2>1. at - fire \in Int /\ later - fire \in Int /\ at - fire <= later - fire
    OBVIOUS
  <2>2. QED
    BY <1>1, <2>1, DivisionMonotone
<1>3. QED
  BY <1>1, <1>2 DEF MisfireOk

(* persist_post_tick_job_state after create_run: the run stands for the    *)
(* fire in next_run_at and for those that CronExpr::next_after steps over. *)
LEMMA RunCoversFires ==
  ASSUME TypeOK, NEW c \in Coordinators, AloneOk(c), Persist(c), co[c].pc = "persist",
         NEW j \in Jobs, j = Current(c), jobs[j].exists, NEW t \in FiresUpTo(j, jobs'[j].next)
  PROVE  \E i \in DOMAIN runs[j] : Covers(runs[j][i], t)
<1>1. co[c].next = jobs[j].next /\ co[c].next \in Nat /\ co[c].at \in Nat
  BY AloneRead DEF ReadCalls
<1>2. PICK i \in Scheduled(j) : runs[j][i].fire = jobs[j].next /\ runs[j][i].at = co[c].at
  BY <1>1 DEF AloneOk, CreatedOk
<1>3. jobs'[j].next = NextRunAt(j, co[c].at)
  BY PersistEffect
<1>4. CASE t = jobs[j].next
  BY <1>2, <1>4 DEF Covers, Scheduled
<1>5. CASE t # jobs[j].next
  <2>1. t \in (jobs[j].next + 1)..(jobs'[j].next - 1) /\ t % Period[j] = 0
    BY <1>5 DEF FiresUpTo
  <2>2. Kind[j] = "cron"
    BY <1>1, <1>3, <2>1 DEF NextRunAt, None
  <2>3. Period[j] \in Nat /\ Period[j] > 0
    BY JobsAssumption
  <2>4. jobs'[j].next = CronNext(j, co[c].at) /\ jobs'[j].next \in Nat
    BY <1>1, <1>3, <2>2, CronNextLater DEF NextRunAt
  <2>5. t \in Nat /\ jobs[j].next < t /\ t < jobs'[j].next
    BY <1>1, <2>1, <2>4
  <2>6. t <= co[c].at
    BY <1>1, <2>1, <2>3, <2>4, <2>5, NoMultipleBetween DEF CronNext
  <2>7. QED
    BY <1>2, <2>5, <2>6 DEF Covers, Scheduled
<1>6. QED
  BY <1>4, <1>5

(* Only persist_post_tick_job_state moves next_run_at on, on a row. *)
LEMMA OnlyPersistMoves ==
  ASSUME TypeOK, [Next]_vars, NEW j \in Jobs, jobs'[j].next # jobs[j].next
  PROVE  \E c \in Coordinators : Persist(c) /\ j = Current(c) /\ jobs[j].exists
<1>1. ~UNCHANGED jobs
  OBVIOUS
<1>2. CASE \E q \in Jobs : (\E e \in BOOLEAN : SetEnabled(q, e)) \/ DeleteJob(q)
  BY <1>2, AdminEffect
<1>3. ASSUME NEW c \in Coordinators,
             ClaimJob(c) \/ TryClaimRunOnce(c) \/ MarkCompleted(c) \/ ReleaseOnce(c)
                \/ ReleaseClaim(c)
      PROVE  FALSE
  <2>1. CASE ClaimJob(c)
    <3>1. TickClaimFree(Current(c))
      BY <1>1, <2>1 DEF ClaimJob
    <3>2. /\ jobs'[Current(c)].next = jobs[Current(c)].next
          /\ \A q \in Jobs : q # Current(c) => jobs'[q] = jobs[q]
      BY <2>1, <3>1, ClaimJobEffect
    <3>3. QED
      BY <3>2
  <2>2. CASE TryClaimRunOnce(c)
    BY <2>2, TryClaimRunOnceEffect DEF SameFires
  <2>3. CASE MarkCompleted(c)
    BY <2>3, MarkCompletedEffect
  <2>4. CASE ReleaseOnce(c)
    BY <2>4, ReleaseOnceEffect DEF SameFires
  <2>5. CASE ReleaseClaim(c)
    BY <2>5, ReleaseClaimEffect DEF SameFires
  <2>6. QED
    BY <1>3, <2>1, <2>2, <2>3, <2>4, <2>5
<1>4. ASSUME NEW c \in Coordinators, Persist(c)
      PROVE  j = Current(c) /\ jobs[j].exists
  BY <1>1, <1>4, PersistEffect DEF SameFires
<1>5. \/ \E q \in Jobs : (\E e \in BOOLEAN : SetEnabled(q, e)) \/ DeleteJob(q)
      \/ \E c \in Coordinators : Persist(c)
      \/ \E c \in Coordinators : ClaimJob(c) \/ TryClaimRunOnce(c) \/ MarkCompleted(c)
                                    \/ ReleaseOnce(c) \/ ReleaseClaim(c)
  BY <1>1 DEF Next, OneTick, vars, Tick, FinishRun, RunNow, FindDue, MinNext, ReadJob,
              CountActive, CreateRun, StoreError, Crash
<1>6. QED
  BY <1>2, <1>3, <1>4, <1>5

LEMMA FiresKeptStep ==
  ASSUME TypeOK, TypeOK', AloneInv, OnlyOne, [Next]_vars, NEW j \in Jobs
  PROVE  FiresKept(j)
<1> SUFFICES ASSUME MovesOn(j)
             PROVE  \/ \A t \in FiresUpTo(j, jobs'[j].next) :
                         \E i \in DOMAIN runs[j] : Covers(runs[j][i], t)
                    \/ ~MisfireOk(j, jobs[j].next, now)
  BY DEF FiresKept
<1>1. jobs'[j].next # jobs[j].next
  BY TimesAreIntegers DEF MovesOn
<1>2. PICK c \in Coordinators : Persist(c) /\ j = Current(c) /\ jobs[j].exists
  BY <1>1, OnlyPersistMoves
<1>3. AloneOk(c)
  BY DEF AloneInv
<1>4. CASE co[c].pc = "persist"
  BY <1>2, <1>3, <1>4, RunCoversFires
<1>5. CASE co[c].pc = "skip_persist"
  <2>1. co[c].next = jobs[j].next /\ co[c].next \in Nat /\ co[c].at \in Nat /\ now \in Nat
    BY <1>2, <1>3, <1>5, AloneRead, FaultsType DEF ReadCalls
  <2>2. ~MisfireOk(j, jobs[j].next, co[c].at) /\ co[c].at <= now
    BY <1>2, <1>3, <1>5, <2>1 DEF AloneOk, SkipOk, PastOk
  <2>3. QED
    BY <2>1, <2>2, MisfireStays
<1>6. QED
  BY <1>2, <1>4, <1>5 DEF Persist

(* With a single coordinator no fire is lost, whatever crashes, stalls or  *)
(* fails: next_run_at moves on past fires only when a run stands for all   *)
(* of them, or the misfire policy gives them up.                           *)
THEOREM NoFireLostAlone ==
  ASSUME \A c, d \in Coordinators : c = d
  PROVE  Spec => NoFireLost
<1>0. OnlyOne
  BY DEF OnlyOne
<1>1. TypeOK /\ TypeOK' /\ AloneInv /\ [Next]_vars => [\A j \in Jobs : FiresKept(j)]_vars
  BY <1>0, FiresKeptStep
<1>2. QED
  BY <1>1, AloneInvAlways, PTL DEF Spec, NoFireLost
=============================================================================
