---------------------------- MODULE BoundaryProofs ---------------------------
(***************************************************************************)
(* Proofs about the modules at the boundaries of the scheduler.            *)
(*                                                                         *)
(* Schema: for every number of processes and of faults, those that         *)
(* bootstrap one database do not make each other fail (but for the CREATE  *)
(* SCHEMA of connect_isolated, which is outside the lock), none opens an   *)
(* incomplete store, and the advisory lock is not left behind.             *)
(*                                                                         *)
(* Authoring: for every set of scripts and of stored jobs, and for any     *)
(* number of builder calls and of requests that are served late or twice,  *)
(* what an author writes is what is stored and executed.                   *)
(*                                                                         *)
(* Browse: for any rows with any keys, any page size and any changes while *)
(* a client walks the pages, it has seen what stayed in the list, once.    *)
(*                                                                         *)
(* Adapters: after any sequence of calls of the port, with any arguments,  *)
(* the in-memory store and the SQL store hold the same rows and answer the *)
(* next call alike, with the exceptions that AnsweredAlike names.          *)
(***************************************************************************)
EXTENDS Schema, Authoring, Browse, Adapters,
        FiniteSetTheorems, SequenceTheorems, WellFoundedInduction, TLAPS

----------------------------------------------------------------------------
(* The inductive invariant.                                                *)

Places == {"off", "start", "schema", "making schema", "schema failed", "lock", "ddl", "creating",
           "unlock", "unlock failed", "open", "failed"}
Opening == [how : {"connect", "isolated", "attach"}, pc : Places, i : 1..(LastDdl + 1)]

BootTypes ==
    /\ dialect \in {"postgres", "sqlite"}
    /\ advisory \in Processes \cup {NoProcess}
    /\ proc \in [Processes -> Opening]
    /\ bootFaults \in 0..MaxBootFaults

(* The places between lock and unlock. *)
Inside == {"ddl", "creating", "unlock", "unlock failed"}

(* In PostgreSQL a process between lock and unlock has the lock, and one   *)
(* that has it is there or is open; in SQLite there is no lock and no      *)
(* second step.                                                            *)
LockOk(p) ==
    IF dialect = "postgres"
    THEN /\ proc[p].pc \in Inside => advisory = p
         /\ advisory = p => proc[p].pc \in Inside \cup {"open"}
    ELSE /\ advisory # p /\ proc[p].how = "connect"
         /\ proc[p].pc \in {"off", "start", "ddl", "open", "failed"}

(* The statements a process has behind it took effect; one that is past    *)
(* the last has them all behind it; what it is about to create is not      *)
(* there.                                                                  *)
DdlOk(p) ==
    /\ \A k \in 1..LastDdl : k < proc[p].i => Ddls[k] \in created
    /\ proc[p].how = "attach" => proc[p].pc \in {"start", "open", "failed"}
    /\ proc[p].how # "attach" /\ proc[p].pc \in {"unlock", "open"} => proc[p].i = LastDdl + 1
    /\ proc[p].pc = "creating" => proc[p].i <= LastDdl /\ Ddls[proc[p].i] \notin created

(* Every failure is a fault's. *)
FailuresPaid == IsFiniteSet(Faulted) /\ Cardinality(Faulted) <= bootFaults

BootInv ==
    /\ BootTypes
    /\ \A p \in Processes : LockOk(p) /\ DdlOk(p)
    /\ FailuresPaid

----------------------------------------------------------------------------
(* The statements.                                                         *)

(* There are twelve statements, the tables before the indexes. *)
LEMMA Statements ==
  /\ LastDdl = 12
  /\ Ddls[1] = "job" /\ Ddls[2] = "run" /\ Ddls[3] = "revision" /\ Ddls[4] = "script"
  /\ Ddls[5] = "leader" /\ Ddls[6] = "partition" /\ Ddls[7] = "worker"
  /\ Ddls[8] = "job_name" /\ Ddls[9] = "job_due_partitions" /\ Ddls[10] = "run_job_id"
  /\ Ddls[11] = "run_queued_pool" /\ Ddls[12] = "revision_job"
BY DEF LastDdl, Ddls, Tables, Indexes

(* No object is the schema, no two statements create the same object, and  *)
(* an index comes after its table.                                         *)
LEMMA StatementOrder ==
  ASSUME NEW i \in 1..LastDdl
  PROVE  /\ Ddls[i] # "schema"
         /\ Ddls[i] \in DOMAIN TableOf =>
              \E k \in 1..LastDdl : k < i /\ Ddls[k] = TableOf[Ddls[i]]
<1>1. i \in {1, 2, 3, 4, 5, 6, 7, 8, 9, 10, 11, 12}
  BY Statements
<1>2. DOMAIN TableOf = {"job_name", "job_due_partitions", "run_job_id", "run_queued_pool", "revision_job"}
  BY DEF TableOf
<1>3. /\ TableOf["job_name"] = "job" /\ TableOf["job_due_partitions"] = "job"
      /\ TableOf["run_job_id"] = "run" /\ TableOf["run_queued_pool"] = "run"
      /\ TableOf["revision_job"] = "revision"
  BY DEF TableOf
<1>4. CASE i \in {1, 2, 3, 4, 5, 6, 7}
  BY <1>2, <1>4, Statements
<1>5. CASE i \in {8, 9}
  <2>1. 1 \in 1..LastDdl /\ 1 < i /\ Ddls[1] = TableOf[Ddls[i]] /\ Ddls[i] # "schema"
    BY <1>3, <1>5, Statements
  <2>2. QED
    BY <2>1
<1>6. CASE i \in {10, 11}
  <2>1. 2 \in 1..LastDdl /\ 2 < i /\ Ddls[2] = TableOf[Ddls[i]] /\ Ddls[i] # "schema"
    BY <1>3, <1>6, Statements
  <2>2. QED
    BY <2>1
<1>7. CASE i = 12
  <2>1. 3 \in 1..LastDdl /\ 3 < i /\ Ddls[3] = TableOf[Ddls[i]] /\ Ddls[i] # "schema"
    BY <1>3, <1>7, Statements
  <2>2. QED
    BY <2>1
<1>8. QED
  BY <1>1, <1>4, <1>5, <1>6, <1>7

----------------------------------------------------------------------------
(* One process moves.                                                      *)

(* The faults are counted, up to their bound. *)
LEMMA FaultTypes ==
  ASSUME BootTypes, bootFaults' = bootFaults \/ BootFault
  PROVE  /\ bootFaults \in Nat /\ bootFaults' \in Nat /\ bootFaults <= bootFaults'
         /\ bootFaults' \in 0..MaxBootFaults
<1>1. MaxBootFaults \in Nat /\ bootFaults \in 0..MaxBootFaults
  BY BootAssumption DEF BootTypes
<1>2. bootFaults' = bootFaults \/ (bootFaults < MaxBootFaults /\ bootFaults' = bootFaults + 1)
  BY DEF BootFault
<1>3. QED
  BY <1>1, <1>2

(* The failures are paid for by faults, one each. *)
LEMMA Pays ==
  ASSUME FailuresPaid, NEW p \in Processes,
         bootFaults \in Nat, bootFaults' \in Nat, bootFaults <= bootFaults',
         \A q \in Processes : q # p => proc'[q] = proc[q] /\ (advisory' = q <=> advisory = q),
         p \in Faulted' => p \in Faulted \/ bootFaults' = bootFaults + 1
  PROVE  FailuresPaid'
<1>1. IsFiniteSet(Faulted) /\ Cardinality(Faulted) <= bootFaults /\ Cardinality(Faulted) \in Nat
  BY FS_CardinalityType DEF FailuresPaid
<1>2. CASE Faulted' \subseteq Faulted
  <2>1. IsFiniteSet(Faulted') /\ Cardinality(Faulted') <= Cardinality(Faulted)
    BY <1>1, <1>2, FS_Subset
  <2>2. Cardinality(Faulted') \in Nat
    BY <2>1, FS_CardinalityType
  <2>3. Cardinality(Faulted') <= bootFaults
    BY <1>1, <2>1, <2>2
  <2>4. QED
    BY <2>1, <2>2, <2>3 DEF FailuresPaid
<1>3. CASE ~(Faulted' \subseteq Faulted)
  <2>1. p \in Faulted' /\ p \notin Faulted /\ bootFaults' = bootFaults + 1
    BY <1>3 DEF Faulted
  <2>2. Faulted' \subseteq Faulted \cup {p}
    BY DEF Faulted
  <2>3. IsFiniteSet(Faulted \cup {p}) /\ Cardinality(Faulted \cup {p}) = Cardinality(Faulted) + 1
    BY <1>1, <2>1, FS_AddElement
  <2>4. IsFiniteSet(Faulted') /\ Cardinality(Faulted') <= Cardinality(Faulted) + 1
    BY <2>2, <2>3, FS_Subset
  <2>5. Cardinality(Faulted') \in Nat
    BY <2>4, FS_CardinalityType
  <2>6. QED
    BY <1>1, <2>1, <2>4, <2>5 DEF FailuresPaid
<1>4. QED
  BY <1>2, <1>3

(* A process moves, in order itself; the lock of the others and what they  *)
(* are about to create are left alone.                                     *)
LEMMA Moves ==
  ASSUME BootInv, NEW p \in Processes, NEW new \in Opening, proc' = [proc EXCEPT ![p] = new],
         dialect' = dialect, created \subseteq created',
         advisory' \in Processes \cup {NoProcess},
         \A q \in Processes : q # p => (advisory' = q <=> advisory = q),
         \A q \in Processes : q # p /\ proc[q].pc = "creating" => Ddls[proc[q].i] \notin created',
         LockOk(p)', DdlOk(p)',
         \/ bootFaults' = bootFaults /\ (p \in Faulted' => p \in Faulted)
         \/ BootFault
  PROVE  BootInv'
<1>1. BootTypes
  BY DEF BootInv
<1>2. /\ proc' \in [Processes -> Opening] /\ proc'[p] = new
      /\ \A q \in Processes : q # p => proc'[q] = proc[q]
  BY <1>1 DEF BootTypes
<1>3. /\ bootFaults \in Nat /\ bootFaults' \in Nat /\ bootFaults <= bootFaults'
      /\ bootFaults' \in 0..MaxBootFaults
  BY <1>1, FaultTypes
<1>4. BootTypes'
  BY <1>1, <1>2, <1>3 DEF BootTypes
<1>5. ASSUME NEW q \in Processes, q # p
      PROVE  LockOk(q)' /\ DdlOk(q)'
  <2>1. LockOk(q) /\ DdlOk(q) /\ proc'[q] = proc[q]
    BY <1>2, <1>5 DEF BootInv
  <2>2. LockOk(q)'
    BY <1>5, <2>1 DEF LockOk
  <2>3. DdlOk(q)'
    BY <1>5, <2>1 DEF DdlOk
  <2>4. QED
    BY <2>2, <2>3
<1>6. FailuresPaid'
  <2>1. p \in Faulted' => p \in Faulted \/ bootFaults' = bootFaults + 1
    BY DEF BootFault
  <2>2. QED
    BY <1>2, <1>3, <2>1, Pays DEF BootInv
<1>7. QED
  BY <1>4, <1>5, <1>6 DEF BootInv

(* A position that is not past the last statement is a statement's. *)
LEMMA StatementAt ==
  ASSUME NEW i \in 1..(LastDdl + 1), i <= LastDdl
  PROVE  i \in 1..LastDdl
<1>1. LastDdl = 12
  BY Statements
<1>2. QED
  BY <1>1

(* A process goes on without a statement of its own; the schema may appear. *)
LEMMA GotoMoves ==
  ASSUME BootInv, NEW p \in Processes, NEW x \in Places, Goto(p, x), dialect' = dialect,
         created' \in {created, created \cup {"schema"}},
         advisory' \in Processes \cup {NoProcess},
         \A q \in Processes : q # p => (advisory' = q <=> advisory = q),
         dialect = "postgres" /\ x \in Inside => advisory' = p,
         dialect = "postgres" /\ advisory' = p => x \in Inside \cup {"open"},
         dialect # "postgres" => advisory' # p /\ x \in {"off", "start", "ddl", "open", "failed"},
         proc[p].how = "attach" => x \in {"start", "open", "failed"},
         proc[p].how # "attach" /\ x \in {"unlock", "open"} => proc[p].i = LastDdl + 1,
         x = "creating" => proc[p].i <= LastDdl /\ Ddls[proc[p].i] \notin created,
         \/ /\ bootFaults' = bootFaults
            /\ x \in {"failed", "unlock failed"} => proc[p].pc \in {"failed", "unlock failed"}
            /\ x = "open" => advisory' # p
         \/ BootFault
  PROVE  BootInv'
<1>1. BootTypes /\ proc[p] \in Opening /\ LockOk(p) /\ DdlOk(p)
  BY DEF BootInv, BootTypes
<1> DEFINE new == [proc[p] EXCEPT !.pc = x]
<1>2. new \in Opening /\ new.pc = x /\ new.how = proc[p].how /\ new.i = proc[p].i
  BY <1>1 DEF Opening
<1>3. proc' = [proc EXCEPT ![p] = new]
  BY DEF Goto
<1> HIDE DEF new
<1>4. proc'[p] = new
  BY <1>1, <1>3 DEF BootTypes
<1>5. ASSUME NEW i \in 1..LastDdl, Ddls[i] \notin created
      PROVE  Ddls[i] \notin created'
  BY <1>5, StatementOrder
<1>6. \A q \in Processes : proc[q].i \in 1..(LastDdl + 1)
  BY <1>1 DEF BootTypes, Opening
<1>7. \A q \in Processes : proc[q].i <= LastDdl => proc[q].i \in 1..LastDdl
  BY <1>6, StatementAt, Zenon
<1>8. \A q \in Processes : q # p /\ proc[q].pc = "creating" => Ddls[proc[q].i] \notin created'
  BY <1>5, <1>7 DEF BootInv, DdlOk
<1>9. LockOk(p)'
  BY <1>1, <1>2, <1>4 DEF LockOk
<1>10. created \subseteq created'
  OBVIOUS
<1>11. DdlOk(p)'
  <2>1. \A k \in 1..LastDdl : k < proc'[p].i => Ddls[k] \in created'
    BY <1>1, <1>2, <1>4, <1>10 DEF DdlOk
  <2>2. x = "creating" => proc'[p].i <= LastDdl /\ Ddls[proc'[p].i] \notin created'
    BY <1>2, <1>4, <1>5, <1>7
  <2>3. QED
    BY <1>2, <1>4, <2>1, <2>2 DEF DdlOk
<1>12. bootFaults' = bootFaults => BootFault \/ (p \in Faulted' => p \in Faulted)
  BY <1>2, <1>4 DEF Faulted
<1>13. QED
  BY <1>2, <1>3, <1>8, <1>9, <1>10, <1>11, <1>12, Moves

(* A process has a statement behind it: the object is there, created by    *)
(* this process or by another.                                             *)
LEMMA StatementDone ==
  ASSUME BootInv, NEW p \in Processes, proc[p].i <= LastDdl, proc[p].pc \in {"ddl", "creating"},
         proc' = [proc EXCEPT ![p] = [proc[p] EXCEPT !.pc = "ddl", !.i = proc[p].i + 1]],
         created' = created \cup {Ddls[proc[p].i]},
         UNCHANGED <<dialect, advisory, bootFaults>>
  PROVE  BootInv'
<1>1. BootTypes /\ proc[p] \in Opening /\ LockOk(p) /\ DdlOk(p)
  BY DEF BootInv, BootTypes
<1> DEFINE n == proc[p].i
           new == [proc[p] EXCEPT !.pc = "ddl", !.i = n + 1]
<1>2. n \in 1..(LastDdl + 1) /\ n <= LastDdl /\ LastDdl = 12
  BY <1>1, Statements DEF Opening
<1>3. n \in 1..LastDdl /\ n + 1 \in 1..(LastDdl + 1)
  BY <1>2
<1>4. new \in Opening /\ new.pc = "ddl" /\ new.how = proc[p].how /\ new.i = n + 1
  BY <1>1, <1>3 DEF Opening, Places
<1>5. proc' = [proc EXCEPT ![p] = new] /\ created' = created \cup {Ddls[n]}
  OBVIOUS
<1> HIDE DEF new
<1>6. proc'[p] = new
  BY <1>1, <1>5 DEF BootTypes
<1>7. ASSUME NEW q \in Processes, q # p, proc[q].pc = "creating"
      PROVE  FALSE
  <2>1. LockOk(q)
    BY DEF BootInv
  <2>2. dialect = "postgres"
    BY <1>7, <2>1 DEF LockOk
  <2>3. advisory = q /\ advisory = p
    BY <1>1, <1>7, <2>1, <2>2 DEF LockOk, Inside
  <2>4. QED
    BY <1>7, <2>3
<1>8. LockOk(p)'
  BY <1>1, <1>4, <1>6 DEF LockOk, Inside
<1>9. DdlOk(p)'
  <2>1. ASSUME NEW k \in 1..LastDdl, k < n + 1
        PROVE  Ddls[k] \in created'
    <3>1. k < n \/ k = n
      BY <1>2, <2>1
    <3>2. k < n => Ddls[k] \in created
      BY <1>1 DEF DdlOk
    <3>3. QED
      BY <1>5, <3>1, <3>2
  <2>2. proc[p].how # "attach"
    BY <1>1 DEF DdlOk
  <2>3. QED
    BY <1>4, <1>6, <2>1, <2>2 DEF DdlOk
<1>10. advisory' \in Processes \cup {NoProcess}
  BY <1>1 DEF BootTypes
<1>11. p \notin Faulted'
  BY <1>4, <1>6 DEF Faulted
<1>12. QED
  BY <1>4, <1>5, <1>7, <1>8, <1>9, <1>10, <1>11, Moves

----------------------------------------------------------------------------
(* The steps.                                                              *)

(* The connection is there, or the process looks for its schema. *)
LEMMA ConnectKeeps ==
  ASSUME BootInv, NEW p \in Processes, Connected(p) \/ LookForSchema(p) \/ CreateSchema(p)
  PROVE  BootInv'
<1>1. /\ BootTypes /\ proc[p] \in Opening /\ LockOk(p) /\ DdlOk(p)
      /\ proc[p].pc \in {"start", "schema", "making schema"}
      /\ proc[p].how \in {"connect", "isolated", "attach"}
      /\ UNCHANGED <<dialect, advisory, bootFaults>>
  BY DEF BootInv, BootTypes, Opening, Connected, LookForSchema, CreateSchema
<1>2. /\ created' \in {created, created \cup {"schema"}}
      /\ advisory' \in Processes \cup {NoProcess}
      /\ dialect # "postgres" => advisory' # p
      /\ dialect = "postgres" => advisory' # p
  BY <1>1 DEF BootTypes, LockOk, Inside, Connected, LookForSchema, CreateSchema
<1>3. PICK x \in {"open", "schema", "lock", "ddl", "making schema", "schema failed"} :
         /\ Goto(p, x)
         /\ x = "open" <=> proc[p].how = "attach"
         /\ x = "ddl" => dialect # "postgres"
         /\ dialect # "postgres" => x = "ddl"
  <2>1. CASE Connected(p) /\ proc[p].how = "attach"
    BY <1>1, <2>1 DEF Connected, LockOk
  <2>2. CASE Connected(p) /\ proc[p].how = "isolated"
    BY <1>1, <2>2 DEF Connected, LockOk
  <2>3. CASE Connected(p) /\ proc[p].how = "connect"
    BY <1>1, <2>3 DEF Connected, LockOk
  <2>4. CASE LookForSchema(p) \/ CreateSchema(p)
    <3>1. dialect = "postgres" /\ proc[p].how # "attach"
      BY <1>1, <2>4 DEF LookForSchema, CreateSchema, LockOk, DdlOk
    <3>2. PICK x \in {"lock", "making schema", "schema failed"} : Goto(p, x)
      BY <2>4 DEF LookForSchema, CreateSchema
    <3>3. QED
      BY <3>1, <3>2
  <2>5. QED
    BY <1>1, <2>1, <2>2, <2>3, <2>4
<1>4. x \in Places /\ (x \in Inside <=> x = "ddl") /\ x \notin {"unlock", "creating", "failed", "unlock failed"}
  BY DEF Places, Inside
<1>5. QED
  BY <1>1, <1>2, <1>3, <1>4, GotoMoves

(* A process takes the advisory lock, when nobody has it. *)
LEMMA LockKeeps ==
  ASSUME BootInv, NEW p \in Processes, AdvisoryLock(p)
  PROVE  BootInv'
<1>1. LockOk(p) /\ DdlOk(p) /\ proc[p].pc = "lock" /\ advisory = NoProcess /\ advisory' = p /\ Goto(p, "ddl")
      /\ UNCHANGED <<dialect, created, bootFaults>>
  BY DEF BootInv, AdvisoryLock, MayLock
<1>2. dialect = "postgres" /\ proc[p].how # "attach"
  BY <1>1 DEF LockOk, DdlOk
<1>3. \A q \in Processes : q # p => (advisory' = q <=> advisory = q)
  BY <1>1, BootAssumption
<1>4. "ddl" \in Places /\ "ddl" \in Inside
  BY DEF Places, Inside
<1>5. QED
  BY <1>1, <1>2, <1>3, <1>4, GotoMoves

(* A process looks at its next statement. *)
LEMMA NextDdlKeeps ==
  ASSUME BootInv, NEW p \in Processes, NextDdl(p)
  PROVE  BootInv'
<1>1. /\ BootTypes /\ proc[p] \in Opening /\ LockOk(p) /\ DdlOk(p) /\ proc[p].pc = "ddl"
      /\ UNCHANGED <<dialect, advisory, bootFaults>>
  BY DEF BootInv, BootTypes, NextDdl
<1>2. proc[p].how # "attach" /\ proc[p].i \in 1..(LastDdl + 1) /\ LastDdl = 12
  BY <1>1, Statements DEF DdlOk, Opening
<1>3. advisory' \in Processes \cup {NoProcess} /\ (dialect = "postgres" <=> advisory' = p)
  BY <1>1 DEF BootTypes, LockOk, Inside
<1>4. CASE proc[p].i > LastDdl
  <2>1. PICK x \in {"unlock", "open"} :
           /\ Goto(p, x) /\ UNCHANGED created /\ (dialect = "postgres" <=> x = "unlock")
    BY <1>4 DEF NextDdl, Finished
  <2>2. x \in Places /\ (x \in Inside <=> x = "unlock") /\ x \notin {"creating", "failed", "unlock failed"}
        /\ (x # "unlock" => x = "open")
    BY DEF Places, Inside
  <2>3. proc[p].i = LastDdl + 1
    BY <1>2, <1>4
  <2>4. QED
    BY <1>1, <1>2, <1>3, <2>1, <2>2, <2>3, GotoMoves
<1>5. CASE proc[p].i <= LastDdl /\ dialect = "postgres" /\ Ddls[proc[p].i] \notin created
  <2>1. Goto(p, "creating") /\ UNCHANGED created
    BY <1>2, <1>5 DEF NextDdl
  <2>2. "creating" \in Places /\ "creating" \in Inside
    BY DEF Places, Inside
  <2>3. QED
    BY <1>1, <1>2, <1>3, <1>5, <2>1, <2>2, GotoMoves
<1>6. CASE proc[p].i <= LastDdl /\ ~(dialect = "postgres" /\ Ddls[proc[p].i] \notin created)
  <2>1. /\ proc' = [proc EXCEPT ![p] = [proc[p] EXCEPT !.i = proc[p].i + 1]]
        /\ created' = created \cup {Ddls[proc[p].i]}
    BY <1>2, <1>6 DEF NextDdl
  <2>2. [proc[p] EXCEPT !.i = proc[p].i + 1] = [proc[p] EXCEPT !.pc = "ddl", !.i = proc[p].i + 1]
    BY <1>1 DEF Opening
  <2>3. proc' = [proc EXCEPT ![p] = [proc[p] EXCEPT !.pc = "ddl", !.i = proc[p].i + 1]]
    BY <2>1, <2>2
  <2>4. QED
    BY <1>1, <1>6, <2>1, <2>3, StatementDone
<1>7. QED
  BY <1>2, <1>4, <1>5, <1>6

(* A process creates what it did not find: nobody else has in between, and *)
(* the table of an index is there.                                         *)
LEMMA CreateObjectKeeps ==
  ASSUME BootInv, NEW p \in Processes, CreateObject(p)
  PROVE  BootInv'
<1>1. /\ BootTypes /\ proc[p] \in Opening /\ DdlOk(p) /\ proc[p].pc = "creating"
      /\ UNCHANGED <<dialect, advisory, bootFaults>>
  BY DEF BootInv, BootTypes, CreateObject
<1>2. PICK n \in 1..LastDdl : n = proc[p].i
  BY <1>1, Statements DEF DdlOk, Opening
<1>3. Ddls[n] \notin created
  BY <1>1, <1>2 DEF DdlOk
<1>4. Ddls[n] \in DOMAIN TableOf => TableOf[Ddls[n]] \in created
  <2>1. \A k \in 1..LastDdl : k < n => Ddls[k] \in created
    BY <1>1, <1>2 DEF DdlOk
  <2>2. QED
    BY <2>1, StatementOrder
<1>5. /\ proc' = [proc EXCEPT ![p].pc = "ddl", ![p].i = @ + 1]
      /\ created' = created \cup {Ddls[n]}
  BY <1>2, <1>3, <1>4 DEF CreateObject
<1>6. proc' = [proc EXCEPT ![p] = [proc[p] EXCEPT !.pc = "ddl", !.i = proc[p].i + 1]]
  BY <1>1, <1>5 DEF BootTypes, Opening
<1>7. proc[p].i <= LastDdl
  BY <1>2, Statements
<1>8. QED
  BY <1>1, <1>2, <1>5, <1>6, <1>7, StatementDone

(* The lock is given back whatever the statements returned. *)
LEMMA UnlockKeeps ==
  ASSUME BootInv, NEW p \in Processes, Unlock(p)
  PROVE  BootInv'
<1>1. /\ LockOk(p) /\ DdlOk(p) /\ proc[p].pc \in {"unlock", "unlock failed"} /\ advisory' = NoProcess
      /\ UNCHANGED <<dialect, created, bootFaults>>
  BY DEF BootInv, Unlock
<1>2. dialect = "postgres" /\ advisory = p /\ proc[p].how # "attach"
  BY <1>1 DEF LockOk, DdlOk, Inside
<1>3. PICK x \in {"open", "failed"} : Goto(p, x) /\ (x = "open" <=> proc[p].pc = "unlock")
  BY <1>1 DEF Unlock
<1>4. x \in Places /\ x \notin Inside
  BY DEF Places, Inside
<1>5. x = "open" => proc[p].i = LastDdl + 1
  BY <1>1, <1>2, <1>3 DEF DdlOk
<1>6. NoProcess # p /\ \A q \in Processes : q # p => (advisory' = q <=> advisory = q)
  BY <1>1, <1>2, BootAssumption
<1>7. x = "failed" => proc[p].pc = "unlock failed"
  BY <1>1, <1>3
<1>8. QED
  BY <1>1, <1>2, <1>3, <1>4, <1>5, <1>6, <1>7, GotoMoves

(* The unlock fails: the store keeps the lock, and the fault pays for it. *)
LEMMA UnlockFailsKeeps ==
  ASSUME BootInv, NEW p \in Processes, UnlockFails(p)
  PROVE  BootInv'
<1>1. /\ LockOk(p) /\ DdlOk(p) /\ proc[p].pc \in {"unlock", "unlock failed"} /\ BootFault
      /\ UNCHANGED <<dialect, created>>
  BY DEF BootInv, UnlockFails
<1>2. dialect = "postgres" /\ advisory = p /\ proc[p].how # "attach"
  BY <1>1 DEF LockOk, DdlOk, Inside
<1>3. PICK x \in {"open", "failed"} :
         /\ Goto(p, x) /\ (x = "open" <=> proc[p].pc = "unlock")
         /\ advisory' = IF x = "open" THEN p ELSE NoProcess
  BY <1>1 DEF UnlockFails
<1>4. x \in Places /\ x \notin Inside
  BY DEF Places, Inside
<1>5. x = "open" => proc[p].i = LastDdl + 1
  BY <1>1, <1>2, <1>3 DEF DdlOk
<1>6. /\ advisory' \in Processes \cup {NoProcess}
      /\ \A q \in Processes : q # p => (advisory' = q <=> advisory = q)
      /\ advisory' = p => x = "open"
  BY <1>2, <1>3, BootAssumption
<1>7. QED
  BY <1>1, <1>2, <1>3, <1>4, <1>5, <1>6, GotoMoves

(* The session of an open store ends, and the lock with it. *)
LEMMA SessionEndsKeeps ==
  ASSUME BootInv, NEW p \in Processes, SessionEnds(p)
  PROVE  BootInv'
<1>1. /\ BootTypes /\ proc[p] \in Opening /\ DdlOk(p) /\ LockOk(p)
      /\ proc[p].pc = "open" /\ advisory = p /\ advisory' = NoProcess
      /\ UNCHANGED <<dialect, created, proc, bootFaults>>
  BY DEF BootInv, BootTypes, SessionEnds
<1>2. Goto(p, "open")
  BY <1>1 DEF Goto, BootTypes, Opening
<1>3. dialect = "postgres" /\ "open" \in Places /\ "open" \notin Inside
  BY <1>1 DEF LockOk, Places, Inside
<1>4. NoProcess # p /\ \A q \in Processes : q # p => (advisory' = q <=> advisory = q)
  BY <1>1, BootAssumption
<1>5. proc[p].how # "attach" => proc[p].i = LastDdl + 1
  BY <1>1 DEF DdlOk
<1>6. QED
  BY <1>1, <1>2, <1>3, <1>4, <1>5, GotoMoves

(* A statement fails, or the process dies. *)
LEMMA FaultKeeps ==
  ASSUME BootInv, NEW p \in Processes, DdlFails(p) \/ Dies(p)
  PROVE  BootInv'
<1>1. BootTypes /\ LockOk(p) /\ DdlOk(p) /\ BootFault /\ UNCHANGED <<dialect, created>>
  BY DEF BootInv, DdlFails, Dies
<1>2. "failed" \in Places /\ "unlock failed" \in Places /\ "failed" \notin Inside /\ "unlock failed" \in Inside
  BY DEF Places, Inside
<1>3. CASE DdlFails(p)
  <2>1. proc[p].pc \in {"ddl", "creating"} /\ advisory' = advisory /\ Goto(p, AfterError)
    BY <1>3 DEF DdlFails
  <2>2. proc[p].how # "attach" /\ (dialect = "postgres" <=> advisory = p)
    BY <1>1, <2>1 DEF DdlOk, LockOk, Inside
  <2>3. advisory' \in Processes \cup {NoProcess}
    BY <1>1, <2>1 DEF BootTypes
  <2>4. CASE dialect = "postgres"
    BY <1>1, <1>2, <2>1, <2>2, <2>3, <2>4, GotoMoves DEF AfterError
  <2>5. CASE dialect # "postgres"
    BY <1>1, <1>2, <2>1, <2>2, <2>3, <2>5, GotoMoves DEF AfterError
  <2>6. QED
    BY <2>4, <2>5
<1>4. CASE Dies(p)
  <2>1. Goto(p, "failed") /\ advisory' = IF advisory = p THEN NoProcess ELSE advisory
    BY <1>4 DEF Dies
  <2>2. advisory' \in Processes \cup {NoProcess} /\ advisory' # p
        /\ \A q \in Processes : q # p => (advisory' = q <=> advisory = q)
    BY <1>1, <2>1, BootAssumption DEF BootTypes
  <2>3. QED
    BY <1>1, <1>2, <2>1, <2>2, GotoMoves
<1>5. QED
  BY <1>3, <1>4

----------------------------------------------------------------------------
(* The theorem.                                                            *)

(* Nobody has started. *)
LEMMA InitInv == BootInit \/ BootIdle => BootInv
<1> SUFFICES ASSUME BootInit \/ BootIdle PROVE BootInv
  OBVIOUS
<1>1. PICK how \in [Processes -> {"connect", "isolated", "attach"}], at \in {"start", "off"} :
         /\ proc = [p \in Processes |-> [how |-> how[p], pc |-> at, i |-> 1]]
         /\ dialect = "sqlite" => \A p \in Processes : how[p] = "connect"
         /\ at = "off" => dialect = "sqlite"
  <2>1. CASE BootIdle
    <3> DEFINE how == [p \in Processes |-> "connect"]
    <3>1. how \in [Processes -> {"connect", "isolated", "attach"}]
      OBVIOUS
    <3>2. proc = [p \in Processes |-> [how |-> how[p], pc |-> "off", i |-> 1]] /\ dialect = "sqlite"
      BY <2>1 DEF BootIdle
    <3>3. \A p \in Processes : how[p] = "connect"
      OBVIOUS
    <3> HIDE DEF how
    <3>4. QED
      BY <3>1, <3>2, <3>3
  <2>2. CASE BootInit
    <3>1. PICK hows \in {{"connect"}, {"isolated", "attach"}} :
          \E how \in [Processes -> IF dialect = "sqlite" THEN {"connect"} ELSE hows] :
             proc = [p \in Processes |-> [how |-> how[p], pc |-> "start", i |-> 1]]
      BY <2>2 DEF BootInit
    <3>2. PICK how \in [Processes -> IF dialect = "sqlite" THEN {"connect"} ELSE hows] :
             proc = [p \in Processes |-> [how |-> how[p], pc |-> "start", i |-> 1]]
      BY <3>1
    <3>3. /\ how \in [Processes -> {"connect", "isolated", "attach"}]
          /\ dialect = "sqlite" => \A p \in Processes : how[p] = "connect"
      BY <3>1, <3>2
    <3>4. QED
      BY <3>2, <3>3
  <2>3. QED
    BY <2>1, <2>2
<1>2. dialect \in {"postgres", "sqlite"} /\ created = {} /\ advisory = NoProcess /\ bootFaults = 0
  BY DEF BootInit, BootIdle
<1>3. 1 \in 1..(LastDdl + 1) /\ \A k \in 1..LastDdl : ~(k < 1)
  BY Statements
<1>4. \A p \in Processes : proc[p].how = how[p] /\ proc[p].pc = at /\ proc[p].i = 1
  BY <1>1
<1>5. BootTypes
  <2>1. \A p \in Processes : [how |-> how[p], pc |-> at, i |-> 1] \in Opening
    BY <1>1, <1>3 DEF Opening, Places
  <2>2. proc \in [Processes -> Opening]
    BY <1>1, <2>1
  <2>3. bootFaults \in 0..MaxBootFaults
    BY <1>2, BootAssumption
  <2>4. QED
    BY <1>2, <2>2, <2>3 DEF BootTypes
<1>6. ASSUME NEW p \in Processes
      PROVE  LockOk(p) /\ DdlOk(p)
  <2>1. LockOk(p)
    BY <1>1, <1>2, <1>4, BootAssumption DEF LockOk, Inside
  <2>2. DdlOk(p)
    <3>1. at = "off" => proc[p].how = "connect"
      BY <1>1, <1>4
    <3>2. QED
      BY <1>3, <1>4, <3>1 DEF DdlOk
  <2>3. QED
    BY <2>1, <2>2
<1>7. FailuresPaid
  <2>1. Faulted = {}
    BY <1>4 DEF Faulted
  <2>2. IsFiniteSet(Faulted) /\ Cardinality(Faulted) = 0
    BY <2>1, FS_EmptySet
  <2>3. QED
    BY <1>2, <2>2 DEF FailuresPaid
<1>8. QED
  BY <1>5, <1>6, <1>7 DEF BootInv

(* Every step keeps the invariant. *)
LEMMA NextInv == BootInv /\ [BootNext]_bootVars => BootInv'
<1> SUFFICES ASSUME BootInv, [BootNext]_bootVars PROVE BootInv'
  OBVIOUS
<1>1. CASE BootNext
  BY <1>1, ConnectKeeps, LockKeeps, NextDdlKeeps, CreateObjectKeeps, UnlockKeeps, UnlockFailsKeeps,
     SessionEndsKeeps, FaultKeeps DEF BootNext
<1>2. CASE UNCHANGED bootVars
  <2>1. UNCHANGED <<dialect, created, advisory, proc, bootFaults>>
    BY <1>2 DEF bootVars
  <2>2. Faulted' = Faulted
    BY <2>1 DEF Faulted
  <2>3. QED
    BY <2>1, <2>2 DEF BootInv, BootTypes, LockOk, DdlOk, FailuresPaid
<1>3. QED
  BY <1>1, <1>2

(* Processes that bootstrap one database do not make each other fail, none *)
(* opens a store that is incomplete, and none leaves the advisory lock     *)
(* behind but by an unlock that failed, whichever statement fails or       *)
(* process dies (ensure_schema).                                           *)
THEOREM BootstrapSafeCorrect == BootSpec => []BootstrapSafe
<1>1. ASSUME BootInv
      PROVE  BootstrapSafe
  <2>1. BootstrapsDoNotClash
    BY <1>1 DEF BootInv, FailuresPaid, BootstrapsDoNotClash
  <2>2. OpenHasTables
    <3>1. DOMAIN Ddls = 1..LastDdl
      BY DEF Ddls, Tables, Indexes, LastDdl
    <3>2. ASSUME NEW p \in Processes, proc[p].pc = "open", proc[p].how # "attach"
          PROVE  \A k \in 1..LastDdl : Ddls[k] \in created
      <4>1. DdlOk(p)
        BY <1>1 DEF BootInv
      <4>2. proc[p].i = LastDdl + 1
        BY <3>2, <4>1 DEF DdlOk
      <4>3. \A k \in 1..LastDdl : k < LastDdl + 1
        BY Statements
      <4>4. QED
        BY <4>1, <4>2, <4>3 DEF DdlOk
    <3>3. QED
      BY <3>1, <3>2 DEF OpenHasTables
  <2>3. LockHasHolder
    <3>1. SUFFICES ASSUME advisory # NoProcess
                   PROVE  proc[advisory].pc \in {"ddl", "creating", "unlock", "unlock failed", "open"}
      BY DEF LockHasHolder
    <3>2. advisory \in Processes /\ LockOk(advisory)
      BY <1>1, <3>1 DEF BootInv, BootTypes
    <3>3. QED
      BY <3>2 DEF LockOk, Inside
  <2>4. QED
    BY <2>1, <2>2, <2>3 DEF BootstrapSafe
<1>2. QED
  BY <1>1, InitInv, NextInv, PTL DEF BootSpec

----------------------------------------------------------------------------
(* The inductive invariant.                                                *)

Builder ==
    [name : BOOLEAN, kind : {"cron", "run_once", "manual"}, expr : {None, "good"},
     tz : {None, "bad"}, at : {None, "soon"}, params : BOOLEAN,
     actor : {"null", "user", "system"}, pool : {None, "p", " p ", " ", "not a pool"},
     region : {None, "r"}, misfire : {"default", "coalesce"}, enabled : BOOLEAN,
     limits : {"ok", "over"}, calls : Nat]

Scripts == {d.attr : d \in Decls} \cup {o.script : o \in Olders}
Params == {"null", "empty", "typed"} \cup {o.params : o \in Olders}

(* A request has its reply once it was served. *)
Requests ==
    {q \in [what : {"upsert", "run_now"}, id : {None, "listed", "built"},
            state : {"sent", "served"}, reply : {None, "ok", "refused"}, awaited : BOOLEAN] :
        q.state = "served" => q.reply # None}

Answers == [call : {"upsert", "run_now"}, result : {"ok", "refused", "timeout"}]

AuthorTypes ==
    /\ pc \in {None, "source", "rejected", "build", "stopped", "upsert", "run", "execute"}
    /\ pc # None => decl \in Decls
    /\ older \in {None} \cup Olders
    /\ pc \in {"source", "build"} => builder \in Builder
    /\ sent \in Seq(Requests)
    /\ results \in Seq(Answers)
    /\ runs \in Seq([script : Scripts, params : Params])
    /\ stored # None => stored.script \in Scripts /\ stored.params \in Params

(* From upsert on there is a job, and before it nothing was sent. *)
JobBuilt ==
    IF pc \in {"upsert", "run", "execute"}
    THEN \E b \in Builder : b.params = builder.params /\ job = Built(b)
    ELSE sent = <<>> /\ results = <<>>

(* Before run_now there is no run, and no upsert was answered with Ok. *)
NoRunYet ==
    /\ pc \notin {"run", "execute"} =>
         runs = <<>> /\ Told("upsert", "ok") = {} /\ \A n \in DOMAIN sent : sent[n].what = "upsert"
    /\ runs = <<>> => ran = None

(* The author waits for one answer at a time, and where it is due. *)
OneAwaited ==
    /\ \A n, m \in DOMAIN sent : sent[n].awaited /\ sent[m].awaited => n = m
    /\ \A n \in DOMAIN sent :
         sent[n].awaited => pc = IF sent[n].what = "upsert" THEN "upsert" ELSE "run"

UpsertTaken == RowTaken(stored)

(* What is stored is the older job until an upsert over HTTP is served. *)
FromOlder ==
    /\ pc \notin {"run", "execute"} /\ sent = <<>> => stored = older
    /\ sent # <<>> => stored = older \/ (stored # None /\ UpsertTaken)

(* What an upsert that was served wrote, a later one of the same job       *)
(* writes again.                                                           *)
ServedTakes ==
    \A n \in DOMAIN sent : sent[n].what = "upsert" /\ sent[n].reply = "ok" => UpsertTaken

(* Once the author knows, the row, every run and the execution are the     *)
(* job's.                                                                  *)
KnownTakes ==
    Told("upsert", "ok") # {} =>
        /\ stored.script = job.script /\ stored.params = job.params
        /\ sent # <<>> => UpsertTaken
        /\ \A i \in DOMAIN runs : runs[i].script = job.script /\ runs[i].params = job.params
        /\ ran # None => ran = Outcome(job.script, job.params)

(* Every run, and every run_now that was not served yet, was answered with *)
(* Ok, given up, or is awaited and not refused.                            *)
Unserved == {n \in DOMAIN sent : sent[n].what = "run_now" /\ sent[n].state = "sent"}
Owed ==
    {n \in DOMAIN sent : /\ sent[n].what = "run_now" /\ sent[n].awaited
                         /\ sent[n].state = "sent" \/ sent[n].reply = "ok"}
RunsPaid ==
    Len(runs) + Cardinality(Unserved)
        <= Cardinality(Told("run_now", "ok")) + Cardinality(Told("run_now", "timeout"))
           + Cardinality(Owed)

AuthorInv ==
    /\ AuthorTypes /\ JobBuilt /\ NoRunYet /\ OneAwaited
    /\ ServedTakes /\ KnownTakes /\ RunsPaid /\ AuthFailsClosed /\ FromOlder

----------------------------------------------------------------------------
(* What the steps write.                                                   *)

(* The fields that a request carries are in the row that is written; a     *)
(* refusal leaves the row as it is.                                        *)
LEMMA UpsertTakes ==
  ASSUME NEW b \in Builder, job = Built(b), decl \in Decls, older \in {None} \cup Olders,
         NEW u \in {ServiceUpsert(job), HttpUpsert(Request(job))}
  PROVE  /\ u.ok \in BOOLEAN
         /\ ~u.ok => u.row = stored
         /\ u.ok => /\ u.row.script = job.script /\ u.row.params = job.params
                    /\ job.script \in Scripts /\ job.params \in Params
         /\ u.ok /\ u = HttpUpsert(Request(job)) /\ (stored = older \/ (stored # None /\ UpsertTaken))
              => RowTaken(u.row) /\ u.row # None
<1>1. job.script = decl.attr /\ job.params \in {"null", "empty", "typed"}
  BY DEF Built, HandleName, Serialised
<1>2. job.script \in Scripts /\ job.params \in Params
  BY <1>1 DEF Scripts, Params
<1>3. ASSUME u = ServiceUpsert(job)
      PROVE  /\ u.ok \in BOOLEAN
             /\ ~u.ok => u.row = stored
             /\ u.ok => u.row.script = job.script /\ u.row.params = job.params
  <2>1. CASE stored # None \/ CronBad(job)
    <3>1. u = Refused
      BY <1>3, <2>1 DEF ServiceUpsert, Write
    <3>2. QED
      BY <3>1 DEF Refused
  <2>2. CASE ~(stored # None \/ CronBad(job))
    <3> DEFINE row == [job EXCEPT !.next = IF job.kind = "cron" /\ job.expr # None
                                           THEN "cron" ELSE @]
    <3>1. u = Done(row)
      BY <1>3, <2>2 DEF ServiceUpsert, Write
    <3>2. row.script = job.script /\ row.params = job.params
      BY DEF Built
    <3> HIDE DEF row
    <3>3. QED
      BY <3>1, <3>2 DEF Done
  <2>3. QED
    BY <2>1, <2>2
<1>4. CASE u = HttpUpsert(Request(job))
  <2> DEFINE r == Request(job)
             row == [script |-> r.script, kind |-> r.kind, expr |-> r.expr, tz |-> r.tz,
                     at |-> Base.at, params |-> r.params,
                     actor |-> IF r.actor = "null" THEN Base.actor ELSE r.actor,
                     pool |-> IF r.pool = None THEN Base.pool ELSE Pool(r.pool),
                     region |-> Base.region, misfire |-> r.misfire,
                     enabled |-> r.enabled, limits |-> Clamped, next |-> Base.next]
  <2>1. u = Refused \/ u = Write(row, stored)
    BY <1>4 DEF HttpUpsert
  <2>2. CASE u = Refused
    BY <2>2 DEF Refused
  <2>3. CASE u # Refused
    <3> DEFINE new == [row EXCEPT !.next = IF row.kind = "cron" /\ row.expr # None
                                           THEN "cron" ELSE @]
    <3>1. u = Done(new)
      BY <2>1, <2>3 DEF Write
    <3>2. /\ Request(job).script = job.script /\ Request(job).kind = job.kind
          /\ Request(job).expr = job.expr /\ Request(job).tz = job.tz
          /\ Request(job).params = job.params /\ Request(job).enabled = job.enabled
          /\ Request(job).misfire = job.misfire /\ Request(job).actor = job.actor
          /\ Request(job).pool = IF job.pool = None THEN "" ELSE job.pool
      BY DEF Request
    <3>3. job.pool \in {None, "p", " p ", " ", "not a pool"}
      BY DEF Built, Builder
    <3>4. /\ Request(job).pool # None
          /\ Pool(Request(job).pool) = IF job.pool = None THEN None ELSE Pool(job.pool)
      BY <3>2, <3>3, AuthorAssumption DEF Pool, Trimmed
    <3>5. /\ new.script = job.script /\ new.kind = job.kind /\ new.expr = job.expr
          /\ new.tz = job.tz /\ new.params = job.params /\ new.misfire = job.misfire
          /\ new.enabled = job.enabled /\ new.limits = "ok"
          /\ new.pool = IF job.pool = None THEN None ELSE Pool(job.pool)
      BY <3>2, <3>4 DEF Clamped
    <3>6. /\ new.at = Base.at /\ new.region = Base.region
          /\ new.actor = IF job.actor = "null" THEN Base.actor ELSE job.actor
          /\ new.next = IF job.kind = "cron" /\ job.expr # None THEN "cron" ELSE Base.next
      BY <3>2
    <3> HIDE DEF new
    <3>7. ASSUME stored = older \/ (stored # None /\ UpsertTaken)
          PROVE  RowTaken(new) /\ new # None
      <4>1. /\ Base.at = FromBefore("at", None) /\ Base.region = FromBefore("region", None)
            /\ job.actor = "null" => Base.actor = FromBefore("actor", "null")
            /\ ~(job.kind = "cron" /\ job.expr # None) => Base.next = FromBefore("next", None)
        <5>1. CASE stored = None
          BY <3>7, <5>1 DEF Base, FromBefore
        <5>2. CASE stored # None /\ stored = older
          <6>1. Base = stored
            BY <5>2 DEF Base
          <6>2. \A f, d : FromBefore(f, d) = stored[f]
            BY <5>2 DEF FromBefore
          <6>3. QED
            BY <6>1, <6>2
        <5>3. CASE stored # None /\ UpsertTaken
          <6>1. Base = stored
            BY <5>3 DEF Base
          <6>2. RowTaken(stored)
            BY <5>3 DEF UpsertTaken
          <6>3. QED
            BY <6>1, <6>2 DEF RowTaken
        <5>4. QED
          BY <3>7, <5>1, <5>2, <5>3
      <4>2. /\ new.at = FromBefore("at", None) /\ new.region = FromBefore("region", None)
            /\ new.actor = IF job.actor = "null" THEN FromBefore("actor", "null") ELSE job.actor
            /\ new.next = IF job.kind = "cron" /\ job.expr # None THEN "cron"
                          ELSE FromBefore("next", None)
        BY <3>6, <4>1
      <4>3. RowTaken(new)
        BY <3>5, <4>2 DEF RowTaken
      <4>4. /\ FromBefore("at", None) \in {None} \cup Left("at")
            /\ FromBefore("region", None) \in {None} \cup Left("region")
            /\ FromBefore("actor", "null") \in {"null"} \cup Left("actor")
            /\ FromBefore("next", None) \in {None} \cup Left("next")
        BY DEF FromBefore, Left
      <4>5. /\ job.script \in {d.attr : d \in Decls} /\ job.kind \in {"cron", "run_once", "manual"}
            /\ job.expr \in {None, "good"} /\ job.tz \in {None, "bad"}
            /\ job.actor \in {"null", "user", "system"}
            /\ job.misfire \in {"default", "coalesce"} /\ job.enabled \in BOOLEAN
        BY <1>1 DEF Built, Builder
      <4>6. new.pool \in {None, "p", " p ", " ", "not a pool"}
        BY <3>3, <3>5 DEF Pool, Trimmed
      <4>7. new = [script |-> new.script, kind |-> new.kind, expr |-> new.expr, tz |-> new.tz,
                   at |-> new.at, params |-> new.params, actor |-> new.actor, pool |-> new.pool,
                   region |-> new.region, misfire |-> new.misfire, enabled |-> new.enabled,
                   limits |-> new.limits, next |-> new.next]
        BY DEF new
      <4>8. /\ new.script \in {d.attr : d \in Decls}
            /\ new.kind \in {"cron", "run_once", "manual"}
            /\ new.expr \in {None, "good"} /\ new.tz \in {None, "bad"}
            /\ new.misfire \in {"default", "coalesce"} /\ new.enabled \in BOOLEAN
            /\ new.limits \in {"ok", "over"}
        BY <3>5, <4>5
      <4>10. /\ new.at \in {None, "soon"} \cup Left("at")
             /\ new.region \in {None, "r"} \cup Left("region")
             /\ new.actor \in {"null", "user", "system"} \cup Left("actor")
             /\ new.next \in {None, "soon", "cron"} \cup Left("next")
        BY <4>2, <4>4, <4>5
      <4>11. new.params \in {"null", "empty", "typed"}
        BY <1>1, <3>5 DEF Built, Serialised
      <4>12. new \in Storable
        BY <4>6, <4>7, <4>8, <4>10, <4>11 DEF Storable
      <4>9. QED
        BY <4>3, <4>12, AuthorAssumption
    <3>8. QED
      BY <1>2, <3>1, <3>5, <3>7 DEF Done
  <2>4. QED
    BY <2>2, <2>3
<1>5. QED
  BY <1>2, <1>3, <1>4

(* An answer more. *)
LEMMA ToldMore ==
  ASSUME results \in Seq(Answers), NEW a \in Answers, results' = Append(results, a),
         NEW w, NEW r
  PROVE  /\ results' \in Seq(Answers)
         /\ IsFiniteSet(Told(w, r)) /\ Cardinality(Told(w, r)) \in Nat
         /\ a = [call |-> w, result |-> r] =>
              Told(w, r)' # {} /\ Cardinality(Told(w, r)') = Cardinality(Told(w, r)) + 1
         /\ a # [call |-> w, result |-> r] => Told(w, r)' = Told(w, r)
<1> DEFINE n == Len(results) + 1
<1>1. /\ Len(results) \in Nat /\ DOMAIN results = 1..Len(results)
      /\ DOMAIN results' = DOMAIN results \cup {n} /\ n \notin DOMAIN results
      /\ results'[n] = a /\ \A k \in DOMAIN results : results'[k] = results[k]
      /\ results' \in Seq(Answers)
  OBVIOUS
<1>2. IsFiniteSet(Told(w, r)) /\ Cardinality(Told(w, r)) \in Nat
  <2>1. IsFiniteSet(DOMAIN results)
    BY <1>1, FS_Interval
  <2>2. QED
    BY <2>1, FS_Subset, FS_CardinalityType DEF Told
<1> HIDE DEF n
<1>3. CASE a = [call |-> w, result |-> r]
  <2>1. Told(w, r)' = Told(w, r) \cup {n} /\ n \notin Told(w, r)
    BY <1>1, <1>3 DEF Told
  <2>2. QED
    BY <1>1, <1>2, <1>3, <2>1, FS_AddElement
<1>4. CASE a # [call |-> w, result |-> r]
  <2>1. Told(w, r)' = Told(w, r)
    BY <1>1, <1>4 DEF Told
  <2>2. QED
    BY <1>1, <1>2, <1>4, <2>1
<1>5. QED
  BY <1>3, <1>4

LEMMA ToldSame ==
  ASSUME results' = results
  PROVE  \A w, r : Told(w, r)' = Told(w, r)
  BY DEF Told

(* The sets that are counted are finite. *)
LEMMA CountsFinite ==
  ASSUME AuthorTypes
  PROVE  /\ Len(runs) \in Nat
         /\ \A w, r : Cardinality(Told(w, r)) \in Nat
         /\ IsFiniteSet(Unserved) /\ Cardinality(Unserved) \in Nat
         /\ IsFiniteSet(Owed) /\ Cardinality(Owed) \in Nat
         /\ \A S \in SUBSET DOMAIN sent : IsFiniteSet(S) /\ Cardinality(S) \in Nat
<1>1. /\ Len(sent) \in Nat /\ DOMAIN sent = 1..Len(sent) /\ Len(results) \in Nat
      /\ DOMAIN results = 1..Len(results) /\ Len(runs) \in Nat
  BY DEF AuthorTypes
<1>2. IsFiniteSet(DOMAIN sent) /\ IsFiniteSet(DOMAIN results)
  BY <1>1, FS_Interval
<1>3. \A w, r : IsFiniteSet(Told(w, r)) /\ Cardinality(Told(w, r)) \in Nat
  BY <1>2, FS_Subset, FS_CardinalityType DEF Told
<1>4. Unserved \subseteq DOMAIN sent /\ Owed \subseteq DOMAIN sent
  BY DEF Unserved, Owed
<1>5. \A S \in SUBSET DOMAIN sent : IsFiniteSet(S) /\ Cardinality(S) \in Nat
  BY <1>2, FS_Subset, FS_CardinalityType
<1>6. QED
  BY <1>1, <1>3, <1>4, <1>5

(* What is empty at the start holds no request, no run and no answer. *)
LEMMA NothingSent ==
  ASSUME sent = <<>>, results = <<>>, runs = <<>>, ran = None
  PROVE  /\ NoRunYet /\ OneAwaited /\ ServedTakes /\ KnownTakes /\ RunsPaid /\ AuthFailsClosed
         /\ sent \in Seq(Requests) /\ results \in Seq(Answers)
         /\ runs \in Seq([script : Scripts, params : Params])
<1>1. DOMAIN sent = {} /\ DOMAIN results = {} /\ Len(runs) = 0
  OBVIOUS
<1>2. (\A w, r : Told(w, r) = {}) /\ Unserved = {} /\ Owed = {}
  BY <1>1 DEF Told, Unserved, Owed
<1>3. /\ Cardinality(Told("run_now", "ok")) = 0 /\ Cardinality(Told("run_now", "timeout")) = 0
      /\ Cardinality(Unserved) = 0 /\ Cardinality(Owed) = 0
  BY <1>2, FS_EmptySet
<1>4. RunsPaid
  BY <1>1, <1>3 DEF RunsPaid
<1>5. NoRunYet /\ OneAwaited /\ ServedTakes /\ KnownTakes /\ AuthFailsClosed
  BY <1>1, <1>2 DEF NoRunYet, OneAwaited, ServedTakes, KnownTakes, AuthFailsClosed
<1>6. QED
  BY <1>4, <1>5

(* The counts of RunsPaid. *)
LEMMA CountsSame ==
  ASSUME sent' = sent, results' = results
  PROVE  /\ \A w, r : Told(w, r)' = Told(w, r)
         /\ Unserved' = Unserved /\ Owed' = Owed
  BY DEF Told, Unserved, Owed

----------------------------------------------------------------------------
(* The steps of the author alone.                                          *)

LEMMA EarlyKeeps ==
  ASSUME AuthorInv, Expand \/ BuilderCall \/ BadCron \/ Build
  PROVE  AuthorInv'
<1> USE DEF AuthorInv
<1>1. /\ pc \in {"source", "build"} /\ sent = <<>> /\ results = <<>>
      /\ runs = <<>> /\ ran = None /\ decl \in Decls /\ builder \in Builder
  BY AuthorAssumption
  DEF Expand, BuilderCall, BadCron, Build, JobBuilt, NoRunYet, AuthorTypes
<1>2. /\ sent' = <<>> /\ results' = <<>> /\ runs' = <<>> /\ ran' = None
      /\ UNCHANGED <<decl, auth, older, stored, sent, results, runs>>
      /\ pc' \in {"rejected", "build", "stopped", "upsert"}
  BY <1>1 DEF Expand, BuilderCall, BadCron, Build
<1>3. DOMAIN sent = {} /\ DOMAIN sent' = {} /\ DOMAIN results = {} /\ DOMAIN results' = {}
  BY <1>1, <1>2
<1>4. (pc' = "build" => builder' \in Builder)
  <2>1. CASE Expand
    BY <1>1, <2>1 DEF Expand
  <2>2. CASE BuilderCall
    <3>1. PICK b \in Calls(builder) : builder' = [b EXCEPT !.calls = @ + 1]
      BY <2>2 DEF BuilderCall
    <3>2. Calls(builder) \subseteq Builder
      <4>1. PICK c \in Builder : c = builder
        BY <1>1
      <4>2. /\ [c EXCEPT !.name = TRUE] \in Builder
            /\ [c EXCEPT !.expr = "good", !.kind = "cron"] \in Builder
            /\ [c EXCEPT !.tz = "bad"] \in Builder
        BY DEF Builder
      <4>3. /\ [c EXCEPT !.at = "soon", !.kind = "run_once"] \in Builder
            /\ [c EXCEPT !.kind = "manual"] \in Builder
            /\ [c EXCEPT !.params = TRUE] \in Builder
        BY DEF Builder
      <4>4. /\ [c EXCEPT !.actor = "user"] \in Builder
            /\ [c EXCEPT !.actor = "system"] \in Builder
            /\ [c EXCEPT !.pool = "p"] \in Builder
            /\ [c EXCEPT !.pool = " p "] \in Builder
        BY DEF Builder
      <4>5. /\ [c EXCEPT !.pool = " "] \in Builder
            /\ [c EXCEPT !.pool = "not a pool"] \in Builder
            /\ [c EXCEPT !.region = "r"] \in Builder
        BY DEF Builder
      <4>6. /\ [c EXCEPT !.limits = "over"] \in Builder
            /\ [c EXCEPT !.misfire = "coalesce"] \in Builder
            /\ [c EXCEPT !.enabled = FALSE] \in Builder
        BY DEF Builder
      <4>7. QED
        BY <4>1, <4>2, <4>3, <4>4, <4>5, <4>6, Zenon DEF Calls
    <3>3. PICK c \in Builder : c = b
      BY <3>1, <3>2
    <3>4. PICK k \in Nat : k = c.calls + 1
      <4>1. c.calls \in Nat
        BY DEF Builder
      <4>2. QED
        BY <4>1
    <3>5. [c EXCEPT !.calls = k] \in Builder
      BY DEF Builder
    <3>6. QED
      BY <3>1, <3>3, <3>4, <3>5
  <2>3. CASE BadCron \/ Build
    BY <2>3 DEF BadCron, Build
  <2>4. QED
    BY <2>1, <2>2, <2>3
<1>5. AuthorTypes'
  BY <1>1, <1>2, <1>4 DEF AuthorTypes
<1>6. JobBuilt'
  <2>1. CASE pc' = "upsert"
    <3>1. PICK b \in Builder : b = builder
      BY <1>1
    <3>2. Build /\ job' = Built(b) /\ builder' = [NewBuilder EXCEPT !.params = b.params]
      BY <1>1, <2>1, <3>1 DEF Expand, BuilderCall, BadCron, Build
    <3>3. job' = Built(b)'
      BY <1>2, <3>2 DEF Built, HandleName, Serialised, NextRun
    <3>4. builder'.params = b.params
      BY <3>2 DEF NewBuilder
    <3>5. QED
      BY <2>1, <3>3, <3>4 DEF JobBuilt
  <2>2. CASE pc' # "upsert"
    BY <1>2, <2>2 DEF JobBuilt
  <2>3. QED
    BY <2>1, <2>2
<1>7. (\A w, r : Told(w, r)' = {} /\ Told(w, r) = {}) /\ Unserved' = Unserved /\ Owed' = Owed
  BY <1>2, <1>3, CountsSame DEF Told
<1>8. NoRunYet' /\ OneAwaited' /\ ServedTakes' /\ KnownTakes' /\ AuthFailsClosed'
  BY <1>2, <1>3, <1>7
  DEF NoRunYet, OneAwaited, ServedTakes, KnownTakes, AuthFailsClosed
<1>9. RunsPaid'
  BY <1>2, <1>7 DEF RunsPaid
<1>10. FromOlder'
  BY <1>1, <1>2 DEF FromOlder
<1>11. QED
  BY <1>5, <1>6, <1>8, <1>9, <1>10

----------------------------------------------------------------------------
(* The steps in the process.                                               *)

LEMMA JobStays ==
  ASSUME AuthorInv, pc \in {"upsert", "run", "execute"}, pc' \in {"upsert", "run", "execute"},
         UNCHANGED <<decl, builder, job>>
  PROVE  /\ decl' \in Decls /\ JobBuilt'
         /\ \E b \in Builder : b.params = builder.params /\ job = Built(b)
<1>1. PICK b \in Builder : b.params = builder.params /\ job = Built(b)
  BY DEF AuthorInv, JobBuilt
<1>2. job' = Built(b)'
  BY <1>1 DEF Built, HandleName, Serialised, NextRun
<1>3. decl \in Decls
  BY AuthorAssumption DEF AuthorInv, AuthorTypes
<1>4. QED
  BY <1>1, <1>2, <1>3 DEF JobBuilt

(* A step that leaves the row alone, and the job unless nothing is sent. *)
LEMMA OlderStays ==
  ASSUME FromOlder, UNCHANGED <<older, stored>>,
         \/ sent = <<>> /\ sent' = <<>> /\ pc \notin {"run", "execute"}
         \/ sent' = <<>> /\ pc' \in {"run", "execute"}
         \/ job' = job /\ sent' # <<>> /\ (sent # <<>> \/ pc = "upsert")
  PROVE  FromOlder'
BY DEF FromOlder, UpsertTaken, RowTaken, FromBefore

LEMMA UpsertHereKeeps ==
  ASSUME AuthorInv, UpsertHere
  PROVE  AuthorInv'
<1> USE DEF AuthorInv
<1>1. /\ pc = "upsert" /\ sent = <<>> /\ pc' = "run" /\ runs = <<>> /\ ran = None
      /\ Told("upsert", "ok") = {}
      /\ UNCHANGED <<decl, other, auth, older, builder, job, sent, runs, ran>>
  BY DEF UpsertHere, NoRunYet
<1>2. decl \in Decls /\ decl' \in Decls /\ JobBuilt'
  BY <1>1, JobStays
<1>3. PICK b \in Builder : job = Built(b)
  BY <1>1, JobStays
<1>4. PICK u : /\ u = ServiceUpsert(job) /\ stored' = u.row
               /\ results' = Append(results, [call |-> "upsert",
                                              result |-> IF u.ok THEN "ok" ELSE "refused"])
  BY DEF UpsertHere, Returns
<1>5. /\ u.ok \in BOOLEAN
      /\ ~u.ok => u.row = stored
      /\ u.ok => /\ u.row.script = job.script /\ u.row.params = job.params
                 /\ job.script \in Scripts /\ job.params \in Params
  <2>1. older \in {None} \cup Olders
    BY DEF AuthorTypes
  <2>2. QED
    BY <1>2, <1>3, <1>4, <2>1, UpsertTakes
<1>6. PICK a \in Answers : /\ a = [call |-> "upsert", result |-> IF u.ok THEN "ok" ELSE "refused"]
                           /\ results' = Append(results, a)
  BY <1>4 DEF Answers
<1>7. /\ results' \in Seq(Answers)
      /\ ~u.ok => Told("upsert", "ok")' = Told("upsert", "ok")
      /\ Told("run_now", "ok")' = Told("run_now", "ok")
      /\ Told("run_now", "timeout")' = Told("run_now", "timeout")
  <2>1. /\ ~u.ok => a # [call |-> "upsert", result |-> "ok"]
        /\ a # [call |-> "run_now", result |-> "ok"]
        /\ a # [call |-> "run_now", result |-> "timeout"]
    BY <1>6
  <2>2. QED
    BY <1>6, <2>1, ToldMore DEF AuthorTypes
<1>8. AuthorTypes'
  <2>1. stored' # None => stored'.script \in Scripts /\ stored'.params \in Params
    <3>1. CASE u.ok
      BY <1>4, <1>5, <3>1
    <3>2. CASE ~u.ok
      BY <1>4, <1>5, <3>2 DEF AuthorTypes
    <3>3. QED
      BY <3>1, <3>2
  <2>2. QED
    BY <1>1, <1>2, <1>7, <2>1 DEF AuthorTypes
<1>9. DOMAIN sent = {} /\ DOMAIN sent' = {} /\ DOMAIN runs' = {}
  BY <1>1
<1>10. NoRunYet' /\ OneAwaited' /\ ServedTakes' /\ AuthFailsClosed'
  BY <1>1, <1>9 DEF NoRunYet, OneAwaited, ServedTakes, AuthFailsClosed
<1>11. KnownTakes'
  <2>1. CASE u.ok
    BY <1>1, <1>4, <1>5, <1>9, <2>1 DEF KnownTakes
  <2>2. CASE ~u.ok
    BY <1>1, <1>7, <2>2 DEF KnownTakes
  <2>3. QED
    BY <2>1, <2>2
<1>12. RunsPaid'
  <2>1. Unserved' = Unserved /\ Owed' = Owed
    BY <1>1 DEF Unserved, Owed
  <2>2. QED
    BY <1>1, <1>7, <2>1 DEF RunsPaid
<1>13. FromOlder'
  BY <1>1 DEF FromOlder
<1>14. QED
  BY <1>2, <1>8, <1>10, <1>11, <1>12, <1>13

LEMMA RunHereKeeps ==
  ASSUME AuthorInv, RunHere
  PROVE  AuthorInv'
<1> USE DEF AuthorInv
<1>1. /\ pc = "run" /\ sent = <<>> /\ pc' = "execute" /\ runs = <<>> /\ ran = None
      /\ runs' = NewRuns(stored)
      /\ UNCHANGED <<decl, other, auth, older, builder, job, sent, stored, ran>>
  BY DEF RunHere, NoRunYet
<1>2. decl' \in Decls /\ JobBuilt'
  BY <1>1, JobStays
<1>3. PICK a \in Answers :
        /\ a = [call |-> "run_now", result |-> IF stored = None THEN "refused" ELSE "ok"]
        /\ results' = Append(results, a)
  BY DEF RunHere, Returns, Answers
<1>4. /\ results' \in Seq(Answers)
      /\ Told("upsert", "ok")' = Told("upsert", "ok")
      /\ Told("run_now", "timeout")' = Told("run_now", "timeout")
      /\ Cardinality(Told("run_now", "ok")) \in Nat
      /\ stored = None => Told("run_now", "ok")' = Told("run_now", "ok")
      /\ stored # None =>
           Cardinality(Told("run_now", "ok")') = Cardinality(Told("run_now", "ok")) + 1
  <2>1. /\ a # [call |-> "upsert", result |-> "ok"]
        /\ a # [call |-> "run_now", result |-> "timeout"]
        /\ stored = None => a # [call |-> "run_now", result |-> "ok"]
        /\ stored # None => a = [call |-> "run_now", result |-> "ok"]
    BY <1>3
  <2>2. results \in Seq(Answers)
    BY DEF AuthorTypes
  <2>3. QED
    BY <1>3, <2>1, <2>2, ToldMore
<1>5. PICK k \in Nat : Len(runs') = k /\ k = IF stored = None THEN 0 ELSE 1
  BY <1>1 DEF NewRuns
<1>6. /\ runs' \in Seq([script : Scripts, params : Params])
      /\ \A i \in DOMAIN runs' : /\ runs'[i].script = stored.script
                                 /\ runs'[i].params = stored.params
  <2>1. CASE stored = None
    BY <1>1, <2>1 DEF NewRuns
  <2>2. CASE stored # None
    <3>1. PICK x \in [script : Scripts, params : Params] :
            x = [script |-> stored.script, params |-> stored.params]
      BY <2>2 DEF AuthorTypes
    <3>2. runs' = <<x>> /\ x.script = stored.script /\ x.params = stored.params
      BY <1>1, <2>2, <3>1 DEF NewRuns
    <3>3. QED
      BY <3>2
  <2>3. QED
    BY <2>1, <2>2
<1>7. AuthorTypes'
  BY <1>1, <1>2, <1>4, <1>6 DEF AuthorTypes
<1>8. DOMAIN sent = {} /\ DOMAIN sent' = {}
  BY <1>1
<1>9. NoRunYet' /\ OneAwaited' /\ ServedTakes' /\ AuthFailsClosed'
  BY <1>1, <1>8 DEF NoRunYet, OneAwaited, ServedTakes, AuthFailsClosed
<1>10. KnownTakes'
  BY <1>1, <1>4, <1>6 DEF KnownTakes
<1>11. RunsPaid'
  <2>1. Unserved = {} /\ Owed = {} /\ Unserved' = {} /\ Owed' = {}
    BY <1>8 DEF Unserved, Owed
  <2>2. Cardinality(Unserved) = 0 /\ Cardinality(Owed) = 0
        /\ Cardinality(Unserved') = 0 /\ Cardinality(Owed') = 0
    BY <2>1, FS_EmptySet
  <2>3. Cardinality(Told("run_now", "timeout")) \in Nat
    BY CountsFinite
  <2>4. stored = None \/ stored # None
    OBVIOUS
  <2>5. QED
    BY <1>4, <1>5, <2>2, <2>3, <2>4 DEF RunsPaid
<1>12. FromOlder'
  BY <1>1 DEF FromOlder
<1>13. QED
  BY <1>2, <1>7, <1>9, <1>10, <1>11, <1>12

LEMMA ExecuteKeeps ==
  ASSUME AuthorInv, Execute
  PROVE  AuthorInv'
<1> USE DEF AuthorInv
<1>1. /\ runs # <<>> /\ ran' = Outcome(runs[1].script, runs[1].params)
      /\ UNCHANGED <<decl, other, auth, older, pc, builder, job, sent, stored, runs, results>>
  BY DEF Execute
<1>2. pc \in {"run", "execute"}
  BY <1>1 DEF NoRunYet
<1>3. JobBuilt' /\ AuthorTypes'
  BY <1>1, <1>2, JobStays DEF AuthorTypes
<1>4. (\A w, r : Told(w, r)' = Told(w, r)) /\ Unserved' = Unserved /\ Owed' = Owed
  BY <1>1, CountsSame
<1>5. NoRunYet' /\ OneAwaited' /\ ServedTakes' /\ AuthFailsClosed' /\ RunsPaid'
  BY <1>1, <1>2, <1>4
  DEF NoRunYet, OneAwaited, ServedTakes, AuthFailsClosed, RunsPaid, UpsertTaken, RowTaken, FromBefore
<1>6. KnownTakes'
  <2>1. ASSUME Told("upsert", "ok") # {}
        PROVE  ran' = Outcome(job.script, job.params)
    <3>1. 1 \in DOMAIN runs
      BY <1>1 DEF AuthorTypes
    <3>2. QED
      BY <1>1, <2>1, <3>1 DEF KnownTakes
  <2>2. Outcome(job.script, job.params)' = Outcome(job.script, job.params)
    BY <1>1 DEF Outcome, Registry, Decodes
  <2>3. QED
    BY <1>1, <1>4, <2>1, <2>2 DEF KnownTakes, UpsertTaken, RowTaken, FromBefore
<1>7. FromOlder'
  BY <1>1, <1>2, OlderStays
<1>8. QED
  BY <1>3, <1>5, <1>6, <1>7

----------------------------------------------------------------------------
(* The steps over HTTP.                                                    *)

(* A request more, where none was awaited. *)
LEMMA SendCounts ==
  ASSUME AuthorInv, NEW w \in {"upsert", "run_now"}, NEW id \in {None, "listed", "built"},
         Send(w, id)
  PROVE  /\ sent' \in Seq(Requests) /\ sent' # <<>>
         /\ \E n : /\ DOMAIN sent' = DOMAIN sent \cup {n} /\ n \notin DOMAIN sent
                   /\ sent'[n].what = w /\ sent'[n].reply = None
                   /\ \A m \in DOMAIN sent : sent'[m] = sent[m] /\ ~sent[m].awaited
         /\ w = "upsert" => Unserved' = Unserved /\ Owed' = Owed
         /\ w = "run_now" => /\ Cardinality(Unserved') = Cardinality(Unserved) + 1
                             /\ Cardinality(Owed') = Cardinality(Owed) + 1
<1> DEFINE n == Len(sent) + 1
<1>1. PICK q \in Requests : /\ sent' = Append(sent, q) /\ q.what = w /\ q.reply = None
                            /\ q.state = "sent" /\ q.awaited = TRUE
  <2> DEFINE q == [what |-> w, id |-> id, state |-> "sent", reply |-> None, awaited |-> TRUE]
  <2>1. q \in Requests
    BY DEF Requests
  <2>2. sent' = Append(sent, q)
    BY DEF Send
  <2>3. /\ q.what = w /\ q.reply = None /\ q.state = "sent" /\ q.awaited = TRUE
    OBVIOUS
  <2> HIDE DEF q
  <2>4. QED
    BY <2>1, <2>2, <2>3
<1>2. sent \in Seq(Requests) /\ \A m \in DOMAIN sent : ~sent[m].awaited
  BY DEF AuthorInv, AuthorTypes, Send
<1>3. /\ sent' \in Seq(Requests) /\ sent' # <<>>
      /\ DOMAIN sent' = DOMAIN sent \cup {n} /\ n \notin DOMAIN sent
      /\ sent'[n] = q /\ \A m \in DOMAIN sent : sent'[m] = sent[m]
  BY <1>1, <1>2
<1> HIDE DEF n
<1>4. w = "upsert" => Unserved' = Unserved /\ Owed' = Owed
  BY <1>1, <1>3 DEF Unserved, Owed
<1>5. ASSUME w = "run_now"
      PROVE  /\ Cardinality(Unserved') = Cardinality(Unserved) + 1
             /\ Cardinality(Owed') = Cardinality(Owed) + 1
  <2>1. /\ Unserved' = Unserved \cup {n} /\ n \notin Unserved
        /\ Owed' = Owed \cup {n} /\ n \notin Owed
    BY <1>1, <1>3, <1>5 DEF Unserved, Owed
  <2>2. IsFiniteSet(Unserved) /\ IsFiniteSet(Owed)
    BY CountsFinite DEF AuthorInv
  <2>3. QED
    BY <2>1, <2>2, FS_AddElement
<1>6. QED
  BY <1>1, <1>2, <1>3, <1>4, <1>5

LEMMA SendKeeps ==
  ASSUME AuthorInv, SendUpsert \/ SendRunNow
  PROVE  AuthorInv'
<1> USE DEF AuthorInv
<1>1. PICK w \in {"upsert", "run_now"}, id \in {None, "listed", "built"} :
        /\ Send(w, id)
        /\ w = "upsert" => pc = "upsert"
        /\ w = "run_now" => pc = "run" /\ sent # <<>>
  BY DEF SendUpsert, SendRunNow
<1>2. UNCHANGED <<decl, other, auth, older, pc, builder, job, stored, runs, results, ran>>
  BY DEF SendUpsert, SendRunNow
<1>3. JobBuilt' /\ decl' \in Decls
  BY <1>1, <1>2, JobStays
<1>4. PICK n : /\ DOMAIN sent' = DOMAIN sent \cup {n} /\ n \notin DOMAIN sent
               /\ sent'[n].what = w /\ sent'[n].reply = None
               /\ \A m \in DOMAIN sent : sent'[m] = sent[m] /\ ~sent[m].awaited
  BY <1>1, SendCounts
<1>5. /\ sent' \in Seq(Requests) /\ sent' # <<>>
      /\ w = "upsert" => Unserved' = Unserved /\ Owed' = Owed
      /\ w = "run_now" => /\ Cardinality(Unserved') = Cardinality(Unserved) + 1
                          /\ Cardinality(Owed') = Cardinality(Owed) + 1
  BY <1>1, SendCounts
<1>6. \A v, r : Told(v, r)' = Told(v, r)
  BY <1>2, ToldSame
<1>7. AuthorTypes'
  BY <1>2, <1>5 DEF AuthorTypes
<1>8. NoRunYet' /\ OneAwaited'
  BY <1>1, <1>2, <1>4, <1>6 DEF NoRunYet, OneAwaited
<1>9. ServedTakes'
  BY <1>2, <1>4, AuthorAssumption DEF ServedTakes, UpsertTaken, RowTaken, FromBefore
<1>10. KnownTakes'
  <2>1. Told("upsert", "ok") # {} => sent # <<>>
    BY <1>1 DEF NoRunYet
  <2>2. Outcome(job.script, job.params)' = Outcome(job.script, job.params)
    BY <1>2 DEF Outcome, Registry, Decodes
  <2>3. QED
    BY <1>2, <1>6, <2>1, <2>2 DEF KnownTakes, UpsertTaken, RowTaken, FromBefore
<1>11. AuthFailsClosed'
  <2>1. sent = <<>> => runs = <<>>
    BY <1>1 DEF NoRunYet
  <2>2. QED
    BY <1>2, <1>4, <2>1, AuthorAssumption DEF AuthFailsClosed
<1>12. RunsPaid'
  <2>1. /\ Len(runs) \in Nat /\ Cardinality(Unserved) \in Nat /\ Cardinality(Owed) \in Nat
        /\ Cardinality(Told("run_now", "ok")) \in Nat
        /\ Cardinality(Told("run_now", "timeout")) \in Nat
    BY CountsFinite
  <2>2. CASE w = "upsert"
    BY <1>2, <1>5, <1>6, <2>2 DEF RunsPaid
  <2>3. CASE w = "run_now"
    BY <1>2, <1>5, <1>6, <2>1, <2>3 DEF RunsPaid
  <2>4. QED
    BY <2>2, <2>3
<1>13. FromOlder'
  BY <1>1, <1>2, <1>5, OlderStays
<1>14. QED
  BY <1>3, <1>7, <1>8, <1>9, <1>10, <1>11, <1>12, <1>13

LEMMA SentChanged ==
  ASSUME sent \in Seq(Requests), NEW n \in DOMAIN sent, NEW q \in Requests,
         sent' = [sent EXCEPT ![n] = q]
  PROVE  /\ sent' \in Seq(Requests) /\ DOMAIN sent' = DOMAIN sent
         /\ \A m \in DOMAIN sent : m # n => sent'[m] = sent[m]
         /\ sent'[n] = q
<1>1. /\ Len(sent) \in Nat /\ DOMAIN sent = 1..Len(sent)
      /\ sent \in [1..Len(sent) -> Requests]
  OBVIOUS
<1>2. sent' \in [1..Len(sent) -> Requests]
  BY <1>1
<1>3. sent' \in Seq(Requests)
  BY <1>1, <1>2, SeqDef
<1>4. QED
  BY <1>1, <1>3

(* A request that is served leaves those that were not, and is owed only   *)
(* if it was and the answer is Ok.                                         *)
LEMMA ServeCounts ==
  ASSUME AuthorInv, NEW n \in DOMAIN sent, sent[n].state = "sent", NEW ok \in BOOLEAN,
         sent' = [sent EXCEPT ![n].state = "served",
                              ![n].reply = IF ok THEN "ok" ELSE "refused"]
  PROVE  /\ sent' \in Seq(Requests) /\ DOMAIN sent' = DOMAIN sent
         /\ \A m \in DOMAIN sent : m # n => sent'[m] = sent[m]
         /\ sent'[n].what = sent[n].what /\ sent'[n].awaited = sent[n].awaited
         /\ sent'[n].reply = IF ok THEN "ok" ELSE "refused"
         /\ sent[n].what = "upsert" => Unserved' = Unserved /\ Owed' = Owed
         /\ sent[n].what = "run_now" =>
              /\ Cardinality(Unserved') = Cardinality(Unserved) - 1
              /\ ok => Owed' = Owed
              /\ Cardinality(Owed) <= Cardinality(Owed') + 1
<1>1. sent \in Seq(Requests) /\ sent[n] \in Requests
  BY DEF AuthorInv, AuthorTypes
<1>2. PICK q \in Requests : /\ q = [sent[n] EXCEPT !.state = "served",
                                                   !.reply = IF ok THEN "ok" ELSE "refused"]
                            /\ q.what = sent[n].what /\ q.awaited = sent[n].awaited
                            /\ q.reply = IF ok THEN "ok" ELSE "refused"
                            /\ q.state = "served"
  <2>1. PICK v \in {"ok", "refused"} : v = IF ok THEN "ok" ELSE "refused"
    OBVIOUS
  <2>2. PICK p \in Requests : p = sent[n]
    BY <1>1
  <2> DEFINE q == [p EXCEPT !.state = "served", !.reply = v]
  <2>3. /\ q \in [what : {"upsert", "run_now"}, id : {None, "listed", "built"},
                  state : {"sent", "served"}, reply : {None, "ok", "refused"},
                  awaited : BOOLEAN]
        /\ q.what = p.what /\ q.awaited = p.awaited /\ q.reply = v /\ q.state = "served"
    BY DEF Requests
  <2>4. q \in Requests
    BY <2>3, AuthorAssumption DEF Requests
  <2>5. q = [sent[n] EXCEPT !.state = "served", !.reply = IF ok THEN "ok" ELSE "refused"]
    BY <2>1, <2>2
  <2> HIDE DEF q
  <2>6. QED
    BY <2>1, <2>2, <2>3, <2>4, <2>5
<1>3. sent' = [sent EXCEPT ![n] = q]
  BY <1>1, <1>2
<1>4. /\ sent' \in Seq(Requests) /\ DOMAIN sent' = DOMAIN sent
      /\ \A m \in DOMAIN sent : m # n => sent'[m] = sent[m]
      /\ sent'[n] = q
  BY <1>1, <1>3, SentChanged
<1>5. sent[n].what = "upsert" => Unserved' = Unserved /\ Owed' = Owed
  BY <1>2, <1>4 DEF Unserved, Owed
<1>6. ASSUME sent[n].what = "run_now"
      PROVE  /\ Cardinality(Unserved') = Cardinality(Unserved) - 1
             /\ ok => Owed' = Owed
             /\ Cardinality(Owed) <= Cardinality(Owed') + 1
  <2>1. Unserved' = Unserved \ {n} /\ n \in Unserved
    BY <1>2, <1>4, <1>6 DEF Unserved
  <2>2. ok => Owed' = Owed
    BY <1>2, <1>4, <1>6 DEF Owed
  <2>3. ~ok => Owed' = Owed \ {n}
    BY <1>2, <1>4, <1>6 DEF Owed
  <2>4. /\ IsFiniteSet(Unserved) /\ IsFiniteSet(Owed)
        /\ Cardinality(Unserved) \in Nat /\ Cardinality(Owed) \in Nat
    BY CountsFinite DEF AuthorInv
  <2>5. Cardinality(Unserved') = Cardinality(Unserved) - 1
    BY <2>1, <2>4, FS_RemoveElement
  <2>6. Cardinality(Owed) <= Cardinality(Owed') + 1
    <3>1. CASE Owed' = Owed
      BY <2>4, <3>1
    <3>2. CASE Owed' = Owed \ {n} /\ n \in Owed
      <4>1. Cardinality(Owed') = Cardinality(Owed) - 1
        BY <2>4, <3>2, FS_RemoveElement
      <4>2. QED
        BY <2>4, <4>1
    <3>3. QED
      BY <2>2, <2>3, <3>1, <3>2
  <2>7. QED
    BY <2>2, <2>5, <2>6
<1>7. QED
  BY <1>2, <1>4, <1>5, <1>6

LEMMA ServeKeeps ==
  ASSUME AuthorInv, NEW n \in DOMAIN sent, Serve(n)
  PROVE  AuthorInv'
<1> USE DEF AuthorInv
<1>1. /\ sent # <<>> /\ pc \in {"upsert", "run", "execute"} /\ sent[n].state = "sent"
      /\ UNCHANGED <<decl, other, auth, older, pc, builder, job, results, ran>>
  BY DEF Serve, JobBuilt
<1>2. /\ JobBuilt' /\ decl \in Decls /\ decl' \in Decls
      /\ \A v, r : Told(v, r)' = Told(v, r)
  BY <1>1, JobStays, ToldSame
<1>3. PICK b \in Builder : job = Built(b)
  BY <1>1, JobStays
<1>4. /\ Len(runs) \in Nat /\ Cardinality(Unserved) \in Nat /\ Cardinality(Owed) \in Nat
      /\ Cardinality(Told("run_now", "ok")) \in Nat
      /\ Cardinality(Told("run_now", "timeout")) \in Nat
  BY CountsFinite
<1>5. Outcome(job.script, job.params)' = Outcome(job.script, job.params)
  BY <1>1 DEF Outcome, Registry, Decodes
<1>6. sent[n].what \in {"upsert", "run_now"}
  BY DEF AuthorTypes, Requests
<1>7. PICK ok \in BOOLEAN :
        /\ sent' = [sent EXCEPT ![n].state = "served",
                                ![n].reply = IF ok THEN "ok" ELSE "refused"]
        /\ \/ ~RequireAdmin /\ ~ok /\ UNCHANGED <<stored, runs>>
           \/ /\ RequireAdmin /\ sent[n].what = "upsert"
              /\ \E u : u = HttpUpsert(Request(job)) /\ stored' = u.row /\ ok = u.ok
              /\ UNCHANGED runs
           \/ /\ RequireAdmin /\ sent[n].what = "run_now" /\ UNCHANGED stored
              /\ \/ ok /\ stored # None /\ runs' = runs \o NewRuns(stored)
                 \/ ~ok /\ runs' = runs \o NewRuns(None)
  <2>1. CASE /\ ~RequireAdmin /\ UNCHANGED <<stored, runs>>
             /\ sent' = [sent EXCEPT ![n].state = "served",
                                     ![n].reply = IF FALSE THEN "ok" ELSE "refused"]
    BY <2>1
  <2>2. CASE /\ RequireAdmin /\ sent[n].what = "upsert" /\ UNCHANGED runs
             /\ \E u : /\ u = HttpUpsert(Request(job)) /\ stored' = u.row
                       /\ sent' = [sent EXCEPT ![n].state = "served",
                                               ![n].reply = IF u.ok THEN "ok" ELSE "refused"]
    <3>1. PICK u : /\ u = HttpUpsert(Request(job)) /\ stored' = u.row
                   /\ sent' = [sent EXCEPT ![n].state = "served",
                                           ![n].reply = IF u.ok THEN "ok" ELSE "refused"]
      BY <2>2
    <3>2. older \in {None} \cup Olders
      BY DEF AuthorTypes
    <3>3. u.ok \in BOOLEAN
      BY <1>2, <1>3, <3>1, <3>2, UpsertTakes
    <3>4. QED
      BY <2>2, <3>1, <3>3
  <2>3. CASE /\ RequireAdmin /\ sent[n].what = "run_now" /\ UNCHANGED stored
             /\ \E row : /\ row = IF sent[n].id = "listed" THEN stored ELSE None
                         /\ sent' = [sent EXCEPT ![n].state = "served",
                                       ![n].reply = IF row # None THEN "ok" ELSE "refused"]
                         /\ runs' = runs \o NewRuns(row)
    <3>1. PICK row : /\ row = stored \/ row = None
                     /\ sent' = [sent EXCEPT ![n].state = "served",
                                   ![n].reply = IF row # None THEN "ok" ELSE "refused"]
                     /\ runs' = runs \o NewRuns(row)
      BY <2>3
    <3>2. CASE row = None
      BY <2>3, <3>1, <3>2
    <3>3. CASE row # None
      BY <2>3, <3>1, <3>3
    <3>4. QED
      BY <3>2, <3>3
  <2>4. QED
    BY <2>1, <2>2, <2>3 DEF Serve
<1>8. /\ sent' \in Seq(Requests) /\ DOMAIN sent' = DOMAIN sent
      /\ \A m \in DOMAIN sent : m # n => sent'[m] = sent[m]
      /\ sent'[n].what = sent[n].what /\ sent'[n].awaited = sent[n].awaited
      /\ sent'[n].reply = IF ok THEN "ok" ELSE "refused"
      /\ sent[n].what = "upsert" => Unserved' = Unserved /\ Owed' = Owed
      /\ sent[n].what = "run_now" =>
           /\ Cardinality(Unserved') = Cardinality(Unserved) - 1
           /\ ok => Owed' = Owed
           /\ Cardinality(Owed) <= Cardinality(Owed') + 1
  BY <1>1, <1>7, ServeCounts
<1>9. Cardinality(Unserved') \in Int /\ Cardinality(Owed') \in Int
  <2>1. Unserved' \subseteq DOMAIN sent /\ Owed' \subseteq DOMAIN sent
    BY <1>8 DEF Unserved, Owed
  <2>2. Cardinality(Unserved') \in Nat /\ Cardinality(Owed') \in Nat
    BY <2>1, CountsFinite
  <2>3. QED
    BY <2>2
<1>10. OneAwaited'
  BY <1>1, <1>8 DEF OneAwaited
<1>11. RequireAdmin => ~(auth # None /\ auth.require /\ auth.verifier # "allow_all" /\ ~auth.token)
  BY DEF RequireAdmin, Authorize
<1>15. sent' # <<>>
  BY <1>8
<1>12. CASE ~RequireAdmin /\ ~ok /\ UNCHANGED <<stored, runs>>
  <2>1. AuthorTypes'
    BY <1>1, <1>8, <1>12 DEF AuthorTypes
  <2>2. NoRunYet'
    BY <1>1, <1>2, <1>8, <1>12 DEF NoRunYet
  <2>3. ServedTakes' /\ KnownTakes'
    BY <1>1, <1>2, <1>5, <1>8, <1>12 DEF ServedTakes, KnownTakes, UpsertTaken, RowTaken, FromBefore
  <2>4. AuthFailsClosed'
    BY <1>1, <1>8, <1>12 DEF AuthFailsClosed
  <2>5. RunsPaid'
    BY <1>2, <1>4, <1>6, <1>8, <1>9, <1>12 DEF RunsPaid
  <2>6. FromOlder'
    BY <1>1, <1>12, <1>15, OlderStays
  <2>7. QED
    BY <1>2, <1>10, <2>1, <2>2, <2>3, <2>4, <2>5, <2>6
<1>13. CASE /\ RequireAdmin /\ sent[n].what = "upsert"
            /\ \E u : u = HttpUpsert(Request(job)) /\ stored' = u.row /\ ok = u.ok
            /\ UNCHANGED runs
  <2>1. PICK u : u = HttpUpsert(Request(job)) /\ stored' = u.row /\ ok = u.ok
    BY <1>13
  <2>2. /\ ~ok => stored' = stored
        /\ ok => /\ stored'.script = job.script /\ stored'.params = job.params
                 /\ job.script \in Scripts /\ job.params \in Params
                 /\ RowTaken(stored') /\ stored' # None
    <3>1. older \in {None} \cup Olders /\ (stored = older \/ (stored # None /\ UpsertTaken))
      BY <1>1 DEF AuthorTypes, FromOlder
    <3>2. QED
      BY <1>2, <1>3, <2>1, <3>1, UpsertTakes
  <2>3. /\ ok => UpsertTaken'
        /\ UpsertTaken => UpsertTaken'
        /\ ~ok => stored' = older' \/ (stored' # None /\ UpsertTaken')
    <3>1. ASSUME ok
          PROVE  UpsertTaken'
      BY <1>1, <2>2, <3>1 DEF UpsertTaken, RowTaken, FromBefore
    <3>2. ASSUME ~ok
          PROVE  (UpsertTaken' <=> UpsertTaken) /\ stored' = stored /\ older' = older
      BY <1>1, <2>2, <3>2 DEF UpsertTaken, RowTaken, FromBefore
    <3>3. QED
      BY <1>1, <3>1, <3>2 DEF FromOlder
  <2>4. AuthorTypes'
    <3>1. stored' # None => stored'.script \in Scripts /\ stored'.params \in Params
      BY <2>2 DEF AuthorTypes
    <3>2. QED
      BY <1>1, <1>8, <1>13, <3>1 DEF AuthorTypes
  <2>5. NoRunYet'
    BY <1>1, <1>2, <1>8, <1>13 DEF NoRunYet
  <2>6. ServedTakes'
    <3>1. SUFFICES ASSUME NEW m \in DOMAIN sent, sent'[m].what = "upsert", sent'[m].reply = "ok"
                   PROVE  UpsertTaken'
      BY <1>8 DEF ServedTakes
    <3>2. CASE m = n
      BY <1>8, <2>3, <3>1, <3>2
    <3>3. CASE m # n
      BY <1>8, <2>3, <3>1, <3>3 DEF ServedTakes
    <3>4. QED
      BY <3>2, <3>3
  <2>7. KnownTakes'
    <3>1. Told("upsert", "ok") # {} =>
            stored'.script = job.script /\ stored'.params = job.params /\ UpsertTaken'
      BY <1>1, <2>2, <2>3 DEF KnownTakes
    <3>2. QED
      BY <1>1, <1>2, <1>5, <1>13, <3>1 DEF KnownTakes
  <2>8. AuthFailsClosed'
    BY <1>1, <1>11, <1>13 DEF AuthFailsClosed
  <2>9. RunsPaid'
    BY <1>2, <1>8, <1>13 DEF RunsPaid
  <2>10. FromOlder'
    BY <1>1, <1>15, <2>2, <2>3 DEF FromOlder
  <2>11. QED
    BY <1>2, <1>10, <2>4, <2>5, <2>6, <2>7, <2>8, <2>9, <2>10
<1>14. CASE /\ RequireAdmin /\ sent[n].what = "run_now" /\ UNCHANGED stored
            /\ \/ ok /\ stored # None /\ runs' = runs \o NewRuns(stored)
               \/ ~ok /\ runs' = runs \o NewRuns(None)
  <2>1. /\ runs' \in Seq([script : Scripts, params : Params])
        /\ \/ ok /\ Len(runs') = Len(runs) + 1
           \/ ~ok /\ Len(runs') = Len(runs)
        /\ runs' = <<>> => runs = <<>>
        /\ \A i \in DOMAIN runs' : \/ i \in DOMAIN runs /\ runs'[i] = runs[i]
                                   \/ /\ runs'[i].script = stored.script
                                      /\ runs'[i].params = stored.params
    <3>1. runs \in Seq([script : Scripts, params : Params])
      BY DEF AuthorTypes
    <3>2. CASE ok /\ stored # None /\ runs' = runs \o NewRuns(stored)
      <4>1. PICK x \in [script : Scripts, params : Params] :
              x = [script |-> stored.script, params |-> stored.params]
        BY <3>2 DEF AuthorTypes
      <4>2. runs' = runs \o <<x>> /\ x.script = stored.script /\ x.params = stored.params
        BY <3>2, <4>1 DEF NewRuns
      <4>3. QED
        BY <3>1, <3>2, <4>2
    <3>3. CASE ~ok /\ runs' = runs \o NewRuns(None)
      BY <3>1, <3>3 DEF NewRuns
    <3>4. QED
      BY <1>14, <3>2, <3>3
  <2>2. pc \in {"run", "execute"}
    BY <1>14 DEF NoRunYet
  <2>3. AuthorTypes'
    BY <1>1, <1>8, <1>14, <2>1 DEF AuthorTypes
  <2>4. NoRunYet'
    BY <1>1, <2>1, <2>2 DEF NoRunYet
  <2>5. ServedTakes'
    BY <1>1, <1>8, <1>14 DEF ServedTakes, UpsertTaken, RowTaken, FromBefore
  <2>6. KnownTakes'
    BY <1>1, <1>2, <1>5, <1>14, <2>1 DEF KnownTakes, UpsertTaken, RowTaken, FromBefore
  <2>7. AuthFailsClosed'
    BY <1>1, <1>11, <1>14 DEF AuthFailsClosed
  <2>8. RunsPaid'
    BY <1>2, <1>4, <1>8, <1>9, <1>14, <2>1 DEF RunsPaid
  <2>9. FromOlder'
    BY <1>1, <1>14, <1>15, OlderStays
  <2>10. QED
    BY <1>2, <1>10, <2>3, <2>4, <2>5, <2>6, <2>7, <2>8, <2>9
<1>16. QED
  BY <1>7, <1>12, <1>13, <1>14

(* The author has an answer to request n, or gives up on it; either is the *)
(* end of what is owed for it.                                             *)
LEMMA AnswerKeeps ==
  ASSUME AuthorInv, NEW n \in DOMAIN sent, Receive(n) \/ TimesOut(n)
  PROVE  AuthorInv'
<1> USE DEF AuthorInv
<1>1. /\ sent # <<>> /\ sent[n].awaited
      /\ sent[n].what \in {"upsert", "run_now"} /\ sent[n] \in Requests
      /\ sent' = [sent EXCEPT ![n].awaited = FALSE]
      /\ UNCHANGED <<decl, other, auth, older, builder, job, stored, runs, ran>>
  BY DEF Receive, TimesOut, AuthorTypes, Requests
<1>2. /\ pc = IF sent[n].what = "upsert" THEN "upsert" ELSE "run"
      /\ \A m \in DOMAIN sent : sent[m].awaited => m = n
  BY <1>1 DEF OneAwaited
<1>3. pc' \in {"upsert", "run", "execute"} /\ (pc' = "upsert" => pc = "upsert")
  BY <1>1, <1>2 DEF Receive, TimesOut
<1>4. JobBuilt' /\ decl' \in Decls
  BY <1>1, <1>2, <1>3, JobStays
<1>5. PICK r \in {"ok", "refused", "timeout"} :
        /\ results' = Append(results, [call |-> sent[n].what, result |-> r])
        /\ r # "timeout" => /\ sent[n].state = "served" /\ sent[n].reply = r
                            /\ pc' # "upsert"
  BY <1>1 DEF Receive, TimesOut, Returns, Requests
<1>6. PICK q \in Requests : /\ q = [sent[n] EXCEPT !.awaited = FALSE]
                            /\ q.what = sent[n].what /\ q.reply = sent[n].reply
                            /\ q.state = sent[n].state /\ ~q.awaited
  <2>1. PICK p \in Requests : p = sent[n]
    BY <1>1
  <2> DEFINE q == [p EXCEPT !.awaited = FALSE]
  <2>2. /\ q \in [what : {"upsert", "run_now"}, id : {None, "listed", "built"},
                  state : {"sent", "served"}, reply : {None, "ok", "refused"},
                  awaited : BOOLEAN]
        /\ q.what = p.what /\ q.reply = p.reply /\ q.state = p.state /\ ~q.awaited
    BY DEF Requests
  <2>3. q \in Requests
    BY <2>2 DEF Requests
  <2>4. q = [sent[n] EXCEPT !.awaited = FALSE]
    BY <2>1
  <2> HIDE DEF q
  <2>5. QED
    BY <2>1, <2>2, <2>3, <2>4
<1>7. /\ sent' \in Seq(Requests) /\ DOMAIN sent' = DOMAIN sent
      /\ \A m \in DOMAIN sent : m # n => sent'[m] = sent[m]
      /\ sent'[n] = q
  <2>1. sent' = [sent EXCEPT ![n] = q]
    BY <1>1, <1>6
  <2>2. sent \in Seq(Requests)
    BY DEF AuthorTypes
  <2>3. QED
    BY <2>1, <2>2, SentChanged
<1>8. PICK a \in Answers : /\ a = [call |-> sent[n].what, result |-> r]
                           /\ results' = Append(results, a)
  BY <1>1, <1>5 DEF Answers
<1>9. results \in Seq(Answers)
  BY DEF AuthorTypes
<1>10. /\ results' \in Seq(Answers)
       /\ \A w, s : /\ a = [call |-> w, result |-> s] =>
                         Cardinality(Told(w, s)') = Cardinality(Told(w, s)) + 1
                    /\ a # [call |-> w, result |-> s] => Told(w, s)' = Told(w, s)
  BY <1>8, <1>9, ToldMore
<1>11. AuthorTypes'
  BY <1>1, <1>3, <1>4, <1>7, <1>10 DEF AuthorTypes
<1>12. NoRunYet'
  <2>1. CASE pc' = "upsert"
    <3>1. pc = "upsert" /\ r = "timeout"
      BY <1>3, <1>5, <2>1
    <3>2. Told("upsert", "ok")' = {}
      <4>1. a # [call |-> "upsert", result |-> "ok"]
        BY <1>8, <3>1
      <4>2. QED
        BY <1>10, <3>1, <4>1 DEF NoRunYet
    <3>3. QED
      BY <1>1, <1>6, <1>7, <3>1, <3>2 DEF NoRunYet
  <2>2. CASE pc' # "upsert"
    BY <1>1, <1>3, <2>2 DEF NoRunYet
  <2>3. QED
    BY <2>1, <2>2
<1>13. OneAwaited'
  BY <1>2, <1>6, <1>7 DEF OneAwaited
<1>14. ServedTakes' /\ AuthFailsClosed'
  <2>1. \A m \in DOMAIN sent : sent'[m].what = sent[m].what /\ sent'[m].reply = sent[m].reply
    BY <1>6, <1>7
  <2>2. QED
    BY <1>1, <1>7, <2>1 DEF ServedTakes, AuthFailsClosed, UpsertTaken, RowTaken, FromBefore
<1>15. KnownTakes'
  <2>1. Outcome(job.script, job.params)' = Outcome(job.script, job.params)
    BY <1>1 DEF Outcome, Registry, Decodes
  <2>2. UpsertTaken => UpsertTaken'
    BY <1>1 DEF UpsertTaken, RowTaken, FromBefore
  <2>3. CASE a = [call |-> "upsert", result |-> "ok"]
    <3>1. sent[n].what = "upsert" /\ r = "ok"
      BY <1>8, <2>3
    <3>2. UpsertTaken /\ pc = "upsert"
      BY <1>2, <1>5, <3>1 DEF ServedTakes
    <3>3. runs = <<>> /\ ran = None
      BY <3>2 DEF NoRunYet
    <3>4. DOMAIN runs' = {} /\ ran' = None
      BY <1>1, <3>3
    <3>5. stored'.script = job'.script /\ stored'.params = job'.params
      BY <1>1, <3>2 DEF UpsertTaken, RowTaken, FromBefore
    <3>6. QED
      BY <2>2, <3>2, <3>4, <3>5 DEF KnownTakes
  <2>4. CASE a # [call |-> "upsert", result |-> "ok"]
    <3>1. Told("upsert", "ok")' = Told("upsert", "ok")
      BY <1>10, <2>4
    <3>2. QED
      BY <1>1, <2>1, <2>2, <3>1 DEF KnownTakes
  <2>5. QED
    BY <2>3, <2>4
<1>16. RunsPaid'
  <2>1. Unserved' = Unserved
    BY <1>6, <1>7 DEF Unserved
  <2>2. Owed' = Owed \ {n}
    BY <1>6, <1>7 DEF Owed
  <2>3. /\ Len(runs) \in Nat /\ Cardinality(Unserved) \in Nat /\ Cardinality(Owed) \in Nat
        /\ Cardinality(Told("run_now", "ok")) \in Nat
        /\ Cardinality(Told("run_now", "timeout")) \in Nat /\ IsFiniteSet(Owed)
    BY CountsFinite
  <2>4. Cardinality(Owed') = IF n \in Owed THEN Cardinality(Owed) - 1 ELSE Cardinality(Owed)
    BY <2>2, <2>3, FS_RemoveElement
  <2>5. CASE n \notin Owed
    <3>1. /\ Cardinality(Told("run_now", "ok")') >= Cardinality(Told("run_now", "ok"))
          /\ Cardinality(Told("run_now", "timeout")') >= Cardinality(Told("run_now", "timeout"))
          /\ Cardinality(Told("run_now", "ok")') \in Nat
          /\ Cardinality(Told("run_now", "timeout")') \in Nat
      <4>1. \A s : \/ Cardinality(Told("run_now", s)') = Cardinality(Told("run_now", s)) + 1
                   \/ Told("run_now", s)' = Told("run_now", s)
        BY <1>10
      <4>2. QED
        BY <2>3, <4>1
    <3>2. QED
      BY <1>1, <2>1, <2>3, <2>4, <2>5, <3>1 DEF RunsPaid
  <2>6. CASE n \in Owed
    <3>1. sent[n].what = "run_now" /\ (sent[n].state = "sent" \/ sent[n].reply = "ok")
      BY <2>6 DEF Owed
    <3>2. r # "refused"
      BY <1>5, <3>1
    <3>3. CASE r = "ok"
      <4>1. /\ Cardinality(Told("run_now", "ok")') = Cardinality(Told("run_now", "ok")) + 1
            /\ Told("run_now", "timeout")' = Told("run_now", "timeout")
        BY <1>8, <1>10, <3>1, <3>3
      <4>2. QED
        BY <1>1, <2>1, <2>3, <2>4, <2>6, <4>1 DEF RunsPaid
    <3>4. CASE r = "timeout"
      <4>1. /\ Cardinality(Told("run_now", "timeout")')
                 = Cardinality(Told("run_now", "timeout")) + 1
            /\ Told("run_now", "ok")' = Told("run_now", "ok")
        BY <1>8, <1>10, <3>1, <3>4
      <4>2. QED
        BY <1>1, <2>1, <2>3, <2>4, <2>6, <4>1 DEF RunsPaid
    <3>5. QED
      BY <3>2, <3>3, <3>4
  <2>7. QED
    BY <2>5, <2>6
<1>17. FromOlder'
  <2>1. sent' # <<>>
    BY <1>1, <1>7
  <2>2. QED
    BY <1>1, <2>1, OlderStays
<1>18. QED
  BY <1>4, <1>11, <1>12, <1>13, <1>14, <1>15, <1>16, <1>17

----------------------------------------------------------------------------
(* The theorem.                                                            *)

LEMMA AuthorInitInv ==
  ASSUME AuthorInit \/ AuthorIdle
  PROVE  AuthorInv
<1>1. sent = <<>> /\ results = <<>> /\ runs = <<>> /\ ran = None
  BY DEF AuthorInit, AuthorIdle
<1>2. /\ NoRunYet /\ OneAwaited /\ ServedTakes /\ KnownTakes /\ RunsPaid /\ AuthFailsClosed
      /\ sent \in Seq(Requests) /\ results \in Seq(Answers)
      /\ runs \in Seq([script : Scripts, params : Params])
  BY <1>1, NothingSent
<1>3. CASE AuthorInit
  <2>1. pc = "source" /\ decl \in Decls /\ builder \in Builder
    BY <1>3 DEF AuthorInit, NewBuilder, Builder
  <2>2. /\ stored # None => stored.script \in Scripts /\ stored.params \in Params
        /\ older \in {None} \cup Olders /\ FromOlder
    BY <1>1, <1>3 DEF AuthorInit, Scripts, Params, FromOlder
  <2>3. QED
    BY <1>1, <1>2, <2>1, <2>2 DEF AuthorInv, AuthorTypes, JobBuilt
<1>4. CASE AuthorIdle
  <2>1. /\ pc = None /\ stored = None /\ pc \notin {"source", "build", "upsert", "run", "execute"}
        /\ older = None /\ FromOlder
    BY <1>1, <1>4, AuthorAssumption DEF AuthorIdle, FromOlder
  <2>2. QED
    BY <1>1, <1>2, <2>1 DEF AuthorInv, AuthorTypes, JobBuilt
<1>5. QED
  BY <1>3, <1>4

LEMMA AuthorInvStutters ==
  ASSUME AuthorInv, UNCHANGED authorVars
  PROVE  AuthorInv'
<1> USE DEF authorVars, AuthorInv
<1>1. AuthorTypes' /\ OneAwaited' /\ ServedTakes' /\ AuthFailsClosed'
  BY DEF AuthorTypes, OneAwaited, ServedTakes, AuthFailsClosed, UpsertTaken, RowTaken, FromBefore
<1>2. JobBuilt'
  BY DEF JobBuilt, Built, HandleName, Serialised, NextRun
<1>3. (\A w, r : Told(w, r)' = Told(w, r)) /\ Unserved' = Unserved /\ Owed' = Owed
  BY CountsSame
<1>4. Outcome(job.script, job.params)' = Outcome(job.script, job.params)
  BY DEF Outcome, Registry, Decodes
<1>5. NoRunYet' /\ RunsPaid'
  BY <1>3 DEF NoRunYet, RunsPaid
<1>6. KnownTakes'
  BY <1>3, <1>4 DEF KnownTakes, UpsertTaken, RowTaken, FromBefore
<1>7. FromOlder'
  BY DEF FromOlder, UpsertTaken, RowTaken, FromBefore
<1>8. QED
  BY <1>1, <1>2, <1>5, <1>6, <1>7

LEMMA AuthorInvSuffices ==
  ASSUME AuthorInv
  PROVE  AuthoredJobRuns
<1> USE DEF AuthorInv
<1>1. ASSUME Told("upsert", "ok") # {}
      PROVE  /\ decl \in Decls
             /\ ran # None => ran = Outcome(decl.attr, job.params)
             /\ job.params = IF builder.params THEN Serialised(decl) ELSE "empty"
  <2>1. pc \in {"run", "execute"}
    BY <1>1 DEF NoRunYet
  <2>2. PICK b \in Builder : b.params = builder.params /\ job = Built(b)
    BY <2>1 DEF JobBuilt
  <2>3. /\ job.script = decl.attr
        /\ job.params = IF builder.params THEN Serialised(decl) ELSE "empty"
    BY <2>2 DEF Built, HandleName
  <2>4. decl \in Decls
    BY <2>1, AuthorAssumption DEF AuthorTypes
  <2>5. QED
    BY <1>1, <2>3, <2>4 DEF KnownTakes
<1>2. /\ decl.attr \in DOMAIN Registry
      /\ Registry[decl.attr] = IF other.attr = decl.attr /\ other.last THEN "other" ELSE "own"
  BY DEF Registry
<1>3. OwnParamsDecode
  <2>1. SUFFICES ASSUME ran \notin {None, "ran_other"}, Told("upsert", "ok") # {},
                        builder.params \/ decl.fields # "required"
                 PROVE  ran = "ran"
    BY DEF OwnParamsDecode
  <2>2. decl.fields \in {"unit", "optional", "required"}
    BY <1>1, <2>1, AuthorAssumption
  <2>3. Decodes(decl, job.params)
    BY <1>1, <2>1, <2>2 DEF Decodes, Serialised
  <2>4. ran = Outcome(decl.attr, job.params)
    BY <1>1, <2>1
  <2>5. QED
    BY <1>2, <2>1, <2>3, <2>4 DEF Outcome
<1>4. RunsItsScript
  <2>1. SUFFICES ASSUME ran # None, Told("upsert", "ok") # {}
                 PROVE  /\ ran # "script_not_found"
                        /\ ran = "ran_other" => other.attr = decl.attr /\ other.last
    BY DEF RunsItsScript
  <2>2. ran = Outcome(decl.attr, job.params)
    BY <1>1, <2>1
  <2>3. QED
    BY <1>2, <2>2 DEF Outcome
<1>5. RemoteUpsertTakes
  BY DEF RemoteUpsertTakes, KnownTakes, UpsertTaken, RowTaken, FromBefore
<1>6. ExtraRunNeedsTimeout
  <2> DEFINE W == {n \in DOMAIN sent : sent[n].awaited}
  <2>1. /\ Owed \subseteq W /\ IsFiniteSet(W)
        /\ Len(runs) \in Nat /\ Cardinality(Unserved) \in Nat
        /\ Cardinality(Owed) \in Nat /\ Cardinality(W) \in Nat
        /\ Cardinality(Told("run_now", "ok")) \in Nat
        /\ Cardinality(Told("run_now", "timeout")) \in Nat
    BY CountsFinite DEF Owed
  <2>2. Cardinality(Owed) <= Cardinality(W)
    BY <2>1, FS_Subset
  <2> HIDE DEF W
  <2>3. Len(runs) <= Cardinality(Told("run_now", "ok"))
                     + Cardinality(Told("run_now", "timeout")) + Cardinality(W)
    BY <2>1, <2>2 DEF RunsPaid
  <2>4. QED
    BY <2>3 DEF ExtraRunNeedsTimeout, W
<1>7. QED
  BY <1>3, <1>4, <1>5, <1>6 DEF AuthoredJobRuns

(* Whatever functions carry the attribute, whatever job of the same name   *)
(* is stored, however many calls are made on the builder and however many  *)
(* requests are sent, given up, served late and sent again: the job that   *)
(* was built is the one that is stored and executed, a run beyond those    *)
(* that were acknowledged needs a timeout, and nothing happens without     *)
(* authentication (JobBuilder::build, upsert_job, run_now, invoke_script,  *)
(* RequireAdmin).                                                          *)
THEOREM AuthoredJobRunsCorrect == AuthorSpec => []AuthoredJobRuns
<1>1. AuthorInit \/ AuthorIdle => AuthorInv
  BY AuthorInitInv
<1>2. AuthorInv /\ [AuthorNext]_authorVars => AuthorInv'
  BY EarlyKeeps, UpsertHereKeeps, RunHereKeeps, ExecuteKeeps, SendKeeps, ServeKeeps,
     AnswerKeeps, AuthorInvStutters
  DEF AuthorNext
<1>3. AuthorInv => AuthoredJobRuns
  BY AuthorInvSuffices
<1>4. QED
  BY <1>1, <1>2, <1>3, PTL DEF AuthorSpec

----------------------------------------------------------------------------
(* Browse: the inductive invariant.                                        *)

Walked == route \in {"jobs", "runs"}
Rows == IF route = "jobs" THEN JobRows ELSE RunRows

BrowseTypes ==
    /\ route \in {"none", "jobs", "runs", "revisions"} /\ backend \in {"mem", "sql"}
    /\ route = "runs" => backend = "sql"
    /\ walk \in [at : {"asking", "done", "refused"}, offset : Nat, seen : Seq(Ids)]
    /\ IF Walked
       THEN /\ list \in [DOMAIN list -> Rows] /\ DOMAIN list \subseteq Ids
            /\ hash \in HashPlaces
            /\ query.limit \in {Unset, MaxListLimit + 1}
            /\ route = "runs" => query.status \in {Unset, "running", "Failed", "fail"}
            /\ since \in [stayed : SUBSET Ids, left : BOOLEAN, came : BOOLEAN, grown : BOOLEAN,
                          tied : SUBSET Ids, fits : SUBSET Ids]
       ELSE walk.seen = <<>> /\ walk.at = "done"

(* A row whose place in the list is determined. *)
Firm(i) == InMemory \/ i \notin since.tied

(* The rows that come before row i. *)
Ahead(i) == {k \in Matching(list) : Before(k, i)}

(* The history goes with the list. *)
HistoryOk ==
    /\ since.stayed \subseteq Matching(list)
    /\ Tied(list) \subseteq since.tied
    /\ {i \in DOMAIN list : Meant(list[i])} \subseteq since.fits
    /\ ToSet(walk.seen) \subseteq since.fits

(* As long as no row leaves, the rows that are not seen yet are behind the *)
(* offset, and at the end there are none.                                  *)
Kept == ~since.left /\ (InMemory => ~since.grown)
NonePassed ==
    Kept => \A i \in since.stayed :
        Firm(i) /\ i \notin ToSet(walk.seen) =>
            /\ walk.at # "done"
            /\ walk.at = "asking" => walk.offset <= Cardinality(Ahead(i))

(* As long as no row comes, those that were seen are before it. *)
NoneAgain ==
    ~(since.came \/ since.grown) =>
        \A i \in Matching(list) :
            Firm(i) /\ i \in ToSet(walk.seen) => Cardinality(Ahead(i)) < walk.offset

(* A job that is stored, about to be stored or found has a revision,       *)
(* unless a delete took it.                                                *)
PastOk ==
    ~past.deleted =>
        /\ past.row \/ past.upsert = "write" \/ past.reader = "list" => past.revs > 0
        /\ past.reader = "done" => past.read > 0
PastTypes ==
    past \in [row : BOOLEAN, revs : Nat, upsert : {"idle", "write"},
              delete : {"idle", "revisions", "row"}, deleted : BOOLEAN,
              reader : {"ask", "list", "missing", "done"}, read : Nat]

BrowseInv ==
    /\ BrowseTypes /\ PastTypes /\ PastOk /\ NothingPrivate /\ RepeatNeedsArrival
    /\ Walked => HistoryOk /\ NonePassed /\ NoneAgain

----------------------------------------------------------------------------
(* Places in a list.                                                       *)

LEMMA MatchingFinite ==
  ASSUME BrowseTypes, Walked
  PROVE  /\ IsFiniteSet(Matching(list)) /\ Cardinality(Matching(list)) \in Nat
         /\ Matching(list) \subseteq DOMAIN list /\ Matching(list) \subseteq Ids
         /\ \A i : IsFiniteSet(Ahead(i)) /\ Cardinality(Ahead(i)) \in Nat
<1>1. Matching(list) \subseteq DOMAIN list /\ Matching(list) \subseteq Ids
  BY DEF Matching, BrowseTypes
<1>2. IsFiniteSet(Matching(list))
  BY <1>1, LimitsAssumption, FS_Subset
<1>3. \A i : Ahead(i) \in SUBSET Matching(list)
  BY DEF Ahead
<1>4. \A i : IsFiniteSet(Ahead(i))
  BY <1>2, <1>3, FS_Subset
<1>5. QED
  BY <1>1, <1>2, <1>4, FS_CardinalityType

(* No two rows are before each other, and one of two is if either's place  *)
(* is determined.                                                          *)
LEMMA BeforeOrders ==
  ASSUME BrowseTypes, Walked, HistoryOk, NEW i \in DOMAIN list, NEW k \in DOMAIN list
  PROVE  /\ Before(i, k) => ~Before(k, i)
         /\ Firm(i) /\ i # k => Before(i, k) \/ Before(k, i)
<1>1. /\ list[i].key \in Int /\ list[k].key \in Int /\ i \in Ids /\ k \in Ids
  BY LimitsAssumption DEF BrowseTypes, Rows, JobRows, RunRows, Keys
<1>2. /\ hash[i] \in Int /\ hash[k] \in Int /\ (i # k => hash[i] # hash[k])
  BY <1>1 DEF BrowseTypes, HashPlaces
<1>3. Before(i, k) => ~Before(k, i)
  BY <1>1, <1>2 DEF Before
<1>4. ASSUME Firm(i), i # k
      PROVE  Before(i, k) \/ Before(k, i)
  <2>1. CASE InMemory
    BY <1>2, <1>4, <2>1 DEF Before
  <2>2. CASE ~InMemory
    <3>1. i \notin Tied(list)
      BY <1>4, <2>2 DEF Firm, HistoryOk
    <3>2. list[i].key # list[k].key
      BY <1>4, <3>1 DEF Tied
    <3>3. QED
      BY <1>1, <2>2, <3>2 DEF Before
  <2>3. QED
    BY <2>1, <2>2
<1>5. QED
  BY <1>3, <1>4

(* A listing has every row that matches, once. *)
LEMMA ListingComplete ==
  ASSUME BrowseTypes, Walked, NEW s \in Listings
  PROVE  /\ s \in Seq(Matching(list)) /\ Len(s) = Cardinality(Matching(list))
         /\ DOMAIN s = 1..Len(s) /\ Len(s) \in Nat
         /\ \A m, n \in DOMAIN s : s[m] = s[n] => m = n
         /\ \A i \in Matching(list) : \E p \in DOMAIN s : s[p] = i
<1>1. PICK M : M = Matching(list)
  OBVIOUS
<1>2. PICK N \in Nat : N = Cardinality(M) /\ IsFiniteSet(M)
  BY <1>1, MatchingFinite
<1>3. s \in [1..N -> M] /\ \A m, n \in 1..N : m # n => s[m] # s[n]
  BY <1>1, <1>2 DEF Listings, SetToSeqs
<1>4. s \in Seq(M) /\ Len(s) = N /\ DOMAIN s = 1..N
  <2>1. s \in Seq(M)
    BY <1>2, <1>3, SeqDef
  <2>2. DOMAIN s = 1..N
    BY <1>3
  <2>3. QED
    BY <1>2, <2>1, <2>2
<1>5. s \in Injection(1..N, M)
  BY <1>3 DEF Injection, IsInjective
<1>6. Cardinality(1..N) = N
  BY FS_Interval
<1>7. s \in Surjection(1..N, M)
  BY <1>2, <1>5, <1>6, FS_Injection
<1>8. QED
  BY <1>1, <1>2, <1>3, <1>4, <1>7 DEF Surjection

(* The place of a row whose place is determined. *)
LEMMA FirmPlace ==
  ASSUME BrowseTypes, Walked, HistoryOk, NEW s \in Listings,
         NEW p \in DOMAIN s, Firm(s[p])
  PROVE  p = Cardinality(Ahead(s[p])) + 1
<1>1. /\ s \in Seq(Matching(list)) /\ DOMAIN s = 1..Len(s) /\ Len(s) \in Nat
      /\ \A m, n \in DOMAIN s : s[m] = s[n] => m = n
      /\ \A k \in Matching(list) : \E m \in DOMAIN s : s[m] = k
  BY ListingComplete
<1>2. \A m, n \in DOMAIN s : m < n => ~Before(s[n], s[m])
  BY DEF Listings
<1>3. \A m \in DOMAIN s : s[m] \in Matching(list) /\ s[m] \in DOMAIN list
  BY <1>1, MatchingFinite
<1>4. p \in Nat /\ p >= 1 /\ 1..(p - 1) \subseteq DOMAIN s
  BY <1>1
<1>5. \A m \in DOMAIN s : Before(s[m], s[p]) <=> m < p
  <2>1. SUFFICES ASSUME NEW m \in DOMAIN s PROVE Before(s[m], s[p]) <=> m < p
    OBVIOUS
  <2>2. m \in Nat
    BY <1>1
  <2>3. CASE m < p
    <3>1. ~Before(s[p], s[m]) /\ s[m] # s[p]
      BY <1>1, <1>2, <1>4, <2>2, <2>3
    <3>2. QED
      BY <1>3, <2>3, <3>1, BeforeOrders
  <2>4. CASE m = p
    BY <1>3, <1>4, <2>4, BeforeOrders
  <2>5. CASE p < m
    BY <1>2, <1>4, <2>2, <2>5
  <2>6. QED
    BY <1>4, <2>2, <2>3, <2>4, <2>5
<1>6. PICK A : A = Ahead(s[p])
  OBVIOUS
<1> DEFINE f == [m \in 1..(p - 1) |-> s[m]]
<1>7. f \in Bijection(1..(p - 1), A)
  <2>1. \A m \in 1..(p - 1) : m \in DOMAIN s /\ m < p
    BY <1>4
  <2>2. \A m \in 1..(p - 1) : f[m] = s[m] /\ s[m] \in A
    BY <1>3, <1>5, <1>6, <2>1 DEF Ahead
  <2>3. \A m, n \in 1..(p - 1) : f[m] = f[n] => m = n
    BY <1>1, <2>1, <2>2
  <2>4. \A k \in A : \E m \in 1..(p - 1) : f[m] = k
    <3>1. SUFFICES ASSUME NEW k \in A PROVE \E m \in 1..(p - 1) : f[m] = k
      OBVIOUS
    <3>2. PICK m \in DOMAIN s : s[m] = k
      BY <1>1, <1>6 DEF Ahead
    <3>3. m < p
      BY <1>5, <1>6, <3>2 DEF Ahead
    <3>4. m \in 1..(p - 1)
      BY <1>1, <1>4, <3>3
    <3>5. QED
      BY <3>2, <3>4
  <2>5. f \in [1..(p - 1) -> A]
    BY <2>2
  <2> HIDE DEF f
  <2>6. f \in Injection(1..(p - 1), A)
    BY <2>3, <2>5 DEF Injection, IsInjective
  <2>7. f \in Surjection(1..(p - 1), A)
    BY <2>4, <2>5 DEF Surjection
  <2>8. QED
    BY <2>6, <2>7 DEF Bijection
<1> HIDE DEF f
<1>8. IsFiniteSet(1..(p - 1)) /\ Cardinality(1..(p - 1)) = p - 1
  <2>1. p - 1 \in Int /\ 1 \in Int /\ (1 > p - 1 => p - 1 = 0)
    BY <1>4
  <2>2. /\ IsFiniteSet(1..(p - 1))
        /\ Cardinality(1..(p - 1)) = IF 1 > p - 1 THEN 0 ELSE (p - 1) - 1 + 1
    BY <2>1, FS_Interval
  <2>3. QED
    BY <2>1, <2>2
<1>9. Cardinality(A) = Cardinality(1..(p - 1))
  BY <1>7, <1>8, FS_Bijection DEF ExistsBijection
<1>10. QED
  BY <1>4, <1>6, <1>8, <1>9

(* A page is what a listing has from the offset on, and is empty only at   *)
(* its end.                                                                *)
LEMMA PageIsASlice ==
  ASSUME NEW S, NEW s \in Seq(S), NEW o \in Nat, NEW l \in Nat \ {0}
  PROVE  /\ PageOf(s, o, l) \in Seq(S)
         /\ \A x \in 1..Len(PageOf(s, o, l)) : o + x \in 1..Len(s) /\ PageOf(s, o, l)[x] = s[o + x]
         /\ o < Len(s) => Len(PageOf(s, o, l)) > 0
<1>1. CASE o >= Len(s)
  BY <1>1 DEF PageOf
<1>2. CASE o < Len(s)
  <2>1. PICK e \in Nat : e = IF o + l < Len(s) THEN o + l ELSE Len(s)
    OBVIOUS
  <2>2. /\ PageOf(s, o, l) = SubSeq(s, o + 1, e)
        /\ o + 1 <= e /\ e <= Len(s) /\ o + 1 \in Nat /\ o + 1 >= 1
    BY <1>2, <2>1 DEF PageOf
  <2>3. /\ SubSeq(s, o + 1, e) \in Seq(S)
        /\ Len(SubSeq(s, o + 1, e)) = e - o
        /\ \A x \in 1..(e - o) : SubSeq(s, o + 1, e)[x] = s[o + x]
    BY <2>2
  <2>4. PICK g : g = PageOf(s, o, l)
    OBVIOUS
  <2>5. /\ g \in Seq(S) /\ Len(g) = e - o /\ Len(g) > 0
        /\ \A x \in 1..Len(g) : o + x \in 1..Len(s) /\ g[x] = s[o + x]
    <3>1. g \in Seq(S) /\ Len(g) = e - o
      BY <2>2, <2>3, <2>4
    <3>2. \A x \in 1..(e - o) : o + x \in 1..Len(s)
      BY <2>2
    <3>3. QED
      BY <2>2, <2>3, <2>4, <3>1, <3>2
  <2>6. QED
    BY <2>4, <2>5
<1>3. QED
  BY <1>1, <1>2

LEMMA LimitPositive ==
  ASSUME BrowseTypes, Walked
  PROVE  ClampListLimit(query.limit) \in Nat \ {0}
<1>1. query.limit \in {Unset, MaxListLimit + 1}
  BY DEF BrowseTypes
<1>2. DefaultLimit \in Nat \ {0} /\ MaxListLimit \in Nat \ {0}
  BY LimitsAssumption
<1>3. CASE query.limit = Unset
  BY <1>2, <1>3 DEF ClampListLimit
<1>4. CASE query.limit # Unset
  BY <1>1, <1>2, <1>4 DEF ClampListLimit
<1>5. QED
  BY <1>3, <1>4

----------------------------------------------------------------------------
(* A page.                                                                 *)

LEMMA SameList ==
  ASSUME UNCHANGED <<route, backend, list, hash, query, since>>
  PROVE  /\ Matching(list)' = Matching(list) /\ Tied(list)' = Tied(list)
         /\ {i \in DOMAIN list : Meant(list[i])}' = {i \in DOMAIN list : Meant(list[i])}
         /\ (Walked' <=> Walked) /\ (Kept' <=> Kept)
         /\ \A i : Ahead(i)' = Ahead(i) /\ (Firm(i)' <=> Firm(i))
<1>1. (Walked' <=> Walked) /\ (InMemory' <=> InMemory)
  BY DEF Walked, InMemory
<1>2. Matching(list)' = Matching(list)
  BY DEF Matching, Matches, ParseRunStatus
<1>3. Tied(list)' = Tied(list)
  BY DEF Tied
<1>4. {i \in DOMAIN list : Meant(list[i])}' = {i \in DOMAIN list : Meant(list[i])}
  BY DEF Meant
<1>5. Kept' <=> Kept
  BY <1>1 DEF Kept
<1>6. \A i : Firm(i)' <=> Firm(i)
  BY <1>1 DEF Firm
<1>7. \A i, k : Before(i, k)' <=> Before(i, k)
  BY <1>1 DEF Before
<1>8. \A i : Ahead(i)' = Ahead(i)
  BY <1>2, <1>7 DEF Ahead
<1>9. QED
  BY <1>1, <1>2, <1>3, <1>4, <1>5, <1>6, <1>8

LEMMA SeenMore ==
  ASSUME NEW q \in Seq(Ids), NEW g \in Seq(Ids)
  PROVE  /\ q \o g \in Seq(Ids) /\ ToSet(q \o g) = ToSet(q) \cup ToSet(g)
         /\ \A m, n \in DOMAIN (q \o g) :
              m # n /\ (q \o g)[m] = (q \o g)[n] =>
                 \/ \E x, y \in DOMAIN q : x # y /\ q[x] = q[y] /\ q[x] = (q \o g)[m]
                 \/ \E x, y \in DOMAIN g : x # y /\ g[x] = g[y]
                 \/ (q \o g)[m] \in ToSet(q) \cap ToSet(g)
<1>1. PICK r : r = q \o g
  OBVIOUS
<1>2. /\ r \in Seq(Ids) /\ Len(q) \in Nat /\ Len(g) \in Nat
      /\ DOMAIN q = 1..Len(q) /\ DOMAIN g = 1..Len(g) /\ DOMAIN r = 1..(Len(q) + Len(g))
      /\ \A x \in DOMAIN q : r[x] = q[x]
      /\ \A x \in DOMAIN g : r[Len(q) + x] = g[x]
  BY <1>1
<1>3. \A m \in DOMAIN r : \/ m \in DOMAIN q /\ r[m] = q[m]
                          \/ m - Len(q) \in DOMAIN g /\ r[m] = g[m - Len(q)]
  <2>1. SUFFICES ASSUME NEW m \in DOMAIN r, m \notin DOMAIN q
                 PROVE  m - Len(q) \in DOMAIN g /\ r[m] = g[m - Len(q)]
    BY <1>2
  <2>2. m - Len(q) \in DOMAIN g /\ Len(q) + (m - Len(q)) = m
    BY <1>2, <2>1
  <2>3. QED
    BY <1>2, <2>2
<1>4. \A x \in DOMAIN g : Len(q) + x \in DOMAIN r
  BY <1>2
<1>5. DOMAIN q \subseteq DOMAIN r
  BY <1>2
<1>6. ToSet(r) = ToSet(q) \cup ToSet(g)
  BY <1>2, <1>3, <1>4, <1>5 DEF ToSet
<1>7. ASSUME NEW m \in DOMAIN r, NEW n \in DOMAIN r, m # n, r[m] = r[n]
      PROVE  \/ \E x, y \in DOMAIN q : x # y /\ q[x] = q[y] /\ q[x] = r[m]
             \/ \E x, y \in DOMAIN g : x # y /\ g[x] = g[y]
             \/ r[m] \in ToSet(q) \cap ToSet(g)
  <2>1. CASE m \in DOMAIN q /\ r[m] = q[m] /\ n \in DOMAIN q /\ r[n] = q[n]
    BY <1>7, <2>1
  <2>2. CASE /\ m - Len(q) \in DOMAIN g /\ r[m] = g[m - Len(q)]
             /\ n - Len(q) \in DOMAIN g /\ r[n] = g[n - Len(q)]
    <3>1. m - Len(q) # n - Len(q)
      BY <1>2, <1>7
    <3>2. QED
      BY <1>7, <2>2, <3>1
  <2>3. CASE /\ m \in DOMAIN q /\ r[m] = q[m]
             /\ n - Len(q) \in DOMAIN g /\ r[n] = g[n - Len(q)]
    BY <1>7, <2>3 DEF ToSet
  <2>4. CASE /\ n \in DOMAIN q /\ r[n] = q[n]
             /\ m - Len(q) \in DOMAIN g /\ r[m] = g[m - Len(q)]
    BY <1>7, <2>4 DEF ToSet
  <2>5. QED
    BY <1>3, <2>1, <2>2, <2>3, <2>4
<1>8. QED
  BY <1>1, <1>2, <1>6, <1>7

LEMMA PageKeeps ==
  ASSUME BrowseInv, Walked, walk.at = "asking", NEW s \in Listings, NEW page,
         page = PageOf(s, walk.offset, ClampListLimit(query.limit)),
         walk' = [at |-> IF page = <<>> THEN "done" ELSE "asking",
                  offset |-> walk.offset + Len(page), seen |-> walk.seen \o page],
         UNCHANGED <<route, backend, list, hash, query, since>>
  PROVE  BrowseTypes' /\ HistoryOk' /\ NonePassed' /\ NoneAgain' /\ RepeatNeedsArrival'
<1> USE DEF BrowseInv
<1>1. /\ s \in Seq(Matching(list)) /\ DOMAIN s = 1..Len(s) /\ Len(s) \in Nat
      /\ \A m, n \in DOMAIN s : s[m] = s[n] => m = n
      /\ \A i \in Matching(list) : \E p \in DOMAIN s : s[p] = i
  BY ListingComplete
<1>2. \A p \in DOMAIN s : Firm(s[p]) => p = Cardinality(Ahead(s[p])) + 1
  BY FirmPlace
<1>3. PICK o \in Nat, q \in Seq(Ids) : o = walk.offset /\ q = walk.seen
  BY DEF BrowseTypes
<1>4. /\ page \in Seq(Matching(list)) /\ page \in Seq(Ids) /\ Len(page) \in Nat
      /\ DOMAIN page = 1..Len(page)
      /\ \A x \in DOMAIN page : o + x \in DOMAIN s /\ page[x] = s[o + x]
      /\ o < Len(s) => Len(page) > 0
  <2>1. PICK l \in Nat \ {0} : l = ClampListLimit(query.limit)
    BY LimitPositive
  <2>2. page = PageOf(s, o, l)
    BY <1>3, <2>1
  <2>3. /\ PageOf(s, o, l) \in Seq(Matching(list))
        /\ \A x \in 1..Len(PageOf(s, o, l)) :
              o + x \in 1..Len(s) /\ PageOf(s, o, l)[x] = s[o + x]
        /\ o < Len(s) => Len(PageOf(s, o, l)) > 0
    BY <1>1, PageIsASlice
  <2>4. page \in Seq(Ids)
    BY <2>2, <2>3, MatchingFinite
  <2>5. /\ page \in Seq(Matching(list))
        /\ \A x \in 1..Len(page) : o + x \in 1..Len(s) /\ page[x] = s[o + x]
        /\ o < Len(s) => Len(page) > 0
    BY <2>2, <2>3, Zenon
  <2>6. Len(page) \in Nat /\ DOMAIN page = 1..Len(page)
    BY <2>4
  <2>7. \A x \in DOMAIN page : o + x \in DOMAIN s /\ page[x] = s[o + x]
    BY <1>1, <2>5, <2>6, Zenon
  <2>8. QED
    BY <2>4, <2>5, <2>6, <2>7, Zenon
<1>5. /\ walk'.seen \in Seq(Ids) /\ ToSet(walk'.seen) = ToSet(walk.seen) \cup ToSet(page)
      /\ walk'.offset = o + Len(page) /\ walk'.offset \in Nat
      /\ walk'.at = IF page = <<>> THEN "done" ELSE "asking"
      /\ walk' \in [at : {"asking", "done", "refused"}, offset : Nat, seen : Seq(Ids)]
  <2>1. q \o page \in Seq(Ids) /\ ToSet(q \o page) = ToSet(q) \cup ToSet(page)
    BY <1>4, SeenMore
  <2>2. walk'.seen = q \o page /\ walk'.offset = o + Len(page)
    BY <1>3
  <2>3. o + Len(page) \in Nat
    BY <1>4
  <2>4. QED
    BY <1>3, <2>1, <2>2, <2>3
<1>6. /\ Matching(list)' = Matching(list) /\ Tied(list)' = Tied(list)
      /\ {i \in DOMAIN list : Meant(list[i])}' = {i \in DOMAIN list : Meant(list[i])}
      /\ Walked' /\ (Kept' <=> Kept)
      /\ \A i : Ahead(i)' = Ahead(i) /\ (Firm(i)' <=> Firm(i))
  BY SameList
<1>7. BrowseTypes'
  BY <1>5, <1>6 DEF BrowseTypes, Rows, HashPlaces, JobRows, RunRows, Walked
<1>8. ToSet(page) \subseteq Matching(list)
  BY <1>4 DEF ToSet
<1>9. HistoryOk'
  <2>1. Matching(list) \subseteq since.fits
    <3>1. SUFFICES ASSUME NEW i \in Matching(list) PROVE Meant(list[i])
      BY MatchingFinite DEF HistoryOk
    <3>2. Matches(list[i])
      BY DEF Matching
    <3>3. CASE route = "jobs"
      BY <3>2, <3>3 DEF Matches, Meant
    <3>4. CASE route = "runs"
      <4>1. /\ query.status \in {Unset, "running", "Failed", "fail"}
            /\ ParseRunStatus(query.status) \in {Unset, list[i].status}
        BY <3>2, <3>4 DEF BrowseTypes, Walked, Matches
      <4>2. QED
        BY <3>4, <4>1, LimitsAssumption DEF ParseRunStatus, Meant
    <3>5. QED
      BY <3>3, <3>4 DEF Walked
  <2>2. QED
    BY <1>5, <1>6, <1>8, <2>1 DEF HistoryOk
<1>10. NonePassed'
  <2>1. SUFFICES ASSUME Kept, NEW i \in since.stayed, Firm(i), i \notin ToSet(walk'.seen)
                 PROVE  /\ walk'.at # "done"
                        /\ walk'.at = "asking" => walk'.offset <= Cardinality(Ahead(i))
    BY <1>6 DEF NonePassed
  <2>2. o <= Cardinality(Ahead(i)) /\ Cardinality(Ahead(i)) \in Nat /\ i \in Matching(list)
    BY <1>3, <1>5, <2>1, MatchingFinite DEF NonePassed, HistoryOk
  <2>3. PICK p \in DOMAIN s : s[p] = i
    BY <1>1, <2>2
  <2>4. p = Cardinality(Ahead(i)) + 1 /\ p \in Nat /\ p <= Len(s)
    BY <1>1, <1>2, <2>1, <2>3
  <2>5. p - o \notin DOMAIN page
    <3>1. SUFFICES ASSUME p - o \in DOMAIN page PROVE FALSE
      OBVIOUS
    <3>2. page[p - o] = s[o + (p - o)] /\ o + (p - o) = p
      BY <1>4, <2>4, <3>1
    <3>3. QED
      BY <1>5, <2>1, <2>3, <3>1, <3>2 DEF ToSet
  <2>6. p > o + Len(page)
    BY <1>4, <2>2, <2>4, <2>5
  <2>7. page # <<>>
    <3>1. Len(page) > 0
      BY <1>4, <2>2, <2>4
    <3>2. QED
      BY <3>1
  <2>8. QED
    BY <1>4, <1>5, <2>2, <2>4, <2>6, <2>7
<1>11. \A x \in DOMAIN page : Firm(page[x]) =>
          Cardinality(Ahead(page[x])) = o + x - 1
  <2>1. SUFFICES ASSUME NEW x \in DOMAIN page, Firm(page[x])
                 PROVE  Cardinality(Ahead(page[x])) = o + x - 1
    OBVIOUS
  <2>2. o + x = Cardinality(Ahead(page[x])) + 1
    BY <1>2, <1>4, <2>1
  <2>3. Cardinality(Ahead(page[x])) \in Nat /\ x \in Nat
    BY <1>4, MatchingFinite
  <2>4. QED
    BY <2>2, <2>3
<1>12. NoneAgain'
  <2>1. SUFFICES ASSUME ~(since.came \/ since.grown), NEW i \in Matching(list), Firm(i),
                        i \in ToSet(walk'.seen)
                 PROVE  Cardinality(Ahead(i)) < walk'.offset
    BY <1>6 DEF NoneAgain
  <2>2. CASE i \in ToSet(walk.seen)
    <3>1. Cardinality(Ahead(i)) < o /\ Cardinality(Ahead(i)) \in Nat
      BY <1>3, <2>1, <2>2, MatchingFinite DEF NoneAgain
    <3>2. QED
      BY <1>4, <1>5, <3>1
  <2>3. CASE i \in ToSet(page)
    <3>1. PICK x \in DOMAIN page : page[x] = i
      BY <2>3 DEF ToSet
    <3>2. Cardinality(Ahead(i)) = o + x - 1 /\ x \in 1..Len(page)
      BY <1>4, <1>11, <2>1, <3>1
    <3>3. QED
      BY <1>4, <1>5, <3>2
  <2>4. QED
    BY <1>5, <2>1, <2>2, <2>3
<1>13. RepeatNeedsArrival'
  <2>1. SUFFICES ASSUME ~(since.came \/ since.grown), NEW m \in DOMAIN walk'.seen,
                        NEW n \in DOMAIN walk'.seen, m # n, walk'.seen[m] = walk'.seen[n]
                 PROVE  backend = "sql" /\ walk'.seen[m] \in since.tied
    BY DEF RepeatNeedsArrival
  <2>2. walk'.seen = q \o page
    BY <1>3
  <2>3. \/ \E x, y \in DOMAIN q : x # y /\ q[x] = q[y] /\ q[x] = walk'.seen[m]
        \/ \E x, y \in DOMAIN page : x # y /\ page[x] = page[y]
        \/ walk'.seen[m] \in ToSet(q) \cap ToSet(page)
    <3>1. \A a, b \in DOMAIN (q \o page) :
            a # b /\ (q \o page)[a] = (q \o page)[b] =>
               \/ \E x, y \in DOMAIN q : x # y /\ q[x] = q[y] /\ q[x] = (q \o page)[a]
               \/ \E x, y \in DOMAIN page : x # y /\ page[x] = page[y]
               \/ (q \o page)[a] \in ToSet(q) \cap ToSet(page)
      BY <1>4, SeenMore
    <3>2. QED
      BY <2>1, <2>2, <3>1, Zenon
  <2>4. CASE \E x, y \in DOMAIN q : x # y /\ q[x] = q[y] /\ q[x] = walk'.seen[m]
    BY <1>3, <2>1, <2>4 DEF RepeatNeedsArrival
  <2>5. ASSUME NEW x \in DOMAIN page, NEW y \in DOMAIN page, x # y, page[x] = page[y]
        PROVE  FALSE
    <3>1. o + x = o + y
      BY <1>1, <1>4, <2>5
    <3>2. QED
      BY <1>4, <2>5, <3>1
  <2>6. CASE walk'.seen[m] \in ToSet(q) \cap ToSet(page)
    <3>1. PICK x \in DOMAIN page : page[x] = walk'.seen[m]
      BY <2>6 DEF ToSet
    <3>2. page[x] \in Matching(list) /\ page[x] \in ToSet(walk.seen)
      BY <1>3, <1>8, <2>6, <3>1 DEF ToSet
    <3>3. ASSUME Firm(page[x]) PROVE FALSE
      <4>1. Cardinality(Ahead(page[x])) < o
        BY <1>3, <2>1, <3>2, <3>3 DEF NoneAgain
      <4>2. Cardinality(Ahead(page[x])) = o + x - 1
        BY <1>11, <3>3, Zenon
      <4>3. x \in Nat /\ x >= 1
        BY <1>4
      <4>4. QED
        BY <4>1, <4>2, <4>3
    <3>4. ~InMemory /\ page[x] \in since.tied
      BY <3>3 DEF Firm
    <3>5. backend = "sql"
      BY <3>4 DEF InMemory, BrowseTypes, Walked
    <3>6. QED
      BY <3>1, <3>4, <3>5
  <2>7. QED
    BY <2>3, <2>4, <2>5, <2>6
<1>14. QED
  BY <1>7, <1>9, <1>10, <1>12, <1>13

(* GET /jobs and GET /runs. *)
LEMMA ListKeeps ==
  ASSUME BrowseInv, ListJobs \/ ListRuns
  PROVE  BrowseInv'
<1>1. /\ Walked /\ walk.at = "asking"
      /\ UNCHANGED <<route, backend, list, hash, query, since, past, changes>>
  BY DEF ListJobs, ListRuns, Walked
<1>2. PastTypes' /\ PastOk'
  BY <1>1 DEF BrowseInv, PastTypes, PastOk
<1>3. NothingPrivate'
  <2>1. answered' \subseteq answered \cup JobResponse \cup RunResponse
    BY DEF ListJobs, ListRuns
  <2>2. QED
    BY <2>1 DEF BrowseInv, NothingPrivate, JobResponse, RunResponse
<1>4. CASE ListJobs /\ ~KnownKind(query.kind)
  <2>1. walk' = [walk EXCEPT !.at = "refused"]
    BY <1>4 DEF ListJobs
  <2>2. /\ walk'.at = "refused" /\ walk'.seen = walk.seen /\ walk'.offset = walk.offset
        /\ walk' \in [at : {"asking", "done", "refused"}, offset : Nat, seen : Seq(Ids)]
    BY <2>1 DEF BrowseInv, BrowseTypes
  <2>3. /\ Matching(list)' = Matching(list) /\ Tied(list)' = Tied(list)
        /\ {i \in DOMAIN list : Meant(list[i])}' = {i \in DOMAIN list : Meant(list[i])}
        /\ Walked' /\ (Kept' <=> Kept)
        /\ \A i : Ahead(i)' = Ahead(i) /\ (Firm(i)' <=> Firm(i))
    BY <1>1, SameList
  <2>4. BrowseTypes'
    BY <1>1, <2>2 DEF BrowseInv, BrowseTypes, Rows, HashPlaces, JobRows, RunRows, Walked
  <2>5. HistoryOk' /\ NonePassed'
    BY <1>1, <2>2, <2>3 DEF BrowseInv, HistoryOk, NonePassed
  <2>6. NoneAgain'
    BY <1>1, <2>2, <2>3 DEF BrowseInv, NoneAgain
  <2>7. RepeatNeedsArrival'
    BY <1>1, <2>2 DEF BrowseInv, RepeatNeedsArrival
  <2>8. QED
    BY <1>2, <1>3, <2>4, <2>5, <2>6, <2>7 DEF BrowseInv
<1>5. CASE ~(ListJobs /\ ~KnownKind(query.kind))
  <2>1. PICK s \in Listings :
            LET page == PageOf(s, walk.offset, ClampListLimit(query.limit))
            IN  walk' = [at |-> IF page = <<>> THEN "done" ELSE "asking",
                         offset |-> walk.offset + Len(page), seen |-> walk.seen \o page]
    BY <1>5 DEF ListJobs, ListRuns
  <2>2. PICK page : page = PageOf(s, walk.offset, ClampListLimit(query.limit))
    OBVIOUS
  <2>3. walk' = [at |-> IF page = <<>> THEN "done" ELSE "asking",
                 offset |-> walk.offset + Len(page), seen |-> walk.seen \o page]
    BY <2>1, <2>2
  <2>4. BrowseTypes' /\ HistoryOk' /\ NonePassed' /\ NoneAgain' /\ RepeatNeedsArrival'
    BY <1>1, <2>2, <2>3, PageKeeps
  <2>5. QED
    BY <1>2, <1>3, <2>4 DEF BrowseInv
<1>6. QED
  BY <1>4, <1>5

----------------------------------------------------------------------------
(* A change of the list.                                                   *)

LEMMA ChangeKeeps ==
  ASSUME BrowseInv, Walked, NEW rows, Change(rows),
         rows \in [DOMAIN rows -> Rows], DOMAIN rows \subseteq Ids,
         \A i \in DOMAIN list \cap DOMAIN rows : rows[i].key = list[i].key,
         hash' \in HashPlaces,
         hash' = hash \/ ~(DOMAIN rows \subseteq DOMAIN list)
  PROVE  BrowseInv'
<1>1. /\ UNCHANGED <<route, backend, query, walk, past, answered>>
      /\ list' = rows /\ walk.at = "asking"
  BY DEF Change
<1>2. (Walked' <=> Walked) /\ (InMemory' <=> InMemory)
  BY <1>1 DEF Walked, InMemory
<1>3. Matching(list)' = Matching(rows)
  BY <1>1 DEF Matching, Matches, ParseRunStatus
<1>4. Tied(list)' = Tied(rows)
  BY <1>1 DEF Tied
<1>5. {i \in DOMAIN list : Meant(list[i])}' = {i \in DOMAIN rows : Meant(rows[i])}
  BY <1>1 DEF Meant
<1>6. /\ since'.stayed = since.stayed \cap Matching(rows)
      /\ since'.left = (since.left \/ ~(Matching(list) \subseteq Matching(rows)))
      /\ since'.came = (since.came \/ ~(Matching(rows) \subseteq Matching(list)))
      /\ since'.grown = (since.grown \/ ~(DOMAIN rows \subseteq DOMAIN list))
      /\ since'.tied = since.tied \cup Tied(rows)
      /\ since'.fits = since.fits \cup {i \in DOMAIN rows : Meant(rows[i])}
  BY DEF Change, Record
<1>7. Matching(rows) \subseteq Ids /\ Matching(rows) \subseteq DOMAIN rows
  BY DEF Matching
<1>8. \A i : Firm(i)' => Firm(i)
  BY <1>2, <1>6 DEF Firm
<1>9. ASSUME InMemory => hash' = hash,
             NEW i \in DOMAIN list \cap DOMAIN rows, NEW k \in DOMAIN list \cap DOMAIN rows
      PROVE  Before(i, k)' <=> Before(i, k)
  <2>1. list'[i].key = list[i].key /\ list'[k].key = list[k].key
    BY <1>1
  <2>2. QED
    BY <1>1, <1>2, <1>9, <2>1 DEF Before
<1>10. \A i : IsFiniteSet(Ahead(i)) /\ Cardinality(Ahead(i)) \in Nat
  BY MatchingFinite DEF BrowseInv
<1>11. \A i : IsFiniteSet(Ahead(i)') /\ Cardinality(Ahead(i)') \in Nat
  <2>1. \A i : Ahead(i)' \subseteq Ids
    BY <1>3, <1>7 DEF Ahead
  <2>2. \A i : IsFiniteSet(Ahead(i)')
    BY <2>1, LimitsAssumption, FS_Subset
  <2>3. QED
    BY <2>2, FS_CardinalityType
<1>12. Matching(list) \subseteq DOMAIN list
  BY DEF Matching
<1>13. BrowseTypes'
  <2>1. /\ since.stayed \subseteq Ids /\ since.tied \subseteq Ids /\ since.fits \subseteq Ids
        /\ since.left \in BOOLEAN /\ since.came \in BOOLEAN /\ since.grown \in BOOLEAN
    BY DEF BrowseInv, BrowseTypes
  <2>2. Tied(rows) \subseteq Ids /\ {i \in DOMAIN rows : Meant(rows[i])} \subseteq Ids
    BY DEF Tied
  <2>3. since' \in [stayed : SUBSET Ids, left : BOOLEAN, came : BOOLEAN, grown : BOOLEAN,
                    tied : SUBSET Ids, fits : SUBSET Ids]
    BY <1>7, <2>1, <2>2 DEF Change, Record
  <2>4. Rows' = Rows /\ HashPlaces' = HashPlaces
    BY <1>1 DEF Rows, JobRows, RunRows, HashPlaces
  <2>5. list' \in [DOMAIN list' -> Rows'] /\ DOMAIN list' \subseteq Ids
    BY <1>1, <2>4
  <2>6. hash' \in HashPlaces'
    BY <2>4
  <2>7. QED
    BY <1>1, <1>2, <2>3, <2>5, <2>6 DEF BrowseInv, BrowseTypes
<1>14. HistoryOk'
  BY <1>1, <1>3, <1>4, <1>5, <1>6 DEF BrowseInv, HistoryOk
<1>15. NonePassed'
  <2>1. SUFFICES ASSUME Kept', NEW i \in since'.stayed, Firm(i)', i \notin ToSet(walk.seen)
                 PROVE  walk.offset <= Cardinality(Ahead(i)')
    BY <1>1 DEF NonePassed
  <2>2. /\ Kept /\ Matching(list) \subseteq Matching(rows)
        /\ InMemory => hash' = hash
    BY <1>2, <1>6, <2>1 DEF Kept
  <2>3. i \in since.stayed /\ i \in Matching(list) /\ Firm(i)
    BY <1>6, <1>8, <2>1 DEF BrowseInv, HistoryOk
  <2>4. walk.offset <= Cardinality(Ahead(i))
    BY <1>1, <2>1, <2>2, <2>3 DEF BrowseInv, NonePassed
  <2>5. Ahead(i) \subseteq Ahead(i)'
    BY <1>3, <1>7, <1>9, <1>12, <2>2, <2>3 DEF Ahead
  <2>6. Cardinality(Ahead(i)) <= Cardinality(Ahead(i)')
    BY <1>11, <2>5, FS_Subset
  <2>7. walk.offset \in Nat
    BY DEF BrowseInv, BrowseTypes
  <2>8. QED
    BY <1>10, <1>11, <2>4, <2>6, <2>7
<1>16. NoneAgain'
  <2>1. SUFFICES ASSUME ~(since'.came \/ since'.grown), NEW i \in Matching(rows), Firm(i)',
                        i \in ToSet(walk.seen)
                 PROVE  Cardinality(Ahead(i)') < walk.offset
    BY <1>1, <1>3 DEF NoneAgain
  <2>2. /\ ~(since.came \/ since.grown) /\ Matching(rows) \subseteq Matching(list)
        /\ hash' = hash
    BY <1>6, <2>1
  <2>3. Cardinality(Ahead(i)) < walk.offset
    BY <1>8, <2>1, <2>2 DEF BrowseInv, NoneAgain
  <2>4. Ahead(i)' \subseteq Ahead(i)
    BY <1>3, <1>7, <1>9, <1>12, <2>2 DEF Ahead
  <2>5. Cardinality(Ahead(i)') <= Cardinality(Ahead(i))
    BY <1>10, <2>4, FS_Subset
  <2>6. walk.offset \in Nat
    BY DEF BrowseInv, BrowseTypes
  <2>7. QED
    BY <1>10, <1>11, <2>3, <2>5, <2>6
<1>17. RepeatNeedsArrival'
  <2>1. SUFFICES ASSUME ~(since'.came \/ since'.grown), NEW m \in DOMAIN walk.seen,
                        NEW n \in DOMAIN walk.seen, m # n, walk.seen[m] = walk.seen[n]
                 PROVE  backend = "sql" /\ walk.seen[m] \in since'.tied
    BY <1>1 DEF RepeatNeedsArrival
  <2>2. QED
    BY <1>6, <2>1 DEF BrowseInv, RepeatNeedsArrival
<1>18. PastTypes' /\ PastOk' /\ NothingPrivate'
  BY <1>1 DEF BrowseInv, PastTypes, PastOk, NothingPrivate
<1>19. QED
  BY <1>13, <1>14, <1>15, <1>16, <1>17, <1>18 DEF BrowseInv

(* NewJob, AlterJob, DeleteJob, NewRun, AlterRun. *)
LEMMA RowsKeep ==
  ASSUME BrowseInv, NEW i \in Ids,
         \/ \E row \in JobRows : NewJob(i, row)
         \/ AlterJob(i) \/ DeleteJob(i)
         \/ \E t \in Keys : NewRun(i, t)
         \/ \E st \in {"queued", "running", "failed"} : AlterRun(i, st)
  PROVE  BrowseInv'
<1>1. Walked
  BY DEF NewJob, AlterJob, DeleteJob, NewRun, AlterRun, Walked
<1>2. list \in [DOMAIN list -> Rows] /\ DOMAIN list \subseteq Ids /\ hash \in HashPlaces
  BY <1>1 DEF BrowseInv, BrowseTypes
<1>3. ASSUME NEW row \in JobRows, NewJob(i, row) PROVE BrowseInv'
  <2>1. PICK rows : rows = [k \in DOMAIN list \cup {i} |-> IF k = i THEN row ELSE list[k]]
    OBVIOUS
  <2>2. Change(rows) /\ i \notin DOMAIN list /\ Rows = JobRows
    BY <1>3, <2>1 DEF NewJob, Rows
  <2>3. /\ DOMAIN rows = DOMAIN list \cup {i} /\ rows \in [DOMAIN rows -> Rows]
        /\ \A k \in DOMAIN list : rows[k] = list[k]
    BY <1>2, <2>1, <2>2
  <2>4. hash' \in HashPlaces
    BY <1>2, <1>3 DEF NewJob, MayGrow
  <2>5. QED
    BY <1>1, <1>2, <2>2, <2>3, <2>4, ChangeKeeps
<1>4. ASSUME AlterJob(i) PROVE BrowseInv'
  <2>1. PICK rows : rows = [list EXCEPT ![i].enabled = ~@]
    OBVIOUS
  <2>2. Change(rows) /\ i \in DOMAIN list /\ Rows = JobRows /\ hash' = hash
    BY <1>4, <2>1 DEF AlterJob, Rows
  <2>3. list[i] \in JobRows
    BY <1>2, <2>2
  <2>4. /\ [list[i] EXCEPT !.enabled = ~@] \in JobRows
        /\ [list[i] EXCEPT !.enabled = ~@].key = list[i].key
    BY <2>3 DEF JobRows
  <2>5. /\ DOMAIN rows = DOMAIN list /\ rows \in [DOMAIN rows -> Rows]
        /\ \A k \in DOMAIN list : rows[k].key = list[k].key
    BY <1>2, <2>1, <2>2, <2>4
  <2>6. QED
    BY <1>1, <1>2, <2>2, <2>5, ChangeKeeps
<1>5. ASSUME DeleteJob(i) PROVE BrowseInv'
  <2>1. PICK rows : rows = [k \in DOMAIN list \ {i} |-> list[k]]
    OBVIOUS
  <2>2. Change(rows) /\ hash' = hash
    BY <1>5, <2>1 DEF DeleteJob
  <2>3. /\ DOMAIN rows \subseteq DOMAIN list /\ rows \in [DOMAIN rows -> Rows]
        /\ \A k \in DOMAIN rows : rows[k] = list[k]
    BY <1>2, <2>1
  <2>4. QED
    BY <1>1, <1>2, <2>2, <2>3, ChangeKeeps
<1>6. ASSUME NEW t \in Keys, NewRun(i, t) PROVE BrowseInv'
  <2>1. PICK rows : rows = [k \in DOMAIN list \cup {i} |->
                               IF k = i THEN [key |-> t, status |-> "queued"] ELSE list[k]]
    OBVIOUS
  <2>2. Change(rows) /\ i \notin DOMAIN list /\ Rows = RunRows /\ hash' = hash
    BY <1>6, <2>1 DEF NewRun, Rows
  <2>3. [key |-> t, status |-> "queued"] \in RunRows
    BY DEF RunRows
  <2>4. /\ DOMAIN rows = DOMAIN list \cup {i} /\ rows \in [DOMAIN rows -> Rows]
        /\ \A k \in DOMAIN list : rows[k] = list[k]
    BY <1>2, <2>1, <2>2, <2>3
  <2>5. QED
    BY <1>1, <1>2, <2>2, <2>4, ChangeKeeps
<1>7. ASSUME NEW st \in {"queued", "running", "failed"}, AlterRun(i, st) PROVE BrowseInv'
  <2>1. PICK rows : rows = [list EXCEPT ![i].status = st]
    OBVIOUS
  <2>2. Change(rows) /\ i \in DOMAIN list /\ Rows = RunRows /\ hash' = hash
    BY <1>7, <2>1 DEF AlterRun, Rows
  <2>3. list[i] \in RunRows
    BY <1>2, <2>2
  <2>4. /\ [list[i] EXCEPT !.status = st] \in RunRows
        /\ [list[i] EXCEPT !.status = st].key = list[i].key
    BY <2>3 DEF RunRows
  <2>5. /\ DOMAIN rows = DOMAIN list /\ rows \in [DOMAIN rows -> Rows]
        /\ \A k \in DOMAIN list : rows[k].key = list[k].key
    BY <1>2, <2>1, <2>2, <2>4
  <2>6. QED
    BY <1>1, <1>2, <2>2, <2>5, ChangeKeeps
<1>8. QED
  BY <1>3, <1>4, <1>5, <1>6, <1>7

----------------------------------------------------------------------------
(* The revisions of a job.                                                 *)

LEMMA RevisionsKeep ==
  ASSUME BrowseInv, GetJobRevisions \/ UpsertJob \/ DeleteWithRevisions
  PROVE  BrowseInv'
<1>1. route = "revisions" /\ UNCHANGED <<route, backend, list, hash, query, walk, since>>
  BY DEF GetJobRevisions, UpsertJob, DeleteWithRevisions, Writes
<1>2. BrowseTypes' /\ ~Walked' /\ RepeatNeedsArrival'
  BY <1>1 DEF BrowseInv, BrowseTypes, Walked, RepeatNeedsArrival
<1>3. /\ past \in [row : BOOLEAN, revs : Nat, upsert : {"idle", "write"},
                   delete : {"idle", "revisions", "row"}, deleted : BOOLEAN,
                   reader : {"ask", "list", "missing", "done"}, read : Nat]
      /\ past.revs \in Nat
  BY DEF BrowseInv, PastTypes
<1>4. ASSUME GetJobRevisions PROVE PastTypes' /\ PastOk' /\ NothingPrivate'
  <2>1. CASE past.reader = "ask"
    BY <1>3, <1>4, <2>1 DEF GetJobRevisions, BrowseInv, PastTypes, PastOk, NothingPrivate
  <2>2. CASE past.reader = "list"
    <3>1. /\ past' = [past EXCEPT !.reader = "done", !.read = past.revs]
          /\ answered' \subseteq answered \cup
                (RedactRevisionSnapshot(Revision) \ {"changed_by_actor_json"})
      BY <1>4, <2>2 DEF GetJobRevisions
    <3>2. NothingPrivate'
      BY <3>1 DEF BrowseInv, NothingPrivate, RedactRevisionSnapshot, Revision, Snapshot
    <3>3. PastTypes' /\ PastOk'
      BY <1>3, <2>2, <3>1 DEF BrowseInv, PastTypes, PastOk
    <3>4. QED
      BY <3>2, <3>3
  <2>3. QED
    BY <1>4, <2>1, <2>2 DEF GetJobRevisions
<1>5. ASSUME UpsertJob PROVE PastTypes' /\ PastOk' /\ NothingPrivate'
  <2>1. NothingPrivate'
    BY <1>5 DEF UpsertJob, Writes, BrowseInv, NothingPrivate
  <2>2. CASE past' = [past EXCEPT !.revs = @ + 1, !.upsert = "write"]
    <3>1. past.revs + 1 \in Nat /\ past.revs + 1 > 0
      BY <1>3
    <3>2. PastTypes'
      BY <1>3, <2>2, <3>1 DEF PastTypes
    <3>3. PastOk'
      BY <1>3, <2>2, <3>1 DEF BrowseInv, PastOk
    <3>4. QED
      BY <2>1, <3>2, <3>3
  <2>3. CASE past.upsert = "write" /\ past' = [past EXCEPT !.row = TRUE, !.upsert = "idle"]
    <3>1. PastTypes'
      BY <1>3, <2>3 DEF PastTypes
    <3>2. PastOk'
      BY <1>3, <2>3 DEF BrowseInv, PastOk
    <3>3. QED
      BY <2>1, <3>1, <3>2
  <2>4. QED
    BY <1>5, <2>2, <2>3 DEF UpsertJob
<1>6. ASSUME DeleteWithRevisions PROVE PastTypes' /\ PastOk' /\ NothingPrivate'
  <2>1. NothingPrivate'
    BY <1>6 DEF DeleteWithRevisions, Writes, BrowseInv, NothingPrivate
  <2>2. CASE /\ past.row
             /\ \/ past' = [past EXCEPT !.delete = "revisions"]
                \/ past' = [past EXCEPT !.row = FALSE, !.delete = "revisions"]
    <3>1. PastTypes'
      BY <1>3, <2>2 DEF PastTypes
    <3>2. PastOk'
      BY <1>3, <2>2 DEF BrowseInv, PastOk
    <3>3. QED
      BY <2>1, <3>1, <3>2
  <2>3. CASE past' = [past EXCEPT !.revs = 0, !.deleted = TRUE,
                                  !.delete = IF backend = "sql" THEN "row" ELSE "idle"]
    <3>1. PastTypes'
      BY <1>3, <2>3 DEF PastTypes
    <3>2. PastOk'
      BY <1>3, <2>3 DEF PastOk
    <3>3. QED
      BY <2>1, <3>1, <3>2
  <2>4. CASE past' = [past EXCEPT !.row = FALSE, !.delete = "idle"]
    <3>1. PastTypes'
      BY <1>3, <2>4 DEF PastTypes
    <3>2. PastOk'
      BY <1>3, <2>4 DEF BrowseInv, PastOk
    <3>3. QED
      BY <2>1, <3>1, <3>2
  <2>5. QED
    BY <1>6, <2>2, <2>3, <2>4 DEF DeleteWithRevisions
<1>7. QED
  BY <1>2, <1>4, <1>5, <1>6 DEF BrowseInv

----------------------------------------------------------------------------
(* The hash map has a place for every id. *)
LEMMA PlacesExist ==
  \E h : h \in HashPlaces
<1>1. PICK n \in Nat : n = Cardinality(Ids)
  BY LimitsAssumption, FS_CardinalityType
<1>2. ExistsBijection(1..n, Ids)
  BY <1>1, LimitsAssumption, FS_CountingElements, FS_CardinalityType
<1>3. PICK f \in Bijection(1..n, Ids) : TRUE
  BY <1>2 DEF ExistsBijection
<1>4. \A i \in Ids : \E m \in 1..n : f[m] = i
  BY <1>3 DEF Bijection, Surjection
<1> DEFINE h == [i \in Ids |-> CHOOSE m \in 1..n : f[m] = i]
<1>5. \A i \in Ids : h[i] \in 1..n /\ f[h[i]] = i
  BY <1>4
<1>6. h \in [Ids -> 1..n]
  BY <1>5
<1> HIDE DEF h
<1>7. h \in HashPlaces
  BY <1>1, <1>5, <1>6 DEF HashPlaces
<1>8. QED
  BY <1>7

LEMMA BrowseStarts ==
  ASSUME BrowseInit \/ BrowseIdle
  PROVE  BrowseInv
<1>1. walk.seen = <<>> /\ walk.offset = 0
  BY DEF BrowseInit, BrowseIdle
<1>2. ToSet(walk.seen) = {} /\ DOMAIN walk.seen = {}
  BY <1>1 DEF ToSet
<1>3. past = NoPast \/ past = [NoPast EXCEPT !.row = TRUE, !.revs = 1]
  BY DEF BrowseInit, BrowseIdle
<1>4. PastTypes /\ PastOk
  <2>1. CASE past = NoPast
    BY <2>1 DEF NoPast, PastTypes, PastOk
  <2>2. CASE past = [NoPast EXCEPT !.row = TRUE, !.revs = 1]
    <3>1. PastTypes
      BY <2>2 DEF NoPast, PastTypes
    <3>2. PastOk
      BY <2>2 DEF NoPast, PastOk
    <3>3. QED
      BY <3>1, <3>2
  <2>3. QED
    BY <1>3, <2>1, <2>2
<1>5. NothingPrivate
  BY DEF BrowseInit, BrowseIdle, NothingPrivate
<1>6. RepeatNeedsArrival
  BY <1>2 DEF RepeatNeedsArrival
<1>7. walk \in [at : {"asking", "done", "refused"}, offset : Nat, seen : Seq(Ids)]
  <2>1. <<>> \in Seq(Ids)
    OBVIOUS
  <2>2. \E a \in {"asking", "done"} : walk = [at |-> a, offset |-> 0, seen |-> <<>>]
    BY DEF BrowseInit, BrowseIdle
  <2>3. QED
    BY <2>1, <2>2
<1>8. CASE ~Walked
  <2>1. BrowseTypes
    BY <1>7, <1>8 DEF BrowseInit, BrowseIdle, BrowseTypes, Walked
  <2>2. QED
    BY <1>4, <1>5, <1>6, <1>8, <2>1 DEF BrowseInv
<1>9. CASE Walked
  <2>1. /\ BrowseInit /\ walk.at = "asking"
        /\ route \in {"jobs", "runs"} /\ backend \in {"mem", "sql"}
        /\ route = "runs" => backend = "sql"
        /\ since = [NoHistory EXCEPT !.stayed = Matching(list), !.tied = Tied(list),
                                     !.fits = {i \in DOMAIN list : Meant(list[i])}]
    BY <1>9 DEF BrowseInit, BrowseIdle, Walked
  <2>2. list \in AllRows(Rows)
    BY <1>9, <2>1 DEF BrowseInit, Rows, Walked
  <2>3. list \in [DOMAIN list -> Rows] /\ DOMAIN list \subseteq Ids
    BY <2>2 DEF AllRows
  <2>4. hash \in HashPlaces
    BY <2>1, PlacesExist DEF BrowseInit
  <2>5. query.limit \in {Unset, MaxListLimit + 1}
    BY <1>9, <2>1 DEF BrowseInit, JobQueries, RunQueries, Walked
  <2>6. route = "runs" => query.status \in {Unset, "running", "Failed", "fail"}
    BY <2>1 DEF BrowseInit, RunQueries
  <2>7. /\ since.stayed = Matching(list) /\ since.tied = Tied(list)
        /\ since.fits = {i \in DOMAIN list : Meant(list[i])}
    BY <2>1 DEF NoHistory
  <2>8. since \in [stayed : SUBSET Ids, left : BOOLEAN, came : BOOLEAN, grown : BOOLEAN,
                   tied : SUBSET Ids, fits : SUBSET Ids]
    <3>1. /\ Matching(list) \subseteq Ids /\ Tied(list) \subseteq Ids
          /\ {i \in DOMAIN list : Meant(list[i])} \subseteq Ids
      BY <2>3 DEF Matching, Tied
    <3>2. QED
      BY <2>1, <3>1 DEF NoHistory
  <2>9. BrowseTypes
    BY <1>7, <1>9, <2>1, <2>3, <2>4, <2>5, <2>6, <2>8 DEF BrowseTypes
  <2>10. HistoryOk
    BY <1>2, <2>7 DEF HistoryOk
  <2>11. NonePassed
    <3>1. \A i : Cardinality(Ahead(i)) \in Nat
      BY <1>9, <2>9, MatchingFinite
    <3>2. QED
      BY <1>1, <2>1, <3>1 DEF NonePassed
  <2>12. NoneAgain
    BY <1>2 DEF NoneAgain
  <2>13. QED
    BY <1>4, <1>5, <1>6, <2>9, <2>10, <2>11, <2>12 DEF BrowseInv
<1>10. QED
  BY <1>8, <1>9

LEMMA BrowseStutters ==
  ASSUME BrowseInv, UNCHANGED browseVars
  PROVE  BrowseInv'
<1>1. UNCHANGED <<route, backend, list, hash, query, walk, since, past, answered>>
  BY DEF browseVars
<1>2. /\ Matching(list)' = Matching(list) /\ Tied(list)' = Tied(list)
      /\ {i \in DOMAIN list : Meant(list[i])}' = {i \in DOMAIN list : Meant(list[i])}
      /\ (Walked' <=> Walked) /\ (Kept' <=> Kept)
      /\ \A i : Ahead(i)' = Ahead(i) /\ (Firm(i)' <=> Firm(i))
  BY <1>1, SameList
<1>3. BrowseTypes'
  BY <1>1 DEF BrowseInv, BrowseTypes, Rows, HashPlaces, JobRows, RunRows, Walked
<1>4. PastTypes' /\ PastOk' /\ NothingPrivate' /\ RepeatNeedsArrival'
  BY <1>1 DEF BrowseInv, PastTypes, PastOk, NothingPrivate, RepeatNeedsArrival
<1>5. Walked' => HistoryOk' /\ NonePassed'
  BY <1>1, <1>2 DEF BrowseInv, HistoryOk, NonePassed
<1>6. Walked' => NoneAgain'
  BY <1>1, <1>2 DEF BrowseInv, NoneAgain
<1>7. QED
  BY <1>3, <1>4, <1>5, <1>6 DEF BrowseInv

LEMMA BrowseGivesPages ==
  ASSUME BrowseInv
  PROVE  PagesFaithful
<1>1. ASSUME route = "runs", walk.at = "done", ~since.left
      PROVE  since.stayed \ since.tied \subseteq ToSet(walk.seen)
  BY <1>1 DEF BrowseInv, Walked, NonePassed, Kept, InMemory, Firm
<1>2. ASSUME route = "jobs", walk.at = "done", ~since.left
      PROVE  IF backend = "sql" THEN since.stayed \ since.tied \subseteq ToSet(walk.seen)
             ELSE ~since.grown => since.stayed \subseteq ToSet(walk.seen)
  <2>1. NonePassed
    BY <1>2 DEF BrowseInv, Walked
  <2>2. CASE backend = "sql"
    BY <1>2, <2>1, <2>2 DEF NonePassed, Kept, InMemory, Firm
  <2>3. CASE backend = "mem"
    BY <1>2, <2>1, <2>3 DEF NonePassed, Kept, InMemory, Firm
  <2>4. QED
    BY <2>2, <2>3 DEF BrowseInv, BrowseTypes
<1>3. OnlyAsked
  <2>1. CASE Walked
    BY <2>1 DEF BrowseInv, HistoryOk, OnlyAsked
  <2>2. CASE ~Walked
    BY <2>2 DEF BrowseInv, BrowseTypes, OnlyAsked, ToSet
  <2>3. QED
    BY <2>1, <2>2
<1>4. HistoryNeedsDelete
  BY DEF BrowseInv, PastTypes, PastOk, HistoryNeedsDelete
<1>5. QED
  BY <1>1, <1>2, <1>3, <1>4 DEF BrowseInv, PagesFaithful, RunsAllSeen, JobsAllSeen

(* However many rows there are, whatever their times, however many of them *)
(* change while a client walks the pages, and whatever the page size, what *)
(* it reads is all that stayed, once, as asked for and without what is     *)
(* private (list_jobs, list_runs, get_job_revisions).                      *)
THEOREM PagesFaithfulCorrect == BrowseSpec => []PagesFaithful
<1>1. BrowseInit \/ BrowseIdle => BrowseInv
  BY BrowseStarts
<1>2. BrowseInv /\ [BrowseNext]_browseVars => BrowseInv'
  <2>1. ASSUME BrowseInv, BrowseNext PROVE BrowseInv'
    BY <2>1, ListKeeps, RowsKeep, RevisionsKeep DEF BrowseNext
  <2>2. QED
    BY <2>1, BrowseStutters
<1>3. BrowseInv => PagesFaithful
  BY BrowseGivesPages
<1>4. QED
  BY <1>1, <1>2, <1>3, PTL DEF BrowseSpec

----------------------------------------------------------------------------
(* Store and Adapters: the inductive invariant, of any two stores.         *)

StoreOf(jobs, names, rows, revs, workers, leader, scripts, parts) ==
    [jobs |-> jobs, names |-> names, runs |-> rows, revs |-> revs, workers |-> workers,
     leader |-> leader, scripts |-> scripts, parts |-> parts]
IsStore(m) ==
    m = StoreOf(m.jobs, m.names, m.runs, m.revs, m.workers, m.leader, m.scripts, m.parts)

(* The job rows, with the index of their names. *)
JobsOk(jobs, names) ==
    /\ jobs \in [DOMAIN jobs -> PortJobs] /\ names \in [DOMAIN names -> STRING]
    /\ \A i \in DOMAIN jobs : jobs[i].name \in DOMAIN names /\ names[jobs[i].name] = i
    /\ \A n \in DOMAIN names : names[n] \in DOMAIN jobs /\ jobs[names[n]].name = n

RunsOk(rows) == rows \in [DOMAIN rows -> PortRuns] /\ IsFiniteSet(DOMAIN rows)
LeaderOk(rows) == rows \in [DOMAIN rows -> [by : Instances, until : Nat]]
WorkersOk(rows) == rows \in [DOMAIN rows -> Nat]

Alike(m, s) ==
    /\ IsStore(m) /\ s = [m EXCEPT !.names = <<>>]
    /\ JobsOk(m.jobs, m.names) /\ RunsOk(m.runs) /\ LeaderOk(m.leader) /\ WorkersOk(m.workers)

(* Two replies that leave stores alike and say the same. *)
Same(a, b) == Alike(a.store, b.store) /\ a.answer = b.answer

----------------------------------------------------------------------------
(* Tables that are replaced in both stores.                                *)

LEMMA TablesFields ==
  ASSUME NEW J, NEW N, NEW R, NEW V, NEW W, NEW L, NEW C, NEW P, NEW m,
         m = StoreOf(J, N, R, V, W, L, C, P)
  PROVE  /\ m.jobs = J /\ m.names = N /\ m.runs = R /\ m.revs = V /\ m.workers = W
         /\ m.leader = L /\ m.scripts = C /\ m.parts = P /\ IsStore(m)
  BY DEF StoreOf, IsStore

(* Two stores are alike when their tables are. *)
LEMMA AlikeTables ==
  ASSUME NEW J, NEW N, NEW R, NEW V, NEW W, NEW L, NEW C, NEW P,
         JobsOk(J, N), RunsOk(R), LeaderOk(L), WorkersOk(W)
  PROVE  Alike(StoreOf(J, N, R, V, W, L, C, P), StoreOf(J, <<>>, R, V, W, L, C, P))
<1>1. PICK m : m = StoreOf(J, N, R, V, W, L, C, P)
  OBVIOUS
<1>2. /\ m.jobs = J /\ m.names = N /\ m.runs = R /\ m.workers = W /\ m.leader = L
      /\ IsStore(m)
  BY <1>1, TablesFields
<1>3. [m EXCEPT !.names = <<>>] = StoreOf(J, <<>>, R, V, W, L, C, P)
  BY <1>1 DEF StoreOf
<1>4. QED
  BY <1>1, <1>2, <1>3 DEF Alike

LEMMA TablesOf ==
  ASSUME NEW m, NEW s, Alike(m, s)
  PROVE  /\ m = StoreOf(m.jobs, m.names, m.runs, m.revs, m.workers, m.leader, m.scripts, m.parts)
         /\ s = StoreOf(m.jobs, <<>>, m.runs, m.revs, m.workers, m.leader, m.scripts, m.parts)
         /\ s.jobs = m.jobs /\ s.runs = m.runs /\ s.revs = m.revs /\ s.workers = m.workers
         /\ s.leader = m.leader /\ s.scripts = m.scripts /\ s.parts = m.parts
         /\ JobsOk(m.jobs, m.names) /\ RunsOk(m.runs) /\ LeaderOk(m.leader)
         /\ WorkersOk(m.workers)
<1>1. PICK J, N, R, V, W, L, C, P :
        /\ J = m.jobs /\ N = m.names /\ R = m.runs /\ V = m.revs /\ W = m.workers
        /\ L = m.leader /\ C = m.scripts /\ P = m.parts
  OBVIOUS
<1>2. m = StoreOf(J, N, R, V, W, L, C, P)
  BY <1>1 DEF Alike, IsStore
<1>3. s = StoreOf(J, <<>>, R, V, W, L, C, P)
  BY <1>2 DEF Alike, StoreOf
<1>4. /\ s.jobs = J /\ s.runs = R /\ s.revs = V /\ s.workers = W
      /\ s.leader = L /\ s.scripts = C /\ s.parts = P
  BY <1>3, TablesFields
<1>5. QED
  BY <1>1, <1>2, <1>3, <1>4 DEF Alike

LEMMA JobsAndRevsReplaced ==
  ASSUME NEW m, NEW s, Alike(m, s), NEW jobs, NEW names, NEW revs, JobsOk(jobs, names)
  PROVE  /\ Alike([m EXCEPT !.jobs = jobs, !.names = names], [s EXCEPT !.jobs = jobs])
         /\ Alike([m EXCEPT !.jobs = jobs, !.revs = revs, !.names = names],
                  [s EXCEPT !.revs = revs, !.jobs = jobs])
<1>1. PICK J, N, R, V, W, L, C, P :
        /\ m = StoreOf(J, N, R, V, W, L, C, P) /\ s = StoreOf(J, <<>>, R, V, W, L, C, P)
        /\ RunsOk(R) /\ LeaderOk(L) /\ WorkersOk(W)
  BY TablesOf
<1>2. PICK m1, m2, s1 : /\ m1 = [m EXCEPT !.jobs = jobs] /\ m2 = [m1 EXCEPT !.revs = revs]
                       /\ s1 = [s EXCEPT !.revs = revs]
  OBVIOUS
<1>3. /\ m1 = StoreOf(jobs, N, R, V, W, L, C, P) /\ s1 = StoreOf(J, <<>>, R, revs, W, L, C, P)
      /\ [s EXCEPT !.jobs = jobs] = StoreOf(jobs, <<>>, R, V, W, L, C, P)
  BY <1>1, <1>2 DEF StoreOf
<1>4. /\ m2 = StoreOf(jobs, N, R, revs, W, L, C, P)
      /\ [m1 EXCEPT !.names = names] = StoreOf(jobs, names, R, V, W, L, C, P)
      /\ [s1 EXCEPT !.jobs = jobs] = StoreOf(jobs, <<>>, R, revs, W, L, C, P)
  <2>1. /\ [m1 EXCEPT !.revs = revs] = StoreOf(jobs, N, R, revs, W, L, C, P)
        /\ [m1 EXCEPT !.names = names] = StoreOf(jobs, names, R, V, W, L, C, P)
        /\ [s1 EXCEPT !.jobs = jobs] = StoreOf(jobs, <<>>, R, revs, W, L, C, P)
    BY <1>3 DEF StoreOf
  <2>2. m2 = [m1 EXCEPT !.revs = revs]
    BY <1>2
  <2>3. QED
    BY <2>1, <2>2, Zenon
<1>5. /\ [m EXCEPT !.jobs = jobs, !.names = names] = StoreOf(jobs, names, R, V, W, L, C, P)
      /\ [m EXCEPT !.jobs = jobs, !.revs = revs, !.names = names]
          = StoreOf(jobs, names, R, revs, W, L, C, P)
      /\ [s EXCEPT !.revs = revs, !.jobs = jobs] = StoreOf(jobs, <<>>, R, revs, W, L, C, P)
  <2>1. [m2 EXCEPT !.names = names] = StoreOf(jobs, names, R, revs, W, L, C, P)
    BY <1>4 DEF StoreOf
  <2>2. /\ [m EXCEPT !.jobs = jobs, !.names = names] = [m1 EXCEPT !.names = names]
        /\ [m EXCEPT !.jobs = jobs, !.revs = revs, !.names = names] = [m2 EXCEPT !.names = names]
        /\ [s EXCEPT !.revs = revs, !.jobs = jobs] = [s1 EXCEPT !.jobs = jobs]
    BY <1>2
  <2>3. QED
    BY <1>4, <2>1, <2>2
<1>6. /\ Alike(StoreOf(jobs, names, R, V, W, L, C, P), StoreOf(jobs, <<>>, R, V, W, L, C, P))
      /\ Alike(StoreOf(jobs, names, R, revs, W, L, C, P), StoreOf(jobs, <<>>, R, revs, W, L, C, P))
  BY <1>1, AlikeTables
<1>7. QED
  BY <1>3, <1>5, <1>6

LEMMA OthersReplaced ==
  ASSUME NEW m, NEW s, Alike(m, s), NEW rows
  PROVE  /\ RunsOk(rows) => Alike([m EXCEPT !.runs = rows], [s EXCEPT !.runs = rows])
         /\ LeaderOk(rows) => Alike([m EXCEPT !.leader = rows], [s EXCEPT !.leader = rows])
         /\ WorkersOk(rows) => Alike([m EXCEPT !.workers = rows], [s EXCEPT !.workers = rows])
         /\ Alike([m EXCEPT !.revs = rows], [s EXCEPT !.revs = rows])
         /\ Alike([m EXCEPT !.scripts = rows], [s EXCEPT !.scripts = rows])
         /\ Alike([m EXCEPT !.parts = rows], [s EXCEPT !.parts = rows])
<1>1. PICK J, N, R, V, W, L, C, P :
        /\ m = StoreOf(J, N, R, V, W, L, C, P) /\ s = StoreOf(J, <<>>, R, V, W, L, C, P)
        /\ JobsOk(J, N) /\ RunsOk(R) /\ LeaderOk(L) /\ WorkersOk(W)
  BY TablesOf
<1>2. RunsOk(rows) => Alike([m EXCEPT !.runs = rows], [s EXCEPT !.runs = rows])
  <2>1. /\ [m EXCEPT !.runs = rows] = StoreOf(J, N, rows, V, W, L, C, P)
        /\ [s EXCEPT !.runs = rows] = StoreOf(J, <<>>, rows, V, W, L, C, P)
    BY <1>1 DEF StoreOf
  <2>2. QED
    BY <1>1, <2>1, AlikeTables
<1>3. LeaderOk(rows) => Alike([m EXCEPT !.leader = rows], [s EXCEPT !.leader = rows])
  <2>1. /\ [m EXCEPT !.leader = rows] = StoreOf(J, N, R, V, W, rows, C, P)
        /\ [s EXCEPT !.leader = rows] = StoreOf(J, <<>>, R, V, W, rows, C, P)
    BY <1>1 DEF StoreOf
  <2>2. QED
    BY <1>1, <2>1, AlikeTables
<1>4. WorkersOk(rows) => Alike([m EXCEPT !.workers = rows], [s EXCEPT !.workers = rows])
  <2>1. /\ [m EXCEPT !.workers = rows] = StoreOf(J, N, R, V, rows, L, C, P)
        /\ [s EXCEPT !.workers = rows] = StoreOf(J, <<>>, R, V, rows, L, C, P)
    BY <1>1 DEF StoreOf
  <2>2. QED
    BY <1>1, <2>1, AlikeTables
<1>5. Alike([m EXCEPT !.revs = rows], [s EXCEPT !.revs = rows])
  <2>1. /\ [m EXCEPT !.revs = rows] = StoreOf(J, N, R, rows, W, L, C, P)
        /\ [s EXCEPT !.revs = rows] = StoreOf(J, <<>>, R, rows, W, L, C, P)
    BY <1>1 DEF StoreOf
  <2>2. QED
    BY <1>1, <2>1, AlikeTables
<1>6. Alike([m EXCEPT !.scripts = rows], [s EXCEPT !.scripts = rows])
  <2>1. /\ [m EXCEPT !.scripts = rows] = StoreOf(J, N, R, V, W, L, rows, P)
        /\ [s EXCEPT !.scripts = rows] = StoreOf(J, <<>>, R, V, W, L, rows, P)
    BY <1>1 DEF StoreOf
  <2>2. QED
    BY <1>1, <2>1, AlikeTables
<1>7. Alike([m EXCEPT !.parts = rows], [s EXCEPT !.parts = rows])
  <2>1. /\ [m EXCEPT !.parts = rows] = StoreOf(J, N, R, V, W, L, C, rows)
        /\ [s EXCEPT !.parts = rows] = StoreOf(J, <<>>, R, V, W, L, C, rows)
    BY <1>1 DEF StoreOf
  <2>2. QED
    BY <1>1, <2>1, AlikeTables
<1>8. QED
  BY <1>2, <1>3, <1>4, <1>5, <1>6, <1>7

(* A row of a job that keeps its name. *)
LEMMA JobWritten ==
  ASSUME NEW m, NEW s, Alike(m, s), NEW i \in DOMAIN m.jobs,
         NEW row \in PortJobs, row.name = m.jobs[i].name
  PROVE  Alike([m EXCEPT !.jobs[i] = row], [s EXCEPT !.jobs[i] = row])
<1>1. PICK J, N, R, V, W, L, C, P :
        /\ m = StoreOf(J, N, R, V, W, L, C, P) /\ s = StoreOf(J, <<>>, R, V, W, L, C, P)
        /\ JobsOk(J, N) /\ RunsOk(R) /\ LeaderOk(L) /\ WorkersOk(W) /\ J = m.jobs
  BY TablesOf
<1>2. PICK jobs : jobs = [J EXCEPT ![i] = row]
  OBVIOUS
<1>3. JobsOk(jobs, N)
  BY <1>1, <1>2 DEF JobsOk
<1>4. /\ [m EXCEPT !.jobs[i] = row] = StoreOf(jobs, N, R, V, W, L, C, P)
      /\ [s EXCEPT !.jobs[i] = row] = StoreOf(jobs, <<>>, R, V, W, L, C, P)
  BY <1>1, <1>2 DEF StoreOf
<1>5. QED
  BY <1>1, <1>3, <1>4, AlikeTables

LEMMA RunWritten ==
  ASSUME NEW m, NEW s, Alike(m, s), NEW i \in DOMAIN m.runs, NEW row \in PortRuns
  PROVE  Alike([m EXCEPT !.runs[i] = row], [s EXCEPT !.runs[i] = row])
<1>1. PICK J, N, R, V, W, L, C, P :
        /\ m = StoreOf(J, N, R, V, W, L, C, P) /\ s = StoreOf(J, <<>>, R, V, W, L, C, P)
        /\ JobsOk(J, N) /\ RunsOk(R) /\ LeaderOk(L) /\ WorkersOk(W) /\ R = m.runs
  BY TablesOf
<1>2. PICK rows : rows = [R EXCEPT ![i] = row]
  OBVIOUS
<1>3. RunsOk(rows)
  BY <1>1, <1>2 DEF RunsOk
<1>4. /\ [m EXCEPT !.runs[i] = row] = StoreOf(J, N, rows, V, W, L, C, P)
      /\ [s EXCEPT !.runs[i] = row] = StoreOf(J, <<>>, rows, V, W, L, C, P)
  BY <1>1, <1>2 DEF StoreOf
<1>5. QED
  BY <1>1, <1>3, <1>4, AlikeTables

----------------------------------------------------------------------------
(* Calls on jobs.                                                          *)

(* The index finds the row that SQL finds by scanning. *)
LEMMA NameFound ==
  ASSUME NEW jobs, NEW names, JobsOk(jobs, names), NEW n
  PROVE  {i \in DOMAIN jobs : jobs[i].name = n} = IF n \in DOMAIN names THEN {names[n]} ELSE {}
  BY DEF JobsOk

LEMMA UpsertJobAlike ==
  ASSUME NEW m, NEW s, Alike(m, s), NEW c, c.id \in STRING, c.row \in PortJobs
  PROVE  Same(MemUpsertJob(m, c), SqlUpsertJob(s, c))
<1>1. PICK J, N, id, row, n :
        J = m.jobs /\ N = m.names /\ id = c.id /\ row = c.row /\ n = c.row.name
  OBVIOUS
<1>2. JobsOk(J, N) /\ s.jobs = J /\ row \in PortJobs /\ n = row.name /\ n \in STRING
  BY <1>1, TablesOf DEF PortJobs
<1>3. PICK rivals : rivals = {i \in DOMAIN J : J[i].name = n /\ i # id}
  OBVIOUS
<1>4. rivals = IF n \in DOMAIN N /\ N[n] # id THEN {N[n]} ELSE {}
  BY <1>2, <1>3, NameFound
<1>5. CASE n \in DOMAIN N /\ N[n] # id
  <2>1. MemUpsertJob(m, c) = Reply(m, <<"taken", N[n]>>)
    BY <1>1, <1>5 DEF MemUpsertJob, Has
  <2>2. rivals # {} /\ (CHOOSE i \in rivals : TRUE) = N[n]
    BY <1>4, <1>5
  <2>3. SqlUpsertJob(s, c) = Reply(s, <<"taken", N[n]>>)
    BY <1>1, <1>2, <1>3, <2>2 DEF SqlUpsertJob
  <2>4. QED
    BY <2>1, <2>3 DEF Same, Reply
<1>6. CASE ~(n \in DOMAIN N /\ N[n] # id)
  <2>1. PICK old : old = IF id \in DOMAIN J /\ J[id].name # n THEN Without(N, J[id].name) ELSE N
    OBVIOUS
  <2>2. PICK jobs, names : jobs = Put(J, id, row) /\ names = Put(old, n, id)
    OBVIOUS
  <2>3. JobsOk(jobs, names)
    <3>1. /\ DOMAIN jobs = DOMAIN J \cup {id} /\ jobs[id] = row
          /\ \A i \in DOMAIN J \ {id} : jobs[i] = J[i]
          /\ jobs \in [DOMAIN jobs -> PortJobs]
      BY <1>2, <2>2 DEF Put, JobsOk
    <3>2. /\ DOMAIN old \subseteq DOMAIN N /\ \A x \in DOMAIN old : old[x] = N[x]
          /\ \A i \in DOMAIN J \ {id} : J[i].name \in DOMAIN old
          /\ \A x \in DOMAIN old : x # n => old[x] # id
      BY <1>2, <2>1 DEF Without, JobsOk
    <3>3. /\ DOMAIN names = DOMAIN old \cup {n} /\ names[n] = id
          /\ \A x \in DOMAIN old \ {n} : names[x] = N[x]
      BY <2>2, <3>2 DEF Put
    <3>4. names \in [DOMAIN names -> STRING]
      <4>1. \A x \in DOMAIN names : names[x] \in STRING
        BY <1>1, <1>2, <3>2, <3>3 DEF JobsOk
      <4>2. QED
        BY <2>2, <4>1 DEF Put
    <3>5. \A i \in DOMAIN J \ {id} : J[i].name # n
      BY <1>3, <1>4, <1>6
    <3>6. \A i \in DOMAIN jobs : jobs[i].name \in DOMAIN names /\ names[jobs[i].name] = i
      BY <1>2, <3>1, <3>2, <3>3, <3>5 DEF JobsOk
    <3>7. \A x \in DOMAIN names : names[x] \in DOMAIN jobs /\ jobs[names[x]].name = x
      BY <1>2, <3>1, <3>2, <3>3 DEF JobsOk
    <3>8. QED
      BY <3>1, <3>4, <3>6, <3>7 DEF JobsOk
  <2>4. MemUpsertJob(m, c) = Reply([m EXCEPT !.jobs = jobs, !.names = names], Ok)
    BY <1>1, <1>6, <2>1, <2>2 DEF MemUpsertJob, Has
  <2>5. SqlUpsertJob(s, c) = Reply([s EXCEPT !.jobs = jobs], Ok)
    BY <1>1, <1>2, <1>3, <1>4, <1>6, <2>2 DEF SqlUpsertJob
  <2>6. Alike([m EXCEPT !.jobs = jobs, !.names = names], [s EXCEPT !.jobs = jobs])
    BY <2>3, JobsAndRevsReplaced
  <2>7. QED
    BY <2>4, <2>5, <2>6 DEF Same, Reply
<1>7. QED
  BY <1>5, <1>6

LEMMA ByNameAlike ==
  ASSUME NEW m, NEW s, Alike(m, s), NEW c, NEW ids,
         ids = {i \in DOMAIN s.jobs : s.jobs[i].name = c.name}
  PROVE  Same(Reply(m, IF Has(m.names, c.name) THEN <<m.names[c.name]>> ELSE <<>>),
              Reply(s, IF ids = {} THEN <<>> ELSE <<CHOOSE i \in ids : TRUE>>))
<1>1. JobsOk(m.jobs, m.names) /\ s.jobs = m.jobs
  BY TablesOf
<1>2. ids = IF c.name \in DOMAIN m.names THEN {m.names[c.name]} ELSE {}
  BY <1>1, NameFound
<1>3. CASE c.name \in DOMAIN m.names
  BY <1>2, <1>3 DEF Same, Reply, Has
<1>4. CASE c.name \notin DOMAIN m.names
  BY <1>2, <1>4 DEF Same, Reply, Has
<1>5. QED
  BY <1>3, <1>4

LEMMA DeleteJobAlike ==
  ASSUME NEW m, NEW s, Alike(m, s), NEW c
  PROVE  Same(MemDeleteJob(m, c), SqlDeleteJob(s, c))
<1>1. PICK J, N, V, id : J = m.jobs /\ N = m.names /\ V = m.revs /\ id = c.id
  OBVIOUS
<1>2. JobsOk(J, N) /\ s.jobs = J /\ s.revs = V
  BY <1>1, TablesOf
<1>3. CASE id \notin DOMAIN J
  BY <1>1, <1>2, <1>3 DEF MemDeleteJob, SqlDeleteJob, Same, Reply, Has
<1>4. CASE id \in DOMAIN J
  <2>1. PICK jobs, names, revs :
          jobs = Without(J, id) /\ names = Without(N, J[id].name) /\ revs = Without(V, id)
    OBVIOUS
  <2>2. JobsOk(jobs, names)
    <3>1. /\ DOMAIN jobs = DOMAIN J \ {id} /\ \A i \in DOMAIN jobs : jobs[i] = J[i]
          /\ jobs \in [DOMAIN jobs -> PortJobs]
      BY <1>2, <2>1 DEF Without, JobsOk
    <3>2. /\ DOMAIN names = DOMAIN N \ {J[id].name} /\ \A x \in DOMAIN names : names[x] = N[x]
          /\ names \in [DOMAIN names -> STRING]
      BY <1>2, <2>1 DEF Without, JobsOk
    <3>3. QED
      BY <1>2, <1>4, <3>1, <3>2 DEF JobsOk
  <2>3. /\ MemDeleteJob(m, c)
            = Reply([m EXCEPT !.jobs = jobs, !.revs = revs, !.names = names], <<"yes">>)
        /\ SqlDeleteJob(s, c) = Reply([s EXCEPT !.revs = revs, !.jobs = jobs], <<"yes">>)
    BY <1>1, <1>2, <1>4, <2>1 DEF MemDeleteJob, SqlDeleteJob, Has
  <2>4. Alike([m EXCEPT !.jobs = jobs, !.revs = revs, !.names = names],
              [s EXCEPT !.revs = revs, !.jobs = jobs])
    BY <2>2, JobsAndRevsReplaced
  <2>5. QED
    BY <2>3, <2>4 DEF Same, Reply
<1>5. QED
  BY <1>3, <1>4

LEMMA JobsAreRows ==
  ASSUME NEW m, NEW s, Alike(m, s), NEW i \in DOMAIN m.jobs
  PROVE  m.jobs[i] \in PortJobs
<1>1. m.jobs \in [DOMAIN m.jobs -> PortJobs]
  BY DEF Alike, JobsOk
<1>2. QED
  BY <1>1

(* A row that both write, or neither. *)
WriteJob(m, c, where, row) ==
    IF Has(m.jobs, c.id) /\ where THEN [m EXCEPT !.jobs[c.id] = row] ELSE m

SqlMutate(s, c, row) == UpdateJob(s, c, TRUE, row)

LEMMA UpdateAlike ==
  ASSUME NEW m, NEW s, Alike(m, s), NEW c, NEW where \in BOOLEAN, NEW row,
         c.id \in DOMAIN m.jobs => row \in PortJobs /\ row.name = m.jobs[c.id].name
  PROVE  /\ Alike(WriteJob(m, c, where, row), UpdateJob(s, c, where, row).store)
         /\ UpdateJob(s, c, where, row).answer = YesNo(Has(m.jobs, c.id) /\ where)
<1>1. PICK i : i = c.id
  OBVIOUS
<1>2. s.jobs = m.jobs
  BY TablesOf
<1>3. i \in DOMAIN m.jobs => Alike([m EXCEPT !.jobs[i] = row], [s EXCEPT !.jobs[i] = row])
  BY <1>1, JobWritten
<1>4. CASE i \in DOMAIN m.jobs
  BY <1>1, <1>2, <1>3, <1>4 DEF UpdateJob, WriteJob, Reply, Has
<1>5. CASE i \notin DOMAIN m.jobs
  BY <1>1, <1>2, <1>5 DEF UpdateJob, WriteJob, Reply, Has
<1>6. QED
  BY <1>4, <1>5

LEMMA MutateAlike ==
  ASSUME NEW m, NEW s, Alike(m, s), NEW c, NEW row,
         c.id \in DOMAIN m.jobs => row \in PortJobs /\ row.name = m.jobs[c.id].name
  PROVE  /\ Alike(MutateJob(m, c, row).store, SqlMutate(s, c, row).store)
         /\ MutateJob(m, c, row).answer = IF Has(s.jobs, c.id) THEN Ok ELSE Missing
<1>1. PICK i : i = c.id
  OBVIOUS
<1>2. s.jobs = m.jobs
  BY TablesOf
<1>3. i \in DOMAIN m.jobs => Alike([m EXCEPT !.jobs[i] = row], [s EXCEPT !.jobs[i] = row])
  BY <1>1, JobWritten
<1>4. CASE i \in DOMAIN m.jobs
  BY <1>1, <1>2, <1>3, <1>4 DEF MutateJob, SqlMutate, UpdateJob, Reply, Has
<1>5. CASE i \notin DOMAIN m.jobs
  BY <1>1, <1>2, <1>5 DEF MutateJob, SqlMutate, UpdateJob, Reply, Has
<1>6. QED
  BY <1>4, <1>5

LEMMA SetEnabledAlike ==
  ASSUME NEW m, NEW s, Alike(m, s), NEW c, c.on \in BOOLEAN
  PROVE  Same(MemSetEnabled(m, c), SqlSetEnabled(s, c))
<1>1. PICK row : row = [m.jobs[c.id] EXCEPT !.enabled = c.on]
  OBVIOUS
<1>2. s.jobs = m.jobs
  BY TablesOf
<1>3. ASSUME c.id \in DOMAIN m.jobs
      PROVE  row \in PortJobs /\ row.name = m.jobs[c.id].name
  <2>1. PICK j \in PortJobs : j = m.jobs[c.id]
    BY <1>3, JobsAreRows
  <2>2. QED
    BY <1>1, <2>1 DEF PortJobs
<1>4. /\ MemSetEnabled(m, c) = MutateJob(m, c, row)
      /\ SqlSetEnabled(s, c) = Reply(SqlMutate(s, c, row).store,
                                     IF Has(s.jobs, c.id) THEN Ok ELSE Missing)
  BY <1>1, <1>2 DEF MemSetEnabled, SqlSetEnabled, SqlMutate
<1>5. /\ Alike(MutateJob(m, c, row).store, SqlMutate(s, c, row).store)
      /\ MutateJob(m, c, row).answer = IF Has(s.jobs, c.id) THEN Ok ELSE Missing
  BY <1>3, MutateAlike
<1>6. QED
  BY <1>4, <1>5 DEF Same, Reply

(* The calls that SQL makes on a job that is gone without noticing. *)
LEMMA BlindAlike ==
  ASSUME NEW m, NEW s, Alike(m, s), NEW c, NEW row,
         c.id \in DOMAIN m.jobs => row \in PortJobs /\ row.name = m.jobs[c.id].name,
         NEW a, NEW b, a = MutateJob(m, c, row), b = Reply(SqlMutate(s, c, row).store, Ok)
  PROVE  Alike(a.store, b.store) /\ (Has(s.jobs, c.id) => a.answer = b.answer)
<1>1. /\ Alike(MutateJob(m, c, row).store, SqlMutate(s, c, row).store)
      /\ MutateJob(m, c, row).answer = IF Has(s.jobs, c.id) THEN Ok ELSE Missing
  BY MutateAlike
<1>2. QED
  BY <1>1 DEF Reply

LEMMA MarkRunOnceAlike ==
  ASSUME NEW m, NEW s, Alike(m, s), NEW c, NEW a, NEW b,
         a = MemMarkRunOnce(m, c), b = SqlMarkRunOnce(s, c)
  PROVE  Alike(a.store, b.store) /\ (Has(s.jobs, c.id) => a.answer = b.answer)
<1>1. PICK row : row = [m.jobs[c.id] EXCEPT !.done = TRUE, !.by = NoOne, !.until = Null]
  OBVIOUS
<1>2. s.jobs = m.jobs
  BY TablesOf
<1>3. ASSUME c.id \in DOMAIN m.jobs
      PROVE  row \in PortJobs /\ row.name = m.jobs[c.id].name
  <2>1. PICK j \in PortJobs : j = m.jobs[c.id]
    BY <1>3, JobsAreRows
  <2>2. QED
    BY <1>1, <2>1 DEF PortJobs, Stamps
<1>4. a = MutateJob(m, c, row) /\ b = Reply(SqlMutate(s, c, row).store, Ok)
  BY <1>1, <1>2 DEF MemMarkRunOnce, SqlMarkRunOnce, SqlMutate
<1>5. QED
  BY <1>3, <1>4, BlindAlike

LEMMA ReleaseTickAlike ==
  ASSUME NEW m, NEW s, Alike(m, s), NEW c, NEW a, NEW b,
         a = MemReleaseTick(m, c), b = SqlReleaseTick(s, c)
  PROVE  Alike(a.store, b.store) /\ (Has(s.jobs, c.id) => a.answer = b.answer)
<1>1. PICK row : row = [m.jobs[c.id] EXCEPT !.tick = Null]
  OBVIOUS
<1>2. s.jobs = m.jobs
  BY TablesOf
<1>3. ASSUME c.id \in DOMAIN m.jobs
      PROVE  row \in PortJobs /\ row.name = m.jobs[c.id].name
  <2>1. PICK j \in PortJobs : j = m.jobs[c.id]
    BY <1>3, JobsAreRows
  <2>2. QED
    BY <1>1, <2>1 DEF PortJobs, Stamps
<1>4. a = MutateJob(m, c, row) /\ b = Reply(SqlMutate(s, c, row).store, Ok)
  BY <1>1, <1>2 DEF MemReleaseTick, SqlReleaseTick, SqlMutate
<1>5. QED
  BY <1>3, <1>4, BlindAlike

LEMMA PersistAlike ==
  ASSUME NEW m, NEW s, Alike(m, s), NEW c, c.next \in Stamps, NEW a, NEW b,
         a = MemPersist(m, c), b = SqlPersist(s, c)
  PROVE  Alike(a.store, b.store) /\ (Has(s.jobs, c.id) => a.answer = b.answer)
<1>1. PICK row : row = [m.jobs[c.id] EXCEPT !.next = c.next, !.tick = Null]
  OBVIOUS
<1>2. s.jobs = m.jobs
  BY TablesOf
<1>3. ASSUME c.id \in DOMAIN m.jobs
      PROVE  row \in PortJobs /\ row.name = m.jobs[c.id].name
  <2>1. PICK j \in PortJobs : j = m.jobs[c.id]
    BY <1>3, JobsAreRows
  <2>2. QED
    BY <1>1, <2>1 DEF PortJobs, Stamps
<1>4. a = MutateJob(m, c, row) /\ b = Reply(SqlMutate(s, c, row).store, Ok)
  BY <1>1, <1>2 DEF MemPersist, SqlPersist, SqlMutate
<1>5. QED
  BY <1>3, <1>4, BlindAlike

LEMMA ReleaseRunOnceAlike ==
  ASSUME NEW m, NEW s, Alike(m, s), NEW c, NEW a, NEW b,
         a = MemReleaseRunOnce(m, c), b = SqlReleaseRunOnce(s, c)
  PROVE  Alike(a.store, b.store) /\ (Has(s.jobs, c.id) => a.answer = b.answer)
<1>1. PICK J, N, R, V, W, L, C, P :
        s = StoreOf(J, N, R, V, W, L, C, P) /\ J = m.jobs /\ J = s.jobs /\ JobsOk(J, m.names)
  BY TablesOf
<1>2. PICK i, j, free, row : /\ i = c.id /\ j = J[c.id]
                             /\ free = [J[c.id] EXCEPT !.by = NoOne, !.until = Null]
                             /\ row = IF j.by # c.by THEN j ELSE free
  OBVIOUS
<1>3. ASSUME i \in DOMAIN J
      PROVE  row \in PortJobs /\ row.name = J[i].name
  <2>1. j \in PortJobs /\ free = [j EXCEPT !.by = NoOne, !.until = Null]
    BY <1>1, <1>2, <1>3 DEF JobsOk
  <2>2. free \in PortJobs /\ free.name = j.name
    BY <2>1 DEF PortJobs, Stamps
  <2>3. QED
    BY <1>2, <2>1, <2>2
<1>4. a = MutateJob(m, c, row)
  BY <1>1, <1>2 DEF MemReleaseRunOnce
<1>5. b.store = SqlMutate(s, c, row).store /\ b.answer = Ok
  <2>1. CASE i \in DOMAIN J /\ j.by # c.by
    <3>1. [J EXCEPT ![i] = j] = J
      BY <1>1, <1>2 DEF JobsOk
    <3>2. [s EXCEPT !.jobs[i] = j] = StoreOf([J EXCEPT ![i] = j], N, R, V, W, L, C, P)
      BY <1>1 DEF StoreOf
    <3>3. [s EXCEPT !.jobs[i] = j] = s
      BY <1>1, <3>1, <3>2
    <3>4. b = Reply(s, Ok)
      BY <1>1, <1>2, <2>1 DEF SqlReleaseRunOnce, UpdateJob, Reply, Has
    <3>5. SqlMutate(s, c, row) = Reply([s EXCEPT !.jobs[i] = j], YesNo(TRUE))
      BY <1>1, <1>2, <2>1 DEF SqlMutate, UpdateJob, Reply, Has
    <3>6. QED
      BY <3>3, <3>4, <3>5 DEF Reply
  <2>2. CASE i \in DOMAIN J /\ j.by = c.by
    BY <1>1, <1>2, <2>2 DEF SqlReleaseRunOnce, SqlMutate, UpdateJob, Reply, Has
  <2>3. CASE i \notin DOMAIN J
    BY <1>1, <1>2, <2>3 DEF SqlReleaseRunOnce, SqlMutate, UpdateJob, Reply, Has
  <2>4. QED
    BY <2>1, <2>2, <2>3
<1>6. /\ Alike(MutateJob(m, c, row).store, SqlMutate(s, c, row).store)
      /\ MutateJob(m, c, row).answer = IF Has(s.jobs, c.id) THEN Ok ELSE Missing
  <2>1. c.id \in DOMAIN m.jobs => row \in PortJobs /\ row.name = m.jobs[c.id].name
    BY <1>1, <1>2, <1>3, Zenon
  <2>2. QED
    BY <2>1, MutateAlike
<1>7. QED
  BY <1>4, <1>5, <1>6

LEMMA TryClaimRunOnceAlike ==
  ASSUME NEW m, NEW s, Alike(m, s), NEW c, c.by \in Instances, c.now \in Nat, c.ttl \in Nat
  PROVE  Same(MemTryClaimRunOnce(m, c), SqlTryClaimRunOnce(s, c))
<1>1. PICK J, N, R, V, W, L, C, P :
        m = StoreOf(J, N, R, V, W, L, C, P) /\ J = m.jobs /\ J = s.jobs /\ JobsOk(J, N)
  BY TablesOf
<1>2. PICK i, j, row, where :
        /\ i = c.id /\ j = J[c.id] /\ row = [J[c.id] EXCEPT !.by = c.by, !.until = c.now + c.ttl]
        /\ where = (~j.done /\ (j.by = NoOne \/ Le(j.until, c.now) \/ j.by = c.by))
  OBVIOUS
<1>3. where \in BOOLEAN
  BY <1>2
<1>4. ASSUME i \in DOMAIN J
      PROVE  /\ row \in PortJobs /\ row.name = J[i].name
             /\ where = (~j.done /\ ~(j.by # NoOne /\ j.until > c.now /\ j.by # c.by))
  <2>1. j \in PortJobs /\ row = [j EXCEPT !.by = c.by, !.until = c.now + c.ttl]
    BY <1>1, <1>2, <1>4 DEF JobsOk
  <2>2. /\ c.now + c.ttl \in Stamps /\ c.now + c.ttl # Null /\ c.by # NoOne
        /\ c.by \in Instances \cup {NoOne}
    BY DEF Stamps, Null, Instances
  <2>3. row \in PortJobs /\ row.name = j.name
    BY <2>1, <2>2 DEF PortJobs
  <2>4. j.until \in Stamps /\ (j.by = NoOne <=> j.until = Null)
    BY <2>1 DEF PortJobs
  <2>5. QED
    BY <1>2, <2>3, <2>4 DEF Le, Stamps, Null
<1>5. /\ Alike(WriteJob(m, c, where, row), UpdateJob(s, c, where, row).store)
      /\ UpdateJob(s, c, where, row).answer = YesNo(Has(m.jobs, c.id) /\ where)
  <2>1. c.id \in DOMAIN m.jobs => row \in PortJobs /\ row.name = m.jobs[c.id].name
    BY <1>1, <1>2, <1>4, Zenon
  <2>2. QED
    BY <1>3, <2>1, UpdateAlike
<1>6. SqlTryClaimRunOnce(s, c) = UpdateJob(s, c, where, row)
  BY <1>1, <1>2 DEF SqlTryClaimRunOnce
<1>7. /\ MemTryClaimRunOnce(m, c).store = WriteJob(m, c, where, row)
      /\ MemTryClaimRunOnce(m, c).answer = YesNo(Has(m.jobs, c.id) /\ where)
  <2>1. CASE ~(i \in DOMAIN J /\ where)
    BY <1>1, <1>2, <1>4, <2>1 DEF MemTryClaimRunOnce, WriteJob, YesNo, Reply, Has
  <2>2. CASE i \in DOMAIN J /\ where
    <3>1. MemTryClaimRunOnce(m, c)
            = Reply([m EXCEPT !.jobs[i].by = c.by, !.jobs[i].until = c.now + c.ttl], <<"yes">>)
      BY <1>1, <1>2, <1>4, <2>2 DEF MemTryClaimRunOnce, Has
    <3>2. PICK row1, m1 : row1 = [j EXCEPT !.by = c.by] /\ m1 = [m EXCEPT !.jobs[i].by = c.by]
      OBVIOUS
    <3>3. m1 = StoreOf([J EXCEPT ![i] = row1], N, R, V, W, L, C, P)
      BY <1>1, <1>2, <3>2 DEF StoreOf
    <3>4. [m1 EXCEPT !.jobs[i].until = c.now + c.ttl]
            = StoreOf([[J EXCEPT ![i] = row1] EXCEPT ![i].until = c.now + c.ttl],
                     N, R, V, W, L, C, P)
      BY <3>3 DEF StoreOf
    <3>5. [[J EXCEPT ![i] = row1] EXCEPT ![i].until = c.now + c.ttl] = [J EXCEPT ![i] = row]
      BY <1>1, <1>2, <2>2, <3>2 DEF JobsOk
    <3>6. [m EXCEPT !.jobs[i] = row] = StoreOf([J EXCEPT ![i] = row], N, R, V, W, L, C, P)
      BY <1>1 DEF StoreOf
    <3>7. [m EXCEPT !.jobs[i].by = c.by, !.jobs[i].until = c.now + c.ttl]
            = [m1 EXCEPT !.jobs[i].until = c.now + c.ttl]
      BY <3>2
    <3>8. [m EXCEPT !.jobs[i].by = c.by, !.jobs[i].until = c.now + c.ttl]
            = [m EXCEPT !.jobs[i] = row]
      BY <3>4, <3>5, <3>6, <3>7
    <3>9. QED
      BY <1>1, <1>2, <2>2, <3>1, <3>8 DEF WriteJob, YesNo, Reply, Has
  <2>3. QED
    BY <2>1, <2>2
<1>8. QED
  BY <1>5, <1>6, <1>7 DEF Same

LEMMA ClaimTickAlike ==
  ASSUME NEW m, NEW s, Alike(m, s), NEW c, c.now \in Nat, c.ttl \in Nat
  PROVE  Same(MemClaimTick(m, c), SqlClaimTick(s, c))
<1>1. PICK J, N, R, V, W, L, C, P :
        m = StoreOf(J, N, R, V, W, L, C, P) /\ J = m.jobs /\ J = s.jobs /\ JobsOk(J, N)
  BY TablesOf
<1>2. PICK i, j, row, where :
        /\ i = c.id /\ j = J[c.id] /\ row = [J[c.id] EXCEPT !.tick = c.now + c.ttl]
        /\ where = (j.enabled /\ (j.tick = Null \/ Lt(j.tick, c.now)))
  OBVIOUS
<1>3. ASSUME i \in DOMAIN J
      PROVE  /\ row \in PortJobs /\ row.name = J[i].name /\ where \in BOOLEAN
             /\ where = ~(~j.enabled \/ (j.tick # Null /\ j.tick >= c.now))
  <2>1. j \in PortJobs /\ row = [j EXCEPT !.tick = c.now + c.ttl]
    BY <1>1, <1>2, <1>3 DEF JobsOk
  <2>2. row \in PortJobs /\ row.name = j.name
    BY <2>1 DEF PortJobs, Stamps
  <2>3. j.tick \in Stamps /\ j.enabled \in BOOLEAN
    BY <2>1 DEF PortJobs
  <2>4. QED
    BY <1>2, <2>2, <2>3 DEF Lt, Stamps, Null
<1>4. SqlClaimTick(s, c) = UpdateJob(s, c, where, row)
  BY <1>1, <1>2 DEF SqlClaimTick
<1>5. CASE i \in DOMAIN J
  <2>1. /\ Alike(WriteJob(m, c, where, row), UpdateJob(s, c, where, row).store)
        /\ UpdateJob(s, c, where, row).answer = YesNo(Has(m.jobs, c.id) /\ where)
    <3>1. c.id \in DOMAIN m.jobs => row \in PortJobs /\ row.name = m.jobs[c.id].name
      BY <1>1, <1>2, <1>3, Zenon
    <3>2. where \in BOOLEAN
      BY <1>3, <1>5
    <3>3. QED
      BY <3>1, <3>2, UpdateAlike
  <2>2. CASE ~where
    BY <1>1, <1>2, <1>3, <1>4, <1>5, <2>1, <2>2 DEF MemClaimTick, WriteJob, YesNo, Reply, Has, Same
  <2>3. CASE where
    <3>1. MemClaimTick(m, c) = Reply([m EXCEPT !.jobs[i].tick = c.now + c.ttl], <<"yes">>)
      BY <1>1, <1>2, <1>3, <1>5, <2>3 DEF MemClaimTick, Has
    <3>2. [m EXCEPT !.jobs[i].tick = c.now + c.ttl]
            = StoreOf([J EXCEPT ![i] = row], N, R, V, W, L, C, P)
      BY <1>1, <1>2 DEF StoreOf
    <3>3. [m EXCEPT !.jobs[i] = row] = StoreOf([J EXCEPT ![i] = row], N, R, V, W, L, C, P)
      BY <1>1 DEF StoreOf
    <3>4. Has(m.jobs, c.id) /\ i = c.id
      BY <1>1, <1>2, <1>5, Zenon DEF Has
    <3>5. WriteJob(m, c, where, row) = [m EXCEPT !.jobs[i] = row]
      BY <2>3, <3>4 DEF WriteJob
    <3>6. PICK m2 : m2 = [m EXCEPT !.jobs[i] = row]
      OBVIOUS
    <3>7. MemClaimTick(m, c) = Reply(m2, <<"yes">>) /\ WriteJob(m, c, where, row) = m2
      BY <3>1, <3>2, <3>3, <3>5, <3>6, Zenon
    <3>8. UpdateJob(s, c, where, row).answer = <<"yes">>
      BY <2>1, <2>3, <3>4, Zenon DEF YesNo
    <3>9. QED
      BY <1>4, <2>1, <3>7, <3>8 DEF Reply, Same
  <2>4. QED
    BY <1>3, <1>5, <2>2, <2>3
<1>6. CASE i \notin DOMAIN J
  BY <1>1, <1>2, <1>4, <1>6 DEF MemClaimTick, UpdateJob, YesNo, Reply, Has, Same
<1>7. QED
  BY <1>5, <1>6

LEMMA RepliedAlike ==
  ASSUME NEW m, NEW s, Alike(m, s), NEW x
  PROVE  Same(Reply(m, x), Reply(s, x))
  BY DEF Same, Reply

LEMMA FindDueAlike ==
  ASSUME NEW m, NEW s, Alike(m, s), NEW c, c.now \in Nat
  PROVE  MemFindDue(m, c) = SqlFindDue(s, c)
<1>1. PICK J : J = m.jobs /\ J = s.jobs /\ J \in [DOMAIN J -> PortJobs]
  BY TablesOf DEF JobsOk
<1>2. \A i \in DOMAIN J : J[i].next \in Stamps /\ J[i].tick \in Stamps
  BY <1>1 DEF PortJobs
<1>3. \A i \in DOMAIN J : /\ (J[i].next # Null /\ J[i].next <= c.now) <=> Le(J[i].next, c.now)
                          /\ ~(J[i].tick # Null /\ J[i].tick >= c.now)
                               <=> (J[i].tick = Null \/ Lt(J[i].tick, c.now))
  BY <1>2 DEF Le, Lt, Stamps, Null
<1>4. \A i : i \in MemFindDue(m, c) <=> i \in SqlFindDue(s, c)
  BY <1>1, <1>3 DEF MemFindDue, SqlFindDue
<1>5. QED
  BY <1>4, Zenon

LEMMA MinNextAlike ==
  ASSUME NEW m, NEW s, Alike(m, s), NEW c
  PROVE  MemMinNext(m, c) = SqlMinNext(s, c)
<1>1. PICK J : J = m.jobs /\ J = s.jobs
  BY TablesOf
<1>2. PICK any, set : /\ any = {J[i].next : i \in {k \in DOMAIN J :
                                  J[k].enabled /\ J[k].kind # "manual" /\ J[k].part \in c.parts}}
                      /\ set = {J[i].next : i \in {k \in DOMAIN J :
                                  /\ J[k].enabled /\ J[k].kind # "manual"
                                  /\ J[k].next # Null /\ J[k].part \in c.parts}}
  OBVIOUS
<1>3. any \ {Null} = set
  BY <1>2
<1>4. /\ MemMinNext(m, c) = {t \in any \ {Null} : \A u \in any \ {Null} : t <= u}
      /\ SqlMinNext(s, c) = {t \in set : \A u \in set : t <= u}
  BY <1>1, <1>2 DEF MemMinNext, SqlMinNext
<1>5. QED
  BY <1>3, <1>4

LEMMA AppendRevisionAlike ==
  ASSUME NEW m, NEW s, Alike(m, s), NEW c
  PROVE  Same(MemAppendRevision(m, c), SqlAppendRevision(s, c))
<1>1. PICK V, revs : /\ V = m.revs /\ V = s.revs
                     /\ revs = Put(V, c.id, (IF Has(V, c.id) THEN V[c.id] ELSE <<>>) \o <<c.rev>>)
  BY TablesOf
<1>2. /\ MemAppendRevision(m, c) = Reply([m EXCEPT !.revs = revs], Ok)
      /\ SqlAppendRevision(s, c) = Reply([s EXCEPT !.revs = revs], Ok)
  BY <1>1, Zenon DEF MemAppendRevision, SqlAppendRevision
<1>3. Alike([m EXCEPT !.revs = revs], [s EXCEPT !.revs = revs])
  BY OthersReplaced
<1>4. QED
  BY <1>2, <1>3 DEF Same, Reply

----------------------------------------------------------------------------
(* Leader, workers, scripts and partitions.                                *)

LEMMA AcquireLeaderAlike ==
  ASSUME NEW m, NEW s, Alike(m, s), NEW c, c.by \in Instances, c.now \in Nat, c.ttl \in Nat
  PROVE  Same(MemAcquireLeader(m, c), SqlAcquireLeader(s, c))
<1>1. PICK L, row : /\ L = m.leader /\ L = s.leader /\ LeaderOk(L)
                    /\ row = [by |-> c.by, until |-> c.now + c.ttl]
  BY TablesOf
<1>2. PICK rows : rows = Put(L, "leader", row)
  OBVIOUS
<1>3. row \in [by : Instances, until : Nat]
  BY <1>1
<1>4. LeaderOk(rows)
  BY <1>1, <1>2, <1>3 DEF LeaderOk, Put
<1>5. Alike([m EXCEPT !.leader = rows], [s EXCEPT !.leader = rows])
  BY <1>4, OthersReplaced
<1>6. PICK hit : /\ hit \in BOOLEAN
                 /\ hit <=> (\/ "leader" \notin DOMAIN L \/ L["leader"].by = c.by
                             \/ Le(L["leader"].until, c.now))
  OBVIOUS
<1>7. ASSUME "leader" \in DOMAIN L
      PROVE  hit <=> ~(L["leader"].until > c.now /\ L["leader"].by # c.by)
  <2>1. L["leader"].until \in Nat
    BY <1>1, <1>7 DEF LeaderOk
  <2>2. QED
    BY <1>6, <1>7, <2>1 DEF Le, Null
<1>8. CASE hit
  <2>1. MemAcquireLeader(m, c) = Reply([m EXCEPT !.leader = rows], <<"yes">>)
    BY <1>1, <1>2, <1>7, <1>8, Zenon DEF MemAcquireLeader, Has
  <2>2. SqlAcquireLeader(s, c) = Reply([s EXCEPT !.leader = rows], <<"yes">>)
    BY <1>1, <1>2, <1>6, <1>8, Zenon DEF SqlAcquireLeader, Has, YesNo
  <2>3. QED
    BY <1>5, <2>1, <2>2 DEF Same, Reply
<1>9. CASE ~hit
  <2>1. MemAcquireLeader(m, c) = Reply(m, <<"no">>)
    BY <1>1, <1>6, <1>7, <1>9, Zenon DEF MemAcquireLeader, Has
  <2>2. SqlAcquireLeader(s, c) = Reply(s, <<"no">>)
    BY <1>1, <1>6, <1>9, Zenon DEF SqlAcquireLeader, Has, YesNo
  <2>3. QED
    BY <2>1, <2>2 DEF Same, Reply
<1>10. QED
  BY <1>8, <1>9

LEMMA RenewLeaderAlike ==
  ASSUME NEW m, NEW s, Alike(m, s), NEW c, c.now \in Nat, c.ttl \in Nat
  PROVE  Same(MemRenewLeader(m, c), SqlRenewLeader(s, c))
<1>1. PICK J, N, R, V, W, L, C, P :
        /\ m = StoreOf(J, N, R, V, W, L, C, P) /\ s = StoreOf(J, <<>>, R, V, W, L, C, P)
        /\ L = m.leader /\ L = s.leader /\ LeaderOk(L)
  BY TablesOf
<1>2. CASE "leader" \in DOMAIN L /\ L["leader"].by = c.by
  <2>1. PICK rows, until : /\ rows = [L EXCEPT !["leader"].until = until] /\ until = c.now + c.ttl
    OBVIOUS
  <2>2. LeaderOk(rows)
    <3>1. PICK old \in [by : Instances, until : Nat] : old = L["leader"]
      <4>1. L["leader"] \in [by : Instances, until : Nat]
        BY <1>1, <1>2 DEF LeaderOk
      <4>2. QED
        BY <4>1, Zenon
    <3>2. PICK new \in [by : Instances, until : Nat] : new = [old EXCEPT !.until = until]
      <4>1. until \in Nat
        BY <2>1
      <4>2. QED
        BY <4>1
    <3>3. rows = [L EXCEPT !["leader"] = new]
      BY <2>1, <3>1, <3>2, Zenon
    <3>4. QED
      BY <1>1, <3>3 DEF LeaderOk
  <2>3. /\ MemRenewLeader(m, c) = Reply([m EXCEPT !.leader["leader"].until = until], Ok)
        /\ SqlRenewLeader(s, c) = Reply([s EXCEPT !.leader["leader"].until = until], Ok)
    BY <1>1, <1>2, <2>1, Zenon DEF MemRenewLeader, SqlRenewLeader, Has
  <2>4. /\ [m EXCEPT !.leader["leader"].until = until] = [m EXCEPT !.leader = rows]
        /\ [s EXCEPT !.leader["leader"].until = until] = [s EXCEPT !.leader = rows]
    <3>1. /\ [m EXCEPT !.leader["leader"].until = until] = StoreOf(J, N, R, V, W, rows, C, P)
          /\ [s EXCEPT !.leader["leader"].until = until] = StoreOf(J, <<>>, R, V, W, rows, C, P)
      BY <1>1, <2>1 DEF StoreOf
    <3>2. /\ [m EXCEPT !.leader = rows] = StoreOf(J, N, R, V, W, rows, C, P)
          /\ [s EXCEPT !.leader = rows] = StoreOf(J, <<>>, R, V, W, rows, C, P)
      BY <1>1 DEF StoreOf
    <3>3. QED
      BY <3>1, <3>2, Zenon
  <2>5. Alike([m EXCEPT !.leader = rows], [s EXCEPT !.leader = rows])
    BY <2>2, OthersReplaced
  <2>6. QED
    BY <2>3, <2>4, <2>5 DEF Same, Reply
<1>3. CASE ~("leader" \in DOMAIN L /\ L["leader"].by = c.by)
  BY <1>1, <1>3 DEF MemRenewLeader, SqlRenewLeader, Has, Same, Reply
<1>4. QED
  BY <1>2, <1>3

LEMMA WorkerPut ==
  ASSUME NEW rows, WorkersOk(rows), NEW k, NEW t \in Nat
  PROVE  WorkersOk(Put(rows, k, t))
  BY DEF WorkersOk, Put

LEMMA HeartbeatAlike ==
  ASSUME NEW m, NEW s, Alike(m, s), NEW c, c.now \in Nat
  PROVE  Same(MemHeartbeat(m, c), SqlHeartbeat(s, c))
<1>1. PICK W, k : W = m.workers /\ W = s.workers /\ WorkersOk(W) /\ k = c.id
  BY TablesOf
<1>2. CASE k \in DOMAIN W
  <2>1. PICK rows : rows = Put(W, k, c.now)
    OBVIOUS
  <2>2. rows = [W EXCEPT ![k] = c.now]
    BY <1>1, <1>2, <2>1 DEF Put, WorkersOk
  <2>3. SqlHeartbeat(s, c) = Reply([s EXCEPT !.workers = rows], Ok)
    BY <1>1, <1>2, <2>1, Zenon DEF SqlHeartbeat, Has
  <2>4. MemHeartbeat(m, c) = Reply([m EXCEPT !.workers = rows], Ok)
    BY <1>1, <1>2, <2>2 DEF MemHeartbeat, Has
  <2>5. Alike([m EXCEPT !.workers = rows], [s EXCEPT !.workers = rows])
    BY <1>1, <2>1, WorkerPut, OthersReplaced
  <2>6. QED
    BY <2>3, <2>4, <2>5 DEF Same, Reply
<1>3. CASE k \notin DOMAIN W
  BY <1>1, <1>3 DEF MemHeartbeat, SqlHeartbeat, Has, Same, Reply
<1>4. QED
  BY <1>2, <1>3

Shared == {"get_job", "due_jobs", "list_jobs", "get_run", "list_parts", "register_worker",
           "upsert_script", "get_script", "get_leader", "assign"}

LEMMA SharedAlike ==
  ASSUME NEW m, NEW s, Alike(m, s), NEW c, c.op \in Shared,
         c.op = "register_worker" => c.now \in Nat
  PROVE  Same(SharedReply(m, c), SharedReply(s, c))
<1>0. PICK J, R, W, L, C, P :
        /\ J = m.jobs /\ J = s.jobs /\ R = m.runs /\ R = s.runs
        /\ W = m.workers /\ W = s.workers /\ WorkersOk(W)
        /\ L = m.leader /\ L = s.leader /\ C = m.scripts /\ C = s.scripts
        /\ P = m.parts /\ P = s.parts
  BY TablesOf
<1>1. CASE c.op = "get_job"
  <2>1. PICK a : a = IF ~Has(J, c.id) THEN <<>>
                     ELSE <<J[c.id].name, IF J[c.id].enabled THEN "on" ELSE "off", J[c.id].rev>>
    OBVIOUS
  <2>2. SharedReply(m, c) = Reply(m, a) /\ SharedReply(s, c) = Reply(s, a)
    BY <1>0, <1>1, <2>1 DEF SharedReply
  <2>3. QED
    BY <2>2, RepliedAlike
<1>2. CASE c.op = "due_jobs"
  <2>1. PICK a : a = YesNo(Has(J, c.id) /\ J[c.id].enabled /\ Le(J[c.id].next, c.now))
    OBVIOUS
  <2>2. SharedReply(m, c) = Reply(m, a) /\ SharedReply(s, c) = Reply(s, a)
    BY <1>0, <1>2, <2>1 DEF SharedReply
  <2>3. QED
    BY <2>2, RepliedAlike
<1>3. CASE c.op = "register_worker"
  <2>1. PICK rows : rows = Put(W, c.id, c.now)
    OBVIOUS
  <2>2. /\ SharedReply(m, c) = Reply([m EXCEPT !.workers = rows], Ok)
        /\ SharedReply(s, c) = Reply([s EXCEPT !.workers = rows], Ok)
    BY <1>0, <1>3, <2>1 DEF SharedReply
  <2>3. Alike([m EXCEPT !.workers = rows], [s EXCEPT !.workers = rows])
    BY <1>0, <1>3, <2>1, WorkerPut, OthersReplaced
  <2>4. QED
    BY <2>2, <2>3 DEF Same, Reply
<1>4. CASE c.op = "upsert_script"
  <2>1. PICK rows : rows = Put(C, c.id, c.hash)
    OBVIOUS
  <2>2. /\ SharedReply(m, c) = Reply([m EXCEPT !.scripts = rows], Ok)
        /\ SharedReply(s, c) = Reply([s EXCEPT !.scripts = rows], Ok)
    BY <1>0, <1>4, <2>1 DEF SharedReply
  <2>3. Alike([m EXCEPT !.scripts = rows], [s EXCEPT !.scripts = rows])
    BY OthersReplaced
  <2>4. QED
    BY <2>2, <2>3 DEF Same, Reply
<1>5. CASE c.op = "get_script"
  <2>1. PICK a : a = IF Has(C, c.id) THEN <<C[c.id]>> ELSE <<>>
    OBVIOUS
  <2>2. SharedReply(m, c) = Reply(m, a) /\ SharedReply(s, c) = Reply(s, a)
    BY <1>0, <1>5, <2>1 DEF SharedReply
  <2>3. QED
    BY <2>2, RepliedAlike
<1>6. CASE c.op = "get_leader"
  <2>1. PICK a : a = IF Has(L, "leader") THEN <<L["leader"].by>> ELSE <<>>
    OBVIOUS
  <2>2. SharedReply(m, c) = Reply(m, a) /\ SharedReply(s, c) = Reply(s, a)
    BY <1>0, <1>6, <2>1 DEF SharedReply
  <2>3. QED
    BY <2>2, RepliedAlike
<1>7. CASE c.op = "assign"
  <2>1. PICK rows : rows = Put(P, c.id, [by |-> c.by, until |-> c.now + c.ttl])
    OBVIOUS
  <2>2. /\ SharedReply(m, c) = Reply([m EXCEPT !.parts = rows], Ok)
        /\ SharedReply(s, c) = Reply([s EXCEPT !.parts = rows], Ok)
    BY <1>0, <1>7, <2>1 DEF SharedReply
  <2>3. Alike([m EXCEPT !.parts = rows], [s EXCEPT !.parts = rows])
    BY OthersReplaced
  <2>4. QED
    BY <2>2, <2>3 DEF Same, Reply
<1>8. CASE c.op = "list_jobs"
  <2>1. SharedReply(m, c) = Reply(m, DOMAIN J) /\ SharedReply(s, c) = Reply(s, DOMAIN J)
    BY <1>0, <1>8 DEF SharedReply
  <2>2. QED
    BY <2>1, RepliedAlike
<1>9. CASE c.op = "get_run"
  <2>1. PICK a : a = IF Has(R, c.id) THEN <<R[c.id].status, R[c.id].by>> ELSE <<>>
    OBVIOUS
  <2>2. SharedReply(m, c) = Reply(m, a) /\ SharedReply(s, c) = Reply(s, a)
    BY <1>0, <1>9, <2>1 DEF SharedReply
  <2>3. QED
    BY <2>2, RepliedAlike
<1>10. CASE c.op = "list_parts"
  <2>1. PICK a : a = {<<p, P[p].by>> : p \in DOMAIN P}
    OBVIOUS
  <2>2. SharedReply(m, c) = Reply(m, a) /\ SharedReply(s, c) = Reply(s, a)
    BY <1>0, <1>10, <2>1 DEF SharedReply
  <2>3. QED
    BY <2>2, RepliedAlike
<1>11. QED
  BY <1>1, <1>2, <1>3, <1>4, <1>5, <1>6, <1>7, <1>8, <1>9, <1>10 DEF Shared

----------------------------------------------------------------------------
(* Calls on runs.                                                          *)

LEMMA RunsAreRows ==
  ASSUME NEW m, NEW s, Alike(m, s)
  PROVE  /\ s.runs = m.runs /\ IsFiniteSet(DOMAIN m.runs)
         /\ \A i \in DOMAIN m.runs : m.runs[i] \in PortRuns
<1>1. s.runs = m.runs /\ RunsOk(m.runs)
  BY TablesOf
<1>2. m.runs \in [DOMAIN m.runs -> PortRuns] /\ IsFiniteSet(DOMAIN m.runs)
  BY <1>1 DEF RunsOk
<1>3. QED
  BY <1>1, <1>2

LEMMA CreateRunAlike ==
  ASSUME NEW m, NEW s, Alike(m, s), NEW c, ~Has(s.runs, c.id), c.row \in PortRuns
  PROVE  Same(MemCreateRun(m, c), SqlCreateRun(s, c))
<1>1. PICK R, rows : R = m.runs /\ R = s.runs /\ RunsOk(R) /\ rows = Put(R, c.id, c.row)
  BY TablesOf
<1>2. RunsOk(rows)
  <2>1. IsFiniteSet(DOMAIN R \cup {c.id})
    BY <1>1, FS_AddElement DEF RunsOk
  <2>2. DOMAIN rows = DOMAIN R \cup {c.id} /\ rows \in [DOMAIN R \cup {c.id} -> PortRuns]
    BY <1>1 DEF Put, RunsOk
  <2>3. QED
    BY <2>1, <2>2 DEF RunsOk
<1>3. /\ MemCreateRun(m, c) = Reply([m EXCEPT !.runs = rows], Ok)
      /\ SqlCreateRun(s, c) = Reply([s EXCEPT !.runs = rows], Ok)
  BY <1>1, Zenon DEF MemCreateRun, SqlCreateRun
<1>4. Alike([m EXCEPT !.runs = rows], [s EXCEPT !.runs = rows])
  BY <1>2, OthersReplaced
<1>5. QED
  BY <1>3, <1>4 DEF Same, Reply

LEMMA UpdateRunAlike ==
  ASSUME NEW m, NEW s, Alike(m, s), NEW c, c.status \in RunStatuses, c.lease \in Stamps
  PROVE  Same(MemUpdateRun(m, c), SqlUpdateRun(s, c))
<1>1. PICK J, N, R, V, W, L, C, P :
        /\ m = StoreOf(J, N, R, V, W, L, C, P) /\ s = StoreOf(J, <<>>, R, V, W, L, C, P)
        /\ R = m.runs /\ R = s.runs /\ \A i \in DOMAIN R : R[i] \in PortRuns
        /\ R \in [DOMAIN R -> PortRuns]
  BY TablesOf DEF RunsOk
<1>2. PICK i, st, le : i = c.id /\ st = c.status /\ le = c.lease
  OBVIOUS
<1>3. CASE i \notin DOMAIN R
  BY <1>1, <1>2, <1>3 DEF MemUpdateRun, SqlUpdateRun, Has, Same, Reply
<1>4. CASE i \in DOMAIN R
  <2>1. PICK old \in PortRuns : old = R[i]
    BY <1>1, <1>4
  <2>2. PICK row : row = [old EXCEPT !.status = st, !.lease = le]
    OBVIOUS
  <2>3. row \in PortRuns
    BY <1>2, <2>1, <2>2 DEF PortRuns
  <2>4. SqlUpdateRun(s, c) = Reply([s EXCEPT !.runs[i] = row], Ok)
    BY <1>1, <1>2, <1>4, <2>1, <2>2, Zenon DEF SqlUpdateRun, Has
  <2>5. MemUpdateRun(m, c) = Reply([m EXCEPT !.runs[i].status = st, !.runs[i].lease = le], Ok)
    BY <1>1, <1>2, <1>4, Zenon DEF MemUpdateRun, Has
  <2>6. [m EXCEPT !.runs[i].status = st, !.runs[i].lease = le] = [m EXCEPT !.runs[i] = row]
    <3>1. PICK row1, m1 : row1 = [old EXCEPT !.status = st] /\ m1 = [m EXCEPT !.runs[i].status = st]
      OBVIOUS
    <3>2. m1 = StoreOf(J, N, [R EXCEPT ![i] = row1], V, W, L, C, P)
      BY <1>1, <2>1, <3>1 DEF StoreOf
    <3>3. [m1 EXCEPT !.runs[i].lease = le]
            = StoreOf(J, N, [[R EXCEPT ![i] = row1] EXCEPT ![i].lease = le], V, W, L, C, P)
      BY <3>2 DEF StoreOf
    <3>4. row = [row1 EXCEPT !.lease = le]
      BY <2>2, <3>1
    <3>5. [[R EXCEPT ![i] = row1] EXCEPT ![i].lease = le] = [R EXCEPT ![i] = row]
      <4>1. PICK R1 : R1 = [R EXCEPT ![i] = row1]
        OBVIOUS
      <4>2. R1[i] = row1
        BY <1>4, <4>1
      <4>3. [R1 EXCEPT ![i].lease = le] = [R1 EXCEPT ![i] = row]
        BY <3>4, <4>2, Zenon
      <4>4. [R1 EXCEPT ![i] = row] = [R EXCEPT ![i] = row]
        BY <4>1
      <4>5. QED
        BY <4>1, <4>3, <4>4
    <3>6. [m EXCEPT !.runs[i] = row] = StoreOf(J, N, [R EXCEPT ![i] = row], V, W, L, C, P)
      BY <1>1 DEF StoreOf
    <3>7. [m EXCEPT !.runs[i].status = st, !.runs[i].lease = le] = [m1 EXCEPT !.runs[i].lease = le]
      BY <3>1
    <3>8. QED
      BY <3>3, <3>5, <3>6, <3>7
  <2>7. Alike([m EXCEPT !.runs[i] = row], [s EXCEPT !.runs[i] = row])
    BY <1>1, <1>4, <2>3, RunWritten
  <2>8. QED
    BY <2>4, <2>5, <2>6, <2>7 DEF Same, Reply
<1>5. QED
  BY <1>3, <1>4

LEMMA ClaimableAlike ==
  ASSUME NEW run \in PortRuns, NEW c, c.now \in Nat
  PROVE  MemClaimable(run, c) <=> SqlClaimable(run, c)
<1>1. run.lease \in Stamps
  BY DEF PortRuns
<1>2. QED
  BY <1>1 DEF MemClaimable, SqlClaimable, Le, Stamps, Null

LEMMA TakenIsRow ==
  ASSUME NEW run \in PortRuns, NEW c, c.by \in Instances, c.now \in Nat, c.ttl \in Nat
  PROVE  Taken(run, c) \in PortRuns
<1>1. PICK by, until : by = c.by /\ until = c.now + c.ttl
  OBVIOUS
<1>2. until \in Stamps /\ by \in Instances \cup {NoOne}
  BY <1>1 DEF Stamps
<1>3. Taken(run, c) = [run EXCEPT !.status = "claimed", !.by = by, !.lease = until]
  BY <1>1 DEF Taken
<1>4. QED
  BY <1>2, <1>3 DEF PortRuns, RunStatuses

(* Both take the run. *)
LEMMA BothTake ==
  ASSUME NEW m, NEW s, Alike(m, s), NEW c, c.by \in Instances, c.now \in Nat, c.ttl \in Nat,
         NEW r \in DOMAIN m.runs
  PROVE  Alike([m EXCEPT !.runs[r] = Taken(@, c)], [s EXCEPT !.runs[r] = Taken(@, c)])
<1>1. s.runs = m.runs /\ m.runs[r] \in PortRuns
  BY RunsAreRows
<1>2. PICK row \in PortRuns : row = Taken(m.runs[r], c)
  BY <1>1, TakenIsRow
<1>3. Alike([m EXCEPT !.runs[r] = row], [s EXCEPT !.runs[r] = row])
  BY RunWritten
<1>4. QED
  BY <1>1, <1>2, <1>3, Zenon

LEMMA LeastTime ==
  ASSUME NEW T \in SUBSET Nat, T # {}
  PROVE  \E x \in T : \A y \in T : x <= y
<1> DEFINE R == {ss \in Nat \X Nat : ss[1] < ss[2]}
<1>1. IsWellFoundedOn(R, Nat)
  BY NatLessThanWellFounded DEF OpToRel
<1>2. \A x, y \in Nat : <<y, x>> \in R <=> y < x
  OBVIOUS
<1> HIDE DEF R
<1>3. PICK x \in T : \A y \in T : ~(<<y, x>> \in R)
  BY <1>1, WFMin
<1>4. \A y \in T : ~(y < x)
  BY <1>2, <1>3
<1>5. \A y \in T : x <= y
  BY <1>4
<1>6. QED
  BY <1>5

(* scheduled_for is a natural number, so some run comes first. *)
LEMMA FirstIsMember ==
  ASSUME NEW rows, NEW ids, ids # {}, \A i \in ids : rows[i].sched \in Nat
  PROVE  First(rows, ids) \in ids
<1>1. PICK T : T = {rows[i].sched : i \in ids}
  OBVIOUS
<1>2. T \in SUBSET Nat /\ T # {}
  BY <1>1
<1>3. PICK x \in T : \A y \in T : x <= y
  BY <1>2, LeastTime
<1>4. PICK r \in ids : rows[r].sched = x
  BY <1>1
<1>5. \A q \in ids : rows[r].sched <= rows[q].sched
  BY <1>1, <1>3, <1>4
<1>6. QED
  BY <1>4, <1>5 DEF First

LEMMA ClaimNextAlike ==
  ASSUME NEW m, NEW s, Alike(m, s), NEW c, c.by \in Instances, c.now \in Nat, c.ttl \in Nat
  PROVE  Same(MemClaimNext(m, c), SqlClaimNext(s, c))
<1>1. PICK R : R = m.runs /\ R = s.runs /\ \A i \in DOMAIN R : R[i] \in PortRuns
  BY RunsAreRows
<1>2. PICK ids, r : ids = {i \in DOMAIN R : MemClaimable(R[i], c)} /\ r = First(R, ids)
  OBVIOUS
<1>3. ids = {i \in DOMAIN R : SqlClaimable(R[i], c)}
  BY <1>1, <1>2, ClaimableAlike
<1>4. CASE ids = {}
  <2>1. MemClaimNext(m, c) = Reply(m, <<>>) /\ SqlClaimNext(s, c) = Reply(s, <<>>)
    BY <1>1, <1>2, <1>3, <1>4, Zenon DEF MemClaimNext, SqlClaimNext
  <2>2. QED
    BY <2>1, RepliedAlike
<1>5. CASE ids # {}
  <2>1. r \in DOMAIN R
    <3>1. \A i \in ids : R[i].sched \in Nat
      BY <1>1, <1>2 DEF PortRuns
    <3>2. QED
      BY <1>2, <1>5, <3>1, FirstIsMember
  <2>2. /\ MemClaimNext(m, c) = Reply([m EXCEPT !.runs[r] = Taken(@, c)], <<r>>)
        /\ SqlClaimNext(s, c) = Reply([s EXCEPT !.runs[r] = Taken(@, c)], <<r>>)
    BY <1>1, <1>2, <1>3, <1>5, Zenon DEF MemClaimNext, SqlClaimNext
  <2>3. PICK a, b : /\ a = [m EXCEPT !.runs[r] = Taken(@, c)]
                    /\ b = [s EXCEPT !.runs[r] = Taken(@, c)]
    OBVIOUS
  <2>4. Alike(a, b)
    BY <1>1, <2>1, <2>3, BothTake
  <2>5. MemClaimNext(m, c) = Reply(a, <<r>>) /\ SqlClaimNext(s, c) = Reply(b, <<r>>)
    BY <2>2, <2>3, Zenon
  <2>6. QED
    BY <2>4, <2>5, RepliedAlike
<1>6. QED
  BY <1>4, <1>5

LEMMA ClaimByIdAlike ==
  ASSUME NEW m, NEW s, Alike(m, s), NEW c, c.by \in Instances, c.now \in Nat, c.ttl \in Nat
  PROVE  Same(MemClaimById(m, c), SqlClaimById(s, c))
<1>1. PICK R, r : /\ R = m.runs /\ R = s.runs /\ \A i \in DOMAIN R : R[i] \in PortRuns
                  /\ r = c.id
  BY RunsAreRows
<1>2. CASE r \in DOMAIN R /\ MemClaimable(R[r], c)
  <2>1. SqlClaimable(R[r], c)
    BY <1>1, <1>2, ClaimableAlike
  <2>2. PICK a, b : /\ a = [m EXCEPT !.runs[r] = Taken(@, c)]
                    /\ b = [s EXCEPT !.runs[r] = Taken(@, c)]
    OBVIOUS
  <2>3. Alike(a, b)
    BY <1>1, <1>2, <2>2, BothTake
  <2>4. MemClaimById(m, c) = Reply(a, <<r>>) /\ SqlClaimById(s, c) = Reply(b, <<r>>)
    BY <1>1, <1>2, <2>1, <2>2, Zenon DEF MemClaimById, SqlClaimById, Has
  <2>5. QED
    BY <2>3, <2>4, RepliedAlike
<1>3. CASE ~(r \in DOMAIN R /\ MemClaimable(R[r], c))
  <2>1. ~(r \in DOMAIN R /\ SqlClaimable(R[r], c))
    BY <1>1, <1>3, ClaimableAlike
  <2>2. MemClaimById(m, c) = Reply(m, <<>>) /\ SqlClaimById(s, c) = Reply(s, <<>>)
    BY <1>1, <1>3, <2>1, Zenon DEF MemClaimById, SqlClaimById, Has
  <2>3. QED
    BY <2>2, RepliedAlike
<1>4. QED
  BY <1>2, <1>3

LEMMA RenewRunAlike ==
  ASSUME NEW m, NEW s, Alike(m, s), NEW c, c.now \in Nat, c.ttl \in Nat
  PROVE  Same(MemRenewRun(m, c), SqlRenewRun(s, c))
<1>1. PICK J, N, R, V, W, L, C, P :
        /\ m = StoreOf(J, N, R, V, W, L, C, P) /\ s = StoreOf(J, <<>>, R, V, W, L, C, P)
        /\ R = m.runs /\ R = s.runs /\ R \in [DOMAIN R -> PortRuns]
  BY TablesOf DEF RunsOk
<1>2. PICK i, until : i = c.id /\ until = c.now + c.ttl
  OBVIOUS
<1>3. CASE i \in DOMAIN R /\ R[i].by = c.by /\ Held(R[i])
  <2>1. PICK old \in PortRuns : old = R[i]
    BY <1>1, <1>3
  <2>2. PICK row : row = [old EXCEPT !.lease = until]
    OBVIOUS
  <2>3. row \in PortRuns
    <3>1. until \in Stamps
      BY <1>2 DEF Stamps
    <3>2. QED
      BY <2>1, <2>2, <3>1 DEF PortRuns
  <2>4. PICK a, b : a = [m EXCEPT !.runs[i].lease = until] /\ b = [s EXCEPT !.runs[i].lease = until]
    OBVIOUS
  <2>5. a = [m EXCEPT !.runs[i] = row] /\ b = [s EXCEPT !.runs[i] = row]
    <3>1. [m.runs[i] EXCEPT !.lease = until] = row /\ [s.runs[i] EXCEPT !.lease = until] = row
      BY <1>1, <2>1, <2>2, Zenon
    <3>2. QED
      BY <2>4, <3>1, Zenon
  <2>6. Alike(a, b)
    BY <1>1, <1>3, <2>3, <2>5, RunWritten
  <2>7. MemRenewRun(m, c) = Reply(a, <<"yes">>) /\ SqlRenewRun(s, c) = Reply(b, <<"yes">>)
    BY <1>1, <1>2, <1>3, <2>4, Zenon DEF MemRenewRun, SqlRenewRun, Has, YesNo
  <2>8. QED
    BY <2>6, <2>7, RepliedAlike
<1>4. CASE ~(i \in DOMAIN R /\ R[i].by = c.by /\ Held(R[i]))
  <2>1. MemRenewRun(m, c) = Reply(m, <<"no">>) /\ SqlRenewRun(s, c) = Reply(s, <<"no">>)
    BY <1>1, <1>2, <1>4, Zenon DEF MemRenewRun, SqlRenewRun, Has, YesNo
  <2>2. QED
    BY <2>1, RepliedAlike
<1>5. QED
  BY <1>3, <1>4

LEMMA ReclaimAlike ==
  ASSUME NEW m, NEW s, Alike(m, s), NEW c
  PROVE  Same(MemReclaim(m, c), SqlReclaim(s, c))
<1>1. PICK R : /\ R = m.runs /\ R = s.runs /\ RunsOk(R)
               /\ \A i \in DOMAIN R : R[i] \in PortRuns
  BY TablesOf DEF RunsOk
<1>2. PICK ids : ids = {r \in DOMAIN R : Held(R[r]) /\ R[r].lease # Null /\ R[r].lease <= c.now}
  OBVIOUS
<1>3. ids = {r \in DOMAIN R : Held(R[r]) /\ Le(R[r].lease, c.now)}
  BY <1>2 DEF Le
<1>4. PICK freed, rows :
        /\ freed = [r \in ids |-> [R[r] EXCEPT !.status = "queued", !.by = NoOne, !.lease = Null]]
        /\ rows = [r \in DOMAIN R |-> IF r \in ids THEN freed[r] ELSE R[r]]
  OBVIOUS
<1>5. \A r \in ids : freed[r] \in PortRuns
  <2>1. ASSUME NEW r \in ids PROVE freed[r] \in PortRuns
    <3>1. PICK old \in PortRuns : old = R[r]
      BY <1>1, <1>2
    <3>2. [old EXCEPT !.status = "queued", !.by = NoOne, !.lease = Null] \in PortRuns
      BY DEF PortRuns, RunStatuses, Stamps
    <3>3. QED
      BY <1>4, <3>1, <3>2, Zenon
  <2>2. QED
    BY <2>1
<1>6. RunsOk(rows)
  <2>1. \A r \in DOMAIN R : (IF r \in ids THEN freed[r] ELSE R[r]) \in PortRuns
    BY <1>1, <1>5
  <2>2. rows \in [DOMAIN R -> PortRuns] /\ DOMAIN rows = DOMAIN R
    BY <1>4, <2>1
  <2>3. QED
    BY <1>1, <2>2 DEF RunsOk
<1>7. PICK a, b, x : /\ a = [m EXCEPT !.runs = rows] /\ b = [s EXCEPT !.runs = rows]
                     /\ x = EarliestFirst(R, ids)
  OBVIOUS
<1>8. Alike(a, b)
  BY <1>6, <1>7, OthersReplaced
<1>9. [r \in DOMAIN R |-> IF r \in ids THEN [R[r] EXCEPT !.status = "queued", !.by = NoOne,
                                                         !.lease = Null]
                          ELSE R[r]] = rows
  BY <1>4, Zenon
<1>10. MemReclaim(m, c) = Reply(a, x)
  BY <1>1, <1>2, <1>7, <1>9, Zenon DEF MemReclaim
<1>11. SqlReclaim(s, c) = Reply(b, x)
  BY <1>1, <1>3, <1>4, <1>7, Zenon DEF SqlReclaim
<1>12. QED
  BY <1>8, <1>10, <1>11, RepliedAlike

LEMMA FirstOnes ==
  ASSUME NEW S, NEW all, NEW n \in Nat, n > 0, \A k \in 1..n : all[k] \in S
  PROVE  /\ SubSeq(all, 1, n) \in Seq(S) /\ Len(SubSeq(all, 1, n)) = n
         /\ \A k \in 1..n : SubSeq(all, 1, n)[k] = all[k]
<1>1. /\ SubSeq(all, 1, n) \in Seq(S)
      /\ Len(SubSeq(all, 1, n)) = IF 1 <= n THEN n - 1 + 1 ELSE 0
      /\ \A k \in 1..(n - 1 + 1) : SubSeq(all, 1, n)[k] = all[1 + k - 1]
  BY SubSeqProperties
<1>2. QED
  BY <1>1

LEMMA LastOnes ==
  ASSUME NEW S, NEW all \in Seq(S), NEW offset \in Nat
  PROVE  /\ SubSeq(all, offset + 1, Len(all)) \in Seq(S)
         /\ Len(SubSeq(all, offset + 1, Len(all)))
              = IF offset + 1 <= Len(all) THEN Len(all) - offset ELSE 0
         /\ \A k \in 1..(Len(all) - offset) :
              SubSeq(all, offset + 1, Len(all))[k] = all[offset + k]
<1>1. /\ offset + 1 \in Int /\ Len(all) \in Int
      /\ \A k \in (offset + 1)..Len(all) : all[k] \in S
  OBVIOUS
<1>2. PICK rest : rest = SubSeq(all, offset + 1, Len(all))
  OBVIOUS
<1>3. /\ rest \in Seq(S)
      /\ Len(rest) = IF offset + 1 <= Len(all) THEN Len(all) - (offset + 1) + 1 ELSE 0
      /\ \A k \in 1..(Len(all) - (offset + 1) + 1) : rest[k] = all[offset + 1 + k - 1]
  BY <1>1, <1>2, SubSeqProperties
<1>4. /\ rest \in Seq(S)
      /\ Len(rest) = IF offset + 1 <= Len(all) THEN Len(all) - offset ELSE 0
      /\ \A k \in 1..(Len(all) - offset) : rest[k] = all[offset + k]
  BY <1>1, <1>3
<1>5. QED
  BY <1>2, <1>4

(* A page of what is left after the offset, and LIMIT with OFFSET. *)
LEMMA PagesEqual ==
  ASSUME NEW S, NEW all \in Seq(S), NEW offset \in Nat, NEW limit \in Nat,
         NEW rest \in Seq(S),
         Len(rest) = IF offset + 1 <= Len(all) THEN Len(all) - offset ELSE 0,
         \A k \in 1..(Len(all) - offset) : rest[k] = all[offset + k]
  PROVE  SubSeq(rest, 1, IF Len(rest) < limit THEN Len(rest) ELSE limit)
           = SubSeq(all, offset + 1,
                    IF offset + limit < Len(all) THEN offset + limit ELSE Len(all))
<1>1. Len(all) \in Nat /\ \A k \in 1..Len(all) : all[k] \in S
  OBVIOUS
<1>2. PICK n, last : /\ n = (IF Len(rest) < limit THEN Len(rest) ELSE limit)
                     /\ last = (IF offset + limit < Len(all) THEN offset + limit ELSE Len(all))
  OBVIOUS
<1>3. /\ Len(rest) = IF offset + 1 <= Len(all) THEN Len(all) - offset ELSE 0
      /\ \A k \in 1..(Len(all) - offset) : rest[k] = all[offset + k]
  OBVIOUS
<1>4. n \in Nat /\ last \in Nat /\ Len(rest) \in Nat
  BY <1>1, <1>2, <1>3
<1>5. CASE n = 0
  <2>1. last < offset + 1
    BY <1>1, <1>2, <1>3, <1>5
  <2>2. SubSeq(rest, 1, n) = <<>>
    BY <1>5, SubSeqEmpty
  <2>3. SubSeq(all, offset + 1, last) = <<>>
    BY <1>4, <2>1, SubSeqEmpty
  <2>4. QED
    BY <1>2, <2>2, <2>3
<1>6. CASE n > 0
  <2>1. n = last - offset /\ n <= Len(rest) /\ last <= Len(all) /\ Len(rest) = Len(all) - offset
    BY <1>1, <1>2, <1>3, <1>4, <1>6
  <2>2. \A k \in 1..n : rest[k] \in S
    BY <1>3, <1>4, <2>1
  <2>3. \A k \in (offset + 1)..last : all[k] \in S
    BY <1>1, <1>4, <2>1
  <2>4. /\ SubSeq(rest, 1, n) \in Seq(S) /\ Len(SubSeq(rest, 1, n)) = n
        /\ \A k \in 1..n : SubSeq(rest, 1, n)[k] = rest[k]
    BY <1>4, <1>6, <2>2, FirstOnes
  <2>5. /\ SubSeq(all, offset + 1, last) \in Seq(S) /\ Len(SubSeq(all, offset + 1, last)) = n
        /\ \A k \in 1..n : SubSeq(all, offset + 1, last)[k] = all[offset + k]
    <3>1. /\ SubSeq(all, offset + 1, last) \in Seq(S)
          /\ Len(SubSeq(all, offset + 1, last))
               = IF offset + 1 <= last THEN last - (offset + 1) + 1 ELSE 0
          /\ \A k \in 1..(last - (offset + 1) + 1) :
               SubSeq(all, offset + 1, last)[k] = all[offset + 1 + k - 1]
      BY <1>4, <2>3, SubSeqProperties
    <3>2. QED
      BY <1>4, <1>6, <2>1, <3>1
  <2>6. \A k \in 1..n : rest[k] = all[offset + k]
    BY <1>3, <1>4, <2>1
  <2>7. SubSeq(rest, 1, n) = SubSeq(all, offset + 1, last)
    <3>1. PICK x, y : x = SubSeq(rest, 1, n) /\ y = SubSeq(all, offset + 1, last)
      OBVIOUS
    <3>2. /\ x \in Seq(S) /\ y \in Seq(S) /\ Len(x) = n /\ Len(y) = n
          /\ \A k \in 1..n : x[k] = y[k]
      BY <2>4, <2>5, <2>6, <3>1, Zenon
    <3>3. x = y
      BY <3>2, SeqEqual
    <3>4. QED
      BY <3>1, <3>3
  <2>8. QED
    BY <1>2, <2>7
<1>7. QED
  BY <1>4, <1>5, <1>6

LEMMA ListRunsAlike ==
  ASSUME NEW m, NEW s, Alike(m, s), NEW c, c.offset \in Nat, c.limit \in Nat
  PROVE  MemListRuns(m, c) = SqlListRuns(s, c)
<1>1. PICK R : R = m.runs /\ R = s.runs /\ IsFiniteSet(DOMAIN R)
  BY RunsAreRows
<1>2. PICK ids : ids = {r \in DOMAIN R : /\ c.job \in {"any", R[r].job}
                                         /\ c.status \in {"any", R[r].status}}
  OBVIOUS
<1>3. ids = CASE c.job # "any" /\ c.status # "any" ->
                   {r \in DOMAIN R : R[r].job = c.job /\ R[r].status = c.status}
              [] c.job # "any" /\ c.status = "any" -> {r \in DOMAIN R : R[r].job = c.job}
              [] c.job = "any" /\ c.status # "any" -> {r \in DOMAIN R : R[r].status = c.status}
              [] OTHER -> DOMAIN R
  <2>1. CASE c.job # "any" /\ c.status # "any"
    BY <1>2, <2>1
  <2>2. CASE c.job # "any" /\ c.status = "any"
    BY <1>2, <2>2
  <2>3. CASE c.job = "any" /\ c.status # "any"
    BY <1>2, <2>3
  <2>4. CASE c.job = "any" /\ c.status = "any"
    BY <1>2, <2>4
  <2>5. QED
    BY <2>1, <2>2, <2>3, <2>4
<1>4. PICK all, rest : /\ all = LatestFirst(R, ids)
                       /\ rest = SubSeq(all, c.offset + 1, Len(all))
  OBVIOUS
<1>5. PICK S : all \in Seq(S)
  <2>1. PICK n \in Nat : n = Cardinality(ids)
    BY <1>1, <1>2, FS_Subset, FS_CardinalityType
  <2>2. DOMAIN all = 1..n /\ all = [k \in 1..n |-> all[k]]
    BY <1>4, <2>1 DEF LatestFirst
  <2>3. PICK S : S = {all[k] : k \in 1..n}
    OBVIOUS
  <2>4. all \in [1..n -> S]
    BY <2>2, <2>3
  <2>5. QED
    BY <2>4, SeqDef
<1>6. PICK x, y :
        /\ x = SubSeq(rest, 1, IF Len(rest) < c.limit THEN Len(rest) ELSE c.limit)
        /\ y = SubSeq(all, c.offset + 1,
                      IF c.offset + c.limit < Len(all) THEN c.offset + c.limit ELSE Len(all))
  OBVIOUS
<1>7. x = y
  <2>1. /\ rest \in Seq(S)
        /\ Len(rest) = IF c.offset + 1 <= Len(all) THEN Len(all) - c.offset ELSE 0
        /\ \A k \in 1..(Len(all) - c.offset) : rest[k] = all[c.offset + k]
    BY <1>4, <1>5, LastOnes
  <2>2. QED
    BY <1>5, <1>6, <2>1, PagesEqual
<1>8. MemListRuns(m, c) = x
  BY <1>1, <1>2, <1>4, <1>6, Zenon DEF MemListRuns
<1>9. SqlListRuns(s, c) = y
  BY <1>1, <1>3, <1>4, <1>6, Zenon DEF SqlListRuns
<1>10. QED
  BY <1>7, <1>8, <1>9, Zenon

----------------------------------------------------------------------------
(* Any call of the port.                                                   *)

(* What two replies may differ in, given the SQL store before the call. *)
AlikeBut(s, c, a, b) ==
    /\ Alike(a.store, b.store)
    /\ \/ a.answer = b.answer
       \/ /\ c.op \in {"mark_run_once", "release_run_once", "release_tick", "persist"}
          /\ ~Has(s.jobs, c.id)
       \/ c.op = "list_revisions"

LEMMA SameIsAlike ==
  ASSUME NEW s, NEW c, NEW a, NEW b, Same(a, b)
  PROVE  AlikeBut(s, c, a, b)
  BY DEF Same, AlikeBut

LEMMA JobCallAlike ==
  ASSUME NEW m, NEW s, Alike(m, s), NEW c \in JobCalls
  PROVE  AlikeBut(s, c, MemReply(m, c), SqlReply(s, c))
<1>1. CASE c \in [op : {"upsert_job"}, id : STRING, row : PortJobs]
  <2>1. /\ MemReply(m, c) = MemUpsertJob(m, c) /\ SqlReply(s, c) = SqlUpsertJob(s, c)
        /\ c.id \in STRING /\ c.row \in PortJobs
    BY <1>1 DEF MemReply, SqlReply
  <2>2. QED
    BY <2>1, UpsertJobAlike, SameIsAlike
<1>2. CASE c \in [op : {"get_job", "delete_job", "mark_run_once", "release_tick",
                        "list_revisions"}, id : STRING]
  <2>1. CASE c.op = "get_job"
    <3>1. MemReply(m, c) = SharedReply(m, c) /\ SqlReply(s, c) = SharedReply(s, c)
      BY <2>1 DEF MemReply, SqlReply
    <3>2. QED
      BY <2>1, <3>1, SharedAlike, SameIsAlike DEF Shared
  <2>2. CASE c.op = "delete_job"
    <3>1. MemReply(m, c) = MemDeleteJob(m, c) /\ SqlReply(s, c) = SqlDeleteJob(s, c)
      BY <2>2 DEF MemReply, SqlReply
    <3>2. QED
      BY <3>1, DeleteJobAlike, SameIsAlike
  <2>3. CASE c.op = "mark_run_once"
    <3>1. MemReply(m, c) = MemMarkRunOnce(m, c) /\ SqlReply(s, c) = SqlMarkRunOnce(s, c)
      BY <2>3 DEF MemReply, SqlReply
    <3>2. QED
      BY <2>3, <3>1, MarkRunOnceAlike DEF AlikeBut
  <2>4. CASE c.op = "release_tick"
    <3>1. MemReply(m, c) = MemReleaseTick(m, c) /\ SqlReply(s, c) = SqlReleaseTick(s, c)
      BY <2>4 DEF MemReply, SqlReply
    <3>2. QED
      BY <2>4, <3>1, ReleaseTickAlike DEF AlikeBut
  <2>5. CASE c.op = "list_revisions"
    <3>1. /\ MemReply(m, c) = Reply(m, MemListRevisions(m, c))
          /\ SqlReply(s, c) = Reply(s, SqlListRevisions(s, c))
      BY <2>5 DEF MemReply, SqlReply
    <3>2. QED
      BY <2>5, <3>1 DEF AlikeBut, Reply
  <2>6. QED
    BY <1>2, <2>1, <2>2, <2>3, <2>4, <2>5
<1>3. CASE c \in [op : {"by_name"}, name : STRING]
  <2>1. PICK ids : ids = {i \in DOMAIN s.jobs : s.jobs[i].name = c.name}
    OBVIOUS
  <2>2. /\ MemReply(m, c) = Reply(m, IF Has(m.names, c.name) THEN <<m.names[c.name]>> ELSE <<>>)
        /\ SqlReply(s, c) = Reply(s, IF ids = {} THEN <<>> ELSE <<CHOOSE i \in ids : TRUE>>)
    <3>1. c.op = "by_name"
      BY <1>3
    <3>2. QED
      BY <2>1, <3>1 DEF MemReply, SqlReply
  <2>3. QED
    BY <2>1, <2>2, ByNameAlike, SameIsAlike
<1>4. CASE c \in [op : {"set_enabled"}, id : STRING, on : BOOLEAN]
  <2>1. /\ MemReply(m, c) = MemSetEnabled(m, c) /\ SqlReply(s, c) = SqlSetEnabled(s, c)
        /\ c.on \in BOOLEAN
    BY <1>4 DEF MemReply, SqlReply
  <2>2. QED
    BY <2>1, SetEnabledAlike, SameIsAlike
<1>5. CASE c \in [op : {"persist"}, id : STRING, next : Stamps]
  <2>1. /\ MemReply(m, c) = MemPersist(m, c) /\ SqlReply(s, c) = SqlPersist(s, c)
        /\ c.next \in Stamps /\ c.op = "persist"
    BY <1>5 DEF MemReply, SqlReply
  <2>2. QED
    BY <2>1, PersistAlike DEF AlikeBut
<1>6. CASE c \in [op : {"claim_tick"}, id : STRING, now : Nat, ttl : Nat]
  <2>1. /\ MemReply(m, c) = MemClaimTick(m, c) /\ SqlReply(s, c) = SqlClaimTick(s, c)
        /\ c.now \in Nat /\ c.ttl \in Nat
    BY <1>6 DEF MemReply, SqlReply
  <2>2. QED
    BY <2>1, ClaimTickAlike, SameIsAlike
<1>7. CASE c \in [op : {"try_claim_run_once", "release_run_once"}, id : STRING, by : Instances,
                  now : Nat, ttl : Nat]
  <2>1. CASE c.op = "try_claim_run_once"
    <3>1. /\ MemReply(m, c) = MemTryClaimRunOnce(m, c)
          /\ SqlReply(s, c) = SqlTryClaimRunOnce(s, c)
      BY <2>1 DEF MemReply, SqlReply
    <3>2. c.by \in Instances /\ c.now \in Nat /\ c.ttl \in Nat
      BY <1>7
    <3>3. QED
      BY <3>1, <3>2, TryClaimRunOnceAlike, SameIsAlike
  <2>2. CASE c.op = "release_run_once"
    <3>1. MemReply(m, c) = MemReleaseRunOnce(m, c) /\ SqlReply(s, c) = SqlReleaseRunOnce(s, c)
      BY <2>2 DEF MemReply, SqlReply
    <3>2. QED
      BY <2>2, <3>1, ReleaseRunOnceAlike DEF AlikeBut
  <2>3. QED
    BY <1>7, <2>1, <2>2
<1>8. CASE c \in [op : {"find_due"}, id : STRING, parts : SUBSET Nat, now : Nat]
  <2>1. /\ MemReply(m, c) = Reply(m, YesNo(c.id \in MemFindDue(m, c)))
        /\ SqlReply(s, c) = Reply(s, YesNo(c.id \in SqlFindDue(s, c)))
    <3>1. c.op = "find_due"
      BY <1>8
    <3>2. QED
      BY <3>1, Zenon DEF MemReply, SqlReply
  <2>2. c.now \in Nat
    BY <1>8
  <2>3. MemFindDue(m, c) = SqlFindDue(s, c)
    BY <2>2, FindDueAlike
  <2>4. PICK x : MemReply(m, c) = Reply(m, x) /\ SqlReply(s, c) = Reply(s, x)
    BY <2>1, <2>3, Zenon
  <2>5. QED
    BY <2>4, RepliedAlike, SameIsAlike
<1>9. CASE c \in [op : {"due_jobs"}, id : STRING, now : Nat]
  <2>1. /\ MemReply(m, c) = SharedReply(m, c) /\ SqlReply(s, c) = SharedReply(s, c)
        /\ c.op = "due_jobs"
    BY <1>9 DEF MemReply, SqlReply
  <2>2. QED
    BY <2>1, SharedAlike, SameIsAlike DEF Shared
<1>10. CASE c \in [op : {"min_next"}, parts : SUBSET Nat]
  <2>1. /\ MemReply(m, c) = Reply(m, MemMinNext(m, c))
        /\ SqlReply(s, c) = Reply(s, SqlMinNext(s, c))
    BY <1>10 DEF MemReply, SqlReply
  <2>2. QED
    BY <2>1, MinNextAlike, RepliedAlike, SameIsAlike
<1>11. CASE c \in [op : {"append_revision"}, id : STRING, rev : Nat]
  <2>1. MemReply(m, c) = MemAppendRevision(m, c) /\ SqlReply(s, c) = SqlAppendRevision(s, c)
    BY <1>11 DEF MemReply, SqlReply
  <2>2. QED
    BY <2>1, AppendRevisionAlike, SameIsAlike
<1>12. CASE c \in [op : {"list_jobs"}]
  <2>1. /\ MemReply(m, c) = SharedReply(m, c) /\ SqlReply(s, c) = SharedReply(s, c)
        /\ c.op = "list_jobs"
    BY <1>12 DEF MemReply, SqlReply
  <2>2. QED
    BY <2>1, SharedAlike, SameIsAlike DEF Shared
<1>13. QED
  BY <1>1, <1>2, <1>3, <1>4, <1>5, <1>6, <1>7, <1>8, <1>9, <1>10, <1>11, <1>12 DEF JobCalls

LEMMA RunCallAlike ==
  ASSUME NEW m, NEW s, Alike(m, s), NEW c \in RunCalls, c.op = "create_run" => ~Has(s.runs, c.id)
  PROVE  AlikeBut(s, c, MemReply(m, c), SqlReply(s, c))
<1>1. CASE c \in [op : {"create_run"}, id : STRING, row : PortRuns]
  <2>1. /\ MemReply(m, c) = MemCreateRun(m, c) /\ SqlReply(s, c) = SqlCreateRun(s, c)
        /\ c.row \in PortRuns /\ ~Has(s.runs, c.id)
    BY <1>1 DEF MemReply, SqlReply
  <2>2. QED
    BY <2>1, CreateRunAlike, SameIsAlike
<1>2. CASE c \in [op : {"update_run"}, id : STRING, status : RunStatuses, lease : Stamps]
  <2>1. /\ MemReply(m, c) = MemUpdateRun(m, c) /\ SqlReply(s, c) = SqlUpdateRun(s, c)
        /\ c.status \in RunStatuses /\ c.lease \in Stamps
    BY <1>2 DEF MemReply, SqlReply
  <2>2. QED
    BY <2>1, UpdateRunAlike, SameIsAlike
<1>3. CASE c \in [op : {"list_runs"}, job : STRING, status : STRING, offset : Nat, limit : Nat]
  <2>1. /\ MemReply(m, c) = Reply(m, MemListRuns(m, c))
        /\ SqlReply(s, c) = Reply(s, SqlListRuns(s, c))
        /\ c.offset \in Nat /\ c.limit \in Nat
    BY <1>3 DEF MemReply, SqlReply
  <2>2. QED
    BY <2>1, ListRunsAlike, RepliedAlike, SameIsAlike
<1>4. CASE c \in [op : {"claim_next", "claim_by_id"}, id : STRING, pool : STRING, by : Instances,
                  now : Nat, ttl : Nat]
  <2>1. c.by \in Instances /\ c.now \in Nat /\ c.ttl \in Nat
    BY <1>4
  <2>2. CASE c.op = "claim_next"
    <3>1. MemReply(m, c) = MemClaimNext(m, c) /\ SqlReply(s, c) = SqlClaimNext(s, c)
      BY <2>2 DEF MemReply, SqlReply
    <3>2. QED
      BY <2>1, <3>1, ClaimNextAlike, SameIsAlike
  <2>3. CASE c.op = "claim_by_id"
    <3>1. MemReply(m, c) = MemClaimById(m, c) /\ SqlReply(s, c) = SqlClaimById(s, c)
      BY <2>3 DEF MemReply, SqlReply
    <3>2. QED
      BY <2>1, <3>1, ClaimByIdAlike, SameIsAlike
  <2>4. QED
    BY <1>4, <2>2, <2>3
<1>5. CASE c \in [op : {"renew_run"}, id : STRING, by : Instances, now : Nat, ttl : Nat]
  <2>1. /\ MemReply(m, c) = MemRenewRun(m, c) /\ SqlReply(s, c) = SqlRenewRun(s, c)
        /\ c.now \in Nat /\ c.ttl \in Nat
    BY <1>5 DEF MemReply, SqlReply
  <2>2. QED
    BY <2>1, RenewRunAlike, SameIsAlike
<1>6. CASE c \in [op : {"reclaim"}, now : Nat]
  <2>1. MemReply(m, c) = MemReclaim(m, c) /\ SqlReply(s, c) = SqlReclaim(s, c)
    BY <1>6 DEF MemReply, SqlReply
  <2>2. QED
    BY <2>1, ReclaimAlike, SameIsAlike
<1>7. CASE c \in [op : {"get_run"}, id : STRING]
  <2>1. /\ MemReply(m, c) = SharedReply(m, c) /\ SqlReply(s, c) = SharedReply(s, c)
        /\ c.op = "get_run"
    BY <1>7 DEF MemReply, SqlReply
  <2>2. QED
    BY <2>1, SharedAlike, SameIsAlike DEF Shared
<1>8. QED
  BY <1>1, <1>2, <1>3, <1>4, <1>5, <1>6, <1>7 DEF RunCalls

LEMMA RestCallAlike ==
  ASSUME NEW m, NEW s, Alike(m, s), NEW c \in RestCalls
  PROVE  AlikeBut(s, c, MemReply(m, c), SqlReply(s, c))
<1>1. CASE c \in [op : {"acquire_leader", "renew_leader"}, by : Instances, now : Nat, ttl : Nat]
  <2>1. c.by \in Instances /\ c.now \in Nat /\ c.ttl \in Nat
    BY <1>1
  <2>2. CASE c.op = "acquire_leader"
    <3>1. MemReply(m, c) = MemAcquireLeader(m, c) /\ SqlReply(s, c) = SqlAcquireLeader(s, c)
      BY <2>2 DEF MemReply, SqlReply
    <3>2. QED
      BY <2>1, <3>1, AcquireLeaderAlike, SameIsAlike
  <2>3. CASE c.op = "renew_leader"
    <3>1. MemReply(m, c) = MemRenewLeader(m, c) /\ SqlReply(s, c) = SqlRenewLeader(s, c)
      BY <2>3 DEF MemReply, SqlReply
    <3>2. QED
      BY <2>1, <3>1, RenewLeaderAlike, SameIsAlike
  <2>4. QED
    BY <1>1, <2>2, <2>3
<1>2. CASE c \in [op : {"register_worker", "heartbeat"}, id : STRING, now : Nat]
  <2>1. c.now \in Nat
    BY <1>2
  <2>2. CASE c.op = "register_worker"
    <3>1. MemReply(m, c) = SharedReply(m, c) /\ SqlReply(s, c) = SharedReply(s, c)
      BY <2>2 DEF MemReply, SqlReply
    <3>2. QED
      BY <2>1, <2>2, <3>1, SharedAlike, SameIsAlike DEF Shared
  <2>3. CASE c.op = "heartbeat"
    <3>1. MemReply(m, c) = MemHeartbeat(m, c) /\ SqlReply(s, c) = SqlHeartbeat(s, c)
      BY <2>3 DEF MemReply, SqlReply
    <3>2. QED
      BY <2>1, <3>1, HeartbeatAlike, SameIsAlike
  <2>4. QED
    BY <1>2, <2>2, <2>3
<1>3. CASE c.op \in {"get_leader", "list_parts", "upsert_script", "get_script", "assign"}
  <2>1. MemReply(m, c) = SharedReply(m, c) /\ SqlReply(s, c) = SharedReply(s, c)
    BY <1>3 DEF MemReply, SqlReply
  <2>2. QED
    BY <1>3, <2>1, SharedAlike, SameIsAlike DEF Shared
<1>4. QED
  BY <1>1, <1>2, <1>3 DEF RestCalls

----------------------------------------------------------------------------
LEMMA AdaptersKeep ==
  ASSUME Alike(mem, sql), [\E c \in PortCalls : OnBoth(c)]_<<mem, sql>>
  PROVE  Alike(mem, sql)'
<1>1. CASE \E c \in PortCalls : OnBoth(c)
  <2>1. PICK c \in PortCalls : OnBoth(c)
    BY <1>1
  <2>2. AlikeBut(sql, c, MemReply(mem, c), SqlReply(sql, c))
    BY JobCallAlike, RunCallAlike, RestCallAlike DEF PortCalls
  <2>3. mem' = MemReply(mem, c).store /\ sql' = SqlReply(sql, c).store
    BY <2>1 DEF OnBoth, Delegated
  <2>4. Alike(mem', sql')
    BY <2>2, <2>3 DEF AlikeBut
  <2>5. QED
    BY <2>4 DEF Alike, IsStore, JobsOk, RunsOk, LeaderOk, WorkersOk
<1>2. CASE UNCHANGED <<mem, sql>>
  BY <1>2 DEF Alike, IsStore, JobsOk, RunsOk, LeaderOk, WorkersOk
<1>3. QED
  BY <1>1, <1>2

LEMMA AdaptersStart == Alike(Empty, Empty)
<1>1. PICK e : e = <<>>
  OBVIOUS
<1>2. JobsOk(e, e) /\ RunsOk(e) /\ LeaderOk(e) /\ WorkersOk(e)
  <2>1. DOMAIN e = {}
    BY <1>1
  <2>2. e \in [{} -> PortJobs] /\ e \in [{} -> PortRuns] /\ e \in [{} -> Nat]
        /\ e \in [{} -> STRING] /\ e \in [{} -> [by : Instances, until : Nat]]
    BY <1>1
  <2>3. QED
    BY <2>1, <2>2, FS_EmptySet DEF JobsOk, RunsOk, LeaderOk, WorkersOk
<1>3. Alike(StoreOf(e, e, e, e, e, e, e, e), StoreOf(e, <<>>, e, e, e, e, e, e))
  BY <1>2, AlikeTables
<1>4. QED
  BY <1>1, <1>3 DEF Empty, StoreOf

LEMMA AlikeAgree ==
  ASSUME Alike(mem, sql)
  PROVE  /\ AdaptersAgree
         /\ \A c \in PortCalls : c.op # "list_revisions" => AnsweredAlike(c)
<1>1. AdaptersAgree
  <2>1. sql = [mem EXCEPT !.names = <<>>] /\ JobsOk(mem.jobs, mem.names)
    BY DEF Alike
  <2>2. NameIndexExact
    BY <2>1 DEF NameIndexExact, JobsOk, Has
  <2>3. QED
    BY <2>1, <2>2, Zenon DEF AdaptersAgree
<1>2. ASSUME NEW c \in PortCalls, c.op # "list_revisions"
      PROVE  AnsweredAlike(c)
  <2>1. AlikeBut(sql, c, MemReply(mem, c), SqlReply(sql, c))
    BY JobCallAlike, RunCallAlike, RestCallAlike DEF PortCalls
  <2>2. QED
    BY <1>2, <2>1 DEF AlikeBut, AnsweredAlike, Blind, Delegated
<1>3. QED
  BY <1>1, <1>2

(* However many calls were made before, with whatever arguments, the       *)
(* in-memory store and the SQL store hold the same rows, the name index is *)
(* the inverse of the job table, and whatever is called next is answered   *)
(* alike, but for the calls on a job that is gone and the order in which   *)
(* revisions are listed (SchedulerStore of InMemorySchedulerStore and of   *)
(* SqlSchedulerStore).                                                     *)
THEOREM AdaptersAgreeCorrect ==
  AdapterSpec =>
    [](AdaptersAgree /\ \A c \in PortCalls : c.op # "list_revisions" => AnsweredAlike(c))
<1>1. mem = Empty /\ sql = Empty => Alike(mem, sql)
  BY AdaptersStart
<1>2. Alike(mem, sql) /\ [\E c \in PortCalls : OnBoth(c)]_<<mem, sql>> => Alike(mem, sql)'
  BY AdaptersKeep
<1>3. Alike(mem, sql)
        => AdaptersAgree /\ \A c \in PortCalls : c.op # "list_revisions" => AnsweredAlike(c)
  BY AlikeAgree
<1>4. QED
  BY <1>1, <1>2, <1>3, PTL DEF AdapterSpec
=============================================================================
