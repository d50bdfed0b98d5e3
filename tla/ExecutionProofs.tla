-------------------------- MODULE ExecutionProofs --------------------------
(***************************************************************************)
(* Proofs about Execution, for every number of runs, tasks and slots,      *)
(* every number of permits and every capacity of the channel: executions   *)
(* and rows account for each other, and a run that was never reclaimed     *)
(* ends once.                                                              *)
(***************************************************************************)
EXTENDS Execution, FiniteSetTheorems, SequenceTheorems, TLAPS

----------------------------------------------------------------------------
(* The inductive invariant.                                                *)

Spawned == [at : {"none", "permit", "start", "running", "panicked", "report", "done"},
            run : RunIds \cup {NoRun}, row : Row]
Event == [kind : {"started", "success", "failed"}, run : RunIds]
Consumer == [at : {"idle", "write", "retry"}, kind : {"none", "started", "success", "failed"},
             run : RunIds \cup {NoRun}, row : Row]
Working == [at : {"idle", "claimed", "running", "retry"}, run : RunIds \cup {NoRun}, row : Row]

(* A task that has not said that it started, and one that has and has not  *)
(* reported (and never will, if its script panicked).                      *)
Early(t) == task[t].at \in {"permit", "start"}
Late(t) == task[t].at \in {"running", "panicked", "report"}

LoopTypes ==
    /\ shape \in Shapes /\ handling \in {"no", "on", "over"}
    /\ main \in {"unstarted", "waiting", "returned", "refused"}
    /\ reclaimer \in {"none", "waiting", "stopped"}

TaskTypes ==
    /\ task \in [Tasks -> Spawned]
    /\ IsFiniteSet(InFlight) /\ Cardinality(InFlight) <= MaxInFlight
    /\ \A t \in Tasks : /\ task[t].run = NoRun <=> task[t].at \in {"none", "done"}
                        /\ task[t].at = "report" => task[t].row.status \in {"success", "failed"}

ChannelTypes == channel \in Seq(Event) /\ Len(channel) <= Capacity

HandlerTypes ==
    /\ handler \in Consumer /\ (handler.at = "idle" <=> handler = Quiet)
    /\ handler.at # "idle" => handler.run \in RunIds /\ handler.kind # "none"

SlotTypes ==
    /\ slot \in [Slots -> Working]
    /\ \A s \in Slots : /\ slot[s].at = "idle" <=> slot[s] = Idle
                        /\ slot[s].at # "idle" => slot[s].run \in RunIds /\ slot[s].row.by = s

HistoryTypes ==
    /\ orphans \subseteq RunIds /\ faults \in 0..MaxFaults
    /\ reclaimed \in [RunIds -> BOOLEAN] /\ root \in [RunIds -> RunIds]

Types ==
    /\ LoopTypes /\ TaskTypes /\ ChannelTypes /\ HandlerTypes /\ SlotTypes /\ HistoryTypes
    /\ table \in [RunIds -> Row]

(* The events of a run on their way to the consumer. *)
Events(r) == {i \in 1..Len(channel) : channel[i].run = r}
Outcome(i) == channel[i].kind # "started"

(* What the executor has to do with a run that is not ended: it is held in *)
(* the host's name.                                                        *)
HostOk(r) ==
    \/ \E t \in Tasks : task[t].run = r
    \/ Events(r) # {}
    \/ handler.run = r /\ handler.at = "write"
    => Held(table[r]) /\ table[r].by = Host

(* One task executes a run; it has sent nothing before it started, and no  *)
(* outcome before its end.                                                 *)
TaskOk(r) ==
    \A t \in Tasks : task[t].run = r =>
        /\ \A u \in Tasks : task[u].run = r => u = t
        /\ Early(t) => Events(r) = {} /\ handler.run # r
        /\ Late(t) => /\ \A i \in Events(r) : ~Outcome(i)
                      /\ handler.run = r => handler.kind = "started"

(* An outcome is the last event of its run, and comes after a start. *)
EventOk(r) ==
    /\ \A i \in Events(r) : Outcome(i) => \A k \in Events(r) : k <= i
    /\ \A i \in Events(r) : ~Outcome(i) =>
         \/ \E t \in Tasks : task[t].run = r /\ Late(t)
         \/ \E k \in Events(r) : Outcome(k)

(* Nothing is on its way once the consumer is gone. *)
ClosedOk == handling = "over" => channel = <<>> /\ handler.at = "idle" /\ faults > 0

(* The row the consumer read is the row it writes over. *)
HandlerOk(r) ==
    handler.run = r =>
        /\ handler.row = table[r]
        /\ handler.at = "write" /\ handler.kind = "started" =>
             /\ table[r].status = "claimed"
             /\ \/ \E t \in Tasks : task[t].run = r /\ Late(t)
                \/ \E k \in Events(r) : Outcome(k)
        /\ handler.at = "write" /\ handler.kind # "started" =>
             /\ table[r].status = "running" /\ Events(r) = {}
             /\ \A t \in Tasks : task[t].run # r
        /\ handler.at = "retry" => table[r].status \in Terminal

(* One slot has a run, and then nobody else: it holds the run, or has just *)
(* ended it.                                                               *)
SlotOk(r) ==
    \A s \in Slots : slot[s].run = r =>
        /\ slot[s].at \in {"claimed", "running"} => Held(table[r]) /\ table[r].by = s
        /\ slot[s].at = "retry" => table[r].status \in Terminal
        /\ handler.run # r
        /\ \A u \in Slots : slot[u].run = r => u = s

(* A running row of the host's has an execution, or its outcome is coming. *)
RunningOk(r) ==
    table[r].status = "running" /\ table[r].by = Host /\ faults = 0 =>
        \/ \E t \in Tasks : task[t].run = r /\ Late(t)
        \/ \E i \in Events(r) : Outcome(i)
        \/ handler.run = r

RunOk(r) ==
    HostOk(r) /\ TaskOk(r) /\ EventOk(r) /\ HandlerOk(r) /\ SlotOk(r) /\ RunningOk(r)

(* A run that is not over: it may still be executed, or be retried. *)
Live(r) ==
    \/ table[r].status \in {"queued", "claimed", "running"}
    \/ handler.run = r /\ handler.at = "retry"
    \/ \E s \in Slots : slot[s].run = r /\ slot[s].at = "retry"

(* No attempt of this chain was ever reclaimed. *)
Undisturbed(r0) == \A r \in RunIds : root[r] = r0 => ~reclaimed[r]

(* One attempt of a chain is not over. *)
ChainOk ==
    \A r, q \in RunIds :
        root[r] = root[q] /\ Undisturbed(root[r]) /\ Live(r) /\ Live(q) => r = q

ExecInv ==
    /\ Types
    /\ \A r \in RunIds : /\ ~reclaimed[r] => RunOk(r)
                         /\ table[r].status = "none" => ~reclaimed[r]
    /\ ChainOk

----------------------------------------------------------------------------
(* Rows and hands.                                                         *)

(* A row that is not there. *)
LEMMA BlankType ==
  /\ Blank \in Row /\ Blank.status = "none" /\ Blank.by = Nobody
  /\ NoTask \in Spawned /\ NoTask.at = "none" /\ NoTask.run = NoRun
  /\ Idle \in Working /\ Idle.at = "idle" /\ Idle.run = NoRun
  /\ Quiet \in Consumer /\ Quiet.at = "idle" /\ Quiet.run = NoRun
<1>1. (CHOOSE s \in Scripts : TRUE) \in Scripts
  BY SetsAssumption
<1>2. Blank \in Row /\ Blank.status = "none" /\ Blank.by = Nobody
  BY <1>1 DEF Blank, ForJob, Row
<1>3. NoTask \in Spawned /\ NoTask.at = "none" /\ NoTask.run = NoRun
  BY <1>2 DEF NoTask, Spawned
<1>4. Idle \in Working /\ Idle.at = "idle" /\ Idle.run = NoRun
  BY <1>2 DEF Idle, Working
<1>5. Quiet \in Consumer /\ Quiet.at = "idle" /\ Quiet.run = NoRun
  BY <1>2 DEF Quiet, Consumer
<1>6. QED
  BY <1>2, <1>3, <1>4, <1>5

(* A new run is queued. *)
LEMMA ForJobType ==
  ASSUME NEW script \in Scripts, NEW n \in Nat
  PROVE  ForJob(script, n) \in Row /\ ForJob(script, n).status = "queued"
BY DEF ForJob, Row

(* A claimed run has its claimant. *)
LEMMA TakenType ==
  ASSUME NEW row \in Row, NEW who \in Slots \cup {Host}
  PROVE  /\ Taken(row, who) \in Row /\ Taken(row, who).status = "claimed"
         /\ Taken(row, who).by = who
BY DEF Taken, Row

(* A row with another status keeps its claimant. *)
LEMMA StatusType ==
  ASSUME NEW row \in Row, NEW status \in {"running"} \cup Terminal
  PROVE  LET new == [row EXCEPT !.status = status]
         IN  new \in Row /\ new.status = status /\ new.by = row.by
BY DEF Row, Terminal

(* A new id is not in the table. *)
LEMMA NewId ==
  ASSUME Unused # {}
  PROVE  NewRunId \in RunIds /\ table[NewRunId].status = "none"
<1>1. NewRunId \in Unused
  BY DEF NewRunId
<1>2. QED
  BY <1>1 DEF Unused

(* The channel takes events at its end (mpsc::Sender::send). *)
LEMMA SendEffect ==
  ASSUME ChannelTypes, NEW kind \in {"started", "success", "failed"}, NEW r \in RunIds, Send(kind, r)
  PROVE  /\ ChannelTypes' /\ Len(channel) \in Nat /\ Len(channel') = Len(channel) + 1
         /\ channel'[Len(channel) + 1].kind = kind /\ channel'[Len(channel) + 1].run = r
         /\ \A i \in 1..Len(channel) : channel'[i] = channel[i]
<1> DEFINE e == [kind |-> kind, run |-> r]
<1>1. e \in Event /\ e.kind = kind /\ e.run = r
  BY DEF Event
<1>2. channel' = Append(channel, e) /\ Len(channel) < Capacity
  BY DEF Send
<1> HIDE DEF e
<1>3. channel \in Seq(Event)
  BY DEF ChannelTypes
<1>4. /\ channel' \in Seq(Event) /\ Len(channel') = Len(channel) + 1
      /\ \A i \in 1..Len(channel) : channel'[i] = channel[i]
      /\ channel'[Len(channel) + 1] = e
  BY <1>1, <1>2, <1>3, AppendProperties
<1>5. Len(channel) \in Nat
  BY <1>3, LenProperties
<1>6. QED
  BY <1>1, <1>2, <1>4, <1>5, NumbersAssumption DEF ChannelTypes

(* The channel gives events from its head; the others move up by one. *)
LEMMA ReceiveEffect ==
  ASSUME ChannelTypes, channel # <<>>, channel' = Tail(channel)
  PROVE  /\ ChannelTypes' /\ Len(channel) \in Nat \ {0} /\ Len(channel') = Len(channel) - 1
         /\ Head(channel) = channel[1] /\ channel[1] \in Event
         /\ \A i \in 1..Len(channel') : channel'[i] = channel[i + 1]
<1>1. channel \in Seq(Event) /\ Len(channel) <= Capacity
  BY DEF ChannelTypes
<1>2. /\ channel' \in Seq(Event) /\ Len(channel') = Len(channel) - 1
      /\ \A i \in 1..Len(channel') : channel'[i] = channel[i + 1]
      /\ Head(channel) = channel[1]
  BY <1>1, HeadTailProperties
<1>3. Len(channel) \in Nat \ {0}
  BY <1>1, LenProperties, EmptySeq
<1>4. channel[1] \in Event
  BY <1>1, <1>3, ElementOfSeq
<1>5. QED
  BY <1>1, <1>2, <1>3, <1>4, NumbersAssumption DEF ChannelTypes

(* A task moves on; the others do not. *)
LEMMA TaskMoves ==
  ASSUME TaskTypes, NEW t \in Tasks, NEW new \in Spawned, task' = [task EXCEPT ![t] = new],
         new.run = NoRun <=> new.at \in {"none", "done"},
         new.at = "report" => new.row.status \in {"success", "failed"},
         new.at \in {"start", "running", "report"} =>
             \/ task[t].at \in {"start", "running", "report"}
             \/ Cardinality(InFlight) < MaxInFlight
  PROVE  /\ TaskTypes' /\ task'[t] = new
         /\ \A u \in Tasks : u # t => task'[u] = task[u]
<1>1. /\ task' \in [Tasks -> Spawned] /\ task'[t] = new
      /\ \A u \in Tasks : u # t => task'[u] = task[u]
  BY DEF TaskTypes
<1>2. IsFiniteSet(InFlight) /\ Cardinality(InFlight) <= MaxInFlight /\ Cardinality(InFlight) \in Nat
  BY FS_CardinalityType DEF TaskTypes
<1>3. IsFiniteSet(InFlight') /\ Cardinality(InFlight') <= MaxInFlight
  <2>1. CASE InFlight' \subseteq InFlight
    <3>1. IsFiniteSet(InFlight') /\ Cardinality(InFlight') <= Cardinality(InFlight)
      BY <1>2, <2>1, FS_Subset
    <3>2. Cardinality(InFlight') \in Nat
      BY <3>1, FS_CardinalityType
    <3>3. QED
      BY <1>2, <3>1, <3>2, NumbersAssumption
  <2>2. CASE ~(InFlight' \subseteq InFlight)
    <3>1. InFlight' = InFlight \cup {t} /\ t \notin InFlight /\ Cardinality(InFlight) < MaxInFlight
      BY <1>1, <2>2 DEF InFlight
    <3>2. IsFiniteSet(InFlight') /\ Cardinality(InFlight') = Cardinality(InFlight) + 1
      BY <1>2, <3>1, FS_AddElement
    <3>3. QED
      BY <1>2, <3>1, <3>2, NumbersAssumption
  <2>3. QED
    BY <2>1, <2>2
<1>4. QED
  BY <1>1, <1>3 DEF TaskTypes

(* A slot moves on; the others do not. *)
LEMMA SlotMoves ==
  ASSUME SlotTypes, NEW s \in Slots, NEW new \in Working, slot' = [slot EXCEPT ![s] = new],
         new.at = "idle" <=> new = Idle,
         new.at # "idle" => new.run \in RunIds /\ new.row.by = s
  PROVE  /\ SlotTypes' /\ slot'[s] = new
         /\ \A u \in Slots : u # s => slot'[u] = slot[u]
BY DEF SlotTypes

(* The types are what TypeOK says. *)
LEMMA TypesOk ==
  ASSUME Types
  PROVE  TypeOK
<1>1. handler.at \in {"idle", "write", "retry"} /\ handler.row \in Row
  BY DEF Types, HandlerTypes, Consumer
<1>2. \A s \in Slots : slot[s].row \in Row
  BY DEF Types, SlotTypes, Working
<1>3. QED
  BY <1>1, <1>2 DEF Types, LoopTypes, TaskTypes, ChannelTypes, HistoryTypes, TypeOK

----------------------------------------------------------------------------
(* Runs a step has nothing to do with.                                     *)

(* A run stays in order when a step changes nothing about it; its events   *)
(* may have moved up by one (d).                                           *)
LEMMA RunFrame ==
  ASSUME NEW r \in RunIds, RunOk(r), NEW d \in {0, 1},
         table'[r].status = table[r].status, table'[r].by = table[r].by,
         \A t \in Tasks : /\ task'[t].run = r <=> task[t].run = r
                          /\ task[t].run = r => (Early(t)' <=> Early(t)) /\ (Late(t)' <=> Late(t)),
         \A i \in Int : /\ i \in Events(r)' <=> i + d \in Events(r)
                        /\ i \in Events(r)' => (Outcome(i)' <=> Outcome(i + d)),
         handler'.run = r <=> handler.run = r,
         handler.run = r => /\ handler'.at = handler.at /\ handler'.kind = handler.kind
                            /\ handler.row = table[r] => handler'.row = table'[r],
         \A s \in Slots : /\ slot'[s].run = r <=> slot[s].run = r
                          /\ slot[s].run = r => slot'[s].at = slot[s].at,
         faults' = 0 => faults = 0
  PROVE  RunOk(r)'
<1>1. HostOk(r) /\ TaskOk(r) /\ EventOk(r) /\ HandlerOk(r) /\ SlotOk(r) /\ RunningOk(r)
  BY DEF RunOk
<1>2. Events(r) \subseteq Int /\ Events(r)' \subseteq Int
  BY DEF Events
<1>3. Events(r)' = {} <=> Events(r) = {}
  <2>1. \A k \in Events(r) : k - d \in Int /\ (k - d) + d = k
    BY <1>2
  <2>2. QED
    BY <1>2, <2>1
<1>4. /\ (\E k \in Events(r) : Outcome(k)) <=> (\E k \in Events(r) : Outcome(k))'
      /\ (\E t \in Tasks : task[t].run = r /\ Late(t)) <=> (\E t \in Tasks : task[t].run = r /\ Late(t))'
  BY <1>2
<1>5. HostOk(r)'
  BY <1>1, <1>3 DEF HostOk, Held
<1>6. TaskOk(r)'
  BY <1>1, <1>2, <1>3 DEF TaskOk
<1>7. EventOk(r)'
  <2>1. \A i \in Events(r)' : Outcome(i)' => \A k \in Events(r)' : k <= i
    BY <1>1, <1>2 DEF EventOk
  <2>2. \A i \in Events(r)' : ~Outcome(i)' =>
          \/ \E t \in Tasks : task[t].run = r /\ Late(t)
          \/ \E k \in Events(r) : Outcome(k)
    BY <1>1, <1>2 DEF EventOk
  <2>3. QED
    BY <1>4, <2>1, <2>2 DEF EventOk
<1>8. HandlerOk(r)'
  BY <1>1, <1>3, <1>4 DEF HandlerOk
<1>9. SlotOk(r)'
  BY <1>1 DEF SlotOk, Held
<1>10. RunningOk(r)'
  BY <1>1, <1>4 DEF RunningOk
<1>11. QED
  BY <1>5, <1>6, <1>7, <1>8, <1>9, <1>10 DEF RunOk

(* A run nobody has anything to do with. *)
Loose(r) ==
    /\ \A t \in Tasks : task[t].run # r
    /\ Events(r) = {} /\ handler.run # r
    /\ \A s \in Slots : slot[s].run # r

(* A run that is queued, or not there yet, is loose until it is reclaimed. *)
LEMMA QueuedIsLoose ==
  ASSUME Types, NEW r \in RunIds, RunOk(r), table[r].status \in {"none", "queued"}
  PROVE  Loose(r)
<1>1. ~Held(table[r]) /\ table[r].status \notin Terminal
  BY DEF Held, Terminal
<1>2. \A t \in Tasks : task[t].run # r
  BY <1>1 DEF RunOk, HostOk
<1>3. Events(r) = {} /\ ~(handler.run = r /\ handler.at = "write")
  BY <1>1 DEF RunOk, HostOk
<1>4. handler.run # r
  <2>1. NoRun # r /\ Quiet.run = NoRun
    BY SetsAssumption, BlankType
  <2>2. handler.at \in {"idle", "write", "retry"} /\ (handler.at = "idle" => handler = Quiet)
    BY DEF Types, HandlerTypes, Consumer
  <2>3. handler.run = r /\ handler.at = "retry" => table[r].status \in Terminal
    BY DEF RunOk, HandlerOk
  <2>4. QED
    BY <1>1, <1>3, <2>1, <2>2, <2>3
<1>5. \A s \in Slots : slot[s].run # r
  <2>1. NoRun # r /\ Idle.run = NoRun
    BY SetsAssumption, BlankType
  <2>2. \A s \in Slots : /\ slot[s].at \in {"idle", "claimed", "running", "retry"}
                         /\ slot[s].at = "idle" => slot[s] = Idle
    BY DEF Types, SlotTypes, Working
  <2>3. QED
    BY <1>1, <2>1, <2>2 DEF RunOk, SlotOk
<1>6. QED
  BY <1>2, <1>3, <1>4, <1>5 DEF Loose

(* A loose run that the host has not marked running is in order. *)
LEMMA LooseIsOk ==
  ASSUME NEW r \in RunIds, Loose(r)', ~(table'[r].status = "running" /\ table'[r].by = Host)
  PROVE  RunOk(r)'
BY DEF Loose, RunOk, HostOk, TaskOk, EventOk, HandlerOk, SlotOk, RunningOk

(* Chains: a step that makes no run live, and no new run. *)
LEMMA ChainFrame ==
  ASSUME HistoryTypes, ChainOk, root' = root,
         \A r \in RunIds : ~reclaimed'[r] => ~reclaimed[r] /\ (Live(r)' => Live(r))
  PROVE  ChainOk'
<1>1. ASSUME NEW r \in RunIds, NEW q \in RunIds, root'[r] = root'[q], Undisturbed(root[r])',
             Live(r)', Live(q)'
      PROVE  r = q
  <2>1. \A x \in RunIds : root[x] = root[r] => ~reclaimed'[x]
    BY <1>1 DEF Undisturbed
  <2>2. Undisturbed(root[r]) /\ Live(r) /\ Live(q)
    BY <1>1, <2>1 DEF Undisturbed
  <2>3. QED
    BY <1>1, <2>2 DEF ChainOk
<1>2. QED
  BY <1>1 DEF ChainOk

(* A run that is retried: the new attempt takes its place. *)
LEMMA ChainGrows ==
  ASSUME ExecInv, NEW r \in RunIds, NEW q \in RunIds, table[q].status = "none", q # r,
         root' = [root EXCEPT ![q] = root[r]], reclaimed' = reclaimed,
         \A x \in RunIds : x # q /\ ~reclaimed[x] /\ Live(x)' => Live(x),
         ~reclaimed[r] => Live(r) /\ ~Live(r)'
  PROVE  ChainOk'
<1>1. /\ root \in [RunIds -> RunIds] /\ ~reclaimed[q]
  BY DEF ExecInv, Types, HistoryTypes
<1>2. root'[q] = root[r] /\ \A x \in RunIds : x # q => root'[x] = root[x]
  BY <1>1
<1>3. ASSUME NEW x \in RunIds, Undisturbed(root[x])'
      PROVE  \A z \in RunIds : root[z] = root'[x] => ~reclaimed[z]
  BY <1>1, <1>2, <1>3 DEF Undisturbed
<1>4. ASSUME NEW y \in RunIds, y # q, root[y] = root[r], Undisturbed(root[q])', Live(y)'
      PROVE  FALSE
  <2>1. \A z \in RunIds : root[z] = root[r] => ~reclaimed[z]
    BY <1>2, <1>3, <1>4
  <2>2. Undisturbed(root[r]) /\ ~reclaimed[r] /\ ~reclaimed[y]
    BY <1>4, <2>1 DEF Undisturbed
  <2>3. Live(r) /\ Live(y)
    BY <1>4, <2>2
  <2>4. y = r
    BY <1>4, <2>2, <2>3 DEF ExecInv, ChainOk
  <2>5. QED
    BY <1>4, <2>2, <2>4
<1>5. ASSUME NEW x \in RunIds, NEW y \in RunIds, root'[x] = root'[y], Undisturbed(root[x])',
             Live(x)', Live(y)'
      PROVE  x = y
  <2>1. Undisturbed(root[y])'
    BY <1>5
  <2>2. CASE x = q
    BY <1>2, <1>4, <1>5, <2>2
  <2>3. CASE y = q
    BY <1>2, <1>4, <1>5, <2>1, <2>3
  <2>4. CASE x # q /\ y # q
    <3>1. \A z \in RunIds : root[z] = root[x] => ~reclaimed[z]
      BY <1>2, <1>3, <1>5, <2>4
    <3>2. root[x] = root[y] /\ Undisturbed(root[x])
      BY <1>2, <1>5, <2>4, <3>1 DEF Undisturbed
    <3>3. Live(x) /\ Live(y)
      BY <1>5, <2>4, <3>1, <3>2
    <3>4. QED
      BY <3>2, <3>3 DEF ExecInv, ChainOk
  <2>5. QED
    BY <2>2, <2>3, <2>4
<1>6. QED
  BY <1>5 DEF ChainOk

(* The same when no event is sent or received. *)
LEMMA RunStays ==
  ASSUME NEW r \in RunIds, RunOk(r), channel' = channel,
         table'[r].status = table[r].status, table'[r].by = table[r].by,
         \A t \in Tasks : /\ task'[t].run = r <=> task[t].run = r
                          /\ task[t].run = r => (Early(t)' <=> Early(t)) /\ (Late(t)' <=> Late(t)),
         handler'.run = r <=> handler.run = r,
         handler.run = r => /\ handler'.at = handler.at /\ handler'.kind = handler.kind
                            /\ handler.row = table[r] => handler'.row = table'[r],
         \A s \in Slots : /\ slot'[s].run = r <=> slot[s].run = r
                          /\ slot[s].run = r => slot'[s].at = slot[s].at,
         faults' = 0 => faults = 0
  PROVE  RunOk(r)'
<1>1. \A i \in Int : i + 0 = i
  OBVIOUS
<1>2. Events(r)' = Events(r) /\ \A i \in Int : Outcome(i)' <=> Outcome(i)
  BY DEF Events, Outcome
<1>3. 0 \in {0, 1}
  OBVIOUS
<1>4. \A i \in Int : /\ i \in Events(r)' <=> i + 0 \in Events(r)
                     /\ i \in Events(r)' => (Outcome(i)' <=> Outcome(i + 0))
  BY <1>1, <1>2
<1>5. QED
  BY <1>3, <1>4, RunFrame

(* Steps that leave every run where it is. *)
LEMMA NothingMoves ==
  ASSUME ExecInv, Types', root' = root, reclaimed' = reclaimed, channel' = channel, slot' = slot,
         faults' = faults,
         \A r \in RunIds : table'[r].status = table[r].status /\ table'[r].by = table[r].by,
         \A t \in Tasks : /\ task'[t].run = task[t].run
                          /\ (Early(t)' <=> Early(t)) /\ (Late(t)' <=> Late(t)),
         handler'.run = handler.run, handler'.at = handler.at, handler'.kind = handler.kind,
         \A r \in RunIds : handler.run = r /\ handler.row = table[r] => handler'.row = table'[r]
  PROVE  ExecInv'
<1>1. ASSUME NEW r \in RunIds
      PROVE  /\ ~reclaimed'[r] => RunOk(r)'
             /\ table'[r].status = "none" => ~reclaimed'[r]
             /\ Live(r)' => Live(r)
  <2>1. RunOk(r) => RunOk(r)'
    BY RunStays
  <2>2. Live(r)' => Live(r)
    BY DEF Live
  <2>3. QED
    BY <2>1, <2>2 DEF ExecInv
<1>2. ChainOk'
  BY <1>1, ChainFrame DEF ExecInv, Types
<1>3. QED
  BY <1>1, <1>2 DEF ExecInv

(* The start and the end of the loops, and the end of an orphan. *)
LEMMA LoopsKeep ==
  ASSUME ExecInv, Run \/ Shutdown \/ \E r \in RunIds : OrphanEnds(r)
  PROVE  ExecInv'
<1>1. UNCHANGED <<table, task, channel, handler, slot, faults, reclaimed, root>>
  BY DEF Run, Shutdown, OrphanEnds, history
<1>2. Types
  BY DEF ExecInv
<1>3. LoopTypes' /\ orphans' \subseteq RunIds
  BY <1>2 DEF Types, LoopTypes, HistoryTypes, Run, Shutdown, OrphanEnds, loopVars
<1>4. InFlight' = InFlight
  BY <1>1 DEF InFlight
<1>5. TaskTypes' /\ ChannelTypes' /\ HandlerTypes' /\ SlotTypes' /\ HistoryTypes'
  BY <1>1, <1>2, <1>3, <1>4 DEF Types, TaskTypes, ChannelTypes, HandlerTypes, SlotTypes, HistoryTypes
<1>6. Types'
  BY <1>1, <1>2, <1>3, <1>5 DEF Types
<1>7. \A t \in Tasks : (Early(t)' <=> Early(t)) /\ (Late(t)' <=> Late(t))
  BY <1>1 DEF Early, Late
<1>8. QED
  BY <1>1, <1>6, <1>7, NothingMoves

(* A lease lapses: the consumer's copy goes with the row. *)
LEMMA LapseKeeps ==
  ASSUME ExecInv, NEW r \in RunIds, Lapse(r)
  PROVE  ExecInv'
<1>1. Types /\ table \in [RunIds -> Row] /\ table[r] \in Row
  BY DEF ExecInv, Types
<1> DEFINE new == [table[r] EXCEPT !.lapsed = TRUE]
<1>2. new \in Row /\ new.status = table[r].status /\ new.by = table[r].by
  BY <1>1 DEF Row
<1>3. table' = [table EXCEPT ![r] = new]
  BY DEF Lapse
<1> DEFINE hand == [handler EXCEPT !.row.lapsed = TRUE]
<1>4. handler \in Consumer /\ handler.row \in Row
  BY <1>1 DEF Types, HandlerTypes, Consumer
<1> DEFINE copy == [handler.row EXCEPT !.lapsed = TRUE]
<1>5. copy \in Row
  BY <1>4 DEF Row
<1>6. hand \in Consumer /\ hand.at = handler.at /\ hand.kind = handler.kind /\ hand.run = handler.run
      /\ hand.row = copy
  BY <1>4, <1>5 DEF Consumer
<1>7. handler' = IF handler.run = r THEN hand ELSE handler
  BY DEF Lapse
<1>8. handler.row = table[r] => copy = new
  OBVIOUS
<1> HIDE DEF new, hand, copy
<1>9. table' \in [RunIds -> Row] /\ table'[r] = new /\ \A q \in RunIds : q # r => table'[q] = table[q]
  BY <1>1, <1>2, <1>3
<1>10. UNCHANGED <<loopVars, task, channel, slot, orphans, faults, history>>
  BY DEF Lapse
<1>11. InFlight' = InFlight
  BY <1>10 DEF InFlight
<1>12. HandlerTypes'
  <2>1. CASE handler.run = r
    <3>1. handler.at # "idle"
      BY <1>1, <2>1, SetsAssumption, BlankType DEF Types, HandlerTypes
    <3>2. hand # Quiet
      BY <1>6, <3>1, BlankType
    <3>3. QED
      BY <1>1, <1>6, <1>7, <2>1, <3>1, <3>2 DEF Types, HandlerTypes
  <2>2. CASE handler.run # r
    BY <1>1, <1>7, <2>2 DEF Types, HandlerTypes
  <2>3. QED
    BY <2>1, <2>2
<1>13. Types'
  BY <1>1, <1>9, <1>10, <1>11, <1>12 DEF Types, LoopTypes, TaskTypes, ChannelTypes, SlotTypes,
     HistoryTypes, loopVars, history
<1>14. \A q \in RunIds : table'[q].status = table[q].status /\ table'[q].by = table[q].by
  BY <1>2, <1>9
<1>15. \A t \in Tasks : (Early(t)' <=> Early(t)) /\ (Late(t)' <=> Late(t))
  BY <1>10 DEF Early, Late
<1>16. handler'.run = handler.run /\ handler'.at = handler.at /\ handler'.kind = handler.kind
  BY <1>6, <1>7
<1>17. \A q \in RunIds : handler.run = q /\ handler.row = table[q] => handler'.row = table'[q]
  BY <1>6, <1>7, <1>8, <1>9
<1>18. QED
  BY <1>10, <1>13, <1>14, <1>15, <1>16, <1>17, NothingMoves DEF history

----------------------------------------------------------------------------
(* The queue and the executor's tasks.                                     *)

(* Somebody enqueues the first run. *)
LEMMA EnqueueKeeps ==
  ASSUME ExecInv, NEW script \in Scripts, Enqueue(script)
  PROVE  ExecInv'
<1>1. Types /\ table \in [RunIds -> Row]
  BY DEF ExecInv, Types
<1>2. \A r \in RunIds : table[r].status = "none"
  BY DEF Enqueue, Unused
<1> DEFINE new == ForJob(script, 1)
<1>3. new \in Row /\ new.status = "queued"
  BY ForJobType
<1>4. table' = [table EXCEPT ![NewRunId] = new]
  BY DEF Enqueue
<1> HIDE DEF new
<1>5. UNCHANGED <<loopVars, task, channel, handler, slot, orphans, faults, history>>
  BY DEF Enqueue
<1>6. /\ table' \in [RunIds -> Row]
      /\ \A r \in RunIds : (table'[r] = new /\ r = NewRunId) \/ table'[r] = table[r]
  BY <1>1, <1>3, <1>4
<1>7. InFlight' = InFlight
  BY <1>5 DEF InFlight
<1>8. Types'
  BY <1>1, <1>5, <1>6, <1>7 DEF Types, LoopTypes, TaskTypes, ChannelTypes, HandlerTypes, SlotTypes,
     HistoryTypes, loopVars, history
<1>9. ASSUME NEW r \in RunIds
      PROVE  ~reclaimed'[r] /\ Loose(r)' /\ RunOk(r)'
  <2>1. ~reclaimed[r] /\ RunOk(r)
    BY <1>2 DEF ExecInv
  <2>2. Loose(r)
    BY <1>1, <1>2, <2>1, QueuedIsLoose
  <2>3. Loose(r)'
    BY <1>5, <2>2 DEF Loose, Events
  <2>4. table'[r].status # "running"
    BY <1>2, <1>3, <1>6
  <2>5. QED
    BY <1>5, <2>1, <2>3, <2>4, LooseIsOk DEF history
<1>10. \A r \in RunIds : Live(r)' => r = NewRunId
  <2>1. ASSUME NEW r \in RunIds, Live(r)', r # NewRunId
        PROVE  FALSE
    <3>1. table'[r].status = "none"
      BY <1>2, <1>6, <2>1
    <3>2. Loose(r)'
      BY <1>9
    <3>3. QED
      BY <2>1, <3>1, <3>2 DEF Live, Loose
  <2>2. QED
    BY <2>1
<1>11. ChainOk'
  BY <1>10 DEF ChainOk
<1>12. QED
  BY <1>8, <1>9, <1>11 DEF ExecInv

(* The reclaim loop requeues what lapsed, and remembers it. *)
LEMMA ReclaimKeeps ==
  ASSUME ExecInv, Reclaim
  PROVE  ExecInv'
<1>1. Types /\ table \in [RunIds -> Row] /\ reclaimed \in [RunIds -> BOOLEAN]
  BY DEF ExecInv, Types, HistoryTypes
<1>2. UNCHANGED <<loopVars, task, channel, handler, slot, orphans, faults, root>>
  BY DEF Reclaim
<1>3. ASSUME NEW r \in RunIds, ~Due(r)
      PROVE  table'[r] = table[r] /\ reclaimed'[r] = reclaimed[r]
  BY <1>1, <1>3 DEF Reclaim
<1>4. ASSUME NEW r \in RunIds, Due(r)
      PROVE  table'[r] \in Row /\ table'[r].status = "queued" /\ reclaimed'[r]
  <2>1. table'[r] = [table[r] EXCEPT !.status = "queued", !.by = Nobody, !.lapsed = FALSE]
    BY <1>4 DEF Reclaim
  <2>2. table[r] \in Row
    BY <1>1
  <2>3. reclaimed'[r]
    BY <1>4 DEF Reclaim
  <2>4. QED
    BY <2>1, <2>2, <2>3 DEF Row
<1>5. table' \in [RunIds -> Row] /\ reclaimed' \in [RunIds -> BOOLEAN]
  <2>1. \A r \in RunIds : table'[r] \in Row /\ reclaimed'[r] \in BOOLEAN
    BY <1>1, <1>3, <1>4
  <2>2. table' = [r \in RunIds |-> table'[r]] /\ reclaimed' = [r \in RunIds |-> reclaimed'[r]]
    BY DEF Reclaim
  <2>3. QED
    BY <2>1, <2>2
<1>6. InFlight' = InFlight
  BY <1>2 DEF InFlight
<1>7. Types'
  BY <1>1, <1>2, <1>5, <1>6 DEF Types, LoopTypes, TaskTypes, ChannelTypes, HandlerTypes, SlotTypes,
     HistoryTypes, loopVars
<1>8. ASSUME NEW r \in RunIds
      PROVE  /\ ~reclaimed'[r] => RunOk(r)' /\ ~reclaimed[r] /\ (Live(r)' => Live(r))
             /\ table'[r].status = "none" => ~reclaimed'[r]
  <2>1. CASE Due(r)
    BY <1>4, <2>1
  <2>2. CASE ~Due(r)
    <3>1. \A t \in Tasks : (Early(t)' <=> Early(t)) /\ (Late(t)' <=> Late(t))
      BY <1>2 DEF Early, Late
    <3>2. RunOk(r) => RunOk(r)'
      BY <1>2, <1>3, <2>2, <3>1, RunStays
    <3>3. Live(r)' => Live(r)
      BY <1>2, <1>3, <2>2 DEF Live
    <3>4. QED
      BY <1>3, <2>2, <3>2, <3>3 DEF ExecInv
  <2>3. QED
    BY <2>1, <2>2
<1>9. ChainOk'
  BY <1>1, <1>2, <1>8, ChainFrame DEF ExecInv, Types
<1>10. QED
  BY <1>7, <1>8, <1>9 DEF ExecInv

(* The host claims a run for a new task. *)
LEMMA DispatchKeeps ==
  ASSUME ExecInv, NEW r \in RunIds, Dispatch(r)
  PROVE  ExecInv'
<1>1. Types /\ table \in [RunIds -> Row] /\ table[r] \in Row /\ table[r].status = "queued"
  BY DEF ExecInv, Types, Dispatch, Claimable
<1>2. PICK t \in Tasks : /\ task[t] = NoTask
                         /\ task' = [task EXCEPT ![t] = [at |-> "permit", run |-> r, row |-> table[r]]]
  BY DEF Dispatch
<1> DEFINE new == [at |-> "permit", run |-> r, row |-> table[r]]
           row == Taken(table[r], Host)
<1>3. new \in Spawned /\ new.at = "permit" /\ new.run = r
  BY <1>1 DEF Spawned
<1>4. row \in Row /\ row.status = "claimed" /\ row.by = Host
  BY <1>1, TakenType
<1>5. /\ table' = [table EXCEPT ![r] = row] /\ task' = [task EXCEPT ![t] = new]
      /\ UNCHANGED <<loopVars, channel, handler, slot, orphans, faults, history>>
  BY <1>2 DEF Dispatch
<1> HIDE DEF new, row
<1>6. table' \in [RunIds -> Row] /\ table'[r] = row /\ \A q \in RunIds : q # r => table'[q] = table[q]
  BY <1>1, <1>4, <1>5
<1>7. r # NoRun
  BY SetsAssumption
<1>8. TaskTypes' /\ task'[t] = new /\ \A u \in Tasks : u # t => task'[u] = task[u]
  BY <1>1, <1>3, <1>5, <1>7, TaskMoves DEF Types
<1>9. Types'
  BY <1>1, <1>5, <1>6, <1>8 DEF Types, LoopTypes, ChannelTypes, HandlerTypes, SlotTypes, HistoryTypes,
     loopVars, history
<1>10. ASSUME ~reclaimed[r]
       PROVE  RunOk(r)'
  <2>1. Loose(r)
    BY <1>1, <1>10, QueuedIsLoose DEF ExecInv
  <2>2. \A u \in Tasks : task'[u].run = r => u = t
    BY <1>8, <2>1 DEF Loose
  <2>3. Events(r)' = {} /\ handler'.run # r /\ \A s \in Slots : slot'[s].run # r
    BY <1>5, <2>1 DEF Loose, Events
  <2>4. ~Late(t)'
    BY <1>3, <1>8 DEF Late
  <2>5. Held(table'[r]) /\ table'[r].by = Host /\ table'[r].status = "claimed"
    BY <1>4, <1>6 DEF Held
  <2>6. QED
    BY <2>2, <2>3, <2>4, <2>5 DEF RunOk, HostOk, TaskOk, EventOk, HandlerOk, SlotOk, RunningOk
<1>11. ASSUME NEW q \in RunIds, q # r, ~reclaimed[q]
       PROVE  RunOk(q)'
  <2>1. NoTask.run # q /\ task[t].run # q /\ task'[t].run # q
    BY <1>2, <1>3, <1>8, <1>11, BlankType, SetsAssumption
  <2>2. \A u \in Tasks : /\ task'[u].run = q <=> task[u].run = q
                         /\ task[u].run = q => (Early(u)' <=> Early(u)) /\ (Late(u)' <=> Late(u))
    BY <1>8, <2>1 DEF Early, Late
  <2>3. QED
    BY <1>5, <1>6, <1>11, <2>2, RunStays DEF ExecInv
<1>12. \A q \in RunIds : (Live(q)' => Live(q)) /\ (table'[q].status = "none" => ~reclaimed[q])
  BY <1>1, <1>4, <1>5, <1>6 DEF Live, ExecInv
<1>13. ChainOk'
  BY <1>1, <1>5, <1>12, ChainFrame DEF ExecInv, Types, history
<1>14. QED
  BY <1>5, <1>9, <1>10, <1>11, <1>12, <1>13 DEF ExecInv, history

(* A task gets its permit, or its script ends in one way or the other: it  *)
(* stays early, or late.                                                   *)
LEMMA TaskAdvances ==
  ASSUME ExecInv, NEW t \in Tasks, NEW new \in Spawned, task' = [task EXCEPT ![t] = new],
         UNCHANGED <<loopVars, table, channel, handler, slot, orphans, faults, history>>,
         \/ /\ task[t].at = "permit" /\ new.at = "start"
            /\ Cardinality(InFlight) < MaxInFlight
         \/ /\ task[t].at = "running" /\ new.at = "report"
            /\ new.row.status \in {"success", "failed"}
         \/ task[t].at = "running" /\ new.at = "panicked",
         new.run = task[t].run
  PROVE  ExecInv'
<1>1. Types /\ task[t].run # NoRun
  BY DEF ExecInv, Types, TaskTypes
<1>2. TaskTypes' /\ task'[t] = new /\ \A u \in Tasks : u # t => task'[u] = task[u]
  BY <1>1, TaskMoves DEF Types
<1>3. Types'
  BY <1>1, <1>2 DEF Types, LoopTypes, ChannelTypes, HandlerTypes, SlotTypes, HistoryTypes,
     loopVars, history
<1>4. \A u \in Tasks : /\ task'[u].run = task[u].run
                       /\ (Early(u)' <=> Early(u)) /\ (Late(u)' <=> Late(u))
  BY <1>2 DEF Early, Late
<1>5. QED
  BY <1>3, <1>4, NothingMoves DEF history

(* A task gets its permit. *)
LEMMA AcquireKeeps ==
  ASSUME ExecInv, NEW t \in Tasks, Acquire(t)
  PROVE  ExecInv'
<1> DEFINE new == [task[t] EXCEPT !.at = "start"]
<1>1. task[t] \in Spawned
  BY DEF ExecInv, Types, TaskTypes
<1>2. new \in Spawned /\ new.at = "start" /\ new.run = task[t].run
  BY <1>1 DEF Spawned
<1>3. task' = [task EXCEPT ![t] = new]
  BY DEF Acquire, Step
<1> HIDE DEF new
<1>4. QED
  BY <1>2, <1>3, TaskAdvances DEF Acquire

(* The script of a task returns. *)
LEMMA TaskScriptEndsKeeps ==
  ASSUME ExecInv, NEW t \in Tasks, NEW o \in {"success", "failed"}, TaskScriptEnds(t, o)
  PROVE  ExecInv'
<1> DEFINE row == [task[t].row EXCEPT !.status = o]
           new == [task[t] EXCEPT !.at = "report", !.row = row]
<1>1. task[t] \in Spawned /\ task[t].row \in Row
  BY DEF ExecInv, Types, TaskTypes, Spawned
<1>2. row \in Row /\ row.status = o
  BY <1>1, StatusType DEF Terminal
<1>3. task' = [task EXCEPT ![t] = new]
  BY <1>1 DEF TaskScriptEnds, Spawned
<1> HIDE DEF row
<1>4. new \in Spawned /\ new.at = "report" /\ new.run = task[t].run /\ new.row = row
  BY <1>1, <1>2 DEF Spawned
<1> HIDE DEF new
<1>5. QED
  BY <1>2, <1>3, <1>4, TaskAdvances DEF TaskScriptEnds

(* The script of a task panics. *)
LEMMA TaskPanicsKeeps ==
  ASSUME ExecInv, NEW t \in Tasks, TaskPanics(t)
  PROVE  ExecInv'
<1> DEFINE new == [task[t] EXCEPT !.at = "panicked"]
<1>1. task[t] \in Spawned
  BY DEF ExecInv, Types, TaskTypes
<1>2. new \in Spawned /\ new.at = "panicked" /\ new.run = task[t].run
  BY <1>1 DEF Spawned
<1>3. task' = [task EXCEPT ![t] = new]
  BY DEF TaskPanics, Step
<1> HIDE DEF new
<1>4. QED
  BY <1>2, <1>3, TaskAdvances DEF TaskPanics

(* Sending an event leaves the events of the other runs where they are. *)
LEMMA SentElsewhere ==
  ASSUME ChannelTypes, NEW kind \in {"started", "success", "failed"}, NEW r \in RunIds, Send(kind, r),
         NEW n \in Nat, n = Len(channel)
  PROVE  /\ \A q \in RunIds : q # r =>
              \A i \in Int : /\ i \in Events(q)' <=> i + 0 \in Events(q)
                             /\ i \in Events(q)' => (Outcome(i)' <=> Outcome(i + 0))
         /\ n + 1 \in Events(r)' /\ (Outcome(n + 1)' <=> kind # "started")
         /\ \A i \in Events(r)' : \/ i \in Events(r) /\ (Outcome(i)' <=> Outcome(i))
                                  \/ i = n + 1
         /\ \A i \in Events(r)' : i <= n + 1
<1>1. /\ Len(channel') = n + 1
      /\ channel'[n + 1].kind = kind /\ channel'[n + 1].run = r
      /\ \A i \in 1..n : channel'[i] = channel[i]
  BY SendEffect
<1>2. /\ \A q \in RunIds : Events(q)' = {i \in 1..(n + 1) : channel'[i].run = q}
      /\ \A q \in RunIds : Events(q) = {i \in 1..n : channel[i].run = q}
      /\ \A i \in 1..(n + 1) : Outcome(i)' <=> channel'[i].kind # "started"
      /\ \A i \in 1..n : Outcome(i) <=> channel[i].kind # "started"
  BY <1>1 DEF Events, Outcome
<1>3. ASSUME NEW q \in RunIds, q # r, NEW i \in Int
      PROVE  /\ i \in Events(q)' <=> i + 0 \in Events(q)
             /\ i \in Events(q)' => (Outcome(i)' <=> Outcome(i + 0))
  <2>1. i + 0 = i
    OBVIOUS
  <2>2. i \in Events(q)' => i \in 1..n
    BY <1>1, <1>2, <1>3
  <2>3. QED
    BY <1>1, <1>2, <2>1, <2>2
<1>4. n + 1 \in Events(r)' /\ (Outcome(n + 1)' <=> kind # "started")
  BY <1>1, <1>2
<1>5. \A i \in Events(r)' : \/ i \in Events(r) /\ (Outcome(i)' <=> Outcome(i))
                            \/ i = n + 1
  BY <1>1, <1>2
<1>6. \A i \in Events(r)' : i <= n + 1
  BY <1>1, <1>2
<1>7. QED
  BY <1>3, <1>4, <1>5, <1>6

(* A task says that it started. *)
LEMMA SendStartedKeeps ==
  ASSUME ExecInv, NEW t \in Tasks, SendStarted(t)
  PROVE  ExecInv'
<1>0. PICK r \in RunIds : r = task[t].run
  BY DEF ExecInv, Types, TaskTypes, Spawned, SendStarted
<1> DEFINE new == [task[t] EXCEPT !.at = "running"]
<1>1. Types /\ task[t] \in Spawned /\ task[t].at = "start"
  BY DEF ExecInv, Types, TaskTypes, SendStarted
<1>2. new \in Spawned /\ new.at = "running" /\ new.run = r
  BY <1>0, <1>1 DEF Spawned
<1>3. /\ task' = [task EXCEPT ![t] = new] /\ Send("started", r)
      /\ UNCHANGED <<loopVars, table, handler, slot, orphans, faults, history>>
  BY <1>0 DEF SendStarted, Step
<1>4. PICK n \in Nat : n = Len(channel)
  BY <1>1, LenProperties DEF Types, ChannelTypes
<1>5. r # NoRun
  BY SetsAssumption
<1> HIDE DEF new
<1>6. TaskTypes' /\ task'[t] = new /\ \A u \in Tasks : u # t => task'[u] = task[u]
  BY <1>1, <1>2, <1>3, <1>5, TaskMoves DEF Types
<1>7. ChannelTypes'
  BY <1>1, <1>3, <1>4, SendEffect DEF Types
<1>8. /\ \A q \in RunIds : q # r =>
           \A i \in Int : /\ i \in Events(q)' <=> i + 0 \in Events(q)
                          /\ i \in Events(q)' => (Outcome(i)' <=> Outcome(i + 0))
      /\ n + 1 \in Events(r)' /\ ~Outcome(n + 1)'
      /\ \A i \in Events(r)' : i \in Events(r) \/ i = n + 1
  BY <1>1, <1>3, <1>4, SentElsewhere DEF Types
<1>9. Types'
  BY <1>1, <1>3, <1>6, <1>7 DEF Types, LoopTypes, HandlerTypes, SlotTypes, HistoryTypes,
     loopVars, history
<1>10. \A u \in Tasks : task'[u].run = task[u].run
  BY <1>0, <1>2, <1>6
<1>11. Early(t) /\ Late(t)' /\ ~Early(t)'
  BY <1>1, <1>2, <1>6 DEF Early, Late
<1>12. ASSUME ~reclaimed[r]
       PROVE  RunOk(r)'
  <2>1. RunOk(r)
    BY <1>4, <1>12 DEF ExecInv
  <2>2. /\ \A u \in Tasks : task[u].run = r => u = t
        /\ Events(r) = {} /\ handler.run # r /\ Held(table[r]) /\ table[r].by = Host
    BY <1>0, <1>11, <2>1 DEF RunOk, TaskOk, HostOk
  <2>3. \A i \in Events(r)' : ~Outcome(i)'
    BY <1>8, <2>2
  <2>4. SlotOk(r)'
    BY <1>3, <2>1 DEF RunOk, SlotOk, Held
  <2>5. task'[t].run = r
    BY <1>2, <1>6
  <2>6. HostOk(r)'
    BY <1>3, <2>2 DEF HostOk, Held
  <2>7. TaskOk(r)'
    BY <1>3, <1>10, <1>11, <2>2, <2>3 DEF TaskOk
  <2>8. EventOk(r)' /\ HandlerOk(r)' /\ RunningOk(r)'
    BY <1>3, <1>11, <2>2, <2>3, <2>5 DEF EventOk, HandlerOk, RunningOk
  <2>9. QED
    BY <2>4, <2>6, <2>7, <2>8 DEF RunOk
<1>13. ASSUME NEW q \in RunIds, q # r, ~reclaimed[q]
       PROVE  RunOk(q)'
  <2>1. \A u \in Tasks : /\ task'[u].run = q <=> task[u].run = q
                         /\ task[u].run = q => (Early(u)' <=> Early(u)) /\ (Late(u)' <=> Late(u))
    <3>1. task[t].run # q
      BY <1>0, <1>13
    <3>2. QED
      BY <1>6, <1>10, <3>1 DEF Early, Late
  <2>2. RunOk(q) /\ 0 \in {0, 1}
    BY <1>13 DEF ExecInv
  <2>3. \A i \in Int : /\ i \in Events(q)' <=> i + 0 \in Events(q)
                       /\ i \in Events(q)' => (Outcome(i)' <=> Outcome(i + 0))
    BY <1>8, <1>13
  <2>4. QED
    BY <1>3, <2>1, <2>2, <2>3, RunFrame
<1>14. \A q \in RunIds : (Live(q)' => Live(q)) /\ (table'[q].status = "none" => ~reclaimed[q])
  BY <1>3 DEF Live, ExecInv
<1>15. ChainOk'
  BY <1>1, <1>3, <1>14, ChainFrame DEF ExecInv, Types, history
<1>16. QED
  BY <1>3, <1>9, <1>12, <1>13, <1>14, <1>15 DEF ExecInv, history

(* A task reports its outcome and ends. *)
LEMMA SendOutcomeKeeps ==
  ASSUME ExecInv, NEW t \in Tasks, SendOutcome(t)
  PROVE  ExecInv'
<1>0. PICK r \in RunIds, o \in {"success", "failed"} : r = task[t].run /\ o = task[t].row.status
  BY DEF ExecInv, Types, TaskTypes, Spawned, SendOutcome
<1> DEFINE new == Done
<1>1. Types /\ task[t] \in Spawned /\ task[t].at = "report"
  BY DEF ExecInv, Types, TaskTypes, SendOutcome
<1>2. new \in Spawned /\ new.at = "done" /\ new.run = NoRun
  BY BlankType DEF Done, NoTask, Spawned
<1>3. /\ task' = [task EXCEPT ![t] = new] /\ Send(o, r)
      /\ UNCHANGED <<loopVars, table, handler, slot, orphans, faults, history>>
  BY <1>0 DEF SendOutcome
<1>4. PICK n \in Nat : n = Len(channel)
  BY <1>1, LenProperties DEF Types, ChannelTypes
<1>5. r # NoRun
  BY SetsAssumption
<1> HIDE DEF new
<1>6. TaskTypes' /\ task'[t] = new /\ \A u \in Tasks : u # t => task'[u] = task[u]
  BY <1>1, <1>2, <1>3, <1>5, TaskMoves DEF Types
<1>7. ChannelTypes'
  BY <1>1, <1>3, <1>4, SendEffect DEF Types
<1>8. /\ \A q \in RunIds : q # r =>
           \A i \in Int : /\ i \in Events(q)' <=> i + 0 \in Events(q)
                          /\ i \in Events(q)' => (Outcome(i)' <=> Outcome(i + 0))
      /\ n + 1 \in Events(r)' /\ Outcome(n + 1)'
      /\ \A i \in Events(r)' : \/ i \in Events(r) /\ (Outcome(i)' <=> Outcome(i))
                               \/ i = n + 1
      /\ \A i \in Events(r)' : i <= n + 1
  BY <1>1, <1>3, <1>4, SentElsewhere DEF Types
<1>9. Types'
  BY <1>1, <1>3, <1>6, <1>7 DEF Types, LoopTypes, HandlerTypes, SlotTypes, HistoryTypes,
     loopVars, history
<1>10. Late(t) /\ task'[t].run = NoRun
  BY <1>1, <1>2, <1>6 DEF Late
<1>11. ASSUME ~reclaimed[r]
       PROVE  RunOk(r)'
  <2>1. RunOk(r)
    BY <1>4, <1>11 DEF ExecInv
  <2>2. /\ \A u \in Tasks : task[u].run = r => u = t
        /\ \A i \in Events(r) : ~Outcome(i)
        /\ handler.run = r => handler.kind = "started"
        /\ Held(table[r]) /\ table[r].by = Host
    BY <1>0, <1>10, <2>1 DEF RunOk, TaskOk, HostOk
  <2>3. \A u \in Tasks : task'[u].run # r
    BY <1>5, <1>6, <1>10, <2>2
  <2>4. HostOk(r)' /\ TaskOk(r)'
    BY <1>3, <2>2, <2>3 DEF HostOk, TaskOk, Held
  <2>5. EventOk(r)'
    BY <1>8, <2>2 DEF EventOk
  <2>6. HandlerOk(r)'
    BY <1>3, <1>8, <2>1, <2>2 DEF RunOk, HandlerOk
  <2>7. SlotOk(r)' /\ RunningOk(r)'
    BY <1>3, <1>8, <2>1 DEF RunOk, SlotOk, RunningOk, Held
  <2>8. QED
    BY <2>4, <2>5, <2>6, <2>7 DEF RunOk
<1>12. ASSUME NEW q \in RunIds, q # r, ~reclaimed[q]
       PROVE  RunOk(q)'
  <2>1. \A u \in Tasks : /\ task'[u].run = q <=> task[u].run = q
                         /\ task[u].run = q => (Early(u)' <=> Early(u)) /\ (Late(u)' <=> Late(u))
    <3>1. task[t].run # q /\ task'[t].run # q
      BY <1>0, <1>10, <1>12, SetsAssumption
    <3>2. QED
      BY <1>6, <3>1 DEF Early, Late
  <2>2. RunOk(q) /\ 0 \in {0, 1}
    BY <1>12 DEF ExecInv
  <2>3. \A i \in Int : /\ i \in Events(q)' <=> i + 0 \in Events(q)
                       /\ i \in Events(q)' => (Outcome(i)' <=> Outcome(i + 0))
    BY <1>8, <1>12
  <2>4. QED
    BY <1>3, <2>1, <2>2, <2>3, RunFrame
<1>13. \A q \in RunIds : (Live(q)' => Live(q)) /\ (table'[q].status = "none" => ~reclaimed[q])
  BY <1>3 DEF Live, ExecInv
<1>14. ChainOk'
  BY <1>1, <1>3, <1>13, ChainFrame DEF ExecInv, Types, history
<1>15. QED
  BY <1>3, <1>9, <1>11, <1>12, <1>13, <1>14 DEF ExecInv, history

----------------------------------------------------------------------------
(* The consumer of events.                                                 *)

(* The consumer's hand is quiet, or holds a run. *)
LEMMA HandlerHolds ==
  ASSUME Types, NEW r \in RunIds, handler.run = r
  PROVE  handler.at \in {"write", "retry"} /\ handler # Quiet
<1>1. NoRun # r /\ Quiet.run = NoRun
  BY SetsAssumption, BlankType
<1>2. handler.at \in {"idle", "write", "retry"} /\ (handler.at = "idle" => handler = Quiet)
  BY DEF Types, HandlerTypes, Consumer
<1>3. QED
  BY <1>1, <1>2

(* Slots stay away from what the host holds. *)
LEMMA HostHasNoSlot ==
  ASSUME Types, NEW r \in RunIds, SlotOk(r), Held(table[r]), table[r].by = Host
  PROVE  \A s \in Slots : slot[s].run # r
<1>1. NoRun # r /\ Idle.run = NoRun
  BY SetsAssumption, BlankType
<1>2. \A s \in Slots : /\ slot[s].at \in {"idle", "claimed", "running", "retry"}
                       /\ slot[s].at = "idle" => slot[s] = Idle
                       /\ s # Host
  BY SetsAssumption DEF Types, SlotTypes, Working
<1>3. table[r].status \notin Terminal
  BY DEF Held, Terminal
<1>4. QED
  BY <1>1, <1>2, <1>3 DEF SlotOk

(* The consumer takes an event and reads the run. *)
LEMMA HandlerReadKeeps ==
  ASSUME ExecInv, HandlerRead
  PROVE  ExecInv'
<1>1. Types /\ table \in [RunIds -> Row] /\ handler = Quiet
  BY DEF ExecInv, Types, HandlerRead
<1>2. /\ ChannelTypes' /\ Len(channel) \in Nat \ {0} /\ Len(channel') = Len(channel) - 1
      /\ Head(channel) = channel[1] /\ channel[1] \in Event
      /\ \A i \in 1..Len(channel') : channel'[i] = channel[i + 1]
  BY <1>1, ReceiveEffect DEF Types, HandlerRead
<1>3. PICK r \in RunIds, kind \in {"started", "success", "failed"} :
         r = channel[1].run /\ kind = channel[1].kind
  BY <1>2 DEF Event
<1>4. UNCHANGED <<loopVars, table, task, slot, orphans, faults, history>>
  BY DEF HandlerRead
<1> DEFINE new == [at |-> "write", kind |-> kind, run |-> r, row |-> table[r]]
           applies == IF kind = "started" THEN table[r].status \in {"queued", "claimed"}
                                          ELSE table[r].status = "running"
<1>5. handler' = IF applies THEN new ELSE Quiet
  BY <1>2, <1>3 DEF HandlerRead, Applies
<1>6. new \in Consumer /\ new.at = "write" /\ new.kind = kind /\ new.run = r /\ new.row = table[r]
  BY <1>1 DEF Consumer
<1> HIDE DEF new
<1>7. Quiet \in Consumer /\ Quiet.at = "idle" /\ Quiet.run = NoRun /\ NoRun \notin RunIds
  BY BlankType, SetsAssumption
<1>8. HandlerTypes'
  BY <1>5, <1>6, <1>7 DEF HandlerTypes
<1>9. InFlight' = InFlight
  BY <1>4 DEF InFlight
<1>10. Types'
  BY <1>1, <1>2, <1>4, <1>8, <1>9 DEF Types, LoopTypes, TaskTypes, SlotTypes, HistoryTypes,
     loopVars, history
<1>11. \A t \in Tasks : (Early(t)' <=> Early(t)) /\ (Late(t)' <=> Late(t))
  BY <1>4 DEF Early, Late
<1>12. ASSUME NEW q \in RunIds, NEW i \in Int
       PROVE  /\ i \in Events(q)' <=> i + 1 \in Events(q) /\ i # 0
              /\ i \in Events(q)' => (Outcome(i)' <=> Outcome(i + 1))
  <2>1. /\ Events(q)' = {j \in 1..(Len(channel) - 1) : channel'[j].run = q}
        /\ Events(q) = {j \in 1..Len(channel) : channel[j].run = q}
        /\ \A j \in Int : Outcome(j)' <=> channel'[j].kind # "started"
        /\ \A j \in Int : Outcome(j) <=> channel[j].kind # "started"
    BY <1>2 DEF Events, Outcome
  <2>2. i \in 1..(Len(channel) - 1) <=> i + 1 \in 1..Len(channel) /\ i # 0
    BY <1>2
  <2>3. i \in 1..(Len(channel) - 1) => channel'[i] = channel[i + 1]
    BY <1>2
  <2>4. i + 1 \in Int
    OBVIOUS
  <2>5. QED
    BY <2>1, <2>2, <2>3, <2>4
<1>13. 1 \in Events(r) /\ (Outcome(1) <=> kind # "started") /\ \A q \in RunIds : q # r => 1 \notin Events(q)
  BY <1>2, <1>3 DEF Events, Outcome
<1>14. \A q \in RunIds : Events(q) \subseteq Int /\ Events(q)' \subseteq Int
  BY DEF Events
<1>15. ASSUME NEW q \in RunIds, NEW k \in Events(q), k # 1
       PROVE  k - 1 \in Events(q)' /\ (Outcome(k - 1)' <=> Outcome(k))
  <2>1. k - 1 \in Int /\ (k - 1) + 1 = k /\ k - 1 # 0
    BY <1>14, <1>15
  <2>2. QED
    BY <1>12, <1>15, <2>1
<1>16. ASSUME NEW q \in RunIds, q # r, ~reclaimed[q]
       PROVE  RunOk(q)'
  <2>1. \A i \in Int : /\ i \in Events(q)' <=> i + 1 \in Events(q)
                       /\ i \in Events(q)' => (Outcome(i)' <=> Outcome(i + 1))
    <3>1. 1 \notin Events(q)
      BY <1>13, <1>16
    <3>2. 0 + 1 = 1
      OBVIOUS
    <3>3. QED
      BY <1>12, <3>1, <3>2
  <2>2. RunOk(q) /\ 1 \in {0, 1}
    BY <1>16 DEF ExecInv
  <2>3. handler.run # q /\ handler'.run # q
    BY <1>1, <1>5, <1>6, <1>7, <1>16
  <2>4. QED
    BY <1>4, <1>11, <2>1, <2>2, <2>3, RunFrame
<1>17. ASSUME ~reclaimed[r]
       PROVE  RunOk(r)'
  <2>1. RunOk(r)
    BY <1>17 DEF ExecInv
  <2>2. Held(table[r]) /\ table[r].by = Host
    BY <1>13, <2>1 DEF RunOk, HostOk
  <2>3. \A s \in Slots : slot[s].run # r
    BY <1>1, <2>1, <2>2, HostHasNoSlot DEF RunOk
  <2>4. \A t \in Tasks : task[t].run = r => ~Early(t) /\ (Early(t) \/ Late(t))
    <3>1. \A t \in Tasks : task[t].run = r => ~Early(t)
      BY <1>13, <2>1 DEF RunOk, TaskOk
    <3>2. \A t \in Tasks : task[t].run = r => task[t].at \in {"permit", "start", "running", "panicked", "report"}
      BY <1>1, <1>7 DEF Types, TaskTypes, Spawned
    <3>3. QED
      BY <3>1, <3>2 DEF Early, Late
  <2>5. HostOk(r)' /\ SlotOk(r)'
    BY <1>4, <2>2, <2>3 DEF HostOk, SlotOk, Held
  <2>6. table[r].status \in {"claimed", "running"}
    BY <2>2 DEF Held
  <2>7. CASE kind = "started"
    <3>1. \/ \E t \in Tasks : task[t].run = r /\ Late(t)
          \/ \E k \in Events(r) : Outcome(k)
      BY <1>13, <2>1, <2>7 DEF RunOk, EventOk
    <3>2. \/ \E t \in Tasks : task'[t].run = r /\ Late(t)'
          \/ \E k \in Events(r)' : Outcome(k)'
      <4>1. CASE \E t \in Tasks : task[t].run = r /\ Late(t)
        BY <1>4, <1>11, <4>1
      <4>2. CASE \E k \in Events(r) : Outcome(k)
        <5>1. PICK k \in Events(r) : Outcome(k)
          BY <4>2
        <5>2. k # 1
          BY <1>13, <2>7, <5>1
        <5>3. k - 1 \in Events(r)' /\ Outcome(k - 1)'
          BY <1>15, <5>1, <5>2
        <5>4. QED
          BY <5>3
      <4>3. QED
        BY <3>1, <4>1, <4>2
    <3>3. TaskOk(r)'
      <4>1. \A t \in Tasks : task[t].run = r =>
              /\ \A u \in Tasks : task[u].run = r => u = t
              /\ Late(t) => \A i \in Events(r) : ~Outcome(i)
        BY <2>1 DEF RunOk, TaskOk
      <4>2. handler'.run = r => handler'.kind = "started"
        BY <1>5, <1>6, <1>7, <2>7
      <4>3. \A i \in Events(r)' : i \in Int /\ i + 1 \in Events(r) /\ (Outcome(i)' <=> Outcome(i + 1))
        BY <1>12, <1>14
      <4>4. QED
        BY <1>4, <1>11, <2>4, <4>1, <4>2, <4>3 DEF TaskOk
    <3>4. EventOk(r)'
      <4>1. \A i \in Events(r) : Outcome(i) => \A k \in Events(r) : k <= i
        BY <2>1 DEF RunOk, EventOk
      <4>2. \A i \in Events(r)' : i \in Int /\ i + 1 \in Events(r) /\ (Outcome(i)' <=> Outcome(i + 1))
        BY <1>12, <1>14
      <4>3. \A i \in Events(r)' : Outcome(i)' => \A k \in Events(r)' : k <= i
        BY <4>1, <4>2
      <4>4. QED
        BY <3>2, <4>3 DEF EventOk
    <3>5. HandlerOk(r)'
      BY <1>4, <1>5, <1>6, <1>7, <2>6, <2>7, <3>2 DEF HandlerOk
    <3>6. RunningOk(r)'
      BY <3>2 DEF RunningOk
    <3>7. QED
      BY <2>5, <3>3, <3>4, <3>5, <3>6 DEF RunOk
  <2>8. CASE kind # "started"
    <3>1. \A k \in Events(r) : k <= 1
      BY <1>13, <2>1, <2>8 DEF RunOk, EventOk
    <3>2. Events(r)' = {}
      <4>1. \A i \in Events(r)' : i \in 1..(Len(channel) - 1) /\ i + 1 \in Events(r)
        BY <1>2, <1>12, <1>14 DEF Events
      <4>2. \A i \in Events(r)' : i + 1 <= 1 /\ i >= 1 /\ i \in Int
        BY <1>2, <3>1, <4>1
      <4>3. QED
        BY <4>2
    <3>3. \A t \in Tasks : task[t].run # r
      BY <1>13, <2>1, <2>4, <2>8 DEF RunOk, TaskOk
    <3>4. TaskOk(r)' /\ EventOk(r)'
      BY <1>4, <3>2, <3>3 DEF TaskOk, EventOk
    <3>5. HandlerOk(r)' /\ RunningOk(r)'
      BY <1>4, <1>5, <1>6, <1>7, <2>6, <2>8, <3>2, <3>3 DEF HandlerOk, RunningOk
    <3>6. QED
      BY <2>5, <3>4, <3>5 DEF RunOk
  <2>9. QED
    BY <2>7, <2>8
<1>18. \A q \in RunIds : (Live(q)' => Live(q)) /\ (table'[q].status = "none" => ~reclaimed[q])
  BY <1>1, <1>4, <1>5, <1>6, <1>7 DEF Live, ExecInv
<1>19. ChainOk'
  BY <1>1, <1>4, <1>18, ChainFrame DEF ExecInv, Types, history
<1>20. QED
  BY <1>4, <1>10, <1>16, <1>17, <1>18, <1>19 DEF ExecInv, history

(* The consumer writes the row it read, with the status of the event. *)
LEMMA HandlerWriteKeeps ==
  ASSUME ExecInv, HandlerWrite
  PROVE  ExecInv'
<1>1. Types /\ table \in [RunIds -> Row] /\ handler \in Consumer /\ handler.row \in Row
      /\ handler.at = "write"
  BY DEF ExecInv, Types, HandlerTypes, Consumer, HandlerWrite
<1>2. PICK r \in RunIds, kind \in {"started", "success", "failed"} : r = handler.run /\ kind = handler.kind
  BY <1>1 DEF Types, HandlerTypes, Consumer
<1> DEFINE status == IF kind = "started" THEN "running" ELSE kind
           row == [handler.row EXCEPT !.status = status]
           new == [handler EXCEPT !.at = "retry", !.row = row]
<1>3. /\ table' = [table EXCEPT ![r] = row]
      /\ handler' = IF status = "failed" /\ ShouldRetry(row) THEN new ELSE Quiet
      /\ UNCHANGED <<loopVars, task, channel, slot, orphans, faults, history>>
  BY <1>2 DEF HandlerWrite
<1>4. status \in {"running", "success", "failed"}
  OBVIOUS
<1>5. row \in Row /\ row.status = status /\ row.by = handler.row.by
  BY <1>1, <1>4 DEF Row, Terminal
<1> HIDE DEF row
<1>6. new \in Consumer /\ new.at = "retry" /\ new.kind = kind /\ new.run = r /\ new.row = row
  BY <1>1, <1>2, <1>5 DEF Consumer
<1> HIDE DEF new
<1>7. Quiet \in Consumer /\ Quiet.at = "idle" /\ Quiet.run = NoRun /\ NoRun \notin RunIds
  BY BlankType, SetsAssumption
<1>8. handler' \in {new, Quiet} /\ (handler' = new => status = "failed")
  BY <1>3, <1>6, <1>7
<1>9. HandlerTypes'
  BY <1>6, <1>7, <1>8 DEF HandlerTypes
<1>10. table' \in [RunIds -> Row] /\ table'[r] = row /\ \A q \in RunIds : q # r => table'[q] = table[q]
  BY <1>1, <1>3, <1>5
<1>11. InFlight' = InFlight
  BY <1>3 DEF InFlight
<1>12. Types'
  BY <1>1, <1>3, <1>9, <1>10, <1>11 DEF Types, LoopTypes, TaskTypes, ChannelTypes, SlotTypes, HistoryTypes,
     loopVars, history
<1>13. \A t \in Tasks : (Early(t)' <=> Early(t)) /\ (Late(t)' <=> Late(t))
  BY <1>3 DEF Early, Late
<1>14. ASSUME NEW q \in RunIds, q # r, ~reclaimed[q]
       PROVE  RunOk(q)'
  <2>1. handler.run # q /\ handler'.run # q
    BY <1>2, <1>6, <1>7, <1>8, <1>14
  <2>2. QED
    BY <1>3, <1>10, <1>13, <1>14, <2>1, RunStays DEF ExecInv
<1>15. ASSUME ~reclaimed[r]
       PROVE  RunOk(r)' /\ Live(r)
  <2>1. RunOk(r)
    BY <1>15 DEF ExecInv
  <2>2. Held(table[r]) /\ table[r].by = Host /\ handler.row = table[r]
    BY <1>1, <1>2, <2>1 DEF RunOk, HostOk, HandlerOk
  <2>3. \A s \in Slots : slot'[s].run # r
    BY <1>2, <1>3, <2>1 DEF RunOk, SlotOk
  <2>4. table'[r].by = Host /\ table'[r].status = status
    BY <1>5, <1>10, <2>2
  <2>5. \A k \in Int : Outcome(k)' <=> Outcome(k)
    BY <1>3 DEF Outcome
  <2>6. Events(r)' = Events(r) /\ Events(r) \subseteq Int
    BY <1>3 DEF Events
  <2>7. CASE kind = "started"
    <3>1. handler' = Quiet /\ table'[r].status = "running"
      BY <1>3, <2>4, <2>7
    <3>2. \/ \E t \in Tasks : task[t].run = r /\ Late(t)
          \/ \E k \in Events(r) : Outcome(k)
      BY <1>1, <1>2, <2>1, <2>7 DEF RunOk, HandlerOk
    <3>3. HostOk(r)' /\ SlotOk(r)'
      BY <2>3, <2>4, <3>1 DEF HostOk, SlotOk, Held
    <3>4. TaskOk(r)'
      BY <1>2, <1>3, <1>7, <1>13, <2>1, <2>5, <2>6, <3>1 DEF RunOk, TaskOk
    <3>5. EventOk(r)'
      BY <1>3, <1>13, <2>1, <2>5, <2>6 DEF RunOk, EventOk
    <3>6. HandlerOk(r)' /\ RunningOk(r)'
      BY <1>3, <1>7, <1>13, <2>5, <2>6, <3>1, <3>2 DEF HandlerOk, RunningOk
    <3>7. Live(r)
      BY <2>2 DEF Live, Held
    <3>8. QED
      BY <3>3, <3>4, <3>5, <3>6, <3>7 DEF RunOk
  <2>8. CASE kind # "started"
    <3>1. Events(r) = {} /\ \A t \in Tasks : task[t].run # r
      BY <1>1, <1>2, <2>1, <2>8 DEF RunOk, HandlerOk
    <3>2. table'[r].status \in Terminal /\ table'[r].status # "running"
      BY <2>4, <2>8 DEF Terminal
    <3>3. handler'.run = r => handler' = new
      BY <1>7, <1>8
    <3>4. HandlerOk(r)'
      BY <1>6, <1>10, <3>2, <3>3 DEF HandlerOk
    <3>5. HostOk(r)'
      BY <1>3, <1>6, <2>6, <3>1, <3>3 DEF HostOk
    <3>6. TaskOk(r)' /\ EventOk(r)' /\ SlotOk(r)' /\ RunningOk(r)'
      BY <1>3, <2>3, <2>6, <3>1, <3>2 DEF TaskOk, EventOk, SlotOk, RunningOk
    <3>7. Live(r)
      BY <2>2 DEF Live, Held
    <3>8. QED
      BY <3>4, <3>5, <3>6, <3>7 DEF RunOk
  <2>9. QED
    BY <2>7, <2>8
<1>16. \A q \in RunIds : (~reclaimed[q] /\ Live(q)' => Live(q)) /\ (table'[q].status = "none" => ~reclaimed[q])
  <2>1. ASSUME NEW q \in RunIds, q # r
        PROVE  (Live(q)' => Live(q)) /\ (table'[q].status = "none" => ~reclaimed[q])
    <3>1. handler'.run # q
      BY <1>6, <1>7, <1>8, <2>1
    <3>2. QED
      BY <1>3, <1>10, <2>1, <3>1 DEF Live, ExecInv
  <2>2. table'[r].status # "none"
    BY <1>4, <1>5, <1>10
  <2>3. QED
    BY <1>15, <2>1, <2>2
<1>17. ChainOk'
  BY <1>1, <1>3, <1>16, ChainFrame DEF ExecInv, Types, history
<1>18. QED
  BY <1>3, <1>12, <1>14, <1>15, <1>16, <1>17 DEF ExecInv, history

(* A store call fails: the event is dropped. *)
LEMMA HandlerFailsKeeps ==
  ASSUME ExecInv, HandlerFails
  PROVE  ExecInv'
<1>1. Types /\ handler' = Quiet /\ faults' = faults + 1 /\ faults < MaxFaults
      /\ UNCHANGED <<loopVars, table, task, channel, slot, orphans, history>>
  BY DEF ExecInv, HandlerFails, Fault
<1>2. faults' \in 0..MaxFaults /\ faults' # 0
  BY <1>1, NumbersAssumption DEF Types, HistoryTypes
<1>3. Quiet \in Consumer /\ Quiet.at = "idle" /\ Quiet.run = NoRun /\ NoRun \notin RunIds
  BY BlankType, SetsAssumption
<1>4. InFlight' = InFlight
  BY <1>1 DEF InFlight
<1>5. Types'
  BY <1>1, <1>2, <1>3, <1>4 DEF Types, LoopTypes, TaskTypes, ChannelTypes, HandlerTypes, SlotTypes, HistoryTypes,
     loopVars, history
<1>6. ASSUME NEW r \in RunIds, ~reclaimed[r]
      PROVE  RunOk(r)'
  <2>1. RunOk(r) /\ handler'.run # r
    BY <1>1, <1>3, <1>6 DEF ExecInv
  <2>2. Events(r)' = Events(r) /\ (\A k \in Int : Outcome(k)' <=> Outcome(k)) /\ Events(r) \subseteq Int
    BY <1>1 DEF Events, Outcome
  <2>3. \A t \in Tasks : (Early(t)' <=> Early(t)) /\ (Late(t)' <=> Late(t))
    BY <1>1 DEF Early, Late
  <2>4. HostOk(r)'
    BY <1>1, <2>1, <2>2 DEF RunOk, HostOk, Held
  <2>5. TaskOk(r)'
    BY <1>1, <2>1, <2>2, <2>3 DEF RunOk, TaskOk
  <2>6. EventOk(r)'
    BY <1>1, <2>1, <2>2, <2>3 DEF RunOk, EventOk
  <2>7. HandlerOk(r)' /\ SlotOk(r)' /\ RunningOk(r)'
    BY <1>1, <1>2, <2>1 DEF RunOk, HandlerOk, SlotOk, RunningOk, Held
  <2>8. QED
    BY <2>4, <2>5, <2>6, <2>7 DEF RunOk
<1>7. \A q \in RunIds : (Live(q)' => Live(q)) /\ (table'[q].status = "none" => ~reclaimed[q])
  BY <1>1, <1>3 DEF Live, ExecInv
<1>8. ChainOk'
  BY <1>1, <1>7, ChainFrame DEF ExecInv, Types, history
<1>9. QED
  BY <1>1, <1>5, <1>6, <1>7, <1>8 DEF ExecInv, history

(* The consumer panics: what the channel held is gone with it. *)
LEMMA HandlerPanicsKeeps ==
  ASSUME ExecInv, HandlerPanics
  PROVE  ExecInv'
<1>1. Types /\ handler' = Quiet /\ faults' = faults + 1 /\ faults < MaxFaults
      /\ handling' = "over" /\ channel' = <<>>
      /\ UNCHANGED <<shape, main, reclaimer, table, task, slot, orphans, history>>
  BY DEF ExecInv, HandlerPanics, Fault
<1>2. faults' \in 0..MaxFaults /\ faults' # 0
  BY <1>1, NumbersAssumption DEF Types, HistoryTypes
<1>3. Quiet \in Consumer /\ Quiet.at = "idle" /\ Quiet.run = NoRun /\ NoRun \notin RunIds
  BY BlankType, SetsAssumption
<1>4. InFlight' = InFlight
  BY <1>1 DEF InFlight
<1>5. channel' \in Seq(Event) /\ Len(channel') = 0 /\ ChannelTypes'
  BY <1>1, EmptySeq, NumbersAssumption DEF ChannelTypes
<1>6. Types'
  BY <1>1, <1>2, <1>3, <1>4, <1>5 DEF Types, LoopTypes, TaskTypes, HandlerTypes, SlotTypes, HistoryTypes,
     history
<1>7. ASSUME NEW r \in RunIds, ~reclaimed[r]
      PROVE  RunOk(r)'
  <2>1. RunOk(r) /\ handler'.run # r
    BY <1>1, <1>3, <1>7 DEF ExecInv
  <2>2. Events(r)' = {}
    BY <1>5 DEF Events
  <2>3. \A t \in Tasks : (Early(t)' <=> Early(t)) /\ (Late(t)' <=> Late(t))
    BY <1>1 DEF Early, Late
  <2>4. HostOk(r)'
    BY <1>1, <2>1, <2>2 DEF RunOk, HostOk, Held
  <2>5. TaskOk(r)' /\ EventOk(r)'
    BY <1>1, <2>1, <2>2, <2>3 DEF RunOk, TaskOk, EventOk
  <2>6. HandlerOk(r)' /\ SlotOk(r)' /\ RunningOk(r)'
    BY <1>1, <1>2, <2>1 DEF RunOk, HandlerOk, SlotOk, RunningOk, Held
  <2>7. QED
    BY <2>4, <2>5, <2>6 DEF RunOk
<1>8. \A q \in RunIds : (Live(q)' => Live(q)) /\ (table'[q].status = "none" => ~reclaimed[q])
  BY <1>1, <1>3 DEF Live, ExecInv
<1>9. ChainOk'
  BY <1>1, <1>8, ChainFrame DEF ExecInv, Types, history
<1>10. QED
  BY <1>1, <1>6, <1>7, <1>8, <1>9 DEF ExecInv, history

(* A task finds the channel closed and ends. *)
LEMMA SendFailsKeeps ==
  ASSUME ExecInv, ClosedOk, NEW t \in Tasks, SendFails(t)
  PROVE  ExecInv'
<1>1. Types /\ task[t].at \in {"start", "report"} /\ task' = [task EXCEPT ![t] = Done]
      /\ UNCHANGED <<loopVars, table, channel, handler, slot, orphans, faults, history>>
      /\ channel = <<>> /\ handler.at = "idle" /\ faults > 0
  BY DEF ExecInv, SendFails, ClosedOk
<1>2. Done \in Spawned /\ Done.at = "done" /\ Done.run = NoRun
  BY BlankType DEF Done, NoTask, Spawned
<1>3. TaskTypes' /\ task'[t] = Done /\ \A u \in Tasks : u # t => task'[u] = task[u]
  BY <1>1, <1>2, TaskMoves DEF Types
<1>4. Types'
  BY <1>1, <1>3 DEF Types, LoopTypes, ChannelTypes, HandlerTypes, SlotTypes, HistoryTypes,
     loopVars, history
<1>5. handler.run = NoRun /\ NoRun \notin RunIds
  BY <1>1, BlankType, SetsAssumption DEF Types, HandlerTypes
<1>6. faults \in Nat /\ faults # 0 /\ faults' = faults
  BY <1>1, NumbersAssumption DEF Types, HistoryTypes
<1>7. ASSUME NEW r \in RunIds, ~reclaimed[r]
      PROVE  RunOk(r)'
  <2>1. RunOk(r) /\ handler'.run # r
    BY <1>1, <1>5, <1>7 DEF ExecInv
  <2>2. Events(r)' = {}
    BY <1>1 DEF Events
  <2>3. \A u \in Tasks : task'[u].run = r => /\ task[u].run = r /\ task'[u] = task[u]
                                             /\ (Early(u)' <=> Early(u)) /\ (Late(u)' <=> Late(u))
    BY <1>2, <1>3, <1>5 DEF Early, Late
  <2>4. HostOk(r)'
    BY <1>1, <2>1, <2>2, <2>3 DEF RunOk, HostOk, Held
  <2>5. TaskOk(r)' /\ EventOk(r)'
    BY <1>1, <2>1, <2>2, <2>3 DEF RunOk, TaskOk, EventOk
  <2>6. HandlerOk(r)' /\ SlotOk(r)' /\ RunningOk(r)'
    BY <1>1, <1>6, <2>1 DEF RunOk, HandlerOk, SlotOk, RunningOk, Held
  <2>7. QED
    BY <2>4, <2>5, <2>6 DEF RunOk
<1>8. \A q \in RunIds : (Live(q)' => Live(q)) /\ (table'[q].status = "none" => ~reclaimed[q])
  BY <1>1 DEF Live, ExecInv
<1>9. ChainOk'
  BY <1>1, <1>8, ChainFrame DEF ExecInv, Types, history
<1>10. QED
  BY <1>1, <1>4, <1>7, <1>8, <1>9 DEF ExecInv, history

(* A closed channel stays empty. *)
LEMMA ClosedStays ==
  ASSUME ExecInv, ClosedOk, [Next]_vars
  PROVE  ClosedOk'
<1>1. faults \in Nat /\ (handler.at = "idle" <=> handler = Quiet) /\ Quiet.at = "idle" /\ Quiet.run = NoRun
      /\ NoRun \notin RunIds
  BY BlankType, SetsAssumption, NumbersAssumption DEF ExecInv, Types, HandlerTypes, HistoryTypes
<1>2. CASE UNCHANGED <<handling, channel, handler, faults>>
  BY <1>2 DEF ClosedOk
<1>3. CASE Run \/ Shutdown
  BY <1>3 DEF ClosedOk, Run, Shutdown
<1>4. CASE \E r \in RunIds : Lapse(r)
  <2>1. PICK r \in RunIds : Lapse(r)
    BY <1>4
  <2>2. handling' = handling /\ channel' = channel /\ faults' = faults
        /\ (handler.at = "idle" => handler' = handler)
    BY <1>1, <2>1 DEF Lapse, loopVars
  <2>3. QED
    BY <2>2 DEF ClosedOk
<1>5. CASE \E t \in Tasks : SendStarted(t) \/ SendOutcome(t)
  BY <1>5 DEF SendStarted, SendOutcome, Send, ClosedOk, loopVars
<1>6. CASE Handler \/ HandlerFails
  BY <1>1, <1>6 DEF Handler, HandlerRead, HandlerWrite, HandlerRetry, HandlerFails, Fault, ClosedOk, loopVars
<1>7. CASE HandlerPanics
  BY <1>1, <1>7 DEF HandlerPanics, Fault, ClosedOk
<1>8. CASE (\E s \in Scripts : Enqueue(s)) \/ Reclaim \/ (\E r \in RunIds : OrphanEnds(r) \/ Dispatch(r))
  BY <1>2, <1>8 DEF Enqueue, Reclaim, OrphanEnds, Dispatch, loopVars
<1>9. CASE \E t \in Tasks : Acquire(t) \/ TaskPanics(t) \/ SendFails(t)
                             \/ \E o \in {"success", "failed"} : TaskScriptEnds(t, o)
  BY <1>2, <1>9 DEF Acquire, TaskPanics, SendFails, TaskScriptEnds, loopVars
<1>10. CASE \E s \in Slots : Slot(s)
  BY <1>2, <1>10 DEF Slot, SlotClaim, SlotStart, SlotEnds, SlotTimesOut, SlotRetry, loopVars
<1>11. CASE UNCHANGED vars
  BY <1>2, <1>11 DEF vars
<1>12. QED
  BY <1>3, <1>4, <1>5, <1>6, <1>7, <1>8, <1>9, <1>10, <1>11 DEF Next, Task

----------------------------------------------------------------------------
(* Retries and the worker slots.                                           *)

(* The next attempt of a run is created, by the consumer or by a slot, and *)
(* whoever did it lets go of the run.                                      *)
LEMMA RetryKeeps ==
  ASSUME ExecInv, NEW r \in RunIds, NEW row \in Row, CreateRetry(r, row),
         HandlerTypes', SlotTypes',
         UNCHANGED <<loopVars, task, channel, orphans, faults, reclaimed>>,
         ~reclaimed[r] => table[r].status \in Terminal /\ Live(r) /\ Loose(r)',
         \A x \in RunIds : x # r =>
             /\ handler'.run = x <=> handler.run = x
             /\ handler.run = x => handler' = handler
             /\ \A s \in Slots : /\ slot'[s].run = x <=> slot[s].run = x
                                 /\ slot[s].run = x => slot'[s].at = slot[s].at
  PROVE  ExecInv'
<1>1. Types /\ table \in [RunIds -> Row] /\ root \in [RunIds -> RunIds]
  BY DEF ExecInv, Types, HistoryTypes
<1>2. InFlight' = InFlight
  BY DEF InFlight
<1>3. \A t \in Tasks : (Early(t)' <=> Early(t)) /\ (Late(t)' <=> Late(t))
  BY DEF Early, Late
<1>4. ASSUME NEW x \in RunIds, x # r, table'[x] = table[x], ~reclaimed[x]
      PROVE  RunOk(x)' /\ (Live(x)' => Live(x))
  <2>1. RunOk(x)
    BY <1>4 DEF ExecInv
  <2>2. RunOk(x)'
    BY <1>3, <1>4, <2>1, RunStays
  <2>3. Live(x)' => Live(x)
    BY <1>4 DEF Live
  <2>4. QED
    BY <2>2, <2>3
<1>5. ASSUME table'[r] = table[r], ~reclaimed[r]
      PROVE  RunOk(r)' /\ ~Live(r)'
  <2>1. table'[r].status \in Terminal /\ table'[r].status \notin {"queued", "claimed", "running"}
    BY <1>5 DEF Terminal
  <2>2. Loose(r)'
    BY <1>5
  <2>3. RunOk(r)'
    BY <2>1, <2>2, LooseIsOk
  <2>4. ~Live(r)'
    BY <2>1, <2>2 DEF Live, Loose
  <2>5. QED
    BY <2>3, <2>4
<1>6. CASE Unused = {}
  <2>1. table' = table /\ root' = root
    BY <1>6 DEF CreateRetry
  <2>2. Types'
    BY <1>1, <1>2, <2>1 DEF Types, LoopTypes, TaskTypes, ChannelTypes, HistoryTypes, loopVars
  <2>3. \A x \in RunIds : ~reclaimed[x] => RunOk(x)' /\ (Live(x)' => Live(x))
    BY <1>4, <1>5, <2>1
  <2>4. ChainOk'
    BY <1>1, <2>1, <2>3, ChainFrame DEF ExecInv, Types
  <2>5. QED
    BY <2>1, <2>2, <2>3, <2>4 DEF ExecInv
<1>7. CASE Unused # {}
  <2>1. PICK q \in RunIds : q = NewRunId /\ table[q].status = "none"
    BY <1>7, NewId
  <2> DEFINE new == ForJob(row.script, row.attempt + 1)
  <2>2. row.script \in Scripts /\ row.attempt + 1 \in Nat
    BY DEF Row
  <2>3. new \in Row /\ new.status = "queued"
    BY <2>2, ForJobType
  <2>4. table' = [table EXCEPT ![q] = new] /\ root' = [root EXCEPT ![q] = root[r]]
    BY <1>7, <2>1 DEF CreateRetry
  <2> HIDE DEF new
  <2>5. /\ table' \in [RunIds -> Row] /\ root' \in [RunIds -> RunIds]
        /\ table'[q] = new /\ \A x \in RunIds : x # q => table'[x] = table[x]
    BY <1>1, <2>3, <2>4
  <2>6. ~reclaimed[q] /\ RunOk(q)
    BY <2>1 DEF ExecInv
  <2>7. q # r
    BY <2>1, <2>6 DEF Terminal
  <2>8. Types'
    BY <1>1, <1>2, <2>5 DEF Types, LoopTypes, TaskTypes, ChannelTypes, HistoryTypes, loopVars
  <2>9. RunOk(q)'
    <3>1. Loose(q)
      BY <1>1, <2>1, <2>6, QueuedIsLoose
    <3>2. Loose(q)'
      BY <2>7, <3>1 DEF Loose, Events
    <3>3. QED
      BY <2>3, <2>5, <3>2, LooseIsOk
  <2>10. \A x \in RunIds : ~reclaimed[x] => RunOk(x)'
    BY <1>4, <1>5, <2>5, <2>7, <2>9
  <2>11. ChainOk'
    <3>1. \A x \in RunIds : x # q /\ ~reclaimed[x] /\ Live(x)' => Live(x)
      BY <1>4, <1>5, <2>5
    <3>2. ~reclaimed[r] => Live(r) /\ ~Live(r)'
      BY <1>5, <2>5, <2>7
    <3>3. QED
      BY <2>1, <2>4, <2>7, <3>1, <3>2, ChainGrows
  <2>12. \A x \in RunIds : table'[x].status = "none" => ~reclaimed[x]
    BY <2>5, <2>6 DEF ExecInv
  <2>13. QED
    BY <2>8, <2>10, <2>11, <2>12 DEF ExecInv
<1>8. QED
  BY <1>6, <1>7

(* The consumer creates the next attempt. *)
LEMMA HandlerRetryKeeps ==
  ASSUME ExecInv, HandlerRetry
  PROVE  ExecInv'
<1>1. Types /\ handler.at = "retry" /\ handler' = Quiet
      /\ UNCHANGED <<loopVars, task, channel, slot, orphans, faults, reclaimed>>
  BY DEF ExecInv, HandlerRetry
<1>2. PICK r \in RunIds, row \in Row : r = handler.run /\ row = handler.row
  BY <1>1 DEF Types, HandlerTypes, Consumer
<1>3. CreateRetry(r, row)
  BY <1>2 DEF HandlerRetry, CreateRetry
<1>4. Quiet \in Consumer /\ Quiet.at = "idle" /\ Quiet.run = NoRun /\ NoRun \notin RunIds
  BY BlankType, SetsAssumption
<1>5. HandlerTypes' /\ SlotTypes'
  BY <1>1, <1>4 DEF Types, HandlerTypes, SlotTypes
<1>6. ASSUME ~reclaimed[r]
      PROVE  table[r].status \in Terminal /\ Live(r) /\ Loose(r)'
  <2>1. RunOk(r)
    BY <1>6 DEF ExecInv
  <2>2. table[r].status \in Terminal
    BY <1>1, <1>2, <2>1 DEF RunOk, HandlerOk
  <2>3. ~Held(table[r])
    BY <2>2 DEF Held, Terminal
  <2>4. Events(r) = {} /\ \A t \in Tasks : task[t].run # r
    BY <2>1, <2>3 DEF RunOk, HostOk
  <2>5. \A s \in Slots : slot[s].run # r
    BY <1>2, <2>1 DEF RunOk, SlotOk
  <2>6. Loose(r)'
    BY <1>1, <1>4, <2>4, <2>5 DEF Loose, Events
  <2>7. Live(r)
    BY <1>1, <1>2 DEF Live
  <2>8. QED
    BY <2>2, <2>6, <2>7
<1>7. \A x \in RunIds : x # r => handler'.run # x /\ handler.run # x
  BY <1>1, <1>2, <1>4
<1>8. QED
  BY <1>1, <1>3, <1>5, <1>6, <1>7, RetryKeeps

(* A slot creates the next attempt. *)
LEMMA SlotRetryKeeps ==
  ASSUME ExecInv, NEW s \in Slots, SlotRetry(s)
  PROVE  ExecInv'
<1>1. Types /\ slot[s].at = "retry" /\ slot' = [slot EXCEPT ![s] = Idle]
      /\ UNCHANGED <<loopVars, task, channel, handler, orphans, faults, reclaimed>>
  BY DEF ExecInv, SlotRetry
<1>2. PICK r \in RunIds, row \in Row : r = slot[s].run /\ row = slot[s].row
  BY <1>1 DEF Types, SlotTypes, Working
<1>3. CreateRetry(r, row)
  BY <1>2 DEF SlotRetry, CreateRetry
<1>4. Idle \in Working /\ Idle.at = "idle" /\ Idle.run = NoRun /\ NoRun \notin RunIds
  BY BlankType, SetsAssumption
<1>5. SlotTypes' /\ slot'[s] = Idle /\ \A u \in Slots : u # s => slot'[u] = slot[u]
  BY <1>1, <1>4, SlotMoves DEF Types
<1>6. HandlerTypes'
  BY <1>1 DEF Types, HandlerTypes
<1>7. ASSUME ~reclaimed[r]
      PROVE  table[r].status \in Terminal /\ Live(r) /\ Loose(r)'
  <2>1. RunOk(r)
    BY <1>7 DEF ExecInv
  <2>2. /\ table[r].status \in Terminal /\ handler.run # r
        /\ \A u \in Slots : slot[u].run = r => u = s
    BY <1>1, <1>2, <2>1 DEF RunOk, SlotOk
  <2>3. ~Held(table[r])
    BY <2>2 DEF Held, Terminal
  <2>4. Events(r) = {} /\ \A t \in Tasks : task[t].run # r
    BY <2>1, <2>3 DEF RunOk, HostOk
  <2>5. \A u \in Slots : slot'[u].run # r
    BY <1>4, <1>5, <2>2
  <2>6. Loose(r)'
    BY <1>1, <2>2, <2>4, <2>5 DEF Loose, Events
  <2>7. Live(r)
    BY <1>1, <1>2 DEF Live
  <2>8. QED
    BY <2>2, <2>6, <2>7
<1>8. \A x \in RunIds : x # r => slot'[s].run # x /\ slot[s].run # x
  BY <1>2, <1>4, <1>5
<1>9. \A x \in RunIds : x # r =>
        \A u \in Slots : /\ slot'[u].run = x <=> slot[u].run = x
                         /\ slot[u].run = x => slot'[u].at = slot[u].at
  BY <1>5, <1>8
<1>10. QED
  BY <1>1, <1>3, <1>5, <1>6, <1>7, <1>9, RetryKeeps

(* A slot claims a run. *)
LEMMA SlotClaimKeeps ==
  ASSUME ExecInv, NEW s \in Slots, NEW r \in RunIds, SlotClaim(s, r)
  PROVE  ExecInv'
<1>1. Types /\ table \in [RunIds -> Row] /\ table[r] \in Row /\ table[r].status = "queued" /\ slot[s] = Idle
  BY DEF ExecInv, Types, SlotClaim
<1> DEFINE row == Taken(table[r], s)
           new == [at |-> "claimed", run |-> r, row |-> row]
<1>2. row \in Row /\ row.status = "claimed" /\ row.by = s
  BY <1>1, TakenType
<1>3. /\ table' = [table EXCEPT ![r] = row] /\ slot' = [slot EXCEPT ![s] = new]
      /\ UNCHANGED <<loopVars, task, channel, handler, orphans, faults, history>>
  BY DEF SlotClaim
<1> HIDE DEF row
<1>4. new \in Working /\ new.at = "claimed" /\ new.run = r /\ new.row = row
  BY <1>2 DEF Working
<1> HIDE DEF new
<1>5. Idle.at = "idle" /\ Idle.run = NoRun /\ NoRun \notin RunIds /\ s # Host
  BY BlankType, SetsAssumption
<1>6. SlotTypes' /\ slot'[s] = new /\ \A u \in Slots : u # s => slot'[u] = slot[u]
  BY <1>1, <1>2, <1>3, <1>4, <1>5, SlotMoves DEF Types
<1>7. table' \in [RunIds -> Row] /\ table'[r] = row /\ \A q \in RunIds : q # r => table'[q] = table[q]
  BY <1>1, <1>2, <1>3
<1>8. InFlight' = InFlight
  BY <1>3 DEF InFlight
<1>9. Types'
  BY <1>1, <1>3, <1>6, <1>7, <1>8 DEF Types, LoopTypes, TaskTypes, ChannelTypes, HandlerTypes, HistoryTypes,
     loopVars, history
<1>10. \A t \in Tasks : (Early(t)' <=> Early(t)) /\ (Late(t)' <=> Late(t))
  BY <1>3 DEF Early, Late
<1>11. ASSUME ~reclaimed[r]
       PROVE  RunOk(r)'
  <2>1. Loose(r)
    BY <1>1, <1>11, QueuedIsLoose DEF ExecInv
  <2>2. Events(r)' = {} /\ handler'.run # r /\ \A t \in Tasks : task'[t].run # r
    BY <1>3, <2>1 DEF Loose, Events
  <2>3. \A u \in Slots : slot'[u].run = r => u = s
    BY <1>6, <2>1 DEF Loose
  <2>4. Held(table'[r]) /\ table'[r].by = s /\ table'[r].status = "claimed" /\ slot'[s].at = "claimed"
    BY <1>2, <1>4, <1>6, <1>7 DEF Held
  <2>5. QED
    BY <2>2, <2>3, <2>4 DEF RunOk, HostOk, TaskOk, EventOk, HandlerOk, SlotOk, RunningOk
<1>12. ASSUME NEW q \in RunIds, q # r, ~reclaimed[q]
       PROVE  RunOk(q)'
  <2>1. slot[s].run # q /\ slot'[s].run # q
    BY <1>1, <1>4, <1>5, <1>6, <1>12
  <2>2. \A u \in Slots : /\ slot'[u].run = q <=> slot[u].run = q
                         /\ slot[u].run = q => slot'[u].at = slot[u].at
    BY <1>6, <2>1
  <2>3. QED
    BY <1>3, <1>7, <1>10, <1>12, <2>2, RunStays DEF ExecInv
<1>13. \A q \in RunIds : (Live(q)' => Live(q)) /\ (table'[q].status = "none" => ~reclaimed[q])
  <2>1. \A u \in Slots : slot'[u].at = "retry" => slot'[u] = slot[u]
    BY <1>4, <1>6
  <2>2. QED
    BY <1>1, <1>2, <1>3, <1>7, <2>1 DEF Live, ExecInv
<1>14. ChainOk'
  BY <1>1, <1>3, <1>13, ChainFrame DEF ExecInv, Types, history
<1>15. QED
  BY <1>3, <1>9, <1>11, <1>12, <1>13, <1>14 DEF ExecInv, history

(* A slot writes the status of the run it has: running, or how it ended. *)
LEMMA SlotWrites ==
  ASSUME ExecInv, NEW s \in Slots, NEW status \in {"running"} \cup Terminal, Write(s, status),
         slot[s].at \in {"claimed", "running"}, NEW new \in Working, slot' = [slot EXCEPT ![s] = new],
         \/ new = Idle /\ status \in Terminal
         \/ new.at = "retry" /\ status \in Terminal /\ new.run = slot[s].run /\ new.row = slot[s].row
         \/ new.at = "running" /\ status = "running" /\ new.run = slot[s].run /\ new.row = slot[s].row,
         UNCHANGED <<loopVars, task, channel, handler, faults, history>>, orphans' \subseteq RunIds
  PROVE  ExecInv'
<1>1. Types /\ table \in [RunIds -> Row] /\ slot[s] \in Working /\ slot[s].row \in Row /\ slot[s].row.by = s
  BY DEF ExecInv, Types, SlotTypes, Working
<1>2. PICK r \in RunIds : r = slot[s].run
  BY DEF ExecInv, Types, SlotTypes
<1> DEFINE row == [slot[s].row EXCEPT !.status = status]
<1>3. row \in Row /\ row.status = status /\ row.by = s
  BY <1>1, StatusType
<1>4. table' = [table EXCEPT ![r] = row]
  BY <1>2 DEF Write
<1> HIDE DEF row
<1>5. table' \in [RunIds -> Row] /\ table'[r] = row /\ \A q \in RunIds : q # r => table'[q] = table[q]
  BY <1>1, <1>3, <1>4
<1>6. Idle.at = "idle" /\ Idle.run = NoRun /\ NoRun \notin RunIds /\ s # Host
  BY BlankType, SetsAssumption
<1>7. SlotTypes' /\ slot'[s] = new /\ \A u \in Slots : u # s => slot'[u] = slot[u]
  <2>1. new.at = "idle" <=> new = Idle
    BY <1>6
  <2>2. new.at # "idle" => new.run \in RunIds /\ new.row.by = s
    BY <1>1, <1>2, <1>6
  <2>3. QED
    BY <1>1, <2>1, <2>2, SlotMoves DEF Types
<1>8. InFlight' = InFlight
  BY DEF InFlight
<1>9. Types'
  BY <1>1, <1>5, <1>7, <1>8 DEF Types, LoopTypes, TaskTypes, ChannelTypes, HandlerTypes, HistoryTypes,
     loopVars, history
<1>10. \A t \in Tasks : (Early(t)' <=> Early(t)) /\ (Late(t)' <=> Late(t))
  BY DEF Early, Late
<1>11. ASSUME ~reclaimed[r]
       PROVE  RunOk(r)' /\ Live(r)
  <2>1. RunOk(r)
    BY <1>11 DEF ExecInv
  <2>2. /\ Held(table[r]) /\ table[r].by = s /\ handler.run # r
        /\ \A u \in Slots : slot[u].run = r => u = s
    BY <1>2, <2>1 DEF RunOk, SlotOk
  <2>3. Events(r)' = {} /\ \A t \in Tasks : task'[t].run # r
    BY <1>6, <2>1, <2>2 DEF RunOk, HostOk, Events
  <2>4. \A u \in Slots : slot'[u].run = r => u = s /\ new.run = r
    BY <1>7, <2>2
  <2>5. table'[r].by = s /\ table'[r].status = status
    BY <1>3, <1>5
  <2>6. SlotOk(r)'
    BY <1>6, <1>7, <2>2, <2>4, <2>5 DEF SlotOk, Held
  <2>7. HostOk(r)' /\ TaskOk(r)' /\ EventOk(r)' /\ HandlerOk(r)' /\ RunningOk(r)'
    BY <1>6, <2>2, <2>3, <2>5 DEF HostOk, TaskOk, EventOk, HandlerOk, RunningOk
  <2>8. Live(r)
    BY <2>2 DEF Live, Held
  <2>9. QED
    BY <2>6, <2>7, <2>8 DEF RunOk
<1>12. ASSUME NEW q \in RunIds, q # r
       PROVE  (~reclaimed[q] => RunOk(q)') /\ (Live(q)' => Live(q))
  <2>1. slot[s].run # q /\ slot'[s].run # q
    BY <1>2, <1>6, <1>7, <1>12
  <2>2. \A u \in Slots : /\ slot'[u].run = q <=> slot[u].run = q
                         /\ slot[u].run = q => slot'[u].at = slot[u].at
    BY <1>7, <2>1
  <2>3. RunOk(q) => RunOk(q)'
    BY <1>5, <1>10, <1>12, <2>2, RunStays
  <2>4. Live(q)' => Live(q)
    BY <1>5, <1>12, <2>2 DEF Live
  <2>5. QED
    BY <2>3, <2>4 DEF ExecInv
<1>13. \A q \in RunIds : table'[q].status = "none" => ~reclaimed[q]
  BY <1>3, <1>5 DEF ExecInv, Terminal
<1>14. \A q \in RunIds : ~reclaimed[q] => RunOk(q)' /\ (Live(q)' => Live(q))
  BY <1>11, <1>12
<1>15. ChainOk'
  BY <1>1, <1>14, ChainFrame DEF ExecInv, Types, history
<1>16. QED
  BY <1>9, <1>13, <1>14, <1>15 DEF ExecInv, history

(* A slot starts the script of its run. *)
LEMMA SlotStartKeeps ==
  ASSUME ExecInv, NEW s \in Slots, SlotStart(s)
  PROVE  ExecInv'
<1> DEFINE new == [slot[s] EXCEPT !.at = "running"]
<1>1. slot[s] \in Working /\ orphans \subseteq RunIds
  BY DEF ExecInv, Types, SlotTypes, HistoryTypes
<1>2. new \in Working /\ new.at = "running" /\ new.run = slot[s].run /\ new.row = slot[s].row
  BY <1>1 DEF Working
<1>3. slot' = [slot EXCEPT ![s] = new]
  BY DEF SlotStart
<1> HIDE DEF new
<1>4. QED
  BY <1>1, <1>2, <1>3, SlotWrites DEF SlotStart

(* A slot writes the outcome of its run, and may have a retry to create. *)
LEMMA SettleKeeps ==
  ASSUME ExecInv, NEW s \in Slots, NEW status \in Terminal, Settle(s, status), slot[s].at = "running",
         UNCHANGED <<loopVars, task, channel, handler, faults, history>>, orphans' \subseteq RunIds
  PROVE  ExecInv'
<1> DEFINE again == [slot[s] EXCEPT !.at = "retry"]
           new == IF status # "success" /\ ShouldRetry(slot[s].row) THEN again ELSE Idle
<1>1. slot[s] \in Working
  BY DEF ExecInv, Types, SlotTypes
<1>2. again \in Working /\ again.at = "retry" /\ again.run = slot[s].run /\ again.row = slot[s].row
  BY <1>1 DEF Working
<1>3. slot' = [slot EXCEPT ![s] = new] /\ Write(s, status)
  BY DEF Settle
<1> HIDE DEF again
<1>4. new \in Working /\ (new = again \/ new = Idle)
  BY <1>2, BlankType
<1> HIDE DEF new
<1>5. QED
  BY <1>2, <1>3, <1>4, SlotWrites

----------------------------------------------------------------------------
(* The theorems.                                                           *)

(* The invariant holds when the process has been built. *)
LEMMA InitInv == Init => ExecInv
<1> SUFFICES ASSUME Init PROVE ExecInv
  OBVIOUS
<1>1. /\ Blank \in Row /\ Blank.status = "none"
      /\ NoTask \in Spawned /\ NoTask.at = "none" /\ NoTask.run = NoRun
      /\ Idle \in Working /\ Idle.at = "idle" /\ Idle.run = NoRun
      /\ Quiet \in Consumer /\ Quiet.at = "idle" /\ Quiet.run = NoRun
      /\ NoRun \notin RunIds
  BY BlankType, SetsAssumption
<1>2. /\ \A r \in RunIds : table[r] = Blank /\ reclaimed[r] = FALSE
      /\ \A t \in Tasks : task[t] = NoTask
      /\ \A s \in Slots : slot[s] = Idle
      /\ channel = <<>> /\ handler = Quiet
  BY DEF Init
<1>3. TaskTypes
  <2>1. InFlight = {}
    BY <1>1, <1>2 DEF InFlight
  <2>2. IsFiniteSet(InFlight) /\ Cardinality(InFlight) = 0
    BY <2>1, FS_EmptySet
  <2>3. task \in [Tasks -> Spawned]
    BY <1>1 DEF Init
  <2>4. QED
    BY <1>1, <1>2, <2>2, <2>3, NumbersAssumption DEF TaskTypes
<1>4. ChannelTypes
  BY <1>2, NumbersAssumption DEF ChannelTypes
<1>5. LoopTypes /\ HandlerTypes /\ SlotTypes
  BY <1>1, <1>2 DEF Init, LoopTypes, HandlerTypes, SlotTypes
<1>6. HistoryTypes
  BY NumbersAssumption DEF Init, HistoryTypes
<1>7. Types
  BY <1>1, <1>3, <1>4, <1>5, <1>6 DEF Init, Types
<1>8. ASSUME NEW r \in RunIds
      PROVE  RunOk(r) /\ ~reclaimed[r] /\ ~Live(r)
  <2>1. Events(r) = {}
    BY <1>2 DEF Events
  <2>2. table[r].status = "none"
    BY <1>1, <1>2
  <2>3. (\A t \in Tasks : task[t].run # r) /\ (\A s \in Slots : slot[s].run # r) /\ handler.run # r
    BY <1>1, <1>2
  <2>4. RunOk(r)
    BY <2>1, <2>2, <2>3 DEF RunOk, HostOk, TaskOk, EventOk, HandlerOk, SlotOk, RunningOk
  <2>5. ~Live(r)
    BY <2>2, <2>3 DEF Live
  <2>6. QED
    BY <1>2, <2>4, <2>5
<1>9. ChainOk
  BY <1>8 DEF ChainOk
<1>10. QED
  BY <1>7, <1>8, <1>9 DEF ExecInv

(* Every step keeps the invariant. *)
LEMMA NextInv == ExecInv /\ ClosedOk /\ [Next]_vars => (ExecInv /\ ClosedOk)'
<1> SUFFICES ASSUME ExecInv, ClosedOk, [Next]_vars PROVE ExecInv'
  BY ClosedStays
<1>1. CASE Run \/ Shutdown \/ \E r \in RunIds : OrphanEnds(r)
  BY <1>1, LoopsKeep
<1>2. CASE \E s \in Scripts : Enqueue(s)
  BY <1>2, EnqueueKeeps
<1>3. CASE \E r \in RunIds : Lapse(r)
  BY <1>3, LapseKeeps
<1>4. CASE Reclaim
  BY <1>4, ReclaimKeeps
<1>5. CASE \E r \in RunIds : Dispatch(r)
  BY <1>5, DispatchKeeps
<1>6. CASE \E t \in Tasks : Task(t)
  BY <1>6, AcquireKeeps, SendStartedKeeps, TaskScriptEndsKeeps, TaskPanicsKeeps,
     SendOutcomeKeeps, SendFailsKeeps DEF Task
<1>7. CASE Handler \/ HandlerFails \/ HandlerPanics
  BY <1>7, HandlerReadKeeps, HandlerWriteKeeps, HandlerRetryKeeps, HandlerFailsKeeps,
     HandlerPanicsKeeps DEF Handler
<1>8. CASE \E s \in Slots : Slot(s)
  <2>1. PICK s \in Slots : Slot(s)
    BY <1>8
  <2>2. orphans \subseteq RunIds /\ (slot[s].at = "running" => slot[s].run \in RunIds)
    BY DEF ExecInv, Types, SlotTypes, HistoryTypes
  <2>3. CASE \E o \in {"success", "failed"} : SlotEnds(s, o)
    BY <2>2, <2>3, SettleKeeps DEF SlotEnds, Terminal
  <2>4. CASE SlotTimesOut(s)
    BY <2>2, <2>4, SettleKeeps DEF SlotTimesOut, Terminal
  <2>5. CASE (\E r \in RunIds : SlotClaim(s, r)) \/ SlotStart(s) \/ SlotRetry(s)
    BY <2>5, SlotClaimKeeps, SlotStartKeeps, SlotRetryKeeps
  <2>6. QED
    BY <2>1, <2>3, <2>4, <2>5 DEF Slot
<1>9. CASE UNCHANGED vars
  <2>1. UNCHANGED <<shape, main, reclaimer, handling, table, task, channel, handler, slot,
                    orphans, faults, reclaimed, root>>
    BY <1>9 DEF vars
  <2>2. InFlight' = InFlight
    BY <2>1 DEF InFlight
  <2>3. Types'
    BY <2>1, <2>2 DEF ExecInv, Types, LoopTypes, TaskTypes, ChannelTypes, HandlerTypes, SlotTypes, HistoryTypes
  <2>4. \A t \in Tasks : (Early(t)' <=> Early(t)) /\ (Late(t)' <=> Late(t))
    BY <2>1 DEF Early, Late
  <2>5. QED
    BY <2>1, <2>3, <2>4, NothingMoves
<1>10. QED
  BY <1>1, <1>2, <1>3, <1>4, <1>5, <1>6, <1>7, <1>8, <1>9 DEF Next

(* On a chain no attempt of which was reclaimed or left an orphan, one     *)
(* script is running at most: the chain has one attempt that is not over,  *)
(* and that has one task or one slot.                                      *)
LEMMA OneAtATime ==
  ASSUME ExecInv
  PROVE  OverlapHasCause
<1> SUFFICES ASSUME NEW r0 \in RunIds, \A r \in RunIds : root[r] = r0 => r \notin orphans /\ ~reclaimed[r]
             PROVE  ~(Running(r0) > 1)
  BY DEF OverlapHasCause
<1> DEFINE A == {t \in Scripting : root[task[t].run] = r0}
           B == {s \in SlotScripting : root[slot[s].run] = r0}
           C == {r \in orphans : root[r] = r0}
<1>1. Undisturbed(r0) /\ Types
  BY DEF Undisturbed, ExecInv
<1>2. ASSUME NEW t \in A
      PROVE  /\ task[t].run \in RunIds /\ RunOk(task[t].run) /\ Live(task[t].run)
             /\ table[task[t].run].by = Host /\ root[task[t].run] = r0 /\ t \in Tasks
  <2>1. t \in Tasks /\ task[t].at = "running" /\ root[task[t].run] = r0
    BY DEF Scripting
  <2>2. task[t].run \in RunIds
    BY <1>1, <2>1 DEF Types, TaskTypes, Spawned
  <2>3. RunOk(task[t].run)
    BY <2>1, <2>2 DEF ExecInv
  <2>4. Held(table[task[t].run]) /\ table[task[t].run].by = Host
    BY <2>1, <2>3 DEF RunOk, HostOk
  <2>5. QED
    BY <2>1, <2>2, <2>3, <2>4 DEF Live, Held
<1>3. ASSUME NEW s \in B
      PROVE  /\ slot[s].run \in RunIds /\ RunOk(slot[s].run) /\ Live(slot[s].run)
             /\ table[slot[s].run].by = s /\ root[slot[s].run] = r0 /\ s \in Slots
  <2>1. s \in Slots /\ slot[s].at = "running" /\ root[slot[s].run] = r0
    BY DEF SlotScripting
  <2>2. slot[s].run \in RunIds
    BY <1>1, <2>1 DEF Types, SlotTypes
  <2>3. RunOk(slot[s].run)
    BY <2>1, <2>2 DEF ExecInv
  <2>4. Held(table[slot[s].run]) /\ table[slot[s].run].by = s
    BY <2>1, <2>3 DEF RunOk, SlotOk
  <2>5. QED
    BY <2>1, <2>2, <2>3, <2>4 DEF Live, Held
<1>4. \A r, q \in RunIds : root[r] = r0 /\ root[q] = r0 /\ Live(r) /\ Live(q) => r = q
  BY <1>1 DEF ExecInv, ChainOk
<1>5. C = {}
  BY <1>1 DEF Types, HistoryTypes
<1>6. \A t, u \in A : t = u
  <2>1. SUFFICES ASSUME NEW t \in A, NEW u \in A PROVE t = u
    OBVIOUS
  <2>2. task[t].run = task[u].run
    BY <1>2, <1>4
  <2>3. QED
    BY <1>2, <2>2 DEF RunOk, TaskOk
<1>7. \A s, u \in B : s = u
  <2>1. SUFFICES ASSUME NEW s \in B, NEW u \in B PROVE s = u
    OBVIOUS
  <2>2. slot[s].run = slot[u].run
    BY <1>3, <1>4
  <2>3. QED
    BY <1>3, <2>2
<1>8. A = {} \/ B = {}
  <2>1. SUFFICES ASSUME NEW t \in A, NEW s \in B PROVE FALSE
    OBVIOUS
  <2>2. task[t].run = slot[s].run
    BY <1>2, <1>3, <1>4
  <2>3. QED
    BY <1>2, <1>3, <2>2, SetsAssumption
<1>9. Running(r0) = Cardinality(A) + Cardinality(B) + Cardinality(C)
  BY DEF Running
<1> HIDE DEF A, B, C
<1>10. Cardinality({}) = 0
  BY FS_EmptySet
<1>11. Cardinality(A) \in {0, 1} /\ (A = {} => Cardinality(A) = 0)
  <2>1. CASE A = {}
    BY <1>10, <2>1
  <2>2. CASE A # {}
    <3>1. PICK t : A = {t}
      BY <1>6, <2>2
    <3>2. QED
      BY <2>2, <3>1, FS_Singleton
  <2>3. QED
    BY <2>1, <2>2
<1>12. Cardinality(B) \in {0, 1} /\ (B = {} => Cardinality(B) = 0)
  <2>1. CASE B = {}
    BY <1>10, <2>1
  <2>2. CASE B # {}
    <3>1. PICK s : B = {s}
      BY <1>7, <2>2
    <3>2. QED
      BY <2>2, <3>1, FS_Singleton
  <2>3. QED
    BY <2>1, <2>2
<1>13. QED
  BY <1>5, <1>8, <1>9, <1>10, <1>11, <1>12

(* The invariant says that executions and rows account for each other. *)
LEMMA InvAccounts ==
  ASSUME ExecInv
  PROVE  ExecutionsAccounted
<1>1. TypeOK
  BY TypesOk DEF ExecInv
<1>2. OverlapHasCause
  BY OneAtATime
<1>3. RunningHasATask
  <2>1. SUFFICES ASSUME NEW r \in RunIds, table[r].status = "running", table[r].by = Host, ~reclaimed[r], faults = 0
                 PROVE  \/ \E t \in Tasks : task[t].run = r /\ task[t].at \in {"running", "report"}
                        \/ Panicked(r)
                        \/ \E i \in 1..Len(channel) : channel[i].run = r /\ channel[i].kind # "started"
                        \/ handler.run = r
    BY DEF RunningHasATask
  <2>2. RunningOk(r)
    BY <2>1 DEF ExecInv, RunOk
  <2>3. QED
    BY <2>1, <2>2 DEF RunningOk, Late, Events, Outcome, Panicked
<1>4. QED
  BY <1>1, <1>2, <1>3 DEF ExecutionsAccounted

(* Executions and rows account for each other: permits and channel keep    *)
(* their bounds, two scripts of one chain of attempts run at the same time *)
(* only after a timeout or a reclaim, and a row of the host's says running *)
(* only while its execution or its outcome is there, or its script         *)
(* panicked (Executor::spawn_run, handle_executor_event, worker_slot).     *)
THEOREM ExecutionsAccountedCorrect == Spec => []ExecutionsAccounted
<1>1. ExecInv => ExecutionsAccounted
  BY InvAccounts
<1>2. Init => ExecInv /\ ClosedOk
  BY InitInv DEF Init, ClosedOk
<1>3. QED
  BY <1>1, <1>2, NextInv, PTL DEF Spec

(* What a step does to a run that ended. *)
LEMMA StepKeepsTheEnd ==
  ASSUME ExecInv, Next, NEW r \in RunIds, table[r].status \in Terminal, ~reclaimed[r]
  PROVE  table'[r].status = table[r].status
<1>1. Types /\ table \in [RunIds -> Row] /\ RunOk(r) /\ ~Held(table[r])
      /\ table[r].status \notin {"none", "queued", "claimed", "running"}
  BY DEF ExecInv, Types, Held, Terminal
<1>2. CASE \E s \in Scripts : Enqueue(s)
  BY <1>1, <1>2 DEF Enqueue, Unused
<1>3. CASE \E q \in RunIds : Lapse(q)
  <2>1. PICK q \in RunIds : Lapse(q)
    BY <1>3
  <2>2. q # r
    BY <1>1, <2>1 DEF Lapse
  <2>3. QED
    BY <1>1, <2>1, <2>2 DEF Lapse
<1>4. CASE Reclaim
  BY <1>1, <1>4 DEF Reclaim, Due
<1>5. CASE \E q \in RunIds : Dispatch(q)
  <2>1. PICK q \in RunIds : Dispatch(q)
    BY <1>5
  <2>2. q # r
    BY <1>1, <2>1 DEF Dispatch, Claimable
  <2>3. table' = [table EXCEPT ![q] = Taken(table[q], Host)]
    BY <2>1 DEF Dispatch
  <2>4. QED
    BY <1>1, <2>2, <2>3
<1>6. CASE HandlerWrite
  <2>1. handler.run # r
    BY <1>1, <1>6 DEF HandlerWrite, RunOk, HostOk
  <2>2. QED
    BY <1>1, <1>6, <2>1 DEF HandlerWrite
<1>7. ASSUME NEW run, NEW row, CreateRetry(run, row)
      PROVE  table'[r].status = table[r].status
  <2>1. CASE Unused = {}
    BY <1>7, <2>1 DEF CreateRetry
  <2>2. CASE Unused # {}
    <3>1. NewRunId # r
      BY <1>1, <2>2, NewId
    <3>2. table' = [table EXCEPT ![NewRunId] = ForJob(row.script, row.attempt + 1)]
      BY <1>7, <2>2 DEF CreateRetry
    <3>3. QED
      BY <1>1, <3>1, <3>2
  <2>3. QED
    BY <2>1, <2>2
<1>8. CASE \E s \in Slots : Slot(s)
  <2>1. PICK s \in Slots : Slot(s)
    BY <1>8
  <2>2. CASE \E q \in RunIds : SlotClaim(s, q)
    <3>1. PICK q \in RunIds : SlotClaim(s, q)
      BY <2>2
    <3>2. q # r /\ table' = [table EXCEPT ![q] = Taken(table[q], s)]
      BY <1>1, <3>1 DEF SlotClaim
    <3>3. QED
      BY <1>1, <3>2
  <2>3. ASSUME slot[s].at \in {"claimed", "running"}, NEW status, Write(s, status)
        PROVE  table'[r].status = table[r].status
    <3>1. slot[s].run # r
      BY <1>1, <2>3 DEF RunOk, SlotOk
    <3>2. QED
      BY <1>1, <2>3, <3>1 DEF Write
  <2>4. CASE SlotStart(s) \/ (\E o \in {"success", "failed"} : SlotEnds(s, o)) \/ SlotTimesOut(s)
    BY <2>3, <2>4 DEF SlotStart, SlotEnds, SlotTimesOut, Settle
  <2>5. CASE SlotRetry(s)
    BY <1>7, <2>5 DEF SlotRetry
  <2>6. QED
    BY <2>1, <2>2, <2>4, <2>5 DEF Slot
<1>9. CASE HandlerRetry
  BY <1>7, <1>9 DEF HandlerRetry
<1>10. CASE UNCHANGED table
  BY <1>10
<1>11. (\E t \in Tasks : Task(t)) => UNCHANGED table
  BY DEF Task, Acquire, SendStarted, TaskScriptEnds, TaskPanics, SendOutcome, SendFails
<1>12. Run \/ Shutdown \/ (\E q \in RunIds : OrphanEnds(q)) \/ HandlerRead \/ HandlerFails \/ HandlerPanics
        => UNCHANGED table
  BY DEF Run, Shutdown, OrphanEnds, HandlerRead, HandlerFails, HandlerPanics
<1>13. QED
  BY <1>2, <1>3, <1>4, <1>5, <1>6, <1>8, <1>9, <1>10, <1>11, <1>12 DEF Next, Handler

(* A run that was never reclaimed ends once, although the consumer reads   *)
(* and writes in separate calls and slots write whole rows (events.rs,     *)
(* "late events must not rewind or complete a run").                       *)
THEOREM TerminalIsFinalCorrect == Spec => TerminalIsFinal
<1> DEFINE Final == \A r \in RunIds : table[r].status \in Terminal /\ ~reclaimed[r]
                                        => table'[r].status = table[r].status
<1>1. ExecInv /\ [Next]_vars => [Final]_vars
  BY StepKeepsTheEnd
<1>2. Init => ExecInv /\ ClosedOk
  BY InitInv DEF Init, ClosedOk
<1>3. QED
  BY <1>1, <1>2, NextInv, PTL DEF Spec, TerminalIsFinal
=============================================================================
