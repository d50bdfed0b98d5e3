------------------------------ MODULE RunLife ------------------------------
(***************************************************************************)
(* What the run store promises its users, whatever the store is made of    *)
(* (chronon-core/src/store.rs, SchedulerStore, the run part): a run is     *)
(* queued once, taken by one worker, and ended by the worker that took it, *)
(* once and for all.  A run whose lease lapsed goes back to the queue and  *)
(* is contested from then on: two workers may be acting on it, the whole-  *)
(* row writes of either may show, and the store promises no more than that *)
(* it stays a run that was created.                                        *)
(*                                                                         *)
(* One statement of the store may move several runs (a reclaim, a batch    *)
(* claim), so a step is a change of every run, most of them no change.     *)
(***************************************************************************)
CONSTANTS
    Runs,     \* identifiers of runs
    Owners,   \* worker identities
    NoOwner   \* claimed_by = None

VARIABLES
    life,      \* "none", "queued", "held" or "ended", for each run
    owner,     \* the worker a held run is held by
    contested  \* has the run been taken away from a worker?

vars == <<life, owner, contested>>

Life == {"none", "queued", "held", "ended"}

Init ==
    /\ life = [r \in Runs |-> "none"]
    /\ owner = [r \in Runs |-> NoOwner]
    /\ contested = [r \in Runs |-> FALSE]

Stays(r) == /\ life'[r] = life[r]
            /\ owner'[r] = owner[r]
            /\ contested'[r] = contested[r]

Create(r) == /\ life[r] = "none" /\ life'[r] = "queued"
             /\ owner'[r] = NoOwner
             /\ ~contested'[r]

Take(r) == /\ life[r] = "queued" /\ life'[r] = "held"
           /\ owner'[r] \in Owners
           /\ contested'[r] = contested[r]

End(r) == /\ life[r] = "held" /\ life'[r] = "ended"
          /\ owner'[r] = owner[r]
          /\ contested'[r] = contested[r]

(* The lease lapsed: the run is queued again, and contested. *)
GiveBack(r) == /\ life[r] = "held" /\ life'[r] = "queued"
               /\ owner'[r] = NoOwner
               /\ contested'[r]

(* A whole-row write of a worker that lost the run. *)
Overwrite(r) == /\ contested[r] /\ contested'[r]
                /\ life[r] # "none" /\ life'[r] \in {"held", "ended"}

Change(r) == Stays(r) \/ Create(r) \/ Take(r) \/ End(r) \/ GiveBack(r) \/ Overwrite(r)

Next == /\ life' \in [Runs -> Life]
        /\ owner' \in [Runs -> Owners \cup {NoOwner}]
        /\ contested' \in [Runs -> BOOLEAN]
        /\ \A r \in Runs : Change(r)

Spec == Init /\ [][Next]_vars
=============================================================================
