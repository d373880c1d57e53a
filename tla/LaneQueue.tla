------------------------------ MODULE LaneQueue -----------------------------
(***************************************************************************)
(* What the command queue promises its callers, without the call stack,    *)
(* the re-entrant pumps, the task ids and the generations it takes to keep *)
(* the promise: a lane is a first-in first-out server with a number of     *)
(* slots.  CommandQueue implements this specification.                     *)
(***************************************************************************)
EXTENDS Naturals, Sequences, FiniteSets

CONSTANTS Lanes, Tasks

VARIABLES
    waiting, \* per lane: tasks accepted and not started, oldest first
    serving, \* per lane: tasks that hold a slot
    limit,   \* per lane: number of slots
    closed,  \* new tasks are turned away
    fate     \* per task: "new", "accepted", "started" or "turnedAway"

vars == <<waiting, serving, limit, closed, fate>>

Init ==
    /\ waiting = [l \in Lanes |-> <<>>]
    /\ serving = [l \in Lanes |-> {}]
    /\ limit = [l \in Lanes |-> 1]
    /\ closed = FALSE
    /\ fate = [t \in Tasks |-> "new"]

(* An open queue accepts a new task at the end of a lane.                  *)
Accept(t, l) ==
    /\ fate[t] = "new" /\ ~closed
    /\ waiting' = [waiting EXCEPT ![l] = Append(@, t)]
    /\ fate' = [fate EXCEPT ![t] = "accepted"]
    /\ UNCHANGED <<serving, limit, closed>>

TurnAway(t) ==
    /\ fate[t] = "new" /\ closed
    /\ fate' = [fate EXCEPT ![t] = "turnedAway"]
    /\ UNCHANGED <<waiting, serving, limit, closed>>

(* The oldest waiting task starts if the lane has a free slot.             *)
Start(l) ==
    /\ waiting[l] # <<>>
    /\ Cardinality(serving[l]) < limit[l]
    /\ waiting' = [waiting EXCEPT ![l] = Tail(@)]
    /\ serving' = [serving EXCEPT ![l] = @ \cup {Head(waiting[l])}]
    /\ fate' = [fate EXCEPT ![Head(waiting[l])] = "started"]
    /\ UNCHANGED <<limit, closed>>

(* A task that ends gives its slot back.                                   *)
End(t, l) ==
    /\ t \in serving[l]
    /\ serving' = [serving EXCEPT ![l] = @ \ {t}]
    /\ UNCHANGED <<waiting, limit, closed, fate>>

(* All that waits in a lane is turned away.                                *)
Withdraw(l) ==
    /\ waiting[l] # <<>>
    /\ waiting' = [waiting EXCEPT ![l] = <<>>]
    /\ fate' = [t \in Tasks |-> IF \E i \in DOMAIN waiting[l] : waiting[l][i] = t
                                THEN "turnedAway" ELSE fate[t]]
    /\ UNCHANGED <<serving, limit, closed>>

(* A lane always keeps at least one slot.                                  *)
Configure(l) ==
    /\ limit'[l] \in Nat \ {0}
    /\ limit' = [limit EXCEPT ![l] = limit'[l]]
    /\ UNCHANGED <<waiting, serving, closed, fate>>

Close ==
    /\ closed' = TRUE
    /\ UNCHANGED <<waiting, serving, limit, fate>>

(* The queue opens again, for a new lifecycle: tasks that still run do not *)
(* count any longer, tasks that wait are kept.                             *)
Reopen ==
    /\ closed' = FALSE
    /\ serving' = [l \in Lanes |-> {}]
    /\ UNCHANGED <<waiting, limit, fate>>

Next ==
    \/ \E t \in Tasks : TurnAway(t)
    \/ \E t \in Tasks, l \in Lanes : Accept(t, l) \/ End(t, l)
    \/ \E l \in Lanes : Start(l) \/ Withdraw(l) \/ Configure(l)
    \/ Close
    \/ Reopen

Spec == Init /\ [][Next]_vars
=============================================================================
