---------------------------- MODULE HeartbeatWake ---------------------------
(***************************************************************************)
(* Wake-ups of the heartbeat runner (src/src/infra/heartbeat-wake.ts):     *)
(* requests are collected per target until the one timer fires, then the   *)
(* handler is called for each of them in turn.  A gateway that restarts    *)
(* in-process registers a new handler while calls of the old one may still *)
(* be going on.                                                            *)
(*                                                                         *)
(* A batch is one execution of the timer callback past its first await.    *)
(* The order of the targets within a batch is left open, and of the reason *)
(* of a wake only its priority is kept.                                    *)
(***************************************************************************)
EXTENDS Integers

CONSTANTS
    Targets,       \* session or agent keys
    Priorities,    \* of the reasons callers give
    Delays,        \* coalesceMs callers give, in ticks
    CoalesceDelay, \* DEFAULT_COALESCE_MS
    RetryDelay,    \* DEFAULT_RETRY_MS
    Batches,       \* bound: batches under way at the same time
    MaxHandlers    \* bound: registrations

ASSUME ConstantsAssumption ==
    /\ Priorities \subseteq Nat \ {0}
    /\ Delays \subseteq Nat
    /\ CoalesceDelay \in Nat /\ RetryDelay \in Nat
    /\ MaxHandlers \in Nat

VARIABLES
    handler,   \* number of the registration in force, 0 for none
    registered,\* registrations so far
    pending,   \* pendingWakes: the priority per target, 0 for none
    scheduled, \* the flag of that name
    running,   \* the flag of that name
    timer,     \* NoTimer, or ticks left, kind and the delay it was set to
    batch,     \* per batch: what it took, what is left of it, its delay
    overlapped \* a handler was registered while a batch was under way

vars == <<handler, registered, pending, scheduled, running, timer, batch, overlapped>>

None == [t \in Targets |-> 0]
NoTimer == [left |-> 0, kind |-> "none", delay |-> 0]
NoBatch == [active |-> FALSE, taken |-> None, todo |-> {}, delay |-> 0]

(* setTimeout; the mutant's timer is a tick early.                         *)
EarlyTimer(delay, kind) == [left |-> delay - 1, kind |-> kind, delay |-> delay]
Timer(delay, kind) == [left |-> delay, kind |-> kind, delay |-> delay]

WakesIn(p) == {t \in Targets : p[t] # 0}
Active == {b \in Batches : batch[b].active}

Init ==
    /\ handler = 0 /\ registered = 0
    /\ pending = None
    /\ scheduled = FALSE /\ running = FALSE
    /\ timer = NoTimer
    /\ batch = [b \in Batches |-> NoBatch]
    /\ overlapped = FALSE

-----------------------------------------------------------------------------
(* queuePendingWakeReason: the higher priority stays; the mutant lets the  *)
(* last one win.                                                           *)
LastWins(p, t, priority) == [p EXCEPT ![t] = priority]
Queued(p, t, priority) == [p EXCEPT ![t] = IF priority >= @ THEN priority ELSE @]

(* schedule: what becomes of the timer tm.  A retry is never preempted,    *)
(* any other timer only by one that is due sooner; the mutant lets every   *)
(* sooner request preempt.                                                 *)
ScheduledSooner(tm, delay, kind) ==
    IF tm # NoTimer /\ tm.left <= delay THEN tm ELSE Timer(delay, kind)
Scheduled(tm, delay, kind) ==
    IF tm # NoTimer /\ (tm.kind = "retry" \/ tm.left <= delay) THEN tm ELSE Timer(delay, kind)

(* requestHeartbeatNow.                                                    *)
Request(t, priority, delay) ==
    /\ pending' = Queued(pending, t, priority)
    /\ timer' = Scheduled(timer, delay, "normal")
    /\ UNCHANGED <<handler, registered, scheduled, running, batch, overlapped>>

(* A timer a newly registered handler is given; the mutant forgets it.     *)
NoTimerForPending == NoTimer
TimerForPending == IF pending # None THEN Timer(CoalesceDelay, "normal") ELSE NoTimer

(* setHeartbeatWakeHandler, with a handler, without one, and its disposer. *)
SetHandler ==
    /\ registered < MaxHandlers
    /\ registered' = registered + 1
    /\ handler' = registered + 1
    /\ timer' = TimerForPending
    /\ running' = FALSE /\ scheduled' = FALSE
    /\ overlapped' = (overlapped \/ Active # {})
    /\ UNCHANGED <<pending, batch>>

ClearHandler ==
    /\ registered < MaxHandlers
    /\ registered' = registered + 1
    /\ handler' = 0
    /\ UNCHANGED <<pending, scheduled, running, timer, batch, overlapped>>

Dispose(registration) ==
    /\ registration = registered
    /\ handler = registration
    /\ ClearHandler

-----------------------------------------------------------------------------
(* The timer callback.                                                     *)

Tick ==
    /\ timer # NoTimer /\ timer.left > 0
    /\ timer' = [timer EXCEPT !.left = @ - 1]
    /\ UNCHANGED <<handler, registered, pending, scheduled, running, batch, overlapped>>

Due == timer # NoTimer /\ timer.left = 0

(* No batch is under way, as far as the flag tells; the mutant does not    *)
(* look.                                                                   *)
AlwaysFree == TRUE
Free == ~running

FiresUnhandled ==
    /\ Due /\ handler = 0
    /\ timer' = NoTimer /\ scheduled' = FALSE
    /\ UNCHANGED <<handler, registered, pending, running, batch, overlapped>>

(* A batch is under way: try again later; the mutant does not.             *)
GivesUp == NoTimer
TriesLater == Timer(timer.delay, timer.kind)

FiresWhileRunning ==
    /\ Due /\ handler # 0 /\ ~Free
    /\ timer' = TriesLater
    /\ scheduled' = TRUE
    /\ UNCHANGED <<handler, registered, pending, running, batch, overlapped>>

(* The callback takes all that is pending and calls the handler.  With     *)
(* nothing pending it runs through to its end.                             *)
Fires(b) ==
    /\ Due /\ handler # 0 /\ Free
    /\ b \notin Active
    /\ timer' = NoTimer /\ scheduled' = FALSE
    /\ pending' = None
    /\ IF pending # None
       THEN /\ running' = TRUE
            /\ batch' = [batch EXCEPT ![b] = [active |-> TRUE, taken |-> pending,
                                       todo |-> WakesIn(pending), delay |-> timer.delay]]
       ELSE UNCHANGED <<running, batch>>
    /\ UNCHANGED <<handler, registered, overlapped>>

(* finally, after which p is pending and tm the timer.                     *)
EndBatch(b, p, tm) ==
    /\ running' = FALSE
    /\ batch' = [batch EXCEPT ![b] = NoBatch]
    /\ pending' = p
    /\ timer' = IF p # None \/ scheduled
                THEN Scheduled(tm, batch[b].delay, "normal") ELSE tm

(* The pending wakes after t was skipped because requests are in flight.   *)
Requeued(b, t) == Queued(pending, t, batch[b].taken[t])

(* The handler returns for target t.                                       *)
Returns(b, t, busy) ==
    LET p == IF busy THEN Requeued(b, t) ELSE pending
        tm == IF busy THEN Scheduled(timer, RetryDelay, "retry") ELSE timer
    IN  /\ b \in Active /\ t \in batch[b].todo
        /\ IF batch[b].todo = {t}
           THEN EndBatch(b, p, tm)
           ELSE /\ batch' = [batch EXCEPT ![b].todo = @ \ {t}]
                /\ pending' = p /\ timer' = tm
                /\ UNCHANGED running
        /\ UNCHANGED <<handler, registered, scheduled, overlapped>>

(* The handler throws: all the batch took is pending again.                *)
Throws(b) ==
    /\ b \in Active
    /\ EndBatch(b, [t \in Targets |-> IF batch[b].taken[t] # 0
                                      THEN Requeued(b, t)[t] ELSE pending[t]],
                Scheduled(timer, RetryDelay, "retry"))
    /\ UNCHANGED <<handler, registered, scheduled, overlapped>>

-----------------------------------------------------------------------------
Next ==
    \/ \E t \in Targets, p \in Priorities, d \in Delays : Request(t, p, d)
    \/ SetHandler \/ ClearHandler
    \/ \E r \in 1..MaxHandlers : Dispose(r)
    \/ Tick
    \/ FiresUnhandled \/ FiresWhileRunning
    \/ \E b \in Batches : \/ Fires(b)
                          \/ \E t \in Targets, busy \in BOOLEAN : Returns(b, t, busy)
                          \/ Throws(b)

(* Timers are served, and a call of the handler returns or throws.         *)
Fairness ==
    /\ WF_vars(Tick) /\ WF_vars(FiresUnhandled) /\ WF_vars(FiresWhileRunning)
    /\ WF_vars(\E b \in Batches : Fires(b))
    /\ \A b \in Batches :
         WF_vars(Throws(b) \/ \E t \in Targets, busy \in BOOLEAN : Returns(b, t, busy))

Spec == Init /\ [][Next]_vars
FairSpec == Spec /\ Fairness

-----------------------------------------------------------------------------
(* Properties.                                                             *)

Wakes == [Targets -> Priorities \cup {0}]

TypeOK ==
    /\ handler \in 0..registered /\ registered \in 0..MaxHandlers
    /\ pending \in Wakes
    /\ scheduled \in BOOLEAN /\ running \in BOOLEAN /\ overlapped \in BOOLEAN
    /\ timer \in [left : Nat, kind : {"none", "normal", "retry"}, delay : Nat]
    /\ timer.kind = "none" => timer = NoTimer
    /\ batch \in [Batches -> [active : BOOLEAN, taken : Wakes, todo : SUBSET Targets,
                              delay : Nat]]

(* While a handler is registered, a pending wake has a timer that will     *)
(* look at it, whatever batches of old registrations are still doing.      *)
PendingHasTimer == handler # 0 /\ pending # None => timer # NoTimer

(* As long as no handler was registered over a running batch, there is at  *)
(* most one batch: the runner is not re-entered.                           *)
OneBatch == ~overlapped => \A b, c \in Active : b = c

(* A pending wake only goes away into a batch that has it with the same    *)
(* priority: neither a later request nor a wake put back after a batch     *)
(* downgrades or drops it.                                                 *)
KeepsPriority ==
    [][\A t \in Targets :
          pending'[t] >= pending[t] \/ \E b \in Batches : batch'[b].taken[t] = pending[t]]_vars

(* A retry timer is not cut short except by a new handler.                 *)
RetryTimerHolds ==
    [][timer.kind = "retry" /\ timer.left > 0 /\ registered' = registered =>
          timer'.kind = "retry" /\ timer'.left >= timer.left - 1]_vars

(* A pending wake is taken by a batch unless there is no handler.          *)
WakeIsServed ==
    \A t \in Targets :
        pending[t] # 0 ~> handler = 0 \/ \E b \in Active : batch[b].taken[t] # 0
=============================================================================
