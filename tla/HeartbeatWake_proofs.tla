------------------------ MODULE HeartbeatWake_proofs ------------------------
(***************************************************************************)
(* Proofs about HeartbeatWake: type correctness, that no pending wake is   *)
(* left without a timer, that batches do not overlap unless a handler is   *)
(* registered over one, that wakes keep their priority until a batch takes *)
(* them, and that a retry timer is not cut short.                          *)
(***************************************************************************)
EXTENDS HeartbeatWake, TLAPS

Kinds == {"none", "normal", "retry"}
TimerOK(tm) ==
    /\ tm \in [left : Nat, kind : Kinds, delay : Nat]
    /\ tm.kind = "none" => tm = NoTimer

LEMMA NewTimer ==
    ASSUME NEW delay \in Nat, NEW kind \in {"normal", "retry"}
    PROVE  TimerOK(Timer(delay, kind)) /\ Timer(delay, kind) # NoTimer
BY DEF TimerOK, Timer, NoTimer, Kinds

LEMMA ScheduledTimer ==
    ASSUME NEW tm, TimerOK(tm), NEW delay \in Nat, NEW kind \in {"normal", "retry"}
    PROVE  TimerOK(Scheduled(tm, delay, kind)) /\ Scheduled(tm, delay, kind) # NoTimer
BY NewTimer DEF Scheduled

LEMMA QueuedWakes ==
    ASSUME NEW p \in Wakes, NEW t \in Targets, NEW priority \in Priorities \cup {0}
    PROVE  Queued(p, t, priority) \in Wakes
BY DEF Wakes, Queued

LEMMA ConstantTypes ==
    /\ None \in Wakes
    /\ TimerOK(NoTimer)
    /\ CoalesceDelay \in Nat /\ RetryDelay \in Nat
    /\ \A d \in Delays : d \in Nat
BY ConstantsAssumption DEF Wakes, None, TimerOK, NoTimer, Kinds

-----------------------------------------------------------------------------
(* The parts of the type invariant.                                        *)
BatchType == [active : BOOLEAN, taken : Wakes, todo : SUBSET Targets, delay : Nat]
FlagsOK ==
    /\ handler \in 0..registered /\ registered \in 0..MaxHandlers
    /\ scheduled \in BOOLEAN /\ running \in BOOLEAN /\ overlapped \in BOOLEAN

LEMMA TypeParts ==
    TypeOK <=> /\ FlagsOK
               /\ pending \in Wakes
               /\ TimerOK(timer)
               /\ batch \in [Batches -> BatchType]
BY DEF TypeOK, FlagsOK, TimerOK, Kinds, BatchType

LEMMA NoBatchType == NoBatch \in BatchType
BY ConstantTypes DEF NoBatch, BatchType

(* The end of a batch, given what is pending and the timer.                *)
LEMMA EndBatchType ==
    ASSUME batch \in [Batches -> BatchType], NEW b \in Batches,
           NEW p \in Wakes, NEW tm, TimerOK(tm), p # None => tm # NoTimer, EndBatch(b, p, tm)
    PROVE  /\ pending' \in Wakes /\ TimerOK(timer') /\ batch' \in [Batches -> BatchType]
           /\ running' = FALSE
           /\ pending' # None => timer' # NoTimer
<1>1. batch[b].delay \in Nat
  BY DEF BatchType
<1>2. TimerOK(Scheduled(tm, batch[b].delay, "normal"))
      /\ Scheduled(tm, batch[b].delay, "normal") # NoTimer
  BY <1>1, ScheduledTimer
<1>3. batch' \in [Batches -> BatchType]
  BY NoBatchType DEF EndBatch
<1> QED
  BY <1>2, <1>3 DEF EndBatch

LEMMA RequeuedType ==
    ASSUME TypeOK, NEW b \in Batches, NEW t \in Targets
    PROVE  Requeued(b, t) \in Wakes
<1>1. batch[b].taken[t] \in Priorities \cup {0}
  BY TypeParts DEF BatchType, Wakes
<1> QED
  BY <1>1, QueuedWakes, TypeParts DEF Requeued

-----------------------------------------------------------------------------
(* Type and timer are kept together: the timer a batch leaves behind has   *)
(* the delay it was started with.                                          *)
TimerInv == TypeOK /\ PendingHasTimer

LEMMA TimerInit == Init => TimerInv
<1> SUFFICES ASSUME Init PROVE TimerInv
  OBVIOUS
<1>1. FlagsOK
  <2>1. handler \in 0..registered /\ registered \in 0..MaxHandlers
    BY ConstantsAssumption DEF Init
  <2>2. scheduled \in BOOLEAN /\ running \in BOOLEAN /\ overlapped \in BOOLEAN
    BY DEF Init
  <2> QED
    BY <2>1, <2>2 DEF FlagsOK
<1>2. pending \in Wakes /\ TimerOK(timer)
  BY ConstantTypes DEF Init
<1>3. batch \in [Batches -> BatchType]
  BY NoBatchType DEF Init
<1>4. PendingHasTimer
  BY DEF Init, PendingHasTimer
<1> QED
  BY <1>1, <1>2, <1>3, <1>4, TypeParts DEF TimerInv

LEMMA TimerNext == TimerInv /\ [Next]_vars => TimerInv'
<1> SUFFICES ASSUME TimerInv, [Next]_vars PROVE TimerInv'
  OBVIOUS
<1>0. /\ FlagsOK /\ pending \in Wakes /\ TimerOK(timer)
      /\ batch \in [Batches -> BatchType] /\ PendingHasTimer
  BY TypeParts DEF TimerInv
<1> SUFFICES /\ FlagsOK' /\ pending' \in Wakes /\ TimerOK(timer')
             /\ batch' \in [Batches -> BatchType] /\ PendingHasTimer'
  BY TypeParts DEF TimerInv, TypeOK, FlagsOK, TimerOK, BatchType, Kinds
<1>1. ASSUME NEW t \in Targets, NEW p \in Priorities, NEW d \in Delays, Request(t, p, d)
      PROVE  /\ FlagsOK' /\ pending' \in Wakes /\ TimerOK(timer')
             /\ batch' \in [Batches -> BatchType] /\ PendingHasTimer'
  <2>1. pending' \in Wakes
    BY <1>0, <1>1, QueuedWakes DEF Request
  <2>2. TimerOK(timer') /\ timer' # NoTimer
    BY <1>0, <1>1, ScheduledTimer, ConstantTypes DEF Request
  <2> QED
    BY <1>0, <1>1, <2>1, <2>2 DEF Request, FlagsOK, PendingHasTimer
<1>2. ASSUME SetHandler
      PROVE  /\ FlagsOK' /\ pending' \in Wakes /\ TimerOK(timer')
             /\ batch' \in [Batches -> BatchType] /\ PendingHasTimer'
  <2>1. TimerOK(timer') /\ (pending' # None => timer' # NoTimer)
    BY <1>2, NewTimer, ConstantTypes DEF SetHandler, TimerForPending
  <2>2. FlagsOK'
    <3>1. handler' \in 0..registered' /\ registered' \in 0..MaxHandlers
      BY <1>0, <1>2, ConstantsAssumption DEF SetHandler, FlagsOK
    <3>2. scheduled' \in BOOLEAN /\ running' \in BOOLEAN
      BY <1>2 DEF SetHandler
    <3>3. overlapped' \in BOOLEAN
      BY <1>0, <1>2 DEF SetHandler, FlagsOK
    <3> QED
      BY <3>1, <3>2, <3>3 DEF FlagsOK
  <2> QED
    BY <1>0, <1>2, <2>1, <2>2 DEF SetHandler, PendingHasTimer
<1>3. ASSUME ClearHandler
      PROVE  /\ FlagsOK' /\ pending' \in Wakes /\ TimerOK(timer')
             /\ batch' \in [Batches -> BatchType] /\ PendingHasTimer'
  BY <1>0, <1>3, ConstantsAssumption DEF ClearHandler, FlagsOK, PendingHasTimer
<1>4. ASSUME Tick
      PROVE  /\ FlagsOK' /\ pending' \in Wakes /\ TimerOK(timer')
             /\ batch' \in [Batches -> BatchType] /\ PendingHasTimer'
  <2>1. timer.kind # "none"
    BY <1>0, <1>4 DEF Tick, TimerOK
  <2>2. timer' \in [left : Nat, kind : Kinds, delay : Nat] /\ timer'.kind # "none"
    BY <1>0, <1>4, <2>1 DEF Tick, TimerOK
  <2>3. TimerOK(timer') /\ timer' # NoTimer
    BY <2>2 DEF TimerOK, NoTimer
  <2> QED
    BY <1>0, <1>4, <2>3 DEF Tick, FlagsOK, PendingHasTimer
<1>5. ASSUME FiresUnhandled
      PROVE  /\ FlagsOK' /\ pending' \in Wakes /\ TimerOK(timer')
             /\ batch' \in [Batches -> BatchType] /\ PendingHasTimer'
  BY <1>0, <1>5, ConstantTypes DEF FiresUnhandled, FlagsOK, PendingHasTimer
<1>6. ASSUME FiresWhileRunning
      PROVE  /\ FlagsOK' /\ pending' \in Wakes /\ TimerOK(timer')
             /\ batch' \in [Batches -> BatchType] /\ PendingHasTimer'
  <2>1. timer.kind \in {"normal", "retry"} /\ timer.delay \in Nat
    BY <1>0, <1>6 DEF FiresWhileRunning, Due, TimerOK, Kinds
  <2>2. TimerOK(timer') /\ timer' # NoTimer
    BY <1>6, <2>1, NewTimer DEF FiresWhileRunning, TriesLater
  <2> QED
    BY <1>0, <1>6, <2>2 DEF FiresWhileRunning, FlagsOK, PendingHasTimer
<1>7. ASSUME NEW b \in Batches, Fires(b)
      PROVE  /\ FlagsOK' /\ pending' \in Wakes /\ TimerOK(timer')
             /\ batch' \in [Batches -> BatchType] /\ PendingHasTimer'
  <2>1. [active |-> TRUE, taken |-> pending, todo |-> WakesIn(pending),
         delay |-> timer.delay] \in BatchType
    BY <1>0 DEF BatchType, TimerOK, WakesIn
  <2>2. batch' \in [Batches -> BatchType]
    BY <1>0, <1>7, <2>1 DEF Fires
  <2>3. FlagsOK'
    BY <1>0, <1>7 DEF Fires, FlagsOK
  <2> QED
    BY <1>0, <1>7, <2>2, <2>3, ConstantTypes DEF Fires, PendingHasTimer
<1>8. ASSUME NEW b \in Batches, NEW t \in Targets, NEW busy \in BOOLEAN, Returns(b, t, busy)
      PROVE  /\ FlagsOK' /\ pending' \in Wakes /\ TimerOK(timer')
             /\ batch' \in [Batches -> BatchType] /\ PendingHasTimer'
  <2> DEFINE p == IF busy THEN Requeued(b, t) ELSE pending
             tm == IF busy THEN Scheduled(timer, RetryDelay, "retry") ELSE timer
  <2>1. p \in Wakes
    BY <1>0, RequeuedType DEF TimerInv
  <2>2. TimerOK(tm) /\ (handler # 0 /\ p # None => tm # NoTimer)
    BY <1>0, ScheduledTimer, ConstantTypes DEF PendingHasTimer
  <2>3. UNCHANGED <<handler, registered, scheduled, overlapped>>
    BY <1>8 DEF Returns
  <2>4. CASE EndBatch(b, p, tm)
    <3>1. batch[b].delay \in Nat
      BY <1>0 DEF BatchType
    <3>2. TimerOK(Scheduled(tm, batch[b].delay, "normal"))
          /\ Scheduled(tm, batch[b].delay, "normal") # NoTimer
      BY <2>2, <3>1, ScheduledTimer
    <3>3. pending' \in Wakes /\ TimerOK(timer') /\ (pending' # None => timer' # NoTimer)
      BY <2>1, <2>2, <2>4, <3>2 DEF EndBatch
    <3>4. batch' \in [Batches -> BatchType] /\ running' = FALSE
      BY <1>0, <2>4, NoBatchType DEF EndBatch
    <3> QED
      BY <1>0, <2>3, <3>3, <3>4 DEF FlagsOK, PendingHasTimer
  <2>5. CASE ~EndBatch(b, p, tm)
    <3>1. /\ batch' = [batch EXCEPT ![b].todo = @ \ {t}]
          /\ pending' = p /\ timer' = tm /\ running' = running
      BY <1>8, <2>5 DEF Returns
    <3>2. batch' \in [Batches -> BatchType]
      BY <1>0, <3>1 DEF BatchType
    <3> QED
      BY <1>0, <2>1, <2>2, <2>3, <3>1, <3>2 DEF FlagsOK, PendingHasTimer
  <2> QED
    BY <2>4, <2>5
<1>9. ASSUME NEW b \in Batches, Throws(b)
      PROVE  /\ FlagsOK' /\ pending' \in Wakes /\ TimerOK(timer')
             /\ batch' \in [Batches -> BatchType] /\ PendingHasTimer'
  <2> DEFINE p == [t \in Targets |-> IF batch[b].taken[t] # 0
                                     THEN Requeued(b, t)[t] ELSE pending[t]]
             tm == Scheduled(timer, RetryDelay, "retry")
  <2>1. p \in Wakes
    <3>1. \A t \in Targets : Requeued(b, t)[t] \in Priorities \cup {0}
      BY RequeuedType DEF TimerInv, Wakes
    <3> QED
      BY <1>0, <3>1 DEF Wakes
  <2>2. TimerOK(tm) /\ tm # NoTimer
    BY <1>0, ScheduledTimer, ConstantTypes
  <2>3. EndBatch(b, p, tm) /\ UNCHANGED <<handler, registered, scheduled, overlapped>>
    BY <1>9 DEF Throws
  <2>4. /\ pending' \in Wakes /\ TimerOK(timer') /\ batch' \in [Batches -> BatchType]
        /\ running' = FALSE
        /\ pending' # None => timer' # NoTimer
    BY <1>0, <2>1, <2>2, <2>3, EndBatchType
  <2> QED
    BY <1>0, <2>3, <2>4 DEF FlagsOK, PendingHasTimer
<1>10. CASE UNCHANGED vars
  BY <1>0, <1>10 DEF vars, FlagsOK, PendingHasTimer
<1> QED
  BY <1>1, <1>2, <1>3, <1>4, <1>5, <1>6, <1>7, <1>8, <1>9, <1>10 DEF Next, Dispose

(* Every reachable state is well typed.                                    *)
THEOREM TypeCorrect == Spec => []TypeOK
<1>1. TimerInv => TypeOK
  BY DEF TimerInv
<1> QED
  BY TimerInit, TimerNext, <1>1, PTL DEF Spec

(* A wake that is pending while a handler is registered always has a timer *)
(* that will look at it: requests, retries, batches of earlier handlers    *)
(* and a new registration never leave it behind without one.               *)
THEOREM PendingHasTimerHolds == Spec => []PendingHasTimer
<1>1. TimerInv => PendingHasTimer
  BY DEF TimerInv
<1> QED
  BY TimerInit, TimerNext, <1>1, PTL DEF Spec

-----------------------------------------------------------------------------
(* Until a handler is registered over a batch, the flag `running' is up    *)
(* during every batch.                                                     *)
FlagInv == ~overlapped => (Active # {} => running) /\ (\A b, c \in Active : b = c)

LEMMA BatchInit == Init => FlagInv
BY DEF Init, FlagInv, Active, NoBatch

(* A step that leaves the batches alone, and one that ends batch b.        *)
LEMMA SameBatches ==
    ASSUME FlagInv, batch' = batch, running' = running, overlapped' = overlapped
    PROVE  FlagInv'
BY DEF FlagInv, Active

LEMMA EndsBatch ==
    ASSUME TypeOK, FlagInv, NEW b \in Active, NEW p, NEW tm, EndBatch(b, p, tm),
           overlapped' = overlapped
    PROVE  FlagInv'
<1>1. batch' = [batch EXCEPT ![b] = NoBatch] /\ running' = FALSE
  BY DEF EndBatch
<1>2. Active' = Active \ {b}
  BY <1>1, TypeParts DEF Active, NoBatch
<1> QED
  BY <1>1, <1>2 DEF FlagInv

LEMMA BatchNext == TypeOK /\ FlagInv /\ [Next]_vars => FlagInv'
<1> SUFFICES ASSUME TypeOK, FlagInv, [Next]_vars PROVE FlagInv'
  OBVIOUS
<1>0. batch \in [Batches -> BatchType]
  BY TypeParts
<1>1. ASSUME NEW t \in Targets, NEW p \in Priorities, NEW d \in Delays, Request(t, p, d)
      PROVE  FlagInv'
  BY <1>1, SameBatches DEF Request
<1>2. CASE SetHandler
  BY <1>2 DEF SetHandler, FlagInv, Active
<1>3. CASE ClearHandler
  BY <1>3, SameBatches DEF ClearHandler
<1>4. CASE Tick
  BY <1>4, SameBatches DEF Tick
<1>5. CASE FiresUnhandled
  BY <1>5, SameBatches DEF FiresUnhandled
<1>6. CASE FiresWhileRunning
  BY <1>6, SameBatches DEF FiresWhileRunning
<1>7. ASSUME NEW b \in Batches, Fires(b) PROVE FlagInv'
  <2>1. CASE pending = None
    BY <1>7, <2>1, SameBatches DEF Fires
  <2>2. CASE pending # None
    <3>1. /\ ~running /\ running' = TRUE /\ overlapped' = overlapped
          /\ batch' = [batch EXCEPT ![b] = [active |-> TRUE, taken |-> pending,
                                      todo |-> WakesIn(pending), delay |-> timer.delay]]
      BY <1>7, <2>2 DEF Fires, Free
    <3>2. Active' = Active \cup {b}
      BY <1>0, <3>1 DEF Active
    <3> QED
      BY <3>1, <3>2 DEF FlagInv
  <2> QED
    BY <2>1, <2>2
<1>8. ASSUME NEW b \in Batches, NEW t \in Targets, NEW busy \in BOOLEAN, Returns(b, t, busy)
      PROVE  FlagInv'
  <2>1. b \in Active /\ overlapped' = overlapped
    BY <1>8 DEF Returns
  <2>2. CASE batch[b].todo = {t}
    <3>1. PICK p, tm : EndBatch(b, p, tm)
      BY <1>8, <2>2 DEF Returns
    <3> QED
      BY <2>1, <3>1, EndsBatch
  <2>3. CASE batch[b].todo # {t}
    <3>1. batch' = [batch EXCEPT ![b].todo = @ \ {t}] /\ running' = running
      BY <1>8, <2>3 DEF Returns
    <3>2. Active' = Active
      BY <1>0, <3>1 DEF Active, BatchType
    <3> QED
      BY <2>1, <3>1, <3>2 DEF FlagInv
  <2> QED
    BY <2>2, <2>3
<1>9. ASSUME NEW b \in Batches, Throws(b) PROVE FlagInv'
  BY <1>9, EndsBatch DEF Throws
<1>10. CASE UNCHANGED vars
  BY <1>10, SameBatches DEF vars
<1> QED
  BY <1>1, <1>2, <1>3, <1>4, <1>5, <1>6, <1>7, <1>8, <1>9, <1>10 DEF Next, Dispose

(* As long as no handler is registered while a batch is under way, batches *)
(* do not overlap: the handler is not re-entered.                          *)
THEOREM OneBatchHolds == Spec => []OneBatch
<1>1. FlagInv => OneBatch
  BY DEF FlagInv, OneBatch
<1> QED
  BY BatchInit, BatchNext, TypeCorrect, <1>1, PTL DEF Spec

-----------------------------------------------------------------------------
(* What one step may do to the pending wakes.                              *)
Raised(p) == \A t \in Targets : p[t] >= pending[t]

LEMMA WakeNumbers ==
    ASSUME NEW p \in Wakes, NEW t \in Targets
    PROVE  p[t] \in Nat
<1>1. p[t] \in Priorities \cup {0}
  BY DEF Wakes
<1>2. \A q \in Priorities : q \in Nat
  BY ConstantsAssumption
<1> QED BY <1>1, <1>2

LEMMA PendingNumbers == TypeOK => \A t \in Targets : pending[t] \in Nat
BY WakeNumbers, TypeParts

LEMMA QueuedRaises ==
    ASSUME TypeOK, NEW t \in Targets, NEW priority \in Nat
    PROVE  Raised(Queued(pending, t, priority))
<1>1. pending \in [Targets -> Nat]
  BY PendingNumbers, TypeParts DEF Wakes
<1> QED BY <1>1 DEF Raised, Queued

LEMMA RequeuedRaises ==
    ASSUME TypeOK, NEW b \in Batches, NEW t \in Targets
    PROVE  Raised(Requeued(b, t))
<1>1. batch[b].taken[t] \in Nat
  BY WakeNumbers, TypeParts DEF BatchType
<1> QED BY <1>1, QueuedRaises DEF Requeued

LEMMA PendingStep ==
    ASSUME TypeOK, [Next]_vars
    PROVE  \/ Raised(pending')
           \/ pending # None /\ \E b \in Batches : batch'[b].taken = pending
<1>1. ASSUME NEW t \in Targets, NEW p \in Priorities, NEW d \in Delays, Request(t, p, d)
      PROVE  Raised(pending')
  BY <1>1, QueuedRaises, ConstantsAssumption DEF Request
<1>2. ASSUME pending' = pending PROVE Raised(pending')
  BY <1>2, PendingNumbers DEF Raised
<1>3. ASSUME NEW b \in Batches, Fires(b)
      PROVE  \/ Raised(pending')
             \/ pending # None /\ \E c \in Batches : batch'[c].taken = pending
  <2>1. CASE pending = None
    BY <1>2, <1>3, <2>1 DEF Fires
  <2>2. CASE pending # None
    BY <1>3, <2>2 DEF Fires, TypeOK
  <2> QED BY <2>1, <2>2
<1>4. ASSUME NEW b \in Batches, NEW t \in Targets, NEW busy \in BOOLEAN, Returns(b, t, busy)
      PROVE  Raised(pending')
  <2>1. pending' = IF busy THEN Requeued(b, t) ELSE pending
    BY <1>4 DEF Returns, EndBatch
  <2> QED BY <1>2, <2>1, RequeuedRaises
<1>5. ASSUME NEW b \in Batches, Throws(b) PROVE Raised(pending')
  <2>1. \A t \in Targets : pending'[t] = IF batch[b].taken[t] # 0
                                          THEN Requeued(b, t)[t] ELSE pending[t]
    BY <1>5 DEF Throws, EndBatch
  <2> QED BY <2>1, RequeuedRaises, PendingNumbers DEF Raised
<1>6. ASSUME SetHandler \/ ClearHandler \/ Tick \/ FiresUnhandled \/ FiresWhileRunning
             \/ UNCHANGED vars
      PROVE  pending' = pending
  BY <1>6 DEF SetHandler, ClearHandler, Tick, FiresUnhandled, FiresWhileRunning, vars
<1> QED BY <1>1, <1>2, <1>3, <1>4, <1>5, <1>6 DEF Next, Dispose

(* For any targets and priorities: a wake stays pending with at least the  *)
(* priority it has, or leaves in a batch that has it with that priority.   *)
THEOREM KeepsPriorityHolds == Spec => KeepsPriority
<1>1. TypeOK /\ [Next]_vars =>
         [\A t \in Targets :
             pending'[t] >= pending[t] \/ \E b \in Batches : batch'[b].taken[t] = pending[t]]_vars
  BY PendingStep DEF Raised
<1> QED BY <1>1, TypeCorrect, PTL DEF Spec, KeepsPriority

-----------------------------------------------------------------------------
(* A timer that is not replaced.                                           *)
LEMMA RetryStays ==
    ASSUME NEW tm, tm # NoTimer, tm.kind = "retry", NEW delay, NEW kind
    PROVE  Scheduled(tm, delay, kind) = tm
BY DEF Scheduled

LEMMA RetryStep ==
    ASSUME TypeOK, [Next]_vars, timer.kind = "retry", timer.left > 0,
           registered' = registered
    PROVE  timer'.kind = "retry" /\ timer'.left >= timer.left - 1
<1>0. timer # NoTimer /\ timer.left \in Nat /\ ~Due
  BY DEF TypeOK, NoTimer, Due
<1>1. ASSUME timer' = timer PROVE timer'.kind = "retry" /\ timer'.left >= timer.left - 1
  BY <1>0, <1>1
<1>2. ASSUME NEW t \in Targets, NEW p \in Priorities, NEW d \in Delays, Request(t, p, d)
      PROVE  timer' = timer
  BY <1>0, <1>2, RetryStays DEF Request
<1>3. CASE Tick
  <2>1. timer' = [timer EXCEPT !.left = @ - 1]
    BY <1>3 DEF Tick
  <2> QED BY <1>0, <2>1 DEF TypeOK
<1>4. ASSUME NEW b \in Batches, NEW t \in Targets, NEW busy \in BOOLEAN, Returns(b, t, busy)
      PROVE  timer' = timer
  BY <1>0, <1>4, RetryStays DEF Returns, EndBatch
<1>5. ASSUME NEW b \in Batches, Throws(b) PROVE timer' = timer
  BY <1>0, <1>5, RetryStays DEF Throws, EndBatch
<1>6. ~SetHandler /\ ~ClearHandler
  <2>1. registered \in Nat
    BY ConstantsAssumption DEF TypeOK
  <2> QED BY <2>1 DEF SetHandler, ClearHandler
<1>7. ~FiresUnhandled /\ ~FiresWhileRunning /\ \A b \in Batches : ~Fires(b)
  BY <1>0 DEF FiresUnhandled, FiresWhileRunning, Fires
<1>8. UNCHANGED vars => timer' = timer
  BY DEF vars
<1> QED BY <1>1, <1>2, <1>3, <1>4, <1>5, <1>6, <1>7, <1>8 DEF Next, Dispose

(* Whatever is requested, returns or throws meanwhile, a retry timer runs  *)
(* its whole delay; only the registration of a handler replaces it.        *)
THEOREM RetryTimerHoldsAlways == Spec => RetryTimerHolds
<1>1. TypeOK /\ [Next]_vars =>
         [timer.kind = "retry" /\ timer.left > 0 /\ registered' = registered =>
             timer'.kind = "retry" /\ timer'.left >= timer.left - 1]_vars
  BY RetryStep
<1> QED BY <1>1, TypeCorrect, PTL DEF Spec, RetryTimerHolds
=============================================================================
