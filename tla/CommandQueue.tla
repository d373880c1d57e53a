---------------------------- MODULE CommandQueue ----------------------------
(***************************************************************************)
(* The lane-aware command queue of the gateway process                     *)
(* (src/src/process/command-queue.ts).                                     *)
(*                                                                         *)
(* JavaScript runs to completion, so the unit of interleaving is not a     *)
(* function but a stretch of code between two awaits.  The queue is        *)
(* re-entrant inside such a stretch: pump() calls a task, and the part of  *)
(* the task before its first await may call back into the queue, of the    *)
(* same lane or of another.  `stack' is that call stack, top first:        *)
(*   "pump"    a drain loop of a lane, between two iterations              *)
(*   "body"    the synchronous prefix of a task                            *)
(*   "settle"  entry.resolve / entry.reject, after a nested pump returns   *)
(*   "reset"   resetAllLanes, over the lanes it still has to drain         *)
(* With an empty stack the event loop is free to run any callback.         *)
(***************************************************************************)
EXTENDS Integers, Sequences, FiniteSets

CONSTANTS
    Lanes,        \* lane names
    Tasks,        \* the entries that callers may ever enqueue
    Configured,   \* the lanes whose concurrency is ever configured
    Limits,       \* the concurrency limits a caller may ask for
    MaxGeneration \* bound: the number of resets explored

ASSUME LimitsAssumption == Configured \subseteq Lanes /\ Limits \subseteq Nat
ASSUME TasksAssumption  == IsFiniteSet(Tasks)
ASSUME BoundAssumption  == MaxGeneration \in Nat

VARIABLES
    queue,           \* per lane: entries waiting, oldest first
    activeTaskIds,   \* per lane: ids of the tasks holding a slot
    maxConcurrent,   \* per lane: number of slots
    draining,        \* per lane: re-entrancy flag of drainLane
    generation,      \* per lane: bumped by resetAllLanes
    gatewayDraining, \* new entries are refused
    nextTaskId,      \* next task id, unique over all lanes
    stack,           \* the synchronous call stack, top first
    status,          \* per task: how far its entry and its promise are
    laneOf,          \* per task: the lane it was enqueued in
    taskId,          \* per task: the id it was started under
    taskGeneration,  \* per task: the generation it was started in
    waiter           \* the poll loop of waitForActiveTasks

laneVars == <<queue, activeTaskIds, maxConcurrent, draining, generation>>
taskVars == <<status, laneOf, taskId, taskGeneration>>
vars == <<laneVars, gatewayDraining, nextTaskId, stack, taskVars, waiter>>

Settled  == {"resolved", "rejected", "cleared", "refused"}
Statuses == {"idle", "queued", "running", "settling"} \cup Settled

Pump(l)      == [kind |-> "pump", lane |-> l]
Body(t)      == [kind |-> "body", task |-> t]
Settle(t, o) == [kind |-> "settle", task |-> t, outcome |-> o]
ResetOf(S)   == [kind |-> "reset", lanes |-> S]
Frames == [kind : {"pump"}, lane : Lanes] \cup [kind : {"body"}, task : Tasks]
            \cup [kind : {"settle"}, task : Tasks, outcome : {"resolved", "rejected"}]
            \cup [kind : {"reset"}, lanes : SUBSET Lanes]

Push(f) == stack' = <<f>> \o stack
TopIs(k) == stack # <<>> /\ Head(stack).kind = k
(* Callers are callbacks of the event loop and running task bodies.        *)
MayCall == stack = <<>> \/ TopIs("body")

Init ==
    /\ queue = [l \in Lanes |-> <<>>]
    /\ activeTaskIds = [l \in Lanes |-> {}]
    /\ maxConcurrent = [l \in Lanes |-> 1]
    /\ draining = [l \in Lanes |-> FALSE]
    /\ generation = [l \in Lanes |-> 0]
    /\ gatewayDraining = FALSE
    /\ nextTaskId = 1
    /\ stack = <<>>
    /\ status = [t \in Tasks |-> "idle"]
    /\ laneOf \in [Tasks -> Lanes]
    /\ taskId = [t \in Tasks |-> 0]
    /\ taskGeneration = [t \in Tasks |-> 0]
    /\ waiter = [polling |-> FALSE, drained |-> FALSE, activeAtStart |-> {}]

(* drainLane: at most one drain loop per lane is entered from outside.     *)
DrainLane(l, below) ==
    IF draining[l]
    THEN /\ stack' = below
         /\ UNCHANGED draining
    ELSE /\ stack' = <<Pump(l)>> \o below
         /\ draining' = [draining EXCEPT ![l] = TRUE]

-----------------------------------------------------------------------------
(* The exported operations.                                                *)

HasRoomOffByOne(l) == Cardinality(activeTaskIds[l]) <= maxConcurrent[l]
HasRoom(l) == Cardinality(activeTaskIds[l]) < maxConcurrent[l]
HasWork(l) == queue[l] # <<>> /\ HasRoom(l)

(* The queue of a lane after push; the mutant jumps the queue.             *)
PushedFront(l, t) == <<t>> \o queue[l]
Pushed(l, t) == Append(queue[l], t)

(* enqueueCommandInLane when the gateway is draining for restart.          *)
EnqueueRefused(t) ==
    /\ MayCall
    /\ status[t] = "idle"
    /\ gatewayDraining
    /\ status' = [status EXCEPT ![t] = "refused"]
    /\ UNCHANGED <<laneVars, gatewayDraining, nextTaskId, stack, laneOf, taskId,
                   taskGeneration, waiter>>

(* enqueueCommandInLane.  laneOf is chosen initially: a task has one lane. *)
Enqueue(t) ==
    LET l == laneOf[t] IN
    /\ MayCall
    /\ status[t] = "idle"
    /\ ~gatewayDraining
    /\ queue' = [queue EXCEPT ![l] = Pushed(l, t)]
    /\ status' = [status EXCEPT ![t] = "queued"]
    /\ DrainLane(l, stack)
    /\ UNCHANGED <<activeTaskIds, maxConcurrent, generation, gatewayDraining,
                   nextTaskId, laneOf, taskId, taskGeneration, waiter>>

(* Math.max(1, Math.floor(n)); the mutant stores what it was given.        *)
LimitAsGiven(n) == n
LimitOf(n) == IF n < 1 THEN 1 ELSE n

SetCommandLaneConcurrency(l, n) ==
    /\ MayCall
    /\ maxConcurrent' = [maxConcurrent EXCEPT ![l] = LimitOf(n)]
    /\ DrainLane(l, stack)
    /\ UNCHANGED <<queue, activeTaskIds, generation, gatewayDraining, nextTaskId,
                   taskVars, waiter>>

Queued(l) == {t \in Tasks : \E i \in DOMAIN queue[l] : queue[l][i] = t}

(* queue.splice(0) of a cleared lane; the mutant copies and keeps it.      *)
SplicedNot(l) == queue[l]
Spliced(l) == <<>>

ClearCommandLane(l) ==
    /\ MayCall
    /\ queue[l] # <<>>
    /\ queue' = [queue EXCEPT ![l] = Spliced(l)]
    /\ status' = [t \in Tasks |-> IF t \in Queued(l) THEN "cleared" ELSE status[t]]
    /\ UNCHANGED <<activeTaskIds, maxConcurrent, draining, generation, gatewayDraining,
                   nextTaskId, stack, laneOf, taskId, taskGeneration, waiter>>

MarkGatewayDraining ==
    /\ MayCall
    /\ ~gatewayDraining
    /\ gatewayDraining' = TRUE
    /\ UNCHANGED <<laneVars, nextTaskId, stack, taskVars, waiter>>

(* The lanes whose preserved entries resetAllLanes pumps; the mutant none. *)
NoLanesToDrain == {}
LanesToDrain == {l \in Lanes : queue[l] # <<>>}

(* resetAllLanes: first every lane is idle again, then the lanes that have *)
(* queued entries are drained, one after the other.                        *)
ResetAllLanes ==
    /\ MayCall
    /\ \A l \in Lanes : generation[l] < MaxGeneration
    /\ gatewayDraining' = FALSE
    /\ generation' = [l \in Lanes |-> generation[l] + 1]
    /\ activeTaskIds' = [l \in Lanes |-> {}]
    /\ draining' = [l \in Lanes |-> FALSE]
    /\ Push(ResetOf(LanesToDrain))
    /\ UNCHANGED <<queue, maxConcurrent, nextTaskId, taskVars, waiter>>

ResetDrains(l) ==
    /\ TopIs("reset")
    /\ l \in Head(stack).lanes
    /\ DrainLane(l, <<ResetOf(Head(stack).lanes \ {l})>> \o Tail(stack))
    /\ UNCHANGED <<queue, activeTaskIds, maxConcurrent, generation, gatewayDraining,
                   nextTaskId, taskVars, waiter>>

ResetReturns ==
    /\ TopIs("reset")
    /\ Head(stack).lanes = {}
    /\ stack' = Tail(stack)
    /\ UNCHANGED <<laneVars, gatewayDraining, nextTaskId, taskVars, waiter>>

-----------------------------------------------------------------------------
(* The drain loop and the life of a task.                                  *)

(* One iteration of pump: the oldest entry takes a slot and its body runs. *)
PumpStarts(l) ==
    LET t == Head(queue[l]) IN
    /\ TopIs("pump")
    /\ Head(stack).lane = l
    /\ HasWork(l)
    /\ queue' = [queue EXCEPT ![l] = Tail(@)]
    /\ activeTaskIds' = [activeTaskIds EXCEPT ![l] = @ \cup {nextTaskId}]
    /\ nextTaskId' = nextTaskId + 1
    /\ taskId' = [taskId EXCEPT ![t] = nextTaskId]
    /\ taskGeneration' = [taskGeneration EXCEPT ![t] = generation[l]]
    /\ status' = [status EXCEPT ![t] = "running"]
    /\ Push(Body(t))
    /\ UNCHANGED <<maxConcurrent, draining, generation, gatewayDraining, laneOf,
                   waiter>>

(* The loop ends; `finally' clears the flag of the lane.                   *)
PumpReturns(l) ==
    /\ TopIs("pump")
    /\ Head(stack).lane = l
    /\ ~HasWork(l)
    /\ draining' = [draining EXCEPT ![l] = FALSE]
    /\ stack' = Tail(stack)
    /\ UNCHANGED <<queue, activeTaskIds, maxConcurrent, generation, gatewayDraining,
                   nextTaskId, taskVars, waiter>>

(* The body reaches its first await and control returns to the pump.       *)
BodyAwaits ==
    /\ TopIs("body")
    /\ stack' = Tail(stack)
    /\ UNCHANGED <<laneVars, gatewayDraining, nextTaskId, taskVars, waiter>>

(* activeTaskIds.delete of completeTask; the mutant leaks the slot.        *)
SlotLeaked(t) == activeTaskIds[laneOf[t]]
SlotReleased(t) == activeTaskIds[laneOf[t]] \ {taskId[t]}

(* The generation check of completeTask; the mutant has it the wrong way.  *)
IsStale(t) == taskGeneration[t] # generation[laneOf[t]]
IsCurrent(t) == taskGeneration[t] = generation[laneOf[t]]

(* completeTask, and the pump() of a task of the current generation.  That *)
(* pump neither tests nor sets the draining flag.                          *)
Complete(t, outcome, below) ==
    LET l == laneOf[t] IN
    /\ status' = [status EXCEPT ![t] = "settling"]
    /\ IF IsCurrent(t)
       THEN /\ activeTaskIds' = [activeTaskIds EXCEPT ![l] = SlotReleased(t)]
            /\ stack' = <<Pump(l), Settle(t, outcome)>> \o below
       ELSE /\ stack' = <<Settle(t, outcome)>> \o below
            /\ UNCHANGED activeTaskIds
    /\ UNCHANGED <<queue, maxConcurrent, draining, generation, gatewayDraining,
                   nextTaskId, laneOf, taskId, taskGeneration, waiter>>

(* A task that throws before its first await is completed by the catch     *)
(* clause at once, below the pump that started it.                         *)
BodyThrows ==
    /\ TopIs("body")
    /\ Complete(Head(stack).task, "rejected", Tail(stack))

(* The promise of a running task settles: a callback of the event loop.    *)
TaskEnds(t, outcome) ==
    /\ stack = <<>>
    /\ status[t] = "running"
    /\ Complete(t, outcome, <<>>)

Settles ==
    /\ TopIs("settle")
    /\ status' = [status EXCEPT ![Head(stack).task] = Head(stack).outcome]
    /\ stack' = Tail(stack)
    /\ UNCHANGED <<laneVars, gatewayDraining, nextTaskId, laneOf, taskId,
                   taskGeneration, waiter>>

-----------------------------------------------------------------------------
(* waitForActiveTasks: a snapshot of the active ids, polled until none of  *)
(* them is active or the deadline has passed.                              *)

ActiveIds == UNION {activeTaskIds[l] : l \in Lanes}

(* Is no id of the snapshot active?  The mutant asks for one inactive id.  *)
SomeInactive(ids) == ids = {} \/ ids \ ActiveIds # {}
NonePending(ids) == ids \cap ActiveIds = {}

Poll(ids, deadlinePassed) ==
    waiter' = [polling |-> ~NonePending(ids) /\ ~deadlinePassed,
               drained |-> NonePending(ids),
               activeAtStart |-> ids]

WaitForActiveTasks(deadlinePassed) ==
    /\ stack = <<>>
    /\ ~waiter.polling
    /\ Poll(ActiveIds, deadlinePassed)
    /\ UNCHANGED <<laneVars, gatewayDraining, nextTaskId, stack, taskVars>>

WaiterPolls(deadlinePassed) ==
    /\ stack = <<>>
    /\ waiter.polling
    /\ Poll(waiter.activeAtStart, deadlinePassed)
    /\ UNCHANGED <<laneVars, gatewayDraining, nextTaskId, stack, taskVars>>

-----------------------------------------------------------------------------
(* Synchronous code always runs on to the next await.                      *)
Run ==
    \/ \E l \in Lanes : PumpStarts(l) \/ PumpReturns(l) \/ ResetDrains(l)
    \/ ResetReturns
    \/ BodyAwaits
    \/ BodyThrows
    \/ Settles

Call ==
    \/ \E t \in Tasks : Enqueue(t) \/ EnqueueRefused(t)
    \/ \E l \in Configured, n \in Limits : SetCommandLaneConcurrency(l, n)
    \/ \E l \in Lanes : ClearCommandLane(l)
    \/ MarkGatewayDraining
    \/ ResetAllLanes
    \/ \E late \in BOOLEAN : WaitForActiveTasks(late) \/ WaiterPolls(late)

TaskEnd(t) == \E outcome \in {"resolved", "rejected"} : TaskEnds(t, outcome)

Next == Run \/ Call \/ \E t \in Tasks : TaskEnd(t)

(* The engine runs synchronous code on.  Tasks are assumed to end (agent   *)
(* runs and cron jobs carry their own timeouts), and the event loop serves *)
(* a settled promise even if other callbacks keep arriving.                *)
Fairness == WF_vars(Run) /\ \A t \in Tasks : SF_vars(TaskEnd(t))

Spec == Init /\ [][Next]_vars
FairSpec == Spec /\ Fairness

-----------------------------------------------------------------------------
(* Properties.                                                             *)

TypeOK ==
    /\ queue \in [Lanes -> Seq(Tasks)]
    /\ activeTaskIds \in [Lanes -> SUBSET (Nat \ {0})]
    /\ maxConcurrent \in [Lanes -> Nat \ {0}]
    /\ draining \in [Lanes -> BOOLEAN]
    /\ generation \in [Lanes -> Nat]
    /\ gatewayDraining \in BOOLEAN
    /\ nextTaskId \in Nat \ {0}
    /\ stack \in Seq(Frames)
    /\ status \in [Tasks -> Statuses]
    /\ laneOf \in [Tasks -> Lanes]
    /\ taskId \in [Tasks -> Nat]
    /\ taskGeneration \in [Tasks -> Nat]
    /\ waiter \in [polling : BOOLEAN, drained : BOOLEAN, activeAtStart : SUBSET Nat]

(* No lost wake-up: whenever the event loop is free, no lane has both a    *)
(* queued entry and a free slot, and no lane is stuck with its draining    *)
(* flag up.  This is what the re-check of the loop condition after every   *)
(* task body, the unconditional pump() in the completion and the drains at *)
(* the end of resetAllLanes are for.                                       *)
NoLostWakeup ==
    stack = <<>> => \A l \in Lanes : ~HasWork(l) /\ ~draining[l]

(* The ids a lane counts against its limit are exactly those of the tasks  *)
(* of its current generation that still run: a late completion of a task   *)
(* from before a reset frees no slot, and no finished task keeps one.      *)
RunningIn(l) == {t \in Tasks : status[t] = "running" /\ laneOf[t] = l}
CurrentIn(l) == {t \in RunningIn(l) : taskGeneration[t] = generation[l]}
SlotsMatchTasks ==
    \A l \in Lanes : activeTaskIds[l] = {taskId[t] : t \in CurrentIn(l)}

(* waitForActiveTasks says "drained" only when every task of its snapshot  *)
(* has completed or was abandoned by a reset of its lane.                  *)
DrainedMeansDone ==
    waiter.drained =>
        \A t \in Tasks : taskId[t] \in waiter.activeAtStart /\ status[t] = "running"
            => taskGeneration[t] < generation[laneOf[t]]

(* The queue keeps the promise of LaneQueue: seen without its stack, ids   *)
(* and generations, every step of re-entrant pumps, late completions and   *)
(* resets is a step of a first-in first-out server with limited slots, in  *)
(* which a task starts at most once.                                       *)
Fate == [t \in Tasks |->
    IF status[t] = "idle" THEN "new" ELSE
    IF status[t] = "queued" THEN "accepted" ELSE
    IF status[t] \in {"cleared", "refused"} THEN "turnedAway" ELSE "started"]
Promise == INSTANCE LaneQueue WITH
    waiting <- queue, serving <- [l \in Lanes |-> CurrentIn(l)],
    limit <- maxConcurrent, closed <- gatewayDraining, fate <- Fate
KeepsPromise == Promise!Spec

(* Every accepted entry is started or cleared, also across resets.         *)
QueuedIsServed == \A t \in Tasks : status[t] = "queued" ~> status[t] # "queued"
=============================================================================
