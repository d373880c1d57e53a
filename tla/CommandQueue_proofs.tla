------------------------ MODULE CommandQueue_proofs ------------------------
(***************************************************************************)
(* Proofs about the command queue, for every set of lanes, tasks and       *)
(* limits: type correctness, and that no wake-up is lost.                  *)
(*                                                                         *)
(* NoLostWakeup speaks of an empty stack only.  WakeInv is its inductive   *)
(* form: while synchronous code runs, a lane that has work is covered by   *)
(* a frame of the stack that will still look at it, and a raised draining  *)
(* flag always belongs to such a frame.                                    *)
(***************************************************************************)
EXTENDS CommandQueue, FiniteSetTheorems, TLAPS

Elems(s) == {s[i] : i \in 1..Len(s)}

PumpPending(l)  == Pump(l) \in Elems(stack)
ResetPending(l) == \E f \in Elems(stack) : f.kind = "reset" /\ l \in f.lanes

WakeInv ==
    \A l \in Lanes :
        /\ draining[l] => PumpPending(l)
        /\ HasWork(l) => PumpPending(l) \/ ResetPending(l)

-----------------------------------------------------------------------------
(* Pushing a frame adds it to the frames of the stack and keeps the rest.  *)
LEMMA PushElems ==
    ASSUME NEW S, NEW s \in Seq(S), NEW f \in S
    PROVE  /\ <<f>> \o s \in Seq(S)
           /\ <<f>> \o s # <<>>
           /\ Elems(<<f>> \o s) = {f} \cup Elems(s)
<1> DEFINE r == <<f>> \o s
<1>1. /\ r \in Seq(S) /\ Len(r) = Len(s) + 1 /\ r[1] = f
      /\ \A i \in 1..Len(s) : r[i + 1] = s[i]
      /\ Len(s) \in Nat
  OBVIOUS
<1> HIDE DEF r
<1>2. ASSUME NEW x \in Elems(s) PROVE x \in Elems(r)
  <2>1. PICK i \in 1..Len(s) : x = s[i]
    BY DEF Elems
  <2>2. i + 1 \in 1..Len(r) /\ r[i + 1] = x
    BY <1>1, <2>1
  <2> QED BY <2>2 DEF Elems
<1>3. ASSUME NEW x \in Elems(r) PROVE x \in {f} \cup Elems(s)
  <2>1. PICK i \in 1..Len(r) : x = r[i]
    BY <1>1 DEF Elems
  <2>2. CASE i = 1
    BY <1>1, <2>1, <2>2
  <2>3. CASE i # 1
    <3>1. i - 1 \in 1..Len(s)
      BY <1>1, <2>1, <2>3
    <3>2. r[i] = s[i - 1]
      BY <1>1, <3>1
    <3> QED BY <2>1, <3>1, <3>2 DEF Elems
  <2> QED BY <2>2, <2>3
<1>4. f \in Elems(r)
  BY <1>1 DEF Elems
<1>5. r # <<>>
  BY <1>1
<1> QED BY <1>1, <1>2, <1>3, <1>4, <1>5 DEF r

(* The frames of a non-empty stack are its top and those below.            *)
LEMMA PopElems ==
    ASSUME NEW S, NEW s \in Seq(S), s # <<>>
    PROVE  /\ Head(s) \in S /\ Tail(s) \in Seq(S)
           /\ Elems(s) = {Head(s)} \cup Elems(Tail(s))
<1>1. /\ Head(s) \in S /\ Tail(s) \in Seq(S) /\ Head(s) = s[1]
      /\ Len(Tail(s)) = Len(s) - 1 /\ Len(s) \in Nat \ {0}
      /\ \A i \in 1..Len(s) - 1 : Tail(s)[i] = s[i + 1]
  OBVIOUS
<1>2. ASSUME NEW x \in Elems(Tail(s)) PROVE x \in Elems(s)
  <2>1. PICK i \in 1..Len(s) - 1 : x = Tail(s)[i]
    BY <1>1 DEF Elems
  <2>2. i + 1 \in 1..Len(s) /\ s[i + 1] = x
    BY <1>1, <2>1
  <2> QED BY <2>2 DEF Elems
<1>3. ASSUME NEW x \in Elems(s) PROVE x \in {Head(s)} \cup Elems(Tail(s))
  <2>1. PICK i \in 1..Len(s) : x = s[i]
    BY DEF Elems
  <2>2. CASE i = 1
    BY <1>1, <2>1, <2>2
  <2>3. CASE i # 1
    <3>1. i - 1 \in 1..Len(s) - 1
      BY <1>1, <2>1, <2>3
    <3>2. s[i] = Tail(s)[i - 1]
      BY <1>1, <3>1
    <3> QED BY <1>1, <2>1, <3>1, <3>2 DEF Elems
  <2> QED BY <2>2, <2>3
<1>4. Head(s) \in Elems(s)
  BY <1>1 DEF Elems
<1> QED BY <1>1, <1>2, <1>3, <1>4

(* What the kind of a frame says of its fields.                            *)
LEMMA FrameFields ==
    ASSUME NEW f \in Frames
    PROVE  /\ f.kind = "pump" => f.lane \in Lanes /\ f = Pump(f.lane)
           /\ f.kind = "body" => f.task \in Tasks
           /\ f.kind = "settle" =>
                 f.task \in Tasks /\ f.outcome \in {"resolved", "rejected"}
           /\ f.kind = "reset" => f.lanes \in SUBSET Lanes
<1>1. CASE f \in [kind : {"pump"}, lane : Lanes]
  BY <1>1 DEF Pump
<1>2. CASE f \in [kind : {"body"}, task : Tasks]
  BY <1>2
<1>3. CASE f \in [kind : {"settle"}, task : Tasks, outcome : {"resolved", "rejected"}]
  BY <1>3
<1>4. CASE f \in [kind : {"reset"}, lanes : SUBSET Lanes]
  BY <1>4
<1> QED BY <1>1, <1>2, <1>3, <1>4 DEF Frames

-----------------------------------------------------------------------------
(* The steps of drainLane and of a push or a pop, on the frames.           *)
LEMMA DrainLaneType ==
    ASSUME TypeOK, NEW l \in Lanes, NEW below \in Seq(Frames), DrainLane(l, below)
    PROVE  /\ stack' \in Seq(Frames)
           /\ draining' \in [Lanes -> BOOLEAN]
           /\ Elems(below) \subseteq Elems(stack')
           /\ ~draining[l] => Pump(l) \in Elems(stack')
           /\ \A k \in Lanes : draining'[k] = (draining[k] \/ k = l)
           /\ stack' = <<>> => below = <<>>
<1>1. CASE draining[l]
  BY <1>1 DEF TypeOK, DrainLane
<1>2. CASE ~draining[l]
  <2>1. Pump(l) \in Frames
    BY DEF Pump, Frames
  <2>2. stack' = <<Pump(l)>> \o below
    BY <1>2 DEF DrainLane
  <2>3. /\ stack' \in Seq(Frames)
        /\ stack' # <<>>
        /\ Elems(stack') = {Pump(l)} \cup Elems(below)
    BY <2>1, <2>2, PushElems
  <2>4. draining' = [draining EXCEPT ![l] = TRUE]
    BY <1>2 DEF DrainLane
  <2> QED BY <2>3, <2>4 DEF TypeOK
<1> QED BY <1>1, <1>2

(* What a completion leaves on the stack.                                  *)
LEMMA CompleteStack ==
    ASSUME TypeOK, NEW t \in Tasks, NEW o \in {"resolved", "rejected"},
           NEW below \in Seq(Frames), Complete(t, o, below)
    PROVE  /\ stack' \in Seq(Frames)
           /\ Elems(below) \subseteq Elems(stack')
           /\ IsCurrent(t) => Pump(laneOf[t]) \in Elems(stack')
<1>1. Settle(t, o) \in Frames /\ Pump(laneOf[t]) \in Frames
  BY DEF TypeOK, Settle, Pump, Frames
<1> DEFINE s == <<Settle(t, o)>> \o below
<1>2. s \in Seq(Frames) /\ Elems(s) = {Settle(t, o)} \cup Elems(below)
  BY <1>1, PushElems
<1>3. CASE IsCurrent(t)
  <2>1. stack' = <<Pump(laneOf[t]), Settle(t, o)>> \o below
    BY <1>3 DEF Complete
  <2>2. stack' = <<Pump(laneOf[t])>> \o s
    BY <1>1, <2>1
  <2>3. /\ <<Pump(laneOf[t])>> \o s \in Seq(Frames)
        /\ Elems(<<Pump(laneOf[t])>> \o s) = {Pump(laneOf[t])} \cup Elems(s)
    <3> HIDE DEF s
    <3> QED BY <1>1, <1>2, PushElems
  <2> QED BY <1>2, <2>2, <2>3
<1>4. CASE ~IsCurrent(t)
  BY <1>2, <1>4 DEF Complete
<1> QED BY <1>3, <1>4

-----------------------------------------------------------------------------
(* Type correctness.                                                       *)
LEMMA TypeInit == Init => TypeOK
<1> SUFFICES ASSUME Init PROVE TypeOK
  OBVIOUS
<1>1. queue \in [Lanes -> Seq(Tasks)] /\ stack \in Seq(Frames)
  <2>1. <<>> \in Seq(Tasks) /\ <<>> \in Seq(Frames)
    OBVIOUS
  <2> QED BY <2>1 DEF Init
<1>2. waiter \in [polling : BOOLEAN, drained : BOOLEAN, activeAtStart : SUBSET Nat]
  <2>1. waiter = [polling |-> FALSE, drained |-> FALSE, activeAtStart |-> {}]
    BY DEF Init
  <2> QED BY <2>1
<1>3. /\ activeTaskIds \in [Lanes -> SUBSET (Nat \ {0})]
      /\ maxConcurrent \in [Lanes -> Nat \ {0}]
      /\ draining \in [Lanes -> BOOLEAN]
      /\ generation \in [Lanes -> Nat]
  BY DEF Init
<1>4. /\ status \in [Tasks -> Statuses]
      /\ laneOf \in [Tasks -> Lanes]
      /\ taskId \in [Tasks -> Nat]
      /\ taskGeneration \in [Tasks -> Nat]
  BY DEF Init, Statuses
<1>5. gatewayDraining \in BOOLEAN /\ nextTaskId \in Nat \ {0}
  <2>1. gatewayDraining = FALSE
    BY DEF Init
  <2>2. nextTaskId = 1
    BY DEF Init
  <2>3. gatewayDraining \in BOOLEAN
    BY <2>1, Zenon
  <2>4. nextTaskId \in Nat \ {0}
    BY <2>2
  <2> QED BY <2>3, <2>4
<1> QED BY <1>1, <1>2, <1>3, <1>4, <1>5 DEF TypeOK

LEMMA CompleteType ==
    ASSUME TypeOK, NEW t \in Tasks, NEW o \in {"resolved", "rejected"},
           NEW below \in Seq(Frames), Complete(t, o, below)
    PROVE  TypeOK'
<1>1. stack' \in Seq(Frames)
  BY CompleteStack
<1>2. activeTaskIds' \in [Lanes -> SUBSET (Nat \ {0})]
  <2>1. SlotReleased(t) \in SUBSET (Nat \ {0}) /\ laneOf[t] \in Lanes
    BY DEF SlotReleased, TypeOK
  <2>2. \/ activeTaskIds' = [activeTaskIds EXCEPT ![laneOf[t]] = SlotReleased(t)]
        \/ activeTaskIds' = activeTaskIds
    BY DEF Complete
  <2> QED BY <2>1, <2>2 DEF TypeOK
<1>3. status' \in [Tasks -> Statuses]
  BY DEF Complete, TypeOK, Statuses
<1> QED BY <1>1, <1>2, <1>3 DEF Complete, TypeOK

LEMMA TypeNext == TypeOK /\ [Next]_vars => TypeOK'
<1> SUFFICES ASSUME TypeOK, [Next]_vars PROVE TypeOK'
  OBVIOUS
<1>0. stack \in Seq(Frames)
  BY DEF TypeOK
<1>13. ASSUME BodyThrows PROVE TypeOK'
  <2>1. Head(stack).task \in Tasks /\ Tail(stack) \in Seq(Frames)
    BY <1>0, <1>13, PopElems, FrameFields DEF BodyThrows, TopIs
  <2> QED BY <1>13, <2>1, CompleteType DEF BodyThrows
<1>14. ASSUME NEW t \in Tasks, TaskEnd(t) PROVE TypeOK'
  <2>1. <<>> \in Seq(Frames)
    OBVIOUS
  <2>2. PICK o \in {"resolved", "rejected"} : Complete(t, o, <<>>)
    BY <1>14 DEF TaskEnd, TaskEnds
  <2> QED BY <2>1, <2>2, CompleteType
<1> USE DEF TypeOK, Statuses, Settled
<1>1. ASSUME NEW t \in Tasks, EnqueueRefused(t) PROVE TypeOK'
  BY <1>1 DEF EnqueueRefused, laneVars
<1>2. ASSUME NEW t \in Tasks, Enqueue(t) PROVE TypeOK'
  <2>1. stack' \in Seq(Frames) /\ draining' \in [Lanes -> BOOLEAN]
    BY <1>2, DrainLaneType DEF Enqueue
  <2>2. queue' \in [Lanes -> Seq(Tasks)]
    BY <1>2 DEF Enqueue, Pushed
  <2> QED BY <1>2, <2>1, <2>2 DEF Enqueue
<1>3. ASSUME NEW l \in Configured, NEW n \in Limits, SetCommandLaneConcurrency(l, n)
      PROVE TypeOK'
  <2>0. l \in Lanes /\ n \in Nat
    BY LimitsAssumption
  <2>1. stack' \in Seq(Frames) /\ draining' \in [Lanes -> BOOLEAN]
    BY <1>3, <2>0, DrainLaneType DEF SetCommandLaneConcurrency
  <2>2. LimitOf(n) \in Nat \ {0}
    BY <2>0 DEF LimitOf
  <2> QED BY <1>3, <2>0, <2>1, <2>2 DEF SetCommandLaneConcurrency, taskVars
<1>4. ASSUME NEW l \in Lanes, ClearCommandLane(l) PROVE TypeOK'
  <2>1. queue' \in [Lanes -> Seq(Tasks)]
    <3>1. <<>> \in Seq(Tasks)
      OBVIOUS
    <3> QED BY <1>4, <3>1 DEF ClearCommandLane, Spliced
  <2>2. status' \in [Tasks -> Statuses]
    BY <1>4 DEF ClearCommandLane
  <2> QED BY <1>4, <2>1, <2>2 DEF ClearCommandLane
<1>5. ASSUME MarkGatewayDraining PROVE TypeOK'
  BY <1>5 DEF MarkGatewayDraining, laneVars, taskVars
<1>6. ASSUME ResetAllLanes PROVE TypeOK'
  <2>1. ResetOf(LanesToDrain) \in Frames
    BY DEF ResetOf, LanesToDrain, Frames
  <2>2. stack' \in Seq(Frames)
    BY <1>6, <2>1, PushElems DEF ResetAllLanes, Push
  <2>3. /\ generation' \in [Lanes -> Nat]
        /\ activeTaskIds' \in [Lanes -> SUBSET (Nat \ {0})]
        /\ draining' \in [Lanes -> BOOLEAN]
    BY <1>6 DEF ResetAllLanes
  <2> QED BY <1>6, <2>2, <2>3 DEF ResetAllLanes, taskVars
<1>7. ASSUME NEW late \in BOOLEAN, WaitForActiveTasks(late) \/ WaiterPolls(late)
      PROVE TypeOK'
  <2>1. ActiveIds \in SUBSET Nat
    BY DEF ActiveIds
  <2>2. ASSUME NEW ids \in SUBSET Nat, Poll(ids, late)
        PROVE  waiter' \in [polling : BOOLEAN, drained : BOOLEAN, activeAtStart : SUBSET Nat]
    <3>1. (~NonePending(ids) /\ ~late) \in BOOLEAN /\ NonePending(ids) \in BOOLEAN
      BY DEF NonePending
    <3> QED BY <2>2, <3>1 DEF Poll
  <2>3. waiter' \in [polling : BOOLEAN, drained : BOOLEAN, activeAtStart : SUBSET Nat]
    BY <1>7, <2>1, <2>2 DEF WaitForActiveTasks, WaiterPolls
  <2> QED BY <1>7, <2>3 DEF WaitForActiveTasks, WaiterPolls, laneVars, taskVars
<1>8. ASSUME NEW l \in Lanes, PumpStarts(l) PROVE TypeOK'
  <2> DEFINE t == Head(queue[l])
  <2>1. t \in Tasks /\ Tail(queue[l]) \in Seq(Tasks)
    BY <1>8 DEF PumpStarts, HasWork
  <2>2. Body(t) \in Frames
    BY <2>1 DEF Body, Frames
  <2>3. stack' \in Seq(Frames)
    BY <1>8, <2>2, PushElems DEF PumpStarts, Push
  <2> HIDE DEF t
  <2>4. /\ queue' \in [Lanes -> Seq(Tasks)]
        /\ activeTaskIds' \in [Lanes -> SUBSET (Nat \ {0})]
        /\ nextTaskId' \in Nat \ {0}
    <3>1. queue' = [queue EXCEPT ![l] = Tail(queue[l])]
      BY <1>8 DEF PumpStarts
    <3>2. queue' \in [Lanes -> Seq(Tasks)]
      BY <2>1, <3>1
    <3>3. /\ nextTaskId' = nextTaskId + 1
          /\ activeTaskIds' = [activeTaskIds EXCEPT ![l] = activeTaskIds[l] \cup {nextTaskId}]
      BY <1>8 DEF PumpStarts
    <3>4. nextTaskId' \in Nat \ {0}
      BY <3>3
    <3>5. activeTaskIds' \in [Lanes -> SUBSET (Nat \ {0})]
      BY <3>3
    <3> QED BY <3>2, <3>4, <3>5
  <2>5. /\ status' \in [Tasks -> Statuses]
        /\ taskId' \in [Tasks -> Nat]
        /\ taskGeneration' \in [Tasks -> Nat]
    BY <1>8, <2>1 DEF PumpStarts, t
  <2> QED BY <1>8, <2>3, <2>4, <2>5 DEF PumpStarts
<1>9. ASSUME NEW l \in Lanes, PumpReturns(l) PROVE TypeOK'
  <2>1. stack' \in Seq(Frames)
    BY <1>0, <1>9, PopElems DEF PumpReturns, TopIs
  <2> QED BY <1>9, <2>1 DEF PumpReturns, taskVars
<1>10. ASSUME NEW l \in Lanes, ResetDrains(l) PROVE TypeOK'
  <2>1. /\ stack \in Seq(Frames) /\ stack # <<>>
        /\ Head(stack) \in Frames /\ Head(stack).kind = "reset"
        /\ Tail(stack) \in Seq(Frames)
    BY <1>0, <1>10, PopElems DEF ResetDrains, TopIs
  <2>4. ResetOf(Head(stack).lanes \ {l}) \in Frames
    BY <2>1, FrameFields DEF ResetOf, Frames
  <2>2. <<ResetOf(Head(stack).lanes \ {l})>> \o Tail(stack) \in Seq(Frames)
    BY <2>1, <2>4, PushElems
  <2>3. stack' \in Seq(Frames) /\ draining' \in [Lanes -> BOOLEAN]
    BY <1>10, <2>2, DrainLaneType DEF ResetDrains
  <2> QED BY <1>10, <2>3 DEF ResetDrains, taskVars
<1>11. ASSUME ResetReturns \/ BodyAwaits PROVE TypeOK'
  <2>1. stack # <<>> /\ stack' = Tail(stack)
    BY <1>11 DEF ResetReturns, BodyAwaits, TopIs
  <2>2. stack' \in Seq(Frames)
    BY <1>0, <2>1, PopElems
  <2> QED BY <1>11, <2>2 DEF ResetReturns, BodyAwaits, laneVars, taskVars
<1>15. ASSUME Settles PROVE TypeOK'
  <2>1. /\ Head(stack).task \in Tasks
        /\ Head(stack).outcome \in {"resolved", "rejected"}
        /\ Tail(stack) \in Seq(Frames)
    BY <1>0, <1>15, PopElems, FrameFields DEF Settles, TopIs
  <2> QED BY <1>15, <2>1 DEF Settles, laneVars
<1>16. ASSUME UNCHANGED vars PROVE TypeOK'
  BY <1>16 DEF vars, laneVars, taskVars
<1> QED
  BY <1>1, <1>2, <1>3, <1>4, <1>5, <1>6, <1>7, <1>8, <1>9, <1>10, <1>11, <1>13,
     <1>14, <1>15, <1>16 DEF Next, Run, Call

(* The variables of the queue keep their types.                            *)
THEOREM TypeCorrect == Spec => []TypeOK
<1> QED BY TypeInit, TypeNext, PTL DEF Spec

-----------------------------------------------------------------------------
(* No lost wake-up.                                                        *)

LEMMA WakeInit == Init => WakeInv
BY DEF Init, WakeInv, HasWork

(* A step that leaves the slots and queues of a lane alone, or only takes  *)
(* work away, and keeps its frames, keeps the lane covered.                *)
LEMMA WakeKept ==
    ASSUME TypeOK, WakeInv, TypeOK', NEW l \in Lanes,
           draining'[l] => draining[l] \/ PumpPending(l)',
           HasWork(l)' => HasWork(l) \/ PumpPending(l)',
           PumpPending(l) => PumpPending(l)',
           ResetPending(l) => ResetPending(l)' \/ PumpPending(l)'
    PROVE  /\ draining'[l] => PumpPending(l)'
           /\ HasWork(l)' => PumpPending(l)' \/ ResetPending(l)'
BY DEF WakeInv

(* Frames that stay on the stack keep covering their lanes.                *)
LEMMA FramesKept ==
    ASSUME Elems(stack) \subseteq Elems(stack'), NEW l \in Lanes
    PROVE  /\ PumpPending(l) => PumpPending(l)'
           /\ ResetPending(l) => ResetPending(l)'
BY DEF PumpPending, ResetPending

(* Popping a frame that is no pump of l and no reset with l left to drain  *)
(* keeps l covered.                                                        *)
LEMMA TopPopped ==
    ASSUME stack \in Seq(Frames), stack # <<>>, NEW l \in Lanes,
           Elems(Tail(stack)) \subseteq Elems(stack'),
           Head(stack) # Pump(l),
           ~(Head(stack).kind = "reset" /\ l \in Head(stack).lanes)
    PROVE  /\ PumpPending(l) => PumpPending(l)'
           /\ ResetPending(l) => ResetPending(l)'
<1>1. Elems(stack) = {Head(stack)} \cup Elems(Tail(stack))
  BY PopElems
<1> QED BY <1>1 DEF PumpPending, ResetPending

(* A step that moves only the stack, or nothing HasWork reads.             *)
LEMMA WorkUnchanged ==
    ASSUME UNCHANGED <<queue, activeTaskIds, maxConcurrent>>, NEW l \in Lanes
    PROVE  HasWork(l)' = HasWork(l)
BY DEF HasWork, HasRoom

LEMMA CompleteWakes ==
    ASSUME TypeOK, WakeInv, TypeOK', NEW t \in Tasks, NEW o \in {"resolved", "rejected"},
           NEW below \in Seq(Frames), Complete(t, o, below),
           \A l \in Lanes : /\ PumpPending(l) => Pump(l) \in Elems(below)
                            /\ ResetPending(l) =>
                                  \E f \in Elems(below) : f.kind = "reset" /\ l \in f.lanes
    PROVE  WakeInv'
<1>1. /\ Elems(below) \subseteq Elems(stack')
      /\ IsCurrent(t) => Pump(laneOf[t]) \in Elems(stack')
  BY CompleteStack
<1> SUFFICES ASSUME NEW l \in Lanes
             PROVE  /\ draining'[l] => PumpPending(l)'
                    /\ HasWork(l)' => PumpPending(l)' \/ ResetPending(l)'
  BY DEF WakeInv
<1>2. /\ PumpPending(l) => PumpPending(l)'
      /\ ResetPending(l) => ResetPending(l)'
  BY <1>1 DEF PumpPending, ResetPending
<1>3. draining' = draining
  BY DEF Complete
<1>4. HasWork(l)' => HasWork(l) \/ PumpPending(l)'
  <2>1. CASE IsCurrent(t) /\ l = laneOf[t]
    BY <1>1, <2>1 DEF PumpPending
  <2>2. CASE ~(IsCurrent(t) /\ l = laneOf[t])
    <3>1. activeTaskIds'[l] = activeTaskIds[l]
      BY <2>2 DEF Complete, TypeOK
    <3>2. queue' = queue /\ maxConcurrent' = maxConcurrent
      BY DEF Complete
    <3> QED BY <3>1, <3>2 DEF HasWork, HasRoom
  <2> QED BY <2>1, <2>2
<1> QED BY <1>2, <1>3, <1>4, WakeKept

LEMMA WakeNext == TypeOK /\ TypeOK' /\ WakeInv /\ [Next]_vars => WakeInv'
<1> SUFFICES ASSUME TypeOK, TypeOK', WakeInv, [Next]_vars PROVE WakeInv'
  OBVIOUS
<1>0. stack \in Seq(Frames)
  BY DEF TypeOK
<1> DEFINE Covered(l) == /\ draining'[l] => PumpPending(l)'
                         /\ HasWork(l)' => PumpPending(l)' \/ ResetPending(l)'
<1>a. SUFFICES ASSUME NEW l \in Lanes PROVE Covered(l)
  BY DEF WakeInv
<1>1. ASSUME NEW t \in Tasks, EnqueueRefused(t) PROVE Covered(l)
  BY <1>1, WorkUnchanged, WakeKept DEF EnqueueRefused, laneVars, PumpPending, ResetPending
<1>2. ASSUME NEW t \in Tasks, Enqueue(t) PROVE Covered(l)
  <2>0. PICK k \in Lanes : k = laneOf[t]
    BY DEF TypeOK
  <2>1. /\ Elems(stack) \subseteq Elems(stack')
        /\ ~draining[k] => Pump(k) \in Elems(stack')
        /\ draining'[l] = (draining[l] \/ l = k)
    BY <1>0, <1>2, <2>0, DrainLaneType DEF Enqueue
  <2>2. PumpPending(k)'
    BY <2>1 DEF WakeInv, PumpPending
  <2>3. l # k => HasWork(l)' = HasWork(l)
    BY <1>2, <2>0 DEF Enqueue, HasWork, HasRoom, TypeOK
  <2> QED BY <2>1, <2>2, <2>3, FramesKept, WakeKept
<1>3. ASSUME NEW k \in Configured, NEW n \in Limits, SetCommandLaneConcurrency(k, n)
      PROVE Covered(l)
  <2>0. k \in Lanes
    BY LimitsAssumption
  <2>1. /\ Elems(stack) \subseteq Elems(stack')
        /\ ~draining[k] => Pump(k) \in Elems(stack')
        /\ draining'[l] = (draining[l] \/ l = k)
    BY <1>0, <1>3, <2>0, DrainLaneType DEF SetCommandLaneConcurrency
  <2>2. PumpPending(k)'
    BY <2>0, <2>1 DEF WakeInv, PumpPending
  <2>3. l # k => HasWork(l)' = HasWork(l)
    BY <1>3 DEF SetCommandLaneConcurrency, HasWork, HasRoom, TypeOK
  <2> QED BY <2>1, <2>2, <2>3, FramesKept, WakeKept
<1>4. ASSUME NEW k \in Lanes, ClearCommandLane(k) PROVE Covered(l)
  <2>1. HasWork(l)' => HasWork(l)
    BY <1>4 DEF ClearCommandLane, Spliced, HasWork, HasRoom, TypeOK
  <2> QED BY <1>4, <2>1, WakeKept DEF ClearCommandLane, PumpPending, ResetPending
<1>5. ASSUME MarkGatewayDraining PROVE Covered(l)
  BY <1>5, WorkUnchanged, WakeKept DEF MarkGatewayDraining, laneVars, PumpPending, ResetPending
<1>6. ASSUME ResetAllLanes PROVE Covered(l)
  <2>1. ResetOf(LanesToDrain) \in Frames
    BY DEF ResetOf, LanesToDrain, Frames
  <2>2. ResetOf(LanesToDrain) \in Elems(stack')
    BY <1>0, <1>6, <2>1, PushElems DEF ResetAllLanes, Push
  <2>3. ~draining'[l]
    BY <1>6 DEF ResetAllLanes
  <2>4. HasWork(l)' => l \in LanesToDrain
    BY <1>6 DEF ResetAllLanes, HasWork, LanesToDrain
  <2>5. /\ ResetOf(LanesToDrain).kind = "reset"
        /\ ResetOf(LanesToDrain).lanes = LanesToDrain
    BY DEF ResetOf
  <2> QED BY <2>2, <2>3, <2>4, <2>5 DEF ResetPending
<1>7. ASSUME NEW late \in BOOLEAN, WaitForActiveTasks(late) \/ WaiterPolls(late)
      PROVE Covered(l)
  BY <1>7, WorkUnchanged, WakeKept
     DEF WaitForActiveTasks, WaiterPolls, laneVars, PumpPending, ResetPending
<1>8. ASSUME NEW k \in Lanes, PumpStarts(k) PROVE Covered(l)
  <2>1. Head(queue[k]) \in Tasks
    BY <1>8 DEF PumpStarts, HasWork, TypeOK
  <2>2. Body(Head(queue[k])) \in Frames
    BY <2>1 DEF Body, Frames
  <2>3. Elems(stack) \subseteq Elems(stack')
    BY <1>0, <1>8, <2>2, PushElems DEF PumpStarts, Push
  <2>4. l # k => HasWork(l)' = HasWork(l)
    BY <1>8 DEF PumpStarts, HasWork, HasRoom, TypeOK
  <2>5. l = k => HasWork(l)
    BY <1>8 DEF PumpStarts
  <2>6. draining' = draining
    BY <1>8 DEF PumpStarts
  <2> QED BY <2>3, <2>4, <2>5, <2>6, FramesKept, WakeKept
<1>9. ASSUME NEW k \in Lanes, PumpReturns(k) PROVE Covered(l)
  <2>1. /\ stack # <<>> /\ Head(stack) \in Frames
        /\ Head(stack).kind = "pump" /\ Head(stack).lane = k
        /\ stack' = Tail(stack)
    BY <1>0, <1>9, PopElems DEF PumpReturns, TopIs
  <2>2. Head(stack) = Pump(k)
    BY <2>1, FrameFields
  <2>3. HasWork(l)' = HasWork(l)
    BY <1>9, WorkUnchanged DEF PumpReturns
  <2>4. CASE l = k
    <3>1. ~draining'[l] /\ ~HasWork(l)
      BY <1>9, <2>4 DEF PumpReturns, TypeOK
    <3> QED BY <2>3, <3>1
  <2>5. CASE l # k
    <3>1. Head(stack) # Pump(l) /\ Head(stack).kind # "reset"
      BY <2>1, <2>2, <2>5 DEF Pump
    <3>2. draining'[l] = draining[l]
      BY <1>9, <2>5 DEF PumpReturns, TypeOK
    <3> QED BY <1>0, <2>1, <2>3, <3>1, <3>2, TopPopped, WakeKept
  <2> QED BY <2>4, <2>5
<1>10. ASSUME NEW k \in Lanes, ResetDrains(k) PROVE Covered(l)
  <2> DEFINE top == Head(stack)
             below == <<ResetOf(top.lanes \ {k})>> \o Tail(stack)
  <2>1. /\ stack # <<>> /\ top \in Frames /\ top.kind = "reset"
        /\ Tail(stack) \in Seq(Frames) /\ DrainLane(k, below)
    BY <1>0, <1>10, PopElems DEF ResetDrains, TopIs
  <2>2. ResetOf(top.lanes \ {k}) \in Frames
    BY <2>1, FrameFields DEF ResetOf, Frames
  <2>3. /\ below \in Seq(Frames)
        /\ Elems(below) = {ResetOf(top.lanes \ {k})} \cup Elems(Tail(stack))
    BY <2>1, <2>2, PushElems
  <2>4. Elems(stack) = {top} \cup Elems(Tail(stack))
    BY <1>0, <2>1, PopElems
  <2> HIDE DEF below
  <2>5. /\ Elems(below) \subseteq Elems(stack')
        /\ ~draining[k] => Pump(k) \in Elems(stack')
        /\ draining'[l] = (draining[l] \/ l = k)
    BY <2>1, <2>3, DrainLaneType
  <2>6. PumpPending(l) => PumpPending(l)'
    <3>1. top # Pump(l)
      BY <2>1 DEF Pump
    <3> QED BY <2>3, <2>4, <2>5, <3>1 DEF PumpPending
  <2>7. draining'[l] => draining[l] \/ PumpPending(l)'
    BY <2>5, <2>6 DEF PumpPending
  <2>8. ResetPending(l) => ResetPending(l)' \/ PumpPending(l)'
    <3>1. CASE l = k
      BY <2>5, <2>6, <3>1 DEF PumpPending, WakeInv
    <3>2. CASE l # k
      <4>1. ASSUME NEW f \in Elems(stack), f.kind = "reset", l \in f.lanes
            PROVE  \E g \in Elems(stack') : g.kind = "reset" /\ l \in g.lanes
        <5>1. CASE f \in Elems(Tail(stack))
          BY <2>3, <2>5, <4>1, <5>1
        <5>2. CASE f = top
          <6>1. LET g == ResetOf(top.lanes \ {k})
                IN  g \in Elems(stack') /\ g.kind = "reset" /\ l \in g.lanes
            BY <2>3, <2>5, <3>2, <4>1, <5>2 DEF ResetOf
          <6> QED BY <6>1
        <5> QED BY <2>4, <5>1, <5>2
      <4> QED BY <4>1 DEF ResetPending
    <3> QED BY <3>1, <3>2
  <2>9. HasWork(l)' = HasWork(l)
    BY <1>10, WorkUnchanged DEF ResetDrains
  <2> QED BY <2>6, <2>7, <2>8, <2>9, WakeKept
<1>11. ASSUME ResetReturns \/ BodyAwaits PROVE Covered(l)
  <2>1. /\ stack # <<>> /\ stack' = Tail(stack)
        /\ Head(stack).kind \in {"reset", "body"}
        /\ Head(stack).kind = "reset" => Head(stack).lanes = {}
        /\ UNCHANGED <<queue, activeTaskIds, maxConcurrent, draining>>
    BY <1>11 DEF ResetReturns, BodyAwaits, TopIs, laneVars
  <2>2. Head(stack) # Pump(l)
    BY <2>1 DEF Pump
  <2> QED BY <1>0, <2>1, <2>2, TopPopped, WorkUnchanged, WakeKept
<1>12. ASSUME BodyThrows PROVE Covered(l)
  <2>1. /\ stack # <<>> /\ Head(stack) \in Frames /\ Head(stack).kind = "body"
        /\ Head(stack).task \in Tasks /\ Tail(stack) \in Seq(Frames)
        /\ Elems(stack) = {Head(stack)} \cup Elems(Tail(stack))
        /\ Complete(Head(stack).task, "rejected", Tail(stack))
    BY <1>0, <1>12, PopElems, FrameFields DEF BodyThrows, TopIs
  <2>2. \A k \in Lanes :
            /\ PumpPending(k) => Pump(k) \in Elems(Tail(stack))
            /\ ResetPending(k) =>
                  \E f \in Elems(Tail(stack)) : f.kind = "reset" /\ k \in f.lanes
    BY <2>1 DEF PumpPending, ResetPending, Pump
  <2> QED BY <2>1, <2>2, CompleteWakes DEF WakeInv
<1>13. ASSUME NEW t \in Tasks, TaskEnd(t) PROVE Covered(l)
  <2>1. PICK o \in {"resolved", "rejected"} : Complete(t, o, <<>>) /\ stack = <<>>
    BY <1>13 DEF TaskEnd, TaskEnds
  <2>2. Elems(stack) = Elems(<<>>) /\ <<>> \in Seq(Frames)
    BY <2>1
  <2>3. \A k \in Lanes :
            /\ PumpPending(k) => Pump(k) \in Elems(<<>>)
            /\ ResetPending(k) =>
                  \E f \in Elems(<<>>) : f.kind = "reset" /\ k \in f.lanes
    BY <2>2 DEF PumpPending, ResetPending
  <2> QED BY <2>1, <2>2, <2>3, CompleteWakes DEF WakeInv
<1>14. ASSUME Settles PROVE Covered(l)
  <2>1. /\ stack # <<>> /\ stack' = Tail(stack)
        /\ Head(stack).kind = "settle"
        /\ UNCHANGED <<queue, activeTaskIds, maxConcurrent, draining>>
    BY <1>14 DEF Settles, TopIs, laneVars
  <2>2. Head(stack) # Pump(l)
    BY <2>1 DEF Pump
  <2> QED BY <1>0, <2>1, <2>2, TopPopped, WorkUnchanged, WakeKept
<1>15. ASSUME UNCHANGED vars PROVE Covered(l)
  BY <1>15, WorkUnchanged, WakeKept DEF vars, laneVars, PumpPending, ResetPending
<1> QED
  BY <1>1, <1>2, <1>3, <1>4, <1>5, <1>6, <1>7, <1>8, <1>9, <1>10, <1>11, <1>12,
     <1>13, <1>14, <1>15 DEF Next, Run, Call

LEMMA WakeImplies == TypeOK /\ WakeInv => NoLostWakeup
<1> SUFFICES ASSUME WakeInv, stack = <<>>, NEW l \in Lanes
             PROVE  ~HasWork(l) /\ ~draining[l]
  BY DEF NoLostWakeup
<1>1. Elems(stack) = {}
  BY DEF Elems
<1> QED BY <1>1 DEF WakeInv, PumpPending, ResetPending

(* Whenever the event loop is free, no lane holds back an entry it has a   *)
(* slot for, and no lane is left with its draining flag up: for any number *)
(* of lanes and tasks, limits and resets.                                  *)
THEOREM NoLostWakeupHolds == Spec => []NoLostWakeup
<1>1. Init => TypeOK /\ WakeInv
  BY TypeInit, WakeInit
<1>2. TypeOK /\ WakeInv /\ [Next]_vars => (TypeOK /\ WakeInv)'
  BY TypeNext, WakeNext
<1> QED BY <1>1, <1>2, WakeImplies, PTL DEF Spec
=============================================================================
