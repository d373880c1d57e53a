------------------------ MODULE CommandQueue_promise ------------------------
(***************************************************************************)
(* The command queue keeps the promise of LaneQueue, for every set of      *)
(* lanes, tasks and limits and for any number of resets.                   *)
(*                                                                         *)
(* The heart of it is that the ids a lane counts against its limit are     *)
(* those of its running tasks of the current generation.  For that to be   *)
(* inductive one has to know whose frames are on the stack: a task has at  *)
(* most one, and the task of a body runs while that of a settle frame has  *)
(* completed; that queued tasks wait in one place; and that ids are fresh. *)
(***************************************************************************)
EXTENDS CommandQueue_proofs

OwnsTask(f) == f.kind \in {"body", "settle"}

Owners(s, st) ==
    /\ \A i, j \in 1..Len(s) :
          i # j /\ OwnsTask(s[i]) /\ OwnsTask(s[j]) => s[i].task # s[j].task
    /\ \A f \in Elems(s) : /\ f.kind = "body" => st[f.task] = "running"
                           /\ f.kind = "settle" => st[f.task] = "settling"

StackInv == Owners(stack, status)

QueueInv ==
    \A l \in Lanes :
        /\ \A i \in 1..Len(queue[l]) :
              laneOf[queue[l][i]] = l /\ status[queue[l][i]] = "queued"
        /\ \A i, j \in 1..Len(queue[l]) : i # j => queue[l][i] # queue[l][j]

IdInv ==
    \A t \in Tasks :
        /\ taskId[t] < nextTaskId
        /\ taskGeneration[t] <= generation[laneOf[t]]
        /\ status[t] = "running" => taskId[t] # 0
        /\ \A u \in Tasks : u # t /\ taskId[u] = taskId[t] => taskId[t] = 0

SlotInv == StackInv /\ QueueInv /\ IdInv /\ SlotsMatchTasks

-----------------------------------------------------------------------------
(* Owners of frames.                                                       *)

(* Pushing a frame whose task, if it has one, has no frame yet.            *)
LEMMA OwnersPush ==
    ASSUME NEW s \in Seq(Frames), NEW f \in Frames, NEW st, Owners(s, st),
           f.kind = "body" => st[f.task] = "running",
           f.kind = "settle" => st[f.task] = "settling",
           OwnsTask(f) => \A g \in Elems(s) : OwnsTask(g) => g.task # f.task
    PROVE  Owners(<<f>> \o s, st)
<1> DEFINE r == <<f>> \o s
<1>1. /\ Len(r) = Len(s) + 1 /\ r[1] = f /\ Len(s) \in Nat
      /\ \A i \in 1..Len(s) : r[i + 1] = s[i]
  OBVIOUS
<1>2. Elems(r) = {f} \cup Elems(s)
  BY PushElems
<1> HIDE DEF r
<1>3. ASSUME NEW i \in 1..Len(r), i # 1
      PROVE  i - 1 \in 1..Len(s) /\ r[i] = s[i - 1] /\ r[i] \in Elems(s)
  <2>1. i - 1 \in 1..Len(s)
    BY <1>1, <1>3
  <2>2. r[(i - 1) + 1] = s[i - 1]
    BY <1>1, <2>1
  <2> QED BY <2>1, <2>2 DEF Elems
<1>4. ASSUME NEW i \in 1..Len(r), NEW j \in 1..Len(r), i # j,
             OwnsTask(r[i]), OwnsTask(r[j])
      PROVE  r[i].task # r[j].task
  <2>1. CASE i = 1
    BY <1>1, <1>3, <1>4, <2>1
  <2>2. CASE j = 1
    BY <1>1, <1>3, <1>4, <2>2
  <2>3. CASE i # 1 /\ j # 1
    <3>1. /\ i - 1 \in 1..Len(s) /\ r[i] = s[i - 1]
          /\ j - 1 \in 1..Len(s) /\ r[j] = s[j - 1]
          /\ i - 1 # j - 1
      BY <1>3, <1>4, <2>3
    <3> QED BY <1>4, <3>1 DEF Owners
  <2> QED BY <2>1, <2>2, <2>3
<1>5. \A g \in Elems(r) : /\ g.kind = "body" => st[g.task] = "running"
                          /\ g.kind = "settle" => st[g.task] = "settling"
  BY <1>2 DEF Owners
<1> QED BY <1>4, <1>5 DEF Owners, r

(* Below the top, no other frame belongs to the task of the top.           *)
LEMMA OwnersPop ==
    ASSUME NEW s \in Seq(Frames), s # <<>>, NEW st, Owners(s, st)
    PROVE  /\ Owners(Tail(s), st)
           /\ OwnsTask(Head(s)) =>
                \A g \in Elems(Tail(s)) : OwnsTask(g) => g.task # Head(s).task
           /\ Head(s).kind = "body" => st[Head(s).task] = "running"
           /\ Head(s).kind = "settle" => st[Head(s).task] = "settling"
<1>1. /\ Head(s) = s[1] /\ Len(Tail(s)) = Len(s) - 1 /\ Len(s) \in Nat \ {0}
      /\ \A i \in 1..Len(s) - 1 : Tail(s)[i] = s[i + 1]
  OBVIOUS
<1>2. Elems(s) = {Head(s)} \cup Elems(Tail(s))
  BY PopElems
<1>3. ASSUME NEW i \in 1..Len(Tail(s)), NEW j \in 1..Len(Tail(s)), i # j,
             OwnsTask(Tail(s)[i]), OwnsTask(Tail(s)[j])
      PROVE  Tail(s)[i].task # Tail(s)[j].task
  <2>1. /\ i + 1 \in 1..Len(s) /\ j + 1 \in 1..Len(s) /\ i + 1 # j + 1
        /\ Tail(s)[i] = s[i + 1] /\ Tail(s)[j] = s[j + 1]
    BY <1>1, <1>3
  <2> QED BY <1>3, <2>1 DEF Owners
<1>4. ASSUME OwnsTask(Head(s)), NEW g \in Elems(Tail(s)), OwnsTask(g)
      PROVE  g.task # Head(s).task
  <2>1. PICK i \in 1..Len(Tail(s)) : g = Tail(s)[i]
    BY DEF Elems
  <2>2. /\ i + 1 \in 1..Len(s) /\ 1 \in 1..Len(s) /\ i + 1 # 1
        /\ g = s[i + 1] /\ Head(s) = s[1]
    BY <1>1, <2>1
  <2> QED BY <1>4, <2>2 DEF Owners
<1>5. \A g \in Elems(s) : /\ g.kind = "body" => st[g.task] = "running"
                          /\ g.kind = "settle" => st[g.task] = "settling"
  BY DEF Owners
<1> QED BY <1>2, <1>3, <1>4, <1>5 DEF Owners

(* Tasks without a frame may change their status.                          *)
LEMMA OwnersStatus ==
    ASSUME NEW s, NEW st, NEW stNew, Owners(s, st),
           \A f \in Elems(s) : OwnsTask(f) => stNew[f.task] = st[f.task]
    PROVE  Owners(s, stNew)
BY DEF Owners, OwnsTask

LEMMA OwnersDrain ==
    ASSUME NEW l \in Lanes, NEW below \in Seq(Frames), NEW st, Owners(below, st),
           DrainLane(l, below)
    PROVE  Owners(stack', st)
<1>1. Pump(l) \in Frames /\ Pump(l).kind = "pump"
  BY DEF Pump, Frames
<1>2. Owners(<<Pump(l)>> \o below, st)
  BY <1>1, OwnersPush DEF OwnsTask
<1> QED BY <1>2 DEF DrainLane

(* A completion of the only frame of a task, or of a task without one.     *)
LEMMA OwnersComplete ==
    ASSUME TypeOK, NEW t \in Tasks, NEW o \in {"resolved", "rejected"},
           NEW below \in Seq(Frames), Owners(below, status), Complete(t, o, below),
           \A g \in Elems(below) : OwnsTask(g) => g.task # t
    PROVE  StackInv'
<1>1. /\ Settle(t, o) \in Frames /\ Settle(t, o).kind = "settle" /\ Settle(t, o).task = t
      /\ Pump(laneOf[t]) \in Frames /\ Pump(laneOf[t]).kind = "pump"
  BY DEF TypeOK, Settle, Pump, Frames
<1>2. \A u \in Tasks : status'[u] = IF u = t THEN "settling" ELSE status[u]
  BY DEF Complete, TypeOK
<1>3. Owners(below, status')
  <2>1. \A g \in Elems(below) : g \in Frames
    BY DEF Elems
  <2>2. \A g \in Elems(below) : OwnsTask(g) => g.task \in Tasks
    BY <2>1, FrameFields DEF OwnsTask
  <2> QED BY <1>2, <2>2, OwnersStatus
<1> DEFINE s == <<Settle(t, o)>> \o below
<1>4. Owners(s, status')
  BY <1>1, <1>2, <1>3, OwnersPush
<1>5. s \in Seq(Frames)
  BY <1>1, PushElems
<1>6. stack' = <<Pump(laneOf[t])>> \o s \/ stack' = s
  BY <1>1 DEF Complete
<1>7. Owners(<<Pump(laneOf[t])>> \o s, status')
  <2> HIDE DEF s
  <2> QED BY <1>1, <1>4, <1>5, OwnersPush DEF OwnsTask
<1> QED BY <1>4, <1>6, <1>7 DEF StackInv

(* Tasks in a queue are known by their status, and each queue holds tasks. *)
LEMMA QueuedTask ==
    ASSUME TypeOK, QueueInv, NEW l \in Lanes, queue[l] # <<>>
    PROVE  /\ Head(queue[l]) \in Tasks /\ Tail(queue[l]) \in Seq(Tasks)
           /\ Head(queue[l]) = queue[l][1] /\ 1 \in 1..Len(queue[l])
           /\ status[Head(queue[l])] = "queued" /\ laneOf[Head(queue[l])] = l
           /\ Len(Tail(queue[l])) = Len(queue[l]) - 1 /\ Len(queue[l]) \in Nat \ {0}
           /\ \A i \in 1..Len(queue[l]) - 1 : Tail(queue[l])[i] = queue[l][i + 1]
<1>1. queue[l] \in Seq(Tasks)
  BY DEF TypeOK
<1>2. /\ Head(queue[l]) \in Tasks /\ Tail(queue[l]) \in Seq(Tasks)
      /\ Head(queue[l]) = queue[l][1] /\ 1 \in 1..Len(queue[l])
      /\ Len(Tail(queue[l])) = Len(queue[l]) - 1 /\ Len(queue[l]) \in Nat \ {0}
      /\ \A i \in 1..Len(queue[l]) - 1 : Tail(queue[l])[i] = queue[l][i + 1]
  BY <1>1
<1> QED BY <1>2 DEF QueueInv

LEMMA StackInvNext == TypeOK /\ StackInv /\ QueueInv /\ [Next]_vars => StackInv'
<1> SUFFICES ASSUME TypeOK, StackInv, QueueInv, [Next]_vars PROVE StackInv'
  OBVIOUS
<1>0. /\ stack \in Seq(Frames) /\ Owners(stack, status)
      /\ \A f \in Elems(stack) : f \in Frames
      /\ \A f \in Elems(stack) : OwnsTask(f) => f.task \in Tasks
      /\ \A f \in Elems(stack) : OwnsTask(f) => status[f.task] \in {"running", "settling"}
  <2>1. stack \in Seq(Frames) /\ Owners(stack, status)
    BY DEF TypeOK, StackInv
  <2>2. \A f \in Elems(stack) : f \in Frames
    BY <2>1 DEF Elems
  <2> QED BY <2>1, <2>2, FrameFields DEF OwnsTask, Owners
<1>a. ASSUME \A u \in Tasks : status[u] \in {"running", "settling"} => status'[u] = status[u]
      PROVE  Owners(stack, status')
  BY <1>0, <1>a, OwnersStatus
<1>b. ASSUME stack # <<>>
      PROVE  /\ Head(stack) \in Frames /\ Tail(stack) \in Seq(Frames)
             /\ Owners(Tail(stack), status)
             /\ OwnsTask(Head(stack)) =>
                  \A g \in Elems(Tail(stack)) : OwnsTask(g) => g.task # Head(stack).task
  BY <1>0, <1>b, PopElems, OwnersPop
<1>1. ASSUME NEW t \in Tasks, EnqueueRefused(t) PROVE StackInv'
  BY <1>1, <1>a DEF EnqueueRefused, TypeOK, StackInv
<1>2. ASSUME NEW t \in Tasks, Enqueue(t) PROVE StackInv'
  <2>1. Owners(stack, status')
    BY <1>2, <1>a DEF Enqueue, TypeOK
  <2> QED BY <1>0, <1>2, <2>1, OwnersDrain DEF Enqueue, StackInv, TypeOK
<1>3. ASSUME NEW k \in Configured, NEW n \in Limits, SetCommandLaneConcurrency(k, n)
      PROVE  StackInv'
  <2>1. k \in Lanes /\ DrainLane(k, stack) /\ status' = status
    BY <1>3, LimitsAssumption DEF SetCommandLaneConcurrency, taskVars
  <2> QED BY <1>0, <2>1, OwnersDrain DEF StackInv
<1>4. ASSUME NEW k \in Lanes, ClearCommandLane(k) PROVE StackInv'
  <2>1. \A u \in Queued(k) : status[u] = "queued"
    BY DEF Queued, QueueInv, TypeOK
  <2>2. Owners(stack, status')
    BY <1>4, <1>a, <2>1 DEF ClearCommandLane
  <2> QED BY <1>4, <2>2 DEF ClearCommandLane, StackInv
<1>5. ASSUME UNCHANGED <<stack, status>> PROVE StackInv'
  BY <1>5 DEF StackInv
<1>6. ASSUME ResetAllLanes PROVE StackInv'
  <2>1. ResetOf(LanesToDrain) \in Frames /\ ResetOf(LanesToDrain).kind = "reset"
    BY DEF ResetOf, LanesToDrain, Frames
  <2>2. stack' = <<ResetOf(LanesToDrain)>> \o stack /\ status' = status
    BY <1>6 DEF ResetAllLanes, Push, taskVars
  <2> QED BY <1>0, <2>1, <2>2, OwnersPush DEF StackInv, OwnsTask
<1>8. ASSUME NEW k \in Lanes, PumpStarts(k) PROVE StackInv'
  <2> DEFINE t == Head(queue[k])
  <2>1. t \in Tasks /\ status[t] = "queued"
    BY <1>8, QueuedTask DEF PumpStarts, HasWork
  <2>2. /\ Body(t) \in Frames /\ Body(t).kind = "body" /\ Body(t).task = t
    BY <2>1 DEF Body, Frames
  <2>3. status' = [status EXCEPT ![t] = "running"] /\ stack' = <<Body(t)>> \o stack
    BY <1>8 DEF PumpStarts, Push
  <2> HIDE DEF t
  <2>4. Owners(stack, status') /\ status'[t] = "running"
    BY <1>a, <2>1, <2>3 DEF TypeOK
  <2> QED BY <1>0, <2>1, <2>2, <2>3, <2>4, OwnersPush DEF StackInv
<1>10. ASSUME NEW k \in Lanes, ResetDrains(k) PROVE StackInv'
  <2> DEFINE below == <<ResetOf(Head(stack).lanes \ {k})>> \o Tail(stack)
  <2>1. stack # <<>> /\ Head(stack).kind = "reset"
    BY <1>10 DEF ResetDrains, TopIs
  <2>2. /\ ResetOf(Head(stack).lanes \ {k}) \in Frames
        /\ ResetOf(Head(stack).lanes \ {k}).kind = "reset"
    BY <1>b, <2>1, FrameFields DEF ResetOf, Frames
  <2>3. below \in Seq(Frames) /\ Owners(below, status)
    BY <1>b, <2>1, <2>2, PushElems, OwnersPush DEF OwnsTask
  <2>4. DrainLane(k, below) /\ status' = status
    BY <1>10 DEF ResetDrains, taskVars
  <2> QED BY <2>3, <2>4, OwnersDrain DEF StackInv
<1>11. ASSUME stack # <<>>, stack' = Tail(stack), status' = status PROVE StackInv'
  BY <1>b, <1>11 DEF StackInv
<1>12. ASSUME BodyThrows PROVE StackInv'
  <2>1. /\ stack # <<>> /\ Head(stack).kind = "body"
        /\ Complete(Head(stack).task, "rejected", Tail(stack))
    BY <1>12 DEF BodyThrows, TopIs
  <2>2. Head(stack).task \in Tasks
    BY <1>b, <2>1, FrameFields
  <2> QED BY <1>b, <2>1, <2>2, OwnersComplete DEF OwnsTask
<1>13. ASSUME NEW t \in Tasks, TaskEnd(t) PROVE StackInv'
  <2>1. PICK o \in {"resolved", "rejected"} : Complete(t, o, <<>>) /\ stack = <<>>
    BY <1>13 DEF TaskEnd, TaskEnds
  <2>2. \A g \in Elems(<<>>) : FALSE
    BY DEF Elems
  <2>3. <<>> \in Seq(Frames) /\ Owners(<<>>, status)
    BY <1>0, <2>1
  <2> QED BY <2>1, <2>2, <2>3, OwnersComplete
<1>14. ASSUME Settles PROVE StackInv'
  <2>1. /\ stack # <<>> /\ Head(stack).kind = "settle" /\ stack' = Tail(stack)
        /\ status' = [status EXCEPT ![Head(stack).task] = Head(stack).outcome]
    BY <1>14 DEF Settles, TopIs
  <2>2. \A g \in Elems(Tail(stack)) : OwnsTask(g) => g.task \in Tasks /\ g.task # Head(stack).task
    BY <1>0, <1>b, <2>1, PopElems DEF OwnsTask
  <2>4. \A g \in Elems(Tail(stack)) : OwnsTask(g) => status'[g.task] = status[g.task]
    BY <2>1, <2>2 DEF TypeOK
  <2>3. Owners(Tail(stack), status')
    BY <1>b, <2>1, <2>4, OwnersStatus
  <2> QED BY <2>1, <2>3 DEF StackInv
<1> QED
  <2>1. ASSUME MarkGatewayDraining \/ (\E late \in BOOLEAN : WaitForActiveTasks(late) \/ WaiterPolls(late)) \/ UNCHANGED vars
        PROVE  UNCHANGED <<stack, status>>
    BY <2>1 DEF MarkGatewayDraining, WaitForActiveTasks, WaiterPolls, vars, taskVars
  <2>2. ASSUME ResetReturns \/ BodyAwaits \/ (\E k \in Lanes : PumpReturns(k))
        PROVE  stack # <<>> /\ stack' = Tail(stack) /\ status' = status
    BY <2>2 DEF ResetReturns, BodyAwaits, PumpReturns, TopIs, taskVars
  <2> QED
    BY <1>1, <1>2, <1>3, <1>4, <1>5, <1>6, <1>8, <1>10, <1>11, <1>12, <1>13, <1>14,
       <2>1, <2>2 DEF Next, Run, Call

-----------------------------------------------------------------------------
(* Queued tasks wait in one place.                                         *)

(* A step that leaves the queues alone and takes no task back to "queued"  *)
(* or away from it.                                                        *)
LEMMA QueuesKept ==
    ASSUME TypeOK, QueueInv, queue' = queue, laneOf' = laneOf,
           \A u \in Tasks : status[u] = "queued" => status'[u] = "queued"
    PROVE  QueueInv'
<1> SUFFICES ASSUME NEW l \in Lanes
             PROVE  /\ \A i \in 1..Len(queue[l]) :
                          laneOf[queue[l][i]] = l /\ status'[queue[l][i]] = "queued"
                    /\ \A i, j \in 1..Len(queue[l]) : i # j => queue[l][i] # queue[l][j]
  BY DEF QueueInv
<1>1. \A i \in 1..Len(queue[l]) : queue[l][i] \in Tasks
  BY DEF TypeOK
<1> QED BY <1>1 DEF QueueInv

LEMMA QueueInvNext == TypeOK /\ TypeOK' /\ StackInv /\ QueueInv /\ [Next]_vars => QueueInv'
<1> SUFFICES ASSUME TypeOK, TypeOK', StackInv, QueueInv, [Next]_vars PROVE QueueInv'
  OBVIOUS
<1>0. \A l \in Lanes : \A i \in 1..Len(queue[l]) :
          queue[l][i] \in Tasks /\ laneOf[queue[l][i]] = l /\ status[queue[l][i]] = "queued"
  <2>1. \A l \in Lanes : queue[l] \in Seq(Tasks)
    BY DEF TypeOK
  <2>2. \A l \in Lanes : \A i \in 1..Len(queue[l]) : queue[l][i] \in Tasks
    BY <2>1
  <2> QED BY <2>2 DEF QueueInv
<1>1. ASSUME NEW t \in Tasks, EnqueueRefused(t) PROVE QueueInv'
  BY <1>1, QueuesKept DEF EnqueueRefused, TypeOK, laneVars
<1>2. ASSUME NEW t \in Tasks, Enqueue(t) PROVE QueueInv'
  <2>1. /\ status[t] = "idle" /\ laneOf[t] \in Lanes /\ laneOf' = laneOf
        /\ status' = [status EXCEPT ![t] = "queued"]
        /\ queue' = [queue EXCEPT ![laneOf[t]] = Append(queue[laneOf[t]], t)]
    BY <1>2 DEF Enqueue, Pushed, TypeOK
  <2>2. ASSUME NEW l \in Lanes
        PROVE  /\ \A i \in 1..Len(queue'[l]) :
                     laneOf[queue'[l][i]] = l /\ status'[queue'[l][i]] = "queued"
               /\ \A i, j \in 1..Len(queue'[l]) : i # j => queue'[l][i] # queue'[l][j]
    <3>1. CASE l # laneOf[t]
      <4>1. queue'[l] = queue[l]
        BY <2>1, <3>1 DEF TypeOK
      <4>2. \A i \in 1..Len(queue[l]) : status'[queue[l][i]] = "queued"
        BY <1>0, <2>1 DEF TypeOK
      <4> QED BY <1>0, <4>1, <4>2 DEF QueueInv
    <3>2. CASE l = laneOf[t]
      <4> DEFINE q == queue[l]
      <4>1. q \in Seq(Tasks) /\ queue'[l] = Append(q, t)
        BY <2>1, <3>2 DEF TypeOK
      <4>2. /\ Len(queue'[l]) = Len(q) + 1 /\ queue'[l][Len(q) + 1] = t /\ Len(q) \in Nat
            /\ \A i \in 1..Len(q) : queue'[l][i] = q[i]
        BY <4>1
      <4>3. \A i \in 1..Len(q) : q[i] \in Tasks /\ q[i] # t /\ laneOf[q[i]] = l /\ status[q[i]] = "queued"
        BY <1>0, <2>1
      <4>4. \A i, j \in 1..Len(q) : i # j => q[i] # q[j]
        BY DEF QueueInv
      <4> HIDE DEF q
      <4>5. \A i \in 1..Len(queue'[l]) : i \in 1..Len(q) \/ i = Len(q) + 1
        BY <4>2
      <4>6. \A u \in Tasks : status[u] = "queued" \/ u = t => status'[u] = "queued"
        BY <2>1 DEF TypeOK
      <4>7. \A i \in 1..Len(queue'[l]) : laneOf[queue'[l][i]] = l /\ status'[queue'[l][i]] = "queued"
        BY <3>2, <4>2, <4>3, <4>5, <4>6
      <4>8. \A i, j \in 1..Len(queue'[l]) : i # j => queue'[l][i] # queue'[l][j]
        BY <4>2, <4>3, <4>4, <4>5
      <4> QED BY <4>7, <4>8
    <3> QED BY <3>1, <3>2
  <2> QED BY <2>1, <2>2 DEF QueueInv
<1>4. ASSUME NEW k \in Lanes, ClearCommandLane(k) PROVE QueueInv'
  <2>1. /\ queue' = [queue EXCEPT ![k] = <<>>] /\ laneOf' = laneOf
        /\ \A u \in Tasks : u \notin Queued(k) => status'[u] = status[u]
    BY <1>4 DEF ClearCommandLane, Spliced
  <2>2. \A u \in Queued(k) : laneOf[u] = k
    <3>1. DOMAIN queue[k] = 1..Len(queue[k])
      BY DEF TypeOK
    <3> QED BY <1>0, <3>1 DEF Queued
  <2>3. ASSUME NEW l \in Lanes
        PROVE  /\ \A i \in 1..Len(queue'[l]) :
                     laneOf[queue'[l][i]] = l /\ status'[queue'[l][i]] = "queued"
               /\ \A i, j \in 1..Len(queue'[l]) : i # j => queue'[l][i] # queue'[l][j]
    <3>1. CASE l = k
      BY <2>1, <3>1 DEF TypeOK
    <3>2. CASE l # k
      <4>1. queue'[l] = queue[l]
        BY <2>1, <3>2 DEF TypeOK
      <4>2. \A i \in 1..Len(queue[l]) : status'[queue[l][i]] = "queued"
        BY <1>0, <2>1, <2>2, <3>2
      <4> QED BY <1>0, <4>1, <4>2 DEF QueueInv
    <3> QED BY <3>1, <3>2
  <2> QED BY <2>1, <2>3 DEF QueueInv
<1>5. ASSUME UNCHANGED <<queue, laneOf, status>> PROVE QueueInv'
  BY <1>5, QueuesKept
<1>8. ASSUME NEW k \in Lanes, PumpStarts(k) PROVE QueueInv'
  <2> DEFINE t == Head(queue[k])
  <2>1. /\ queue[k] # <<>> /\ laneOf' = laneOf
        /\ queue' = [queue EXCEPT ![k] = Tail(queue[k])]
        /\ status' = [status EXCEPT ![t] = "running"]
    BY <1>8 DEF PumpStarts, HasWork
  <2>2. /\ t \in Tasks /\ t = queue[k][1] /\ 1 \in 1..Len(queue[k]) /\ laneOf[t] = k
        /\ Len(Tail(queue[k])) = Len(queue[k]) - 1 /\ Len(queue[k]) \in Nat \ {0}
        /\ \A i \in 1..Len(queue[k]) - 1 : Tail(queue[k])[i] = queue[k][i + 1]
    BY <2>1, QueuedTask
  <2> HIDE DEF t
  <2>3. \A u \in Tasks : status[u] = "queued" /\ u # t => status'[u] = "queued"
    BY <2>1 DEF TypeOK
  <2>4. ASSUME NEW l \in Lanes
        PROVE  /\ \A i \in 1..Len(queue'[l]) :
                     laneOf[queue'[l][i]] = l /\ status'[queue'[l][i]] = "queued"
               /\ \A i, j \in 1..Len(queue'[l]) : i # j => queue'[l][i] # queue'[l][j]
    <3>1. CASE l = k
      <4>1. queue'[l] = Tail(queue[k])
        BY <2>1, <3>1 DEF TypeOK
      <4>2. \A i \in 1..Len(queue'[l]) :
               i + 1 \in 1..Len(queue[k]) /\ i + 1 # 1 /\ queue'[l][i] = queue[k][i + 1]
        BY <2>2, <4>1
      <4>3. \A i \in 1..Len(queue'[l]) : queue'[l][i] \in Tasks /\ queue'[l][i] # t
        BY <1>0, <2>2, <4>2 DEF QueueInv
      <4>4. \A i \in 1..Len(queue'[l]) : laneOf[queue'[l][i]] = l /\ status'[queue'[l][i]] = "queued"
        BY <1>0, <2>3, <3>1, <4>2, <4>3
      <4>5. ASSUME NEW i \in 1..Len(queue'[l]), NEW j \in 1..Len(queue'[l]), i # j
            PROVE  queue'[l][i] # queue'[l][j]
        <5>1. i + 1 # j + 1
          BY <4>5
        <5> QED BY <4>2, <5>1 DEF QueueInv
      <4> QED BY <4>4, <4>5
    <3>2. CASE l # k
      <4>1. queue'[l] = queue[l]
        BY <2>1, <3>2 DEF TypeOK
      <4>2. \A i \in 1..Len(queue[l]) : status'[queue[l][i]] = "queued"
        BY <1>0, <2>2, <2>3, <3>2
      <4> QED BY <1>0, <4>1, <4>2 DEF QueueInv
    <3> QED BY <3>1, <3>2
  <2>5. laneOf' = laneOf
    BY <2>1
  <2> QED BY <2>4, <2>5 DEF QueueInv
<1>12. ASSUME BodyThrows PROVE QueueInv'
  <2>1. /\ stack # <<>> /\ Head(stack).kind = "body" /\ Head(stack) \in Frames
        /\ Complete(Head(stack).task, "rejected", Tail(stack))
    BY <1>12, PopElems DEF BodyThrows, TopIs, TypeOK
  <2>2. status[Head(stack).task] = "running"
    BY <2>1, OwnersPop DEF StackInv, TypeOK
  <2> QED BY <2>1, <2>2, QueuesKept DEF Complete, TypeOK
<1>13. ASSUME NEW t \in Tasks, TaskEnd(t) PROVE QueueInv'
  <2>1. PICK o \in {"resolved", "rejected"} : Complete(t, o, <<>>) /\ status[t] = "running"
    BY <1>13 DEF TaskEnd, TaskEnds
  <2> QED BY <2>1, QueuesKept DEF Complete, TypeOK
<1>14. ASSUME Settles PROVE QueueInv'
  <2>1. stack # <<>> /\ Head(stack).kind = "settle"
    BY <1>14 DEF Settles, TopIs
  <2>2. status[Head(stack).task] = "settling"
    BY <2>1, OwnersPop DEF StackInv, TypeOK
  <2> QED BY <1>14, <2>2, QueuesKept DEF Settles, TypeOK, laneVars
<1> QED
  <2>1. ASSUME \/ \E k \in Configured, n \in Limits : SetCommandLaneConcurrency(k, n)
               \/ MarkGatewayDraining \/ ResetAllLanes
               \/ \E late \in BOOLEAN : WaitForActiveTasks(late) \/ WaiterPolls(late)
               \/ \E k \in Lanes : PumpReturns(k) \/ ResetDrains(k)
               \/ ResetReturns \/ BodyAwaits \/ UNCHANGED vars
        PROVE  UNCHANGED <<queue, laneOf, status>>
    BY <2>1 DEF SetCommandLaneConcurrency, MarkGatewayDraining, ResetAllLanes, ResetReturns,
       BodyAwaits, PumpReturns, ResetDrains, WaitForActiveTasks, WaiterPolls, vars, laneVars, taskVars
  <2> QED
    BY <1>1, <1>2, <1>4, <1>5, <1>8, <1>12, <1>13, <1>14, <2>1 DEF Next, Run, Call

-----------------------------------------------------------------------------
(* Ids are fresh, and no generation lies ahead of its lane's.              *)
LEMMA IdInvNext ==
    TypeOK /\ TypeOK' /\ StackInv /\ QueueInv /\ IdInv /\ [Next]_vars => IdInv'
<1> SUFFICES ASSUME TypeOK, TypeOK', StackInv, QueueInv, IdInv, [Next]_vars PROVE IdInv'
  OBVIOUS
<1>1. ASSUME UNCHANGED <<taskId, taskGeneration, laneOf, generation, nextTaskId>>,
             \A u \in Tasks : status'[u] = "running" => status[u] = "running"
      PROVE  IdInv'
  BY <1>1 DEF IdInv
<1>6. ASSUME ResetAllLanes PROVE IdInv'
  <2>1. /\ UNCHANGED <<taskId, taskGeneration, laneOf, nextTaskId, status>>
        /\ \A l \in Lanes : generation'[l] = generation[l] + 1
    BY <1>6 DEF ResetAllLanes, taskVars
  <2>2. \A u \in Tasks : taskGeneration[u] <= generation'[laneOf[u]]
    BY <2>1 DEF IdInv, TypeOK
  <2> QED BY <2>1, <2>2 DEF IdInv
<1>8. ASSUME NEW k \in Lanes, PumpStarts(k) PROVE IdInv'
  <2> DEFINE t == Head(queue[k])
  <2>1. /\ queue[k] # <<>> /\ laneOf' = laneOf /\ generation' = generation
        /\ nextTaskId' = nextTaskId + 1
        /\ taskId' = [taskId EXCEPT ![t] = nextTaskId]
        /\ taskGeneration' = [taskGeneration EXCEPT ![t] = generation[k]]
        /\ status' = [status EXCEPT ![t] = "running"]
    BY <1>8 DEF PumpStarts, HasWork
  <2>2. t \in Tasks /\ laneOf[t] = k
    BY <2>1, QueuedTask
  <2> HIDE DEF t
  <2>3. /\ taskId'[t] = nextTaskId /\ taskGeneration'[t] = generation[k]
        /\ nextTaskId \in Nat \ {0} /\ generation[k] \in Nat
        /\ \A u \in Tasks : u # t => /\ taskId'[u] = taskId[u] /\ taskId[u] \in Nat
                                     /\ taskGeneration'[u] = taskGeneration[u]
                                     /\ status'[u] = status[u]
    BY <2>1, <2>2 DEF TypeOK
  <2>4. ASSUME NEW u \in Tasks
        PROVE  /\ taskId'[u] < nextTaskId'
               /\ taskGeneration'[u] <= generation'[laneOf'[u]]
               /\ status'[u] = "running" => taskId'[u] # 0
    <3>1. taskId[u] < nextTaskId /\ taskGeneration[u] <= generation[laneOf[u]]
      BY DEF IdInv
    <3>2. status[u] = "running" => taskId[u] # 0
      BY DEF IdInv
    <3>3. CASE u = t
      BY <2>1, <2>2, <2>3, <3>3
    <3>4. CASE u # t
      BY <2>1, <2>3, <3>1, <3>2, <3>4
    <3> QED BY <3>3, <3>4
  <2>5. ASSUME NEW u \in Tasks, NEW v \in Tasks, v # u, taskId'[v] = taskId'[u]
        PROVE  taskId'[u] = 0
    <3>1. taskId[u] < nextTaskId /\ taskId[v] < nextTaskId
      BY DEF IdInv
    <3>2. taskId[v] = taskId[u] => taskId[u] = 0
      BY <2>5 DEF IdInv
    <3> QED BY <2>3, <2>5, <3>1, <3>2
  <2> QED BY <2>4, <2>5 DEF IdInv
<1>12. ASSUME NEW t \in Tasks, NEW o \in {"resolved", "rejected"}, NEW below,
              Complete(t, o, below)
       PROVE  IdInv'
  BY <1>1, <1>12 DEF Complete, TypeOK
<1>13. ASSUME BodyThrows PROVE IdInv'
  <2>1. stack # <<>> /\ Head(stack).kind = "body" /\ Head(stack) \in Frames
    BY <1>13, PopElems DEF BodyThrows, TopIs, TypeOK
  <2> QED BY <1>12, <1>13, <2>1, FrameFields DEF BodyThrows
<1>14. ASSUME Settles PROVE IdInv'
  <2>1. stack # <<>> /\ Head(stack).kind = "settle" /\ Head(stack) \in Frames
    BY <1>14, PopElems DEF Settles, TopIs, TypeOK
  <2>2. Head(stack).outcome # "running"
    BY <2>1, FrameFields
  <2> QED BY <1>1, <1>14, <2>2 DEF Settles, TypeOK, laneVars
<1>2. ASSUME NEW t \in Tasks, EnqueueRefused(t) \/ Enqueue(t) PROVE IdInv'
  BY <1>1, <1>2 DEF EnqueueRefused, Enqueue, TypeOK, laneVars
<1>4. ASSUME NEW k \in Lanes, ClearCommandLane(k) PROVE IdInv'
  BY <1>1, <1>4 DEF ClearCommandLane, TypeOK
<1> QED
  <2>1. ASSUME \/ \E k \in Configured, n \in Limits : SetCommandLaneConcurrency(k, n)
               \/ MarkGatewayDraining
               \/ \E late \in BOOLEAN : WaitForActiveTasks(late) \/ WaiterPolls(late)
               \/ \E k \in Lanes : PumpReturns(k) \/ ResetDrains(k)
               \/ ResetReturns \/ BodyAwaits \/ UNCHANGED vars
        PROVE  UNCHANGED <<taskId, taskGeneration, laneOf, generation, nextTaskId, status>>
    BY <2>1 DEF SetCommandLaneConcurrency, MarkGatewayDraining, ResetReturns,
       BodyAwaits, PumpReturns, ResetDrains, WaitForActiveTasks, WaiterPolls, vars, laneVars, taskVars
  <2> QED
    BY <1>1, <1>2, <1>4, <1>6, <1>8, <1>12, <1>13, <1>14, <2>1 DEF Next, Run, Call, TaskEnd, TaskEnds

-----------------------------------------------------------------------------
(* Slots and running tasks.                                                *)

(* What a completion does to the tasks that count.                         *)
LEMMA CompleteCurrent ==
    ASSUME TypeOK, IdInv, SlotsMatchTasks, NEW t \in Tasks, status[t] = "running",
           NEW o \in {"resolved", "rejected"}, NEW below, Complete(t, o, below)
    PROVE  /\ SlotsMatchTasks'
           /\ \A l \in Lanes : CurrentIn(l)' =
                 IF IsCurrent(t) /\ l = laneOf[t] THEN CurrentIn(l) \ {t} ELSE CurrentIn(l)
<1>1. /\ UNCHANGED <<taskId, taskGeneration, laneOf, generation>>
      /\ status' = [status EXCEPT ![t] = "settling"]
      /\ IsCurrent(t) =>
            activeTaskIds' = [activeTaskIds EXCEPT ![laneOf[t]] = @ \ {taskId[t]}]
      /\ ~IsCurrent(t) => activeTaskIds' = activeTaskIds
  BY DEF Complete, SlotReleased
<1>2. ASSUME NEW l \in Lanes
      PROVE  CurrentIn(l)' =
                 IF IsCurrent(t) /\ l = laneOf[t] THEN CurrentIn(l) \ {t} ELSE CurrentIn(l)
  BY <1>1 DEF CurrentIn, RunningIn, IsCurrent, TypeOK
<1>3. ASSUME NEW l \in Lanes
      PROVE  activeTaskIds'[l] = {taskId'[u] : u \in CurrentIn(l)'}
  <2>1. activeTaskIds[l] = {taskId[u] : u \in CurrentIn(l)}
    BY DEF SlotsMatchTasks
  <2>2. CASE IsCurrent(t) /\ l = laneOf[t]
    <3>1. \A u \in CurrentIn(l) : u \in Tasks
      BY DEF CurrentIn, RunningIn
    <3>2. \A u \in CurrentIn(l) : u # t => taskId[u] # taskId[t]
      BY <3>1 DEF IdInv
    <3>3. activeTaskIds'[l] = activeTaskIds[l] \ {taskId[t]}
      BY <1>1, <2>2 DEF TypeOK
    <3> QED BY <1>1, <1>2, <2>1, <2>2, <3>2, <3>3
  <2>3. CASE ~(IsCurrent(t) /\ l = laneOf[t])
    <3>1. activeTaskIds'[l] = activeTaskIds[l]
      BY <1>1, <2>3 DEF TypeOK
    <3> QED BY <1>1, <1>2, <2>1, <2>3, <3>1
  <2> QED BY <2>2, <2>3
<1> QED BY <1>2, <1>3 DEF SlotsMatchTasks

(* What a start does to them.                                              *)
LEMMA StartCurrent ==
    ASSUME TypeOK, QueueInv, IdInv, SlotsMatchTasks, NEW k \in Lanes, PumpStarts(k)
    PROVE  /\ SlotsMatchTasks'
           /\ \A l \in Lanes : CurrentIn(l)' =
                 IF l = k THEN CurrentIn(l) \cup {Head(queue[k])} ELSE CurrentIn(l)
<1> DEFINE t == Head(queue[k])
<1>1. /\ queue[k] # <<>> /\ laneOf' = laneOf /\ generation' = generation
      /\ taskId' = [taskId EXCEPT ![t] = nextTaskId]
      /\ taskGeneration' = [taskGeneration EXCEPT ![t] = generation[k]]
      /\ status' = [status EXCEPT ![t] = "running"]
      /\ activeTaskIds' = [activeTaskIds EXCEPT ![k] = @ \cup {nextTaskId}]
  BY DEF PumpStarts, HasWork
<1>2. t \in Tasks /\ laneOf[t] = k /\ status[t] = "queued"
  BY <1>1, QueuedTask
<1> HIDE DEF t
<1>3. /\ taskId'[t] = nextTaskId /\ taskGeneration'[t] = generation[k]
      /\ status'[t] = "running"
      /\ \A u \in Tasks : u # t => /\ taskId'[u] = taskId[u]
                                   /\ taskGeneration'[u] = taskGeneration[u]
                                   /\ status'[u] = status[u]
  BY <1>1, <1>2 DEF TypeOK
<1>4. ASSUME NEW l \in Lanes
      PROVE  CurrentIn(l)' = IF l = k THEN CurrentIn(l) \cup {t} ELSE CurrentIn(l)
  BY <1>1, <1>2, <1>3 DEF CurrentIn, RunningIn
<1>5. ASSUME NEW l \in Lanes
      PROVE  activeTaskIds'[l] = {taskId'[u] : u \in CurrentIn(l)'}
  <2>1. activeTaskIds[l] = {taskId[u] : u \in CurrentIn(l)}
    BY DEF SlotsMatchTasks
  <2>2. t \notin CurrentIn(l) /\ \A u \in CurrentIn(l) : u \in Tasks
    BY <1>2 DEF CurrentIn, RunningIn
  <2>3. \A u \in CurrentIn(l) : taskId'[u] = taskId[u]
    BY <1>3, <2>2
  <2>4. CASE l = k
    <3>1. activeTaskIds'[l] = activeTaskIds[l] \cup {nextTaskId}
      BY <1>1, <2>4 DEF TypeOK
    <3> QED BY <1>3, <1>4, <2>1, <2>3, <2>4, <3>1
  <2>5. CASE l # k
    <3>1. activeTaskIds'[l] = activeTaskIds[l]
      BY <1>1, <2>5 DEF TypeOK
    <3> QED BY <1>4, <2>1, <2>3, <2>5, <3>1
  <2> QED BY <2>4, <2>5
<1> QED BY <1>4, <1>5 DEF SlotsMatchTasks, t

(* A step that starts and ends no task leaves those that count alone.      *)
LEMMA CurrentKept ==
    ASSUME UNCHANGED <<taskId, taskGeneration, laneOf, generation>>,
           \A u \in Tasks : status'[u] = "running" <=> status[u] = "running"
    PROVE  /\ \A l \in Lanes : CurrentIn(l)' = CurrentIn(l)
           /\ SlotsMatchTasks /\ activeTaskIds' = activeTaskIds => SlotsMatchTasks'
<1>1. \A l \in Lanes : CurrentIn(l)' = CurrentIn(l)
  BY DEF CurrentIn, RunningIn
<1> QED BY <1>1 DEF SlotsMatchTasks

(* After a reset no task counts.                                           *)
LEMMA ResetCurrent ==
    ASSUME TypeOK, IdInv, ResetAllLanes
    PROVE  SlotsMatchTasks' /\ \A l \in Lanes : CurrentIn(l)' = {}
<1>1. /\ UNCHANGED <<taskId, taskGeneration, laneOf, status>>
      /\ \A l \in Lanes : generation'[l] = generation[l] + 1 /\ activeTaskIds'[l] = {}
  BY DEF ResetAllLanes, taskVars
<1>2. \A u \in Tasks : taskGeneration[u] # generation'[laneOf[u]]
  BY <1>1 DEF IdInv, TypeOK
<1>3. \A l \in Lanes : CurrentIn(l)' = {}
  BY <1>1, <1>2 DEF CurrentIn, RunningIn
<1> QED BY <1>1, <1>3 DEF SlotsMatchTasks

(* The steps that start and end no task.                                   *)
QuietStep ==
    \/ \E t \in Tasks : EnqueueRefused(t) \/ Enqueue(t)
    \/ \E l \in Configured, n \in Limits : SetCommandLaneConcurrency(l, n)
    \/ \E l \in Lanes : ClearCommandLane(l) \/ PumpReturns(l) \/ ResetDrains(l)
    \/ MarkGatewayDraining \/ ResetReturns \/ BodyAwaits \/ Settles
    \/ \E late \in BOOLEAN : WaitForActiveTasks(late) \/ WaiterPolls(late)
    \/ UNCHANGED vars

LEMMA QuietKeeps ==
    ASSUME TypeOK, StackInv, QueueInv, QuietStep
    PROVE  /\ UNCHANGED <<taskId, taskGeneration, laneOf, generation, activeTaskIds>>
           /\ \A u \in Tasks : status'[u] = "running" <=> status[u] = "running"
<1>1. ASSUME NEW t \in Tasks, EnqueueRefused(t) \/ Enqueue(t)
      PROVE  /\ UNCHANGED <<taskId, taskGeneration, laneOf, generation, activeTaskIds>>
             /\ \A u \in Tasks : status'[u] = "running" <=> status[u] = "running"
  BY <1>1 DEF EnqueueRefused, Enqueue, TypeOK, laneVars
<1>2. ASSUME NEW l \in Lanes, ClearCommandLane(l)
      PROVE  /\ UNCHANGED <<taskId, taskGeneration, laneOf, generation, activeTaskIds>>
             /\ \A u \in Tasks : status'[u] = "running" <=> status[u] = "running"
  <2>1. queue[l] \in Seq(Tasks)
    BY DEF TypeOK
  <2>2. DOMAIN queue[l] = 1..Len(queue[l])
    BY <2>1
  <2>3. \A u \in Queued(l) : status[u] = "queued"
    BY <2>2 DEF Queued, QueueInv
  <2> QED BY <1>2, <2>3 DEF ClearCommandLane
<1>3. ASSUME Settles
      PROVE  /\ UNCHANGED <<taskId, taskGeneration, laneOf, generation, activeTaskIds>>
             /\ \A u \in Tasks : status'[u] = "running" <=> status[u] = "running"
  <2>1. stack # <<>> /\ Head(stack).kind = "settle" /\ Head(stack) \in Frames
    BY <1>3, PopElems DEF Settles, TopIs, TypeOK
  <2>2. Head(stack).outcome # "running" /\ status[Head(stack).task] = "settling"
    BY <2>1, FrameFields, OwnersPop DEF StackInv, TypeOK
  <2> QED BY <1>3, <2>2 DEF Settles, TypeOK, laneVars
<1>4. ASSUME \/ \E l \in Configured, n \in Limits : SetCommandLaneConcurrency(l, n)
             \/ MarkGatewayDraining
             \/ \E late \in BOOLEAN : WaitForActiveTasks(late) \/ WaiterPolls(late)
             \/ \E l \in Lanes : PumpReturns(l) \/ ResetDrains(l)
             \/ ResetReturns \/ BodyAwaits \/ UNCHANGED vars
      PROVE  UNCHANGED <<taskId, taskGeneration, laneOf, generation, activeTaskIds, status>>
  BY <1>4 DEF SetCommandLaneConcurrency, MarkGatewayDraining, ResetReturns,
     BodyAwaits, PumpReturns, ResetDrains, WaitForActiveTasks, WaiterPolls, vars, laneVars, taskVars
<1> QED BY <1>1, <1>2, <1>3, <1>4 DEF QuietStep

(* The other steps: a completion, a start or a reset.                      *)
LEMMA StepKinds ==
    ASSUME TypeOK, StackInv, [Next]_vars
    PROVE  \/ QuietStep
           \/ \E l \in Lanes : PumpStarts(l)
           \/ \E t \in Tasks, o \in {"resolved", "rejected"}, below \in Seq(Frames) :
                 status[t] = "running" /\ Complete(t, o, below)
           \/ ResetAllLanes
<1>1. ASSUME BodyThrows
      PROVE  \E t \in Tasks, o \in {"resolved", "rejected"}, below \in Seq(Frames) :
                 status[t] = "running" /\ Complete(t, o, below)
  <2>1. /\ stack # <<>> /\ Head(stack).kind = "body" /\ Head(stack) \in Frames
        /\ Tail(stack) \in Seq(Frames)
    BY <1>1, PopElems DEF BodyThrows, TopIs, TypeOK
  <2>2. Head(stack).task \in Tasks /\ status[Head(stack).task] = "running"
    BY <2>1, FrameFields, OwnersPop DEF StackInv, TypeOK
  <2> QED BY <1>1, <2>1, <2>2 DEF BodyThrows
<1>2. ASSUME NEW t \in Tasks, TaskEnd(t)
      PROVE  \E o \in {"resolved", "rejected"}, below \in Seq(Frames) :
                 status[t] = "running" /\ Complete(t, o, below)
  <2>1. <<>> \in Seq(Frames)
    OBVIOUS
  <2> QED BY <1>2, <2>1 DEF TaskEnd, TaskEnds
<1> QED BY <1>1, <1>2 DEF Next, Run, Call, QuietStep

LEMMA SlotInvInit == Init => SlotInv
<1> SUFFICES ASSUME Init PROVE SlotInv
  OBVIOUS
<1>1. stack = <<>> /\ \A l \in Lanes : queue[l] = <<>>
  BY DEF Init
<1>2. StackInv /\ QueueInv
  BY <1>1 DEF StackInv, Owners, Elems, QueueInv
<1>3. /\ nextTaskId = 1
      /\ \A t \in Tasks : /\ taskId[t] = 0 /\ taskGeneration[t] = 0 /\ status[t] = "idle"
                          /\ laneOf[t] \in Lanes
      /\ \A l \in Lanes : generation[l] = 0 /\ activeTaskIds[l] = {}
  BY DEF Init
<1>4. IdInv
  BY <1>3 DEF IdInv
<1>5. \A l \in Lanes : CurrentIn(l) = {}
  BY <1>3 DEF CurrentIn, RunningIn
<1>6. SlotsMatchTasks
  BY <1>3, <1>5 DEF SlotsMatchTasks
<1> QED BY <1>2, <1>4, <1>6 DEF SlotInv

LEMMA SlotInvNext == TypeOK /\ TypeOK' /\ SlotInv /\ [Next]_vars => SlotInv'
<1> SUFFICES ASSUME TypeOK, TypeOK', SlotInv, [Next]_vars PROVE SlotInv'
  OBVIOUS
<1>1. StackInv' /\ QueueInv' /\ IdInv'
  BY StackInvNext, QueueInvNext, IdInvNext DEF SlotInv
<1>2. SlotsMatchTasks'
  <2>1. CASE QuietStep
    BY <2>1, QuietKeeps, CurrentKept DEF SlotInv
  <2>2. CASE \E l \in Lanes : PumpStarts(l)
    BY <2>2, StartCurrent DEF SlotInv
  <2>3. CASE \E t \in Tasks, o \in {"resolved", "rejected"}, below \in Seq(Frames) :
                 status[t] = "running" /\ Complete(t, o, below)
    BY <2>3, CompleteCurrent DEF SlotInv
  <2>4. CASE ResetAllLanes
    BY <2>4, ResetCurrent DEF SlotInv
  <2> QED BY <2>1, <2>2, <2>3, <2>4, StepKinds DEF SlotInv
<1> QED BY <1>1, <1>2 DEF SlotInv

LEMMA SlotInvariant == Spec => [](TypeOK /\ SlotInv)
<1>1. Init => TypeOK /\ SlotInv
  BY TypeInit, SlotInvInit
<1>2. TypeOK /\ SlotInv /\ [Next]_vars => (TypeOK /\ SlotInv)'
  BY TypeNext, SlotInvNext
<1> QED BY <1>1, <1>2, PTL DEF Spec

(* The ids a lane counts against its limit are those of the tasks of its   *)
(* current generation that still run: late completions from before a reset *)
(* free no slot of a later task, and no finished task keeps one.           *)
THEOREM SlotsMatchTasksHolds == Spec => []SlotsMatchTasks
<1>1. TypeOK /\ SlotInv => SlotsMatchTasks
  BY DEF SlotInv
<1> QED BY <1>1, SlotInvariant, PTL

-----------------------------------------------------------------------------
(* waitForActiveTasks.                                                     *)

DrainedInv == DrainedMeansDone /\ \A id \in waiter.activeAtStart : id < nextTaskId

LEMMA PollTells ==
    ASSUME TypeOK, SlotInv, NEW ids \in SUBSET Nat, NEW late \in BOOLEAN,
           \A id \in ids : id < nextTaskId, Poll(ids, late),
           UNCHANGED <<laneVars, nextTaskId, taskVars>>
    PROVE  DrainedInv'
<1>1. waiter'.drained = NonePending(ids) /\ waiter'.activeAtStart = ids
  BY DEF Poll
<1>2. ASSUME NonePending(ids), NEW t \in Tasks, taskId[t] \in ids, status[t] = "running"
      PROVE  taskGeneration[t] < generation[laneOf[t]]
  <2>1. laneOf[t] \in Lanes /\ taskId[t] \notin activeTaskIds[laneOf[t]]
    BY <1>2 DEF NonePending, ActiveIds, TypeOK
  <2>2. t \notin CurrentIn(laneOf[t])
    BY <2>1 DEF SlotInv, SlotsMatchTasks
  <2>3. taskGeneration[t] # generation[laneOf[t]]
    BY <1>2, <2>2 DEF CurrentIn, RunningIn
  <2>4. /\ taskGeneration[t] <= generation[laneOf[t]]
        /\ taskGeneration[t] \in Nat /\ generation[laneOf[t]] \in Nat
    BY <2>1 DEF SlotInv, IdInv, TypeOK
  <2> QED BY <2>3, <2>4
<1> QED BY <1>1, <1>2 DEF DrainedInv, DrainedMeansDone, laneVars, taskVars

LEMMA DrainedInit == Init => DrainedInv
<1> SUFFICES ASSUME Init PROVE DrainedInv
  OBVIOUS
<1>1. waiter = [polling |-> FALSE, drained |-> FALSE, activeAtStart |-> {}]
  BY DEF Init
<1>2. waiter.drained = FALSE
  BY <1>1
<1>3. waiter.activeAtStart = {}
  BY <1>1
<1> QED BY <1>2, <1>3 DEF DrainedInv, DrainedMeansDone

LEMMA DrainedNext ==
    TypeOK /\ TypeOK' /\ SlotInv /\ DrainedInv /\ [Next]_vars => DrainedInv'
<1> SUFFICES ASSUME TypeOK, TypeOK', SlotInv, DrainedInv, [Next]_vars PROVE DrainedInv'
  OBVIOUS
<1>1. ASSUME UNCHANGED <<waiter, taskId, taskGeneration, laneOf, generation, nextTaskId>>,
             \A u \in Tasks : status'[u] = "running" => status[u] = "running"
      PROVE  DrainedInv'
  BY <1>1 DEF DrainedInv, DrainedMeansDone
<1>2. ASSUME NEW late \in BOOLEAN, WaitForActiveTasks(late) PROVE DrainedInv'
  <2>1. \A id \in ActiveIds : id \in Nat /\ id < nextTaskId
    <3>1. \A l \in Lanes : \A id \in activeTaskIds[l] : \E u \in Tasks : id = taskId[u]
      BY DEF SlotInv, SlotsMatchTasks, CurrentIn, RunningIn
    <3> QED BY <3>1 DEF ActiveIds, SlotInv, IdInv, TypeOK
  <2>2. ActiveIds \in SUBSET Nat
    BY <2>1
  <2> QED BY <1>2, <2>1, <2>2, PollTells DEF WaitForActiveTasks
<1>3. ASSUME NEW late \in BOOLEAN, WaiterPolls(late) PROVE DrainedInv'
  <2>1. waiter.activeAtStart \in SUBSET Nat
    BY DEF TypeOK
  <2> QED BY <1>3, <2>1, PollTells DEF WaiterPolls, DrainedInv
<1>4. ASSUME NEW k \in Lanes, PumpStarts(k) PROVE DrainedInv'
  <2> DEFINE t == Head(queue[k])
  <2>1. /\ queue[k] # <<>> /\ waiter' = waiter /\ laneOf' = laneOf /\ generation' = generation
        /\ nextTaskId' = nextTaskId + 1
        /\ taskId' = [taskId EXCEPT ![t] = nextTaskId]
        /\ taskGeneration' = [taskGeneration EXCEPT ![t] = generation[k]]
        /\ status' = [status EXCEPT ![t] = "running"]
    BY <1>4 DEF PumpStarts, HasWork
  <2>2. t \in Tasks
    BY <2>1, QueuedTask DEF SlotInv
  <2> HIDE DEF t
  <2>3. /\ taskId'[t] = nextTaskId /\ nextTaskId \in Nat
        /\ \A u \in Tasks : u # t => /\ taskId'[u] = taskId[u]
                                     /\ taskGeneration'[u] = taskGeneration[u]
                                     /\ status'[u] = status[u]
    BY <2>1, <2>2 DEF TypeOK
  <2>4. \A id \in waiter.activeAtStart : id \in Nat /\ id < nextTaskId
    BY DEF DrainedInv, TypeOK
  <2>5. nextTaskId \notin waiter.activeAtStart /\ \A id \in waiter.activeAtStart : id < nextTaskId'
    BY <2>1, <2>3, <2>4
  <2> QED BY <2>1, <2>2, <2>3, <2>5 DEF DrainedInv, DrainedMeansDone
<1>5. ASSUME NEW t \in Tasks, NEW o \in {"resolved", "rejected"}, NEW below,
              Complete(t, o, below)
       PROVE  DrainedInv'
  BY <1>1, <1>5 DEF Complete, TypeOK
<1>6. ASSUME ResetAllLanes PROVE DrainedInv'
  <2>1. /\ UNCHANGED <<waiter, taskId, taskGeneration, laneOf, nextTaskId, status>>
        /\ \A l \in Lanes : generation'[l] = generation[l] + 1 /\ generation[l] \in Nat
    BY <1>6 DEF ResetAllLanes, taskVars, TypeOK
  <2>2. \A u \in Tasks : laneOf[u] \in Lanes /\ taskGeneration[u] \in Nat
    BY DEF TypeOK
  <2>3. \A u \in Tasks : taskGeneration[u] < generation[laneOf[u]]
                            => taskGeneration[u] < generation'[laneOf[u]]
    BY <2>1, <2>2
  <2> QED BY <2>1, <2>3 DEF DrainedInv, DrainedMeansDone
<1>7. ASSUME QuietStep PROVE DrainedInv'
  <2>1. /\ UNCHANGED <<taskId, taskGeneration, laneOf, generation>>
        /\ \A u \in Tasks : status'[u] = "running" => status[u] = "running"
    BY <1>7, QuietKeeps DEF SlotInv
  <2>2. \/ UNCHANGED <<waiter, nextTaskId>>
        \/ \E late \in BOOLEAN : WaitForActiveTasks(late) \/ WaiterPolls(late)
    BY <1>7 DEF QuietStep, EnqueueRefused, Enqueue, SetCommandLaneConcurrency, ClearCommandLane,
       PumpReturns, ResetDrains, MarkGatewayDraining, ResetReturns, BodyAwaits, Settles, vars
  <2> QED BY <1>1, <1>2, <1>3, <2>1, <2>2
<1> QED BY <1>4, <1>5, <1>6, <1>7, StepKinds DEF SlotInv

(* When waitForActiveTasks reports that the lanes are drained, every task  *)
(* of its snapshot has completed or was abandoned by a reset.              *)
THEOREM DrainedMeansDoneHolds == Spec => []DrainedMeansDone
<1>1. TypeOK /\ TypeOK' /\ SlotInv /\ DrainedInv /\ [Next]_vars => DrainedInv'
  BY DrainedNext
<1>2. DrainedInv => DrainedMeansDone
  BY DEF DrainedInv
<1> QED BY DrainedInit, <1>1, <1>2, SlotInvariant, PTL DEF Spec

-----------------------------------------------------------------------------
(* The promise of LaneQueue.                                               *)

(* A lane counts as many ids as it has running tasks of its generation.    *)
LEMMA SlotsCount ==
    ASSUME TypeOK, IdInv, SlotsMatchTasks, NEW l \in Lanes
    PROVE  Cardinality(CurrentIn(l)) = Cardinality(activeTaskIds[l])
<1> DEFINE S == CurrentIn(l)
           f == [u \in S |-> taskId[u]]
<1>1. S \subseteq Tasks /\ \A u \in S : status[u] = "running"
  BY DEF CurrentIn, RunningIn
<1>2. IsFiniteSet(S)
  BY <1>1, TasksAssumption, FS_Subset
<1>3. activeTaskIds[l] = {taskId[u] : u \in S}
  BY DEF SlotsMatchTasks
<1>4. \A u, v \in S : taskId[u] = taskId[v] => u = v
  BY <1>1 DEF IdInv
<1> HIDE DEF S
<1>5. f \in Bijection(S, activeTaskIds[l])
  BY <1>3, <1>4 DEF Bijection, Injection, Surjection, IsInjective
<1>6. ExistsBijection(S, activeTaskIds[l])
  BY <1>5 DEF ExistsBijection
<1> QED BY <1>2, <1>6, FS_Bijection DEF S

(* Both modules count with the operator of FiniteSets.                     *)
LEMMA SameCardinality ==
    ASSUME NEW S PROVE Promise!Cardinality(S) = Cardinality(S)
BY DEF Promise!Cardinality, Cardinality

LEMMA PromiseInit == Init => Promise!Init
<1> SUFFICES ASSUME Init PROVE Promise!Init
  OBVIOUS
<1>1. \A t \in Tasks : status[t] = "idle"
  BY DEF Init
<1>2. \A l \in Lanes : CurrentIn(l) = {}
  BY <1>1 DEF CurrentIn, RunningIn
<1>3. [l \in Lanes |-> CurrentIn(l)] = [l \in Lanes |-> {}]
  BY <1>2
<1>4. Fate = [t \in Tasks |-> "new"]
  BY <1>1 DEF Fate
<1> QED BY <1>3, <1>4 DEF Init, Promise!Init

(* A step that starts and ends no task.                                    *)
LEMMA PromiseQuiet ==
    ASSUME TypeOK, TypeOK', SlotInv, QuietStep
    PROVE  [Promise!Next]_(Promise!vars)
<1> DEFINE serving == [l \in Lanes |-> CurrentIn(l)]
<1>0. \A l \in Lanes : CurrentIn(l)' = CurrentIn(l)
  BY QuietKeeps, CurrentKept DEF SlotInv
<1>s. serving' = serving
  BY <1>0
<1> HIDE DEF serving
<1>1. ASSUME NEW t \in Tasks, EnqueueRefused(t) PROVE Promise!Next
  <2>1. /\ Fate[t] = "new" /\ gatewayDraining
        /\ UNCHANGED <<queue, maxConcurrent, gatewayDraining>>
    BY <1>1 DEF EnqueueRefused, Fate, laneVars
  <2>2. Fate' = [Fate EXCEPT ![t] = "turnedAway"]
    BY <1>1 DEF EnqueueRefused, Fate, TypeOK
  <2>3. Promise!TurnAway(t)
    BY <1>s, <2>1, <2>2 DEF Promise!TurnAway, serving
  <2> QED BY <2>3 DEF Promise!Next
<1>2. ASSUME NEW t \in Tasks, Enqueue(t) PROVE Promise!Next
  <2>1. /\ Fate[t] = "new" /\ ~gatewayDraining /\ laneOf[t] \in Lanes
        /\ UNCHANGED <<maxConcurrent, gatewayDraining>>
        /\ queue' = [queue EXCEPT ![laneOf[t]] = Append(@, t)]
    BY <1>2 DEF Enqueue, Fate, Pushed, TypeOK
  <2>2. Fate' = [Fate EXCEPT ![t] = "accepted"]
    BY <1>2 DEF Enqueue, Fate, TypeOK
  <2>3. Promise!Accept(t, laneOf[t])
    BY <1>s, <2>1, <2>2 DEF Promise!Accept, serving
  <2> QED BY <2>1, <2>3 DEF Promise!Next
<1>3. ASSUME NEW k \in Configured, NEW n \in Limits, SetCommandLaneConcurrency(k, n)
      PROVE  Promise!Next
  <2>1. k \in Lanes /\ LimitOf(n) \in Nat \ {0}
    BY LimitsAssumption DEF LimitOf
  <2>2. /\ maxConcurrent' = [maxConcurrent EXCEPT ![k] = LimitOf(n)]
        /\ UNCHANGED <<queue, gatewayDraining, status>>
    BY <1>3 DEF SetCommandLaneConcurrency, taskVars
  <2>3. maxConcurrent'[k] = LimitOf(n)
    BY <2>1, <2>2 DEF TypeOK
  <2>4. Fate' = Fate
    BY <2>2 DEF Fate
  <2>5. Promise!Configure(k)
    BY <1>s, <2>1, <2>2, <2>3, <2>4 DEF Promise!Configure, serving
  <2> QED BY <2>1, <2>5 DEF Promise!Next
<1>4. ASSUME NEW k \in Lanes, ClearCommandLane(k) PROVE Promise!Next
  <2>1. /\ queue[k] # <<>> /\ queue' = [queue EXCEPT ![k] = <<>>]
        /\ UNCHANGED <<maxConcurrent, gatewayDraining>>
        /\ status' = [t \in Tasks |-> IF t \in Queued(k) THEN "cleared" ELSE status[t]]
    BY <1>4 DEF ClearCommandLane, Spliced
  <2>2. Fate' = [t \in Tasks |-> IF \E i \in DOMAIN queue[k] : queue[k][i] = t
                                 THEN "turnedAway" ELSE Fate[t]]
    BY <2>1 DEF Fate, Queued
  <2>3. Promise!Withdraw(k)
    BY <1>s, <2>1, <2>2 DEF Promise!Withdraw, serving
  <2> QED BY <2>3 DEF Promise!Next
<1>5. ASSUME MarkGatewayDraining PROVE Promise!Next
  <2>1. /\ gatewayDraining' = TRUE /\ UNCHANGED <<queue, maxConcurrent, status>>
    BY <1>5 DEF MarkGatewayDraining, laneVars, taskVars
  <2>2. Fate' = Fate
    BY <2>1 DEF Fate
  <2>3. Promise!Close
    BY <1>s, <2>1, <2>2 DEF Promise!Close, serving
  <2> QED BY <2>3 DEF Promise!Next
<1>6. ASSUME Settles PROVE UNCHANGED Promise!vars
  <2>1. /\ stack # <<>> /\ Head(stack).kind = "settle" /\ Head(stack) \in Frames
    BY <1>6, PopElems DEF Settles, TopIs, TypeOK
  <2>2. /\ Head(stack).task \in Tasks /\ Head(stack).outcome \in {"resolved", "rejected"}
        /\ status[Head(stack).task] = "settling"
    BY <2>1, FrameFields, OwnersPop DEF SlotInv, StackInv, TypeOK
  <2>3. /\ UNCHANGED <<queue, maxConcurrent, gatewayDraining>>
        /\ status' = [status EXCEPT ![Head(stack).task] = Head(stack).outcome]
    BY <1>6 DEF Settles, laneVars
  <2>4. Fate' = Fate
    BY <2>2, <2>3 DEF Fate, TypeOK
  <2> QED BY <1>s, <2>3, <2>4 DEF Promise!vars, serving
<1>7. ASSUME UNCHANGED <<queue, maxConcurrent, gatewayDraining, status>>
      PROVE  UNCHANGED Promise!vars
  <2>1. Fate' = Fate
    BY <1>7 DEF Fate
  <2> QED BY <1>s, <1>7, <2>1 DEF Promise!vars, serving
<1>8. ASSUME \/ \E late \in BOOLEAN : WaitForActiveTasks(late) \/ WaiterPolls(late)
             \/ \E l \in Lanes : PumpReturns(l) \/ ResetDrains(l)
             \/ ResetReturns \/ BodyAwaits \/ UNCHANGED vars
      PROVE  UNCHANGED <<queue, maxConcurrent, gatewayDraining, status>>
  BY <1>8 DEF ResetReturns, BodyAwaits, PumpReturns, ResetDrains, WaitForActiveTasks,
     WaiterPolls, vars, laneVars, taskVars
<1> QED BY <1>1, <1>2, <1>3, <1>4, <1>5, <1>6, <1>7, <1>8 DEF QuietStep

LEMMA PromiseNext ==
    TypeOK /\ TypeOK' /\ SlotInv /\ [Next]_vars => [Promise!Next]_(Promise!vars)
<1> SUFFICES ASSUME TypeOK, TypeOK', SlotInv, [Next]_vars
             PROVE  [Promise!Next]_(Promise!vars)
  OBVIOUS
<1> DEFINE serving == [l \in Lanes |-> CurrentIn(l)]
<1>1. ASSUME NEW k \in Lanes, PumpStarts(k) PROVE Promise!Next
  <2> DEFINE t == Head(queue[k])
  <2>1. /\ queue[k] # <<>> /\ HasRoom(k)
        /\ queue' = [queue EXCEPT ![k] = Tail(@)]
        /\ status' = [status EXCEPT ![t] = "running"]
        /\ UNCHANGED <<maxConcurrent, gatewayDraining>>
    BY <1>1 DEF PumpStarts, HasWork
  <2>2. t \in Tasks /\ status[t] = "queued"
    BY <2>1, QueuedTask DEF SlotInv
  <2>3. Cardinality(serving[k]) < maxConcurrent[k]
    BY <2>1, SlotsCount DEF HasRoom, SlotInv
  <2>4. \A l \in Lanes : CurrentIn(l)' = IF l = k THEN CurrentIn(l) \cup {t} ELSE CurrentIn(l)
    BY <1>1, StartCurrent DEF SlotInv
  <2>5. serving' = [serving EXCEPT ![k] = @ \cup {t}]
    BY <2>4
  <2>6. Fate' = [Fate EXCEPT ![t] = "started"]
    <3> HIDE DEF t
    <3> QED BY <2>1, <2>2 DEF Fate, TypeOK
  <2>7. Promise!Start(k)
    BY <2>1, <2>3, <2>5, <2>6, SameCardinality DEF Promise!Start
  <2> QED BY <2>7 DEF Promise!Next
<1>2. ASSUME NEW t \in Tasks, NEW o \in {"resolved", "rejected"}, NEW below,
             status[t] = "running", Complete(t, o, below)
      PROVE  Promise!Next \/ UNCHANGED Promise!vars
  <2>1. /\ UNCHANGED <<queue, maxConcurrent, gatewayDraining>>
        /\ status' = [status EXCEPT ![t] = "settling"]
    BY <1>2 DEF Complete
  <2>2. Fate' = Fate
    BY <1>2, <2>1 DEF Fate, TypeOK
  <2>3. \A l \in Lanes : CurrentIn(l)' =
            IF IsCurrent(t) /\ l = laneOf[t] THEN CurrentIn(l) \ {t} ELSE CurrentIn(l)
    BY <1>2, CompleteCurrent DEF SlotInv
  <2>4. CASE IsCurrent(t)
    <3>1. laneOf[t] \in Lanes /\ t \in CurrentIn(laneOf[t])
      BY <1>2, <2>4 DEF TypeOK, CurrentIn, RunningIn, IsCurrent
    <3>2. t \in serving[laneOf[t]]
      BY <3>1
    <3>3. serving' = [serving EXCEPT ![laneOf[t]] = @ \ {t}]
      BY <2>3, <2>4, <3>1
    <3>4. Promise!End(t, laneOf[t])
      BY <2>1, <2>2, <3>2, <3>3 DEF Promise!End
    <3> QED BY <3>1, <3>4 DEF Promise!Next
  <2>5. CASE ~IsCurrent(t)
    <3>1. serving' = serving
      BY <2>3, <2>5
    <3> QED BY <2>1, <2>2, <3>1 DEF Promise!vars
  <2> QED BY <2>4, <2>5
<1>3. ASSUME ResetAllLanes PROVE Promise!Next
  <2>1. /\ UNCHANGED <<queue, maxConcurrent, status>> /\ gatewayDraining' = FALSE
    BY <1>3 DEF ResetAllLanes, taskVars
  <2>2. Fate' = Fate
    BY <2>1 DEF Fate
  <2>3. serving' = [l \in Lanes |-> {}]
    BY <1>3, ResetCurrent DEF SlotInv
  <2>4. Promise!Reopen
    BY <2>1, <2>2, <2>3 DEF Promise!Reopen
  <2> QED BY <2>4 DEF Promise!Next
<1> QED BY <1>1, <1>2, <1>3, PromiseQuiet, StepKinds DEF SlotInv

(* The command queue implements LaneQueue: under its re-entrant pumps, late *)
(* completions and resets a lane is a first-in first-out server that never  *)
(* has more tasks than slots and starts no task twice.                      *)
THEOREM KeepsPromiseHolds == Spec => KeepsPromise
<1>1. TypeOK /\ TypeOK' /\ SlotInv /\ [Next]_vars => [Promise!Next]_(Promise!vars)
  BY PromiseNext
<1> QED BY PromiseInit, <1>1, SlotInvariant, PTL DEF Spec, KeepsPromise, Promise!Spec
=============================================================================
