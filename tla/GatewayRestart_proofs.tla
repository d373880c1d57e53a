------------------------ MODULE GatewayRestart_proofs ------------------------
(***************************************************************************)
(* Proofs about the gateway with its agent runs and its command queue, for *)
(* any number of runs, sessions and restarts: the runs of a session do not *)
(* overlap, the lanes keep their promise, work is refused only during a    *)
(* restart, and the run loop and the shutdown fit together.                *)
(*                                                                         *)
(* A step of the gateway is a step of the command queue, or it leaves the  *)
(* lanes and tasks alone (QueueSteps), so the invariants of the command    *)
(* queue hold here too.  What the agent runs add is that a run executes    *)
(* inside the task of its session (NestInv).                               *)
(***************************************************************************)
EXTENDS GatewayRestart, CommandQueue_promise

(* A step that concerns the drain of the gateway only.                     *)
DrainStep ==
    /\ UNCHANGED <<laneVars, nextTaskId, stack, taskVars>>
    /\ gatewayDraining' \in BOOLEAN
    /\ waiter' \in [polling : BOOLEAN, drained : BOOLEAN, activeAtStart : SUBSET Nat]

LEMMA QueueSteps ==
    ASSUME TypeOK, [GatewayNext]_allVars
    PROVE  [Next]_vars \/ (DrainStep /\ (RestartSignal \/ ServerCloses))
<1>1. ASSUME RestartSignal PROVE DrainStep
  <2>1. ActiveIds \in SUBSET Nat /\ NonePending(ActiveIds) \in BOOLEAN
    BY DEF ActiveIds, NonePending, TypeOK
  <2>2. waiter' \in [polling : BOOLEAN, drained : BOOLEAN, activeAtStart : SUBSET Nat]
    BY <1>1, <2>1 DEF RestartSignal, Poll
  <2> QED BY <1>1, <2>2 DEF RestartSignal, DrainStep
<1>2. ASSUME ServerCloses PROVE DrainStep
  <2>1. waiter' = NoWaiter /\ gatewayDraining' = gatewayDraining
        /\ UNCHANGED <<laneVars, nextTaskId, stack, taskVars>>
    BY <1>2 DEF ServerCloses
  <2>2. NoWaiter \in [polling : BOOLEAN, drained : BOOLEAN, activeAtStart : SUBSET Nat]
    BY DEF NoWaiter
  <2> QED BY <2>1, <2>2 DEF DrainStep, TypeOK
<1>3. ASSUME StartSucceeds \/ StartFails \/ StopSignal \/ DrainEnds \/ Exits
             \/ (\E late \in BOOLEAN : RunsPoll(late))
             \/ (\E r \in Runs : RunRegisters(r) \/ RunClears(r)) \/ UNCHANGED allVars
      PROVE  UNCHANGED vars
  BY <1>3 DEF StartSucceeds, StartFails, StopSignal, DrainEnds, Exits, RunsPoll,
     RunRegisters, RunClears, allVars
<1>4. ASSUME InProcessRestart PROVE [Next]_vars
  BY <1>4 DEF InProcessRestart, NextRound, Next, Call
<1>5. ASSUME NEW late \in BOOLEAN, TasksPoll(late) PROVE Next
  BY <1>5 DEF TasksPoll, Next, Call
<1>6. ASSUME NEW r \in Runs, RunEnds(r) PROVE Next
  <2>1. /\ GlobalEntry(r) \in Tasks /\ SessionEntry(r) \in Tasks
        /\ r \in CronRuns => ManualEntry(r) \in Tasks
    BY RunsAssumption DEF GlobalEntry, SessionEntry, ManualEntry
  <2>2. \E t \in Tasks, o \in {"resolved", "rejected"} : TaskEnds(t, o)
    BY <1>6, <2>1 DEF RunEnds, GlobalEnds, SessionEnds, JobEnds
  <2> QED BY <2>2 DEF Next, TaskEnd
<1>7. ASSUME NEW r \in Runs, Asked(r) \/ JobAsks(r) \/ (QueueStep /\ Nests(r)) PROVE Next
  <2>1. /\ GlobalEntry(r) \in Tasks /\ SessionEntry(r) \in Tasks
        /\ r \in CronRuns => ManualEntry(r) \in Tasks
    BY RunsAssumption DEF GlobalEntry, SessionEntry, ManualEntry
  <2>2. \E t \in Tasks : Enqueue(t) \/ EnqueueRefused(t)
    BY <1>7, <2>1 DEF Asked, JobAsks, Arrives, RunByHand, JobRuns, Nests, Submit
  <2> QED BY <2>2 DEF Next, Call
<1>8. ASSUME QueueStep PROVE Next
  BY <1>7, <1>8 DEF QueueStep, QueueRuns, Awaits, Next, Run
<1>9. ASSUME Configures PROVE Next
  BY <1>9 DEF Configures, Next, Call
<1> QED BY <1>1, <1>2, <1>3, <1>4, <1>5, <1>6, <1>7, <1>8, <1>9 DEF GatewayNext, LoopStep

-----------------------------------------------------------------------------
(* The invariants of the command queue hold in the gateway.                *)

(* A lane that is not configured serves one task at a time.                *)
SerialInv ==
    \A l \in Lanes \ Configured :
        maxConcurrent[l] = 1 /\ \A t, u \in CurrentIn(l) : t = u

LEMMA SerialNext ==
    TypeOK /\ TypeOK' /\ SlotInv /\ SerialInv /\ [Next]_vars => SerialInv'
<1> SUFFICES ASSUME TypeOK, TypeOK', SlotInv, SerialInv, [Next]_vars,
                    NEW l \in Lanes, l \notin Configured
             PROVE  maxConcurrent'[l] = 1 /\ \A t, u \in CurrentIn(l)' : t = u
  BY DEF SerialInv
<1>0. maxConcurrent[l] = 1 /\ \A t, u \in CurrentIn(l) : t = u
  BY DEF SerialInv
<1>1. maxConcurrent'[l] = 1
  <2>1. ASSUME NEW k \in Configured, NEW n \in Limits, SetCommandLaneConcurrency(k, n)
        PROVE  maxConcurrent'[l] = maxConcurrent[l]
    BY <2>1 DEF SetCommandLaneConcurrency, TypeOK
  <2>2. ASSUME ~\E k \in Configured, n \in Limits : SetCommandLaneConcurrency(k, n)
        PROVE  maxConcurrent' = maxConcurrent
    <3>1. CASE QuietStep
      BY <2>2, <3>1 DEF QuietStep, EnqueueRefused, Enqueue, ClearCommandLane, PumpReturns,
         ResetDrains, MarkGatewayDraining, ResetReturns, BodyAwaits, Settles,
         WaitForActiveTasks, WaiterPolls, vars, laneVars
    <3>2. CASE ~QuietStep
      BY <3>2, StepKinds DEF PumpStarts, Complete, ResetAllLanes, SlotInv
    <3> QED BY <3>1, <3>2
  <2> QED BY <1>0, <2>1, <2>2
<1>2. CASE QuietStep
  <2>1. CurrentIn(l)' = CurrentIn(l)
    BY <1>2, QuietKeeps, CurrentKept DEF SlotInv
  <2> QED BY <1>0, <1>1, <2>1
<1>3. ASSUME NEW k \in Lanes, PumpStarts(k)
      PROVE  \A t, u \in CurrentIn(l)' : t = u
  <2>1. CurrentIn(l)' = IF l = k THEN CurrentIn(l) \cup {Head(queue[k])} ELSE CurrentIn(l)
    BY <1>3, StartCurrent DEF SlotInv
  <2>2. CASE l = k
    <3>1. Cardinality(CurrentIn(l)) < 1
      BY <1>0, <1>3, <2>2, SlotsCount DEF PumpStarts, HasWork, HasRoom, SlotInv
    <3>2. IsFiniteSet(CurrentIn(l))
      <4>1. CurrentIn(l) \in SUBSET Tasks
        BY DEF CurrentIn, RunningIn
      <4> QED BY <4>1, TasksAssumption, FS_Subset
    <3>3. Cardinality(CurrentIn(l)) = 0
      BY <3>1, <3>2, FS_CardinalityType
    <3>4. CurrentIn(l) = {}
      BY <3>2, <3>3, FS_EmptySet
    <3> QED BY <2>1, <3>4
  <2>3. CASE l # k
    BY <1>0, <2>1, <2>3
  <2> QED BY <2>2, <2>3
<1>4. ASSUME NEW t \in Tasks, NEW o \in {"resolved", "rejected"}, NEW below,
             status[t] = "running", Complete(t, o, below)
      PROVE  CurrentIn(l)' \subseteq CurrentIn(l)
  BY <1>4, CompleteCurrent DEF SlotInv
<1>5. ASSUME ResetAllLanes PROVE CurrentIn(l)' = {}
  BY <1>5, ResetCurrent DEF SlotInv
<1> QED BY <1>0, <1>1, <1>2, <1>3, <1>4, <1>5, StepKinds DEF SlotInv

QueueInvs == TypeOK /\ SlotInv /\ WakeInv /\ SerialInv

LEMMA QueueInvsNext == QueueInvs /\ [GatewayNext]_allVars => QueueInvs'
<1> SUFFICES ASSUME QueueInvs, [GatewayNext]_allVars PROVE QueueInvs'
  OBVIOUS
<1>1. CASE [Next]_vars
  BY <1>1, TypeNext, SlotInvNext, WakeNext, SerialNext DEF QueueInvs
<1>2. CASE DrainStep
  <2>1. TypeOK'
    BY <1>2 DEF DrainStep, QueueInvs, TypeOK, laneVars, taskVars
  <2>2. SlotInv'
    BY <1>2 DEF DrainStep, QueueInvs, SlotInv, StackInv, QueueInv, IdInv, SlotsMatchTasks,
       CurrentIn, RunningIn, laneVars, taskVars
  <2>3. WakeInv'
    BY <1>2 DEF DrainStep, QueueInvs, WakeInv, HasWork, HasRoom, PumpPending, ResetPending,
       laneVars, taskVars
  <2>4. SerialInv'
    BY <1>2 DEF DrainStep, QueueInvs, SerialInv, CurrentIn, RunningIn, laneVars, taskVars
  <2> QED BY <2>1, <2>2, <2>3, <2>4 DEF QueueInvs
<1> QED BY <1>1, <1>2, QueueSteps DEF QueueInvs

LEMMA QueueInvsInit == LoopInit => QueueInvs
<1> SUFFICES ASSUME LoopInit PROVE QueueInvs
  OBVIOUS
<1>1. Init
  BY DEF LoopInit, RunsInit
<1>2. SerialInv
  <2>1. \A l \in Lanes : maxConcurrent[l] = 1
    BY <1>1 DEF Init
  <2>2. \A l \in Lanes : CurrentIn(l) = {}
    BY <1>1 DEF Init, CurrentIn, RunningIn
  <2> QED BY <2>1, <2>2 DEF SerialInv
<1> QED BY <1>1, <1>2, TypeInit, SlotInvInit, WakeInit DEF QueueInvs

-----------------------------------------------------------------------------
(* A run executes inside the task of its session.                          *)

NestInv ==
    /\ laneOf = EntryLane
    /\ \A r \in Runs : status[GlobalEntry(r)] \in {"queued", "running", "settling"}
                          => status[SessionEntry(r)] = "running"

LEMMA Entries ==
    ASSUME NEW r \in Runs
    PROVE  /\ GlobalEntry(r) \in Tasks /\ SessionEntry(r) \in Tasks
           /\ r \in CronRuns => ManualEntry(r) \in Tasks
           /\ EntryLane[SessionEntry(r)] = Session[r]
           /\ \A q \in Runs : /\ GlobalEntry(q) # SessionEntry(r)
                              /\ GlobalEntry(q) = GlobalEntry(r) => q = r
                              /\ SessionEntry(q) = SessionEntry(r) => q = r
                              /\ ManualEntry(q) # SessionEntry(r)
                              /\ ManualEntry(q) # GlobalEntry(r)
<1>1. /\ GlobalEntry(r) \in Tasks /\ SessionEntry(r) \in Tasks
      /\ r \in CronRuns => ManualEntry(r) \in Tasks
  BY RunsAssumption DEF GlobalEntry, SessionEntry, ManualEntry
<1>2. SessionEntry(r)[1] = "session" /\ SessionEntry(r)[2] = r
  BY DEF SessionEntry
<1>3. EntryLane[SessionEntry(r)] = Session[r]
  BY <1>1, <1>2 DEF EntryLane
<1>4. \A q \in Runs : /\ GlobalEntry(q) # SessionEntry(r)
                      /\ GlobalEntry(q) = GlobalEntry(r) => q = r
                      /\ SessionEntry(q) = SessionEntry(r) => q = r
                      /\ ManualEntry(q) # SessionEntry(r)
                      /\ ManualEntry(q) # GlobalEntry(r)
  BY DEF GlobalEntry, SessionEntry, ManualEntry
<1> QED BY <1>1, <1>3, <1>4

(* What one step does to the status of a task, as far as it matters here.  *)
Moves(t, old, new) ==
    \/ old = "idle" /\ new = "refused"
    \/ old = "idle" /\ new = "queued"
         /\ \A r \in Runs : t = GlobalEntry(r) => status[SessionEntry(r)] = "running"
    \/ old = "queued" /\ new = "running"
    \/ old = "running" /\ new = "settling"
         /\ \A r \in Runs : /\ t = SessionEntry(r) => status[GlobalEntry(r)] \in Settled
                            /\ t = GlobalEntry(r) => attempt[r] # "active"
    \/ old = "settling" /\ new \in {"resolved", "rejected"}

LEMMA StatusMoves ==
    ASSUME QueueInvs, [GatewayNext]_allVars
    PROVE  /\ laneOf' = laneOf
           /\ \/ status' = status
              \/ \E t \in Tasks : \E new \in Statuses :
                    /\ status' = [status EXCEPT ![t] = new]
                    /\ Moves(t, status[t], new)
<1> DEFINE Moved == \E t \in Tasks : \E new \in Statuses :
                    /\ status' = [status EXCEPT ![t] = new]
                    /\ Moves(t, status[t], new)
           Goal == laneOf' = laneOf /\ (status' = status \/ Moved)
<1>0. TypeOK /\ SlotInv
  BY DEF QueueInvs
<1>1. ASSUME UNCHANGED <<laneOf, status>> PROVE Goal
  BY <1>1
<1>2. ASSUME NEW t \in Tasks, Submit(t),
             \A r \in Runs : t = GlobalEntry(r) => status[SessionEntry(r)] = "running"
      PROVE  Goal
  BY <1>2 DEF Submit, Enqueue, EnqueueRefused, Moves, Statuses, Settled
<1>3. ASSUME NEW t \in Tasks, NEW o \in {"resolved", "rejected"}, TaskEnds(t, o),
             \A r \in Runs : /\ t = SessionEntry(r) => status[GlobalEntry(r)] \in Settled
                             /\ t = GlobalEntry(r) => attempt[r] # "active"
      PROVE  Goal
  <2>1. /\ status[t] = "running" /\ laneOf' = laneOf
        /\ status' = [status EXCEPT ![t] = "settling"]
    BY <1>3 DEF TaskEnds, Complete
  <2>2. Moves(t, status[t], "settling") /\ "settling" \in Statuses
    BY <1>3, <2>1 DEF Moves, Statuses
  <2> QED BY <2>1, <2>2
<1>4. ASSUME NEW k \in Lanes, PumpStarts(k) PROVE Goal
  <2> DEFINE t == Head(queue[k])
  <2>1. t \in Tasks /\ status[t] = "queued"
    BY <1>0, <1>4, QueuedTask DEF PumpStarts, HasWork, SlotInv
  <2>2. laneOf' = laneOf /\ status' = [status EXCEPT ![t] = "running"]
    BY <1>4 DEF PumpStarts
  <2> HIDE DEF t
  <2>3. Moves(t, status[t], "running") /\ "running" \in Statuses
    BY <2>1 DEF Moves, Statuses
  <2> QED BY <2>1, <2>2, <2>3
<1>5. ASSUME Settles PROVE Goal
  <2> DEFINE t == Head(stack).task
             o == Head(stack).outcome
  <2>1. stack # <<>> /\ Head(stack).kind = "settle" /\ Head(stack) \in Frames
    BY <1>0, <1>5, PopElems DEF Settles, TopIs, TypeOK
  <2>2. t \in Tasks /\ o \in {"resolved", "rejected"} /\ status[t] = "settling"
    BY <1>0, <2>1, FrameFields, OwnersPop DEF SlotInv, StackInv, TypeOK
  <2>3. laneOf' = laneOf /\ status' = [status EXCEPT ![t] = o]
    BY <1>5 DEF Settles
  <2> HIDE DEF t, o
  <2>4. Moves(t, status[t], o) /\ o \in Statuses
    BY <2>2 DEF Moves, Statuses, Settled
  <2> QED BY <2>2, <2>3, <2>4
<1>6. ASSUME NEW r \in Runs, Nests(r) PROVE Goal
  <2>1. stack # <<>> /\ Head(stack).kind = "body" /\ Head(stack).task = SessionEntry(r)
    BY <1>6 DEF Nests, TopIs
  <2>2. status[SessionEntry(r)] = "running"
    BY <1>0, <2>1, OwnersPop DEF SlotInv, StackInv, TypeOK
  <2>3. \A q \in Runs : GlobalEntry(r) = GlobalEntry(q) => status[SessionEntry(q)] = "running"
    BY <2>2, Entries
  <2> QED BY <1>2, <1>6, <2>3, Entries DEF Nests
<1>7. ASSUME NEW r \in Runs, Asked(r) \/ JobAsks(r) PROVE Goal
  <2>1. \E t \in Tasks : Submit(t) /\ \A q \in Runs : t # GlobalEntry(q)
    BY <1>7, Entries DEF Asked, JobAsks, Arrives, RunByHand, JobRuns
  <2> QED BY <1>2, <2>1
<1>8. ASSUME NEW r \in Runs, RunEnds(r) PROVE Goal
  <2>1. CASE \/ attempt[r] # "active" /\ GlobalEnds(r)
             \/ JobEnds(r)
    BY <1>3, <2>1, Entries DEF GlobalEnds, JobEnds
  <2>2. CASE SessionEnds(r)
    <3>1. \A q \in Runs : SessionEntry(r) = SessionEntry(q) => status[GlobalEntry(q)] \in Settled
      BY <2>2, Entries DEF SessionEnds
    <3> QED BY <1>3, <2>2, <3>1, Entries DEF SessionEnds
  <2> QED BY <1>8, <2>1, <2>2 DEF RunEnds
<1>9. ASSUME QueueStep PROVE Goal
  <2>1. \/ \E k \in Lanes : PumpStarts(k)
        \/ Settles
        \/ \E r \in Runs : Nests(r)
        \/ UNCHANGED <<laneOf, status>>
    BY <1>9 DEF QueueStep, QueueRuns, Awaits, PumpReturns, ResetDrains, ResetReturns,
       BodyAwaits, taskVars
  <2> QED BY <1>1, <1>4, <1>5, <1>6, <2>1
<1>10. ASSUME \/ StartSucceeds \/ StartFails \/ StopSignal \/ DrainEnds \/ Exits
              \/ \E late \in BOOLEAN : RunsPoll(late) \/ TasksPoll(late)
              \/ \E r \in Runs : RunRegisters(r) \/ RunClears(r)
              \/ RestartSignal \/ ServerCloses \/ InProcessRestart \/ Configures
              \/ UNCHANGED allVars
       PROVE  UNCHANGED <<laneOf, status>>
  BY <1>10 DEF StartSucceeds, StartFails, StopSignal, DrainEnds, Exits, RunsPoll, TasksPoll,
     WaiterPolls, RunRegisters, RunClears, RestartSignal, ServerCloses, InProcessRestart,
     NextRound, ResetAllLanes, Configures, SetCommandLaneConcurrency, allVars, vars, taskVars
<1>11. Goal
  BY <1>1, <1>7, <1>8, <1>9, <1>10 DEF GatewayNext, LoopStep
<1> QED BY <1>11

LEMMA NestNext == QueueInvs /\ NestInv /\ [GatewayNext]_allVars => NestInv'
<1> SUFFICES ASSUME QueueInvs, NestInv, [GatewayNext]_allVars PROVE NestInv'
  OBVIOUS
<1>1. laneOf' = EntryLane
  BY StatusMoves DEF NestInv
<1>2. CASE status' = status
  BY <1>1, <1>2 DEF NestInv
<1>3. ASSUME NEW t \in Tasks, NEW new \in Statuses,
             status' = [status EXCEPT ![t] = new], Moves(t, status[t], new)
      PROVE  NestInv'
  <2>1. ASSUME NEW r \in Runs, status'[GlobalEntry(r)] \in {"queued", "running", "settling"}
        PROVE  status'[SessionEntry(r)] = "running"
    <3>1. GlobalEntry(r) \in Tasks /\ SessionEntry(r) \in Tasks /\ GlobalEntry(r) # SessionEntry(r)
      BY Entries
    <3>2. \A u \in Tasks : status'[u] = IF u = t THEN new ELSE status[u]
      BY <1>3 DEF QueueInvs, TypeOK
    <3>3. status[SessionEntry(r)] = "running" \/ status[GlobalEntry(r)] \notin {"queued", "running", "settling"}
      BY DEF NestInv
    <3>4. CASE t = GlobalEntry(r)
      BY <1>3, <2>1, <3>1, <3>2, <3>3, <3>4 DEF Moves
    <3>5. CASE t = SessionEntry(r)
      BY <1>3, <2>1, <3>1, <3>2, <3>3, <3>5 DEF Moves, Settled
    <3>6. CASE t # GlobalEntry(r) /\ t # SessionEntry(r)
      BY <2>1, <3>1, <3>2, <3>3, <3>6
    <3> QED BY <3>4, <3>5, <3>6
  <2> QED BY <1>1, <2>1 DEF NestInv
<1> QED BY <1>2, <1>3, StatusMoves

LEMMA NestInit == LoopInit => NestInv
<1> SUFFICES ASSUME LoopInit PROVE NestInv
  OBVIOUS
<1>1. laneOf = EntryLane /\ status = [t \in Tasks |-> "idle"]
  BY DEF LoopInit, RunsInit, Init
<1>2. \A r \in Runs : status[GlobalEntry(r)] = "idle"
  BY <1>1, Entries
<1> QED BY <1>1, <1>2 DEF NestInv

LEMMA GatewayInvariant == GatewaySpec => [](QueueInvs /\ NestInv)
<1>1. LoopInit => QueueInvs /\ NestInv
  BY QueueInvsInit, NestInit
<1>2. QueueInvs /\ NestInv /\ [GatewayNext]_allVars => (QueueInvs /\ NestInv)'
  BY QueueInvsNext, NestNext
<1> QED BY <1>1, <1>2, PTL DEF GatewaySpec

(* Two agent runs of a session never execute side by side, through any     *)
(* number of restarts in the process, unless one of them outlived a drain  *)
(* and lost its slot to the reset.                                         *)
THEOREM OneRunPerSessionHolds == GatewaySpec => []OneRunPerSession
<1>1. QueueInvs /\ NestInv => OneRunPerSession
  <2> SUFFICES ASSUME QueueInvs, NestInv, NEW r \in Runs, NEW q \in Runs, r # q,
                      Session[r] = Session[q], Executing(r), Executing(q),
                      ~Abandoned(r), ~Abandoned(q)
               PROVE  FALSE
    BY DEF OneRunPerSession
  <2>1. status[SessionEntry(r)] = "running" /\ status[SessionEntry(q)] = "running"
    BY DEF NestInv, Executing
  <2>2. /\ SessionEntry(r) \in Tasks /\ SessionEntry(q) \in Tasks
        /\ SessionEntry(r) # SessionEntry(q)
        /\ laneOf[SessionEntry(r)] = Session[r] /\ laneOf[SessionEntry(q)] = Session[r]
    BY Entries DEF NestInv
  <2>3. SessionEntry(r) \in CurrentIn(Session[r]) /\ SessionEntry(q) \in CurrentIn(Session[r])
    BY <2>1, <2>2 DEF CurrentIn, RunningIn, Abandoned, IsCurrent
  <2>4. Session[r] \in Lanes \ Configured
    BY RunsAssumption
  <2> QED BY <2>2, <2>3, <2>4 DEF QueueInvs, SerialInv
<1> QED BY <1>1, GatewayInvariant, PTL

(* The composition loses no wake-up either: with runs nested in runs and   *)
(* restarts in between, no lane holds back a task it has a slot for.       *)
THEOREM GatewayNoLostWakeup == GatewaySpec => []NoLostWakeup
<1>1. QueueInvs => NoLostWakeup
  BY WakeImplies DEF QueueInvs
<1> QED BY <1>1, GatewayInvariant, PTL

-----------------------------------------------------------------------------
(* The command queue of the gateway keeps the promise of LaneQueue.        *)

LEMMA GatewayPromise ==
    QueueInvs /\ QueueInvs' /\ [GatewayNext]_allVars => [Promise!Next]_(Promise!vars)
<1> SUFFICES ASSUME QueueInvs, QueueInvs', [GatewayNext]_allVars
             PROVE  [Promise!Next]_(Promise!vars)
  OBVIOUS
<1>1. CASE [Next]_vars
  BY <1>1, PromiseNext DEF QueueInvs
<1> DEFINE serving == [l \in Lanes |-> CurrentIn(l)]
<1>2. CASE DrainStep /\ (RestartSignal \/ ServerCloses)
  <2>1. /\ UNCHANGED <<queue, maxConcurrent, status>>
        /\ gatewayDraining' = TRUE \/ gatewayDraining' = gatewayDraining
    BY <1>2 DEF DrainStep, laneVars, taskVars, RestartSignal, ServerCloses
  <2>2. \A l \in Lanes : CurrentIn(l)' = CurrentIn(l)
    BY <1>2 DEF DrainStep, laneVars, taskVars, CurrentIn, RunningIn
  <2>3. serving' = serving /\ Fate' = Fate
    BY <2>1, <2>2 DEF Fate
  <2> HIDE DEF serving
  <2>4. CASE gatewayDraining' = TRUE
    <3>1. Promise!Close
      BY <2>1, <2>3, <2>4 DEF Promise!Close, serving
    <3> QED BY <3>1 DEF Promise!Next
  <2>5. CASE gatewayDraining' = gatewayDraining
    BY <2>1, <2>3, <2>5 DEF Promise!vars, serving
  <2> QED BY <2>1, <2>4, <2>5
<1> QED BY <1>1, <1>2, QueueSteps DEF QueueInvs

(* In the gateway the lanes are first-in first-out servers too: agent runs *)
(* that nest a task in another lane, a drain that refuses new work and the *)
(* reset of a restart are steps of LaneQueue or leave it as it is.         *)
THEOREM GatewayKeepsPromise == GatewaySpec => KeepsPromise
<1>1. LoopInit => Promise!Init
  BY PromiseInit DEF LoopInit, RunsInit
<1>2. QueueInvs /\ QueueInvs' /\ [GatewayNext]_allVars => [Promise!Next]_(Promise!vars)
  BY GatewayPromise
<1> QED BY <1>1, <1>2, GatewayInvariant, PTL DEF GatewaySpec, KeepsPromise, Promise!Spec

(* Each lane of the gateway counts the tasks of its lifecycle that run: no *)
(* restart leaks a slot or frees one twice.                                *)
THEOREM GatewaySlotsMatch == GatewaySpec => []SlotsMatchTasks
<1>1. QueueInvs => SlotsMatchTasks
  BY DEF QueueInvs, SlotInv
<1> QED BY <1>1, GatewayInvariant, PTL

-----------------------------------------------------------------------------
(* The shutdown and the refusal of new work.                               *)

LifecycleInv ==
    /\ loop \in {"starting", "waiting"}
    /\ shutdown \in {NoShutdown, At("stop", "closing"), At("stop", "closed"),
                     At("restart", "draining"), At("restart", "closing"),
                     At("restart", "closed")}
    /\ ~SignalsInStart => /\ loop = "starting" => shutdown = NoShutdown
                          /\ RefusesOnlyInRestart

LEMMA LifecycleInit == LoopInit => LifecycleInv
BY DEF LoopInit, RunsInit, Init, LifecycleInv, RefusesOnlyInRestart

(* The steps of the command queue and of runs do not touch the lifecycle.  *)
LEMMA LifecycleKept ==
    ASSUME \/ QueueStep \/ Configures \/ UNCHANGED allVars
           \/ \E late \in BOOLEAN : TasksPoll(late) \/ RunsPoll(late)
           \/ \E r \in Runs :
                 RunRegisters(r) \/ RunClears(r) \/ RunEnds(r) \/ Asked(r) \/ JobAsks(r)
    PROVE  /\ UNCHANGED <<gatewayDraining, generation, loop, shutdown>>
           /\ waiter'.activeAtStart = waiter.activeAtStart
<1>1. ASSUME NEW e, Submit(e)
      PROVE  UNCHANGED <<gatewayDraining, generation, waiter>>
  BY <1>1 DEF Submit, Enqueue, EnqueueRefused, laneVars
<1>2. ASSUME NEW t, NEW o, TaskEnds(t, o)
      PROVE  UNCHANGED <<gatewayDraining, generation, waiter>>
  BY <1>2 DEF TaskEnds, Complete
<1>3. CASE QueueStep
  <2>1. QueueRuns => UNCHANGED <<gatewayDraining, generation, waiter>>
    BY <1>1 DEF QueueRuns, PumpStarts, PumpReturns, ResetDrains, ResetReturns, Settles,
       Awaits, BodyAwaits, Nests, laneVars
  <2> QED BY <1>3, <2>1 DEF QueueStep, loopVars
<1>4. CASE Configures
  BY <1>4 DEF Configures, SetCommandLaneConcurrency, loopVars
<1>5. CASE UNCHANGED allVars
  BY <1>5 DEF allVars, vars, laneVars, loopVars
<1>6. ASSUME NEW late \in BOOLEAN, TasksPoll(late) \/ RunsPoll(late)
      PROVE  /\ UNCHANGED <<gatewayDraining, generation, loop, shutdown>>
             /\ waiter'.activeAtStart = waiter.activeAtStart
  BY <1>6 DEF TasksPoll, WaiterPolls, Poll, RunsPoll, vars, laneVars, loopVars
<1>7. ASSUME NEW r \in Runs, RunRegisters(r) \/ RunClears(r)
      PROVE  UNCHANGED <<gatewayDraining, generation, loop, shutdown, waiter>>
  BY <1>7 DEF RunRegisters, RunClears, vars, laneVars
<1>8. ASSUME NEW r \in Runs, RunEnds(r) \/ Asked(r) \/ JobAsks(r)
      PROVE  UNCHANGED <<gatewayDraining, generation, loop, shutdown, waiter>>
  BY <1>1, <1>2, <1>8 DEF RunEnds, GlobalEnds, SessionEnds, JobEnds, Asked, Arrives,
     RunByHand, JobAsks, JobRuns, loopVars
<1> QED BY <1>3, <1>4, <1>5, <1>6, <1>7, <1>8

LEMMA LifecycleNext == LifecycleInv /\ [GatewayNext]_allVars => LifecycleInv'
<1> SUFFICES ASSUME LifecycleInv, [GatewayNext]_allVars PROVE LifecycleInv'
  OBVIOUS
<1>1. ASSUME UNCHANGED <<loop, shutdown, gatewayDraining>> PROVE LifecycleInv'
  BY <1>1 DEF LifecycleInv, RefusesOnlyInRestart
<1>2. CASE StartSucceeds \/ StartFails
  <2>1. loop' = "waiting" /\ shutdown' = shutdown /\ gatewayDraining' = gatewayDraining
    BY <1>2 DEF StartSucceeds, StartFails, vars
  <2> QED BY <2>1 DEF LifecycleInv, RefusesOnlyInRestart
<1>3. CASE StopSignal
  BY <1>3 DEF StopSignal, MaySignal, LifecycleInv, RefusesOnlyInRestart, NoShutdown, At, vars
<1>4. CASE RestartSignal
  BY <1>4 DEF RestartSignal, MaySignal, LifecycleInv, RefusesOnlyInRestart, At
<1>5. CASE DrainEnds
  BY <1>5 DEF DrainEnds, LifecycleInv, RefusesOnlyInRestart, NoShutdown, At, vars
<1>6. CASE ServerCloses
  BY <1>6 DEF ServerCloses, LifecycleInv, RefusesOnlyInRestart, NoShutdown, At
<1>7. CASE InProcessRestart
  <2>1. SignalsInStart \/ loop = "waiting"
    BY <1>7 DEF InProcessRestart, LifecycleInv, NoShutdown, At
  <2>2. CASE loop = "waiting"
    BY <1>7, <2>2 DEF InProcessRestart, NextRound, ShutdownOver, ResetAllLanes,
       LifecycleInv, RefusesOnlyInRestart
  <2>3. CASE SignalsInStart
    BY <1>7, <2>3 DEF InProcessRestart, NextRound, ShutdownOver, LifecycleInv
  <2> QED BY <2>1, <2>2, <2>3
<1>8. CASE Exits
  BY <1>1, <1>8 DEF Exits, vars
<1>9. CASE \/ QueueStep \/ Configures \/ UNCHANGED allVars
           \/ \E late \in BOOLEAN : TasksPoll(late) \/ RunsPoll(late)
           \/ \E r \in Runs :
                 RunRegisters(r) \/ RunClears(r) \/ RunEnds(r) \/ Asked(r) \/ JobAsks(r)
  BY <1>1, <1>9, LifecycleKept
<1> QED BY <1>2, <1>3, <1>4, <1>5, <1>6, <1>7, <1>8, <1>9 DEF GatewayNext, LoopStep

LEMMA LifecycleInvariant == GatewaySpec => []LifecycleInv
BY LifecycleInit, LifecycleNext, PTL DEF GatewaySpec

(* If no signal comes while the server starts, work is refused only while  *)
(* a restart is under way, through any number of restarts and failed       *)
(* starts: the reset that ends one takes the mark back.                    *)
THEOREM RefusesOnlyInRestartHolds ==
    ASSUME ~SignalsInStart PROVE GatewaySpec => []RefusesOnlyInRestart
<1>1. LifecycleInv => RefusesOnlyInRestart
  BY DEF LifecycleInv
<1> QED BY <1>1, LifecycleInvariant, PTL

-----------------------------------------------------------------------------
(* The loop and its server.                                                *)

(* A lock that was not lost to a failed start or given up by the exit is   *)
(* held; what starts or was closed has no server.                          *)
ServerInv ==
    /\ restarts \in 0..MaxRestarts /\ failures \in Nat
    /\ attempt \in [Runs -> {"before", "active", "after"}]
    /\ failures = 0 /\ ~exited => lock
    /\ ~SignalsInStart => /\ loop = "starting" => ~server
                          /\ shutdown.stage = "closed" => ~server

LEMMA ServerInit == LoopInit => ServerInv
BY LoopAssumption DEF LoopInit, ServerInv, NoShutdown

LEMMA ServerNext == LifecycleInv /\ ServerInv /\ [GatewayNext]_allVars => ServerInv'
<1> SUFFICES ASSUME LifecycleInv, ServerInv, [GatewayNext]_allVars PROVE ServerInv'
  OBVIOUS
<1>1. CASE StartSucceeds
  BY <1>1 DEF StartSucceeds, LifecycleInv, ServerInv, NoShutdown
<1>2. CASE StartFails
  BY <1>2 DEF StartFails, LifecycleInv, ServerInv, NoShutdown
<1>3. CASE StopSignal \/ DrainEnds
  BY <1>3 DEF StopSignal, DrainEnds, At, ServerInv
<1>4. CASE RestartSignal
  <2>1. restarts' \in 0..MaxRestarts
    BY <1>4, LoopAssumption DEF RestartSignal, ServerInv
  <2> QED BY <1>4, <2>1 DEF RestartSignal, At, ServerInv
<1>5. CASE ServerCloses
  BY <1>5 DEF ServerCloses, ServerInv
<1>6. CASE InProcessRestart
  BY <1>6 DEF InProcessRestart, ShutdownOver, NoShutdown, At, ServerInv
<1>7. CASE Exits
  BY <1>7 DEF Exits, ServerInv
<1>8. ASSUME NEW r \in Runs, RunRegisters(r) \/ RunClears(r) PROVE ServerInv'
  BY <1>8 DEF RunRegisters, RunClears, ServerInv
<1>9. ASSUME UNCHANGED <<loop, server, lock, shutdown, attempt, exited, restarts, failures>>
      PROVE  ServerInv'
  BY <1>9 DEF ServerInv
<1>10. CASE \/ QueueStep \/ Configures \/ UNCHANGED allVars
            \/ \E late \in BOOLEAN : TasksPoll(late) \/ RunsPoll(late)
            \/ \E r \in Runs : RunEnds(r) \/ Asked(r) \/ JobAsks(r)
  BY <1>9, <1>10 DEF QueueStep, Configures, TasksPoll, RunsPoll, RunEnds, Asked, JobAsks,
     loopVars, allVars
<1> QED BY <1>1, <1>2, <1>3, <1>4, <1>5, <1>6, <1>7, <1>8, <1>10 DEF GatewayNext, LoopStep

(* If no signal comes while the server starts, the two activities of the   *)
(* run loop fit together: no shutdown runs beside a start, what was closed *)
(* is gone before the next start, and a server that runs holds the lock    *)
(* unless a start failed.                                                  *)
THEOREM LoopOKHolds == ASSUME ~SignalsInStart PROVE GatewaySpec => []LoopOK
<1>1. LifecycleInv /\ ServerInv => LoopOK
  <2> SUFFICES ASSUME LifecycleInv, ServerInv PROVE LoopOK
    OBVIOUS
  <2>1. /\ shutdown.action \in {"none", "stop", "restart"}
        /\ shutdown.stage \in {"none", "draining", "closing", "closed"}
    BY DEF LifecycleInv, NoShutdown, At
  <2> QED BY <2>1 DEF LifecycleInv, ServerInv, LoopOK
<1>2. LifecycleInv /\ ServerInv /\ [GatewayNext]_allVars => ServerInv'
  BY ServerNext
<1> QED BY <1>1, <1>2, ServerInit, LifecycleInvariant, PTL DEF GatewaySpec

-----------------------------------------------------------------------------
(* The drain.                                                              *)

InDrain == shutdown \in {At("restart", "draining"), At("restart", "closing")}

(* From the signal to the close nothing new is accepted, and every run     *)
(* that executes or is about to is in the snapshot, with the task of its   *)
(* session, or was abandoned before.                                       *)
InGlobalLane(r) == status[GlobalEntry(r)] \in {"queued", "running", "settling"}
DrainInv ==
    InDrain => /\ gatewayDraining
               /\ \A r \in Runs : InGlobalLane(r) =>
                     Abandoned(r) \/ taskId[SessionEntry(r)] \in waiter.activeAtStart

LEMMA GatewayDrained ==
    QueueInvs /\ QueueInvs' /\ DrainedInv /\ [GatewayNext]_allVars => DrainedInv'
<1> SUFFICES ASSUME QueueInvs, QueueInvs', DrainedInv, [GatewayNext]_allVars
             PROVE  DrainedInv'
  OBVIOUS
<1>1. CASE [Next]_vars
  BY <1>1, DrainedNext DEF QueueInvs
<1>2. ASSUME RestartSignal PROVE DrainedInv'
  <2>1. \A id \in ActiveIds : id \in Nat /\ id < nextTaskId
    <3>1. ASSUME NEW l \in Lanes, NEW id \in activeTaskIds[l]
          PROVE  id \in Nat /\ id < nextTaskId
      <4>1. PICK u \in CurrentIn(l) : id = taskId[u]
        BY <3>1 DEF QueueInvs, SlotInv, SlotsMatchTasks
      <4>2. u \in Tasks
        BY <4>1 DEF CurrentIn, RunningIn
      <4> QED BY <4>1, <4>2 DEF QueueInvs, SlotInv, IdInv, TypeOK
    <3> QED BY <3>1 DEF ActiveIds
  <2>2. ActiveIds \in SUBSET Nat
    BY <2>1
  <2>3. Poll(ActiveIds, FALSE) /\ UNCHANGED <<laneVars, nextTaskId, taskVars>>
    BY <1>2 DEF RestartSignal
  <2> QED BY <2>1, <2>2, <2>3, PollTells DEF QueueInvs
<1>3. ASSUME ServerCloses PROVE DrainedInv'
  <2>1. waiter' = NoWaiter
    BY <1>3 DEF ServerCloses
  <2>2. waiter'.drained = FALSE /\ waiter'.activeAtStart = {}
    BY <2>1 DEF NoWaiter
  <2> QED BY <2>2 DEF DrainedInv, DrainedMeansDone
<1> QED BY <1>1, <1>2, <1>3, QueueSteps DEF QueueInvs

(* While the drain goes on, the snapshot and the lifecycle stay.           *)
LEMMA DrainGoesOn ==
    ASSUME QueueInvs, LifecycleInv, [GatewayNext]_allVars, InDrain', ~RestartSignal
    PROVE  /\ InDrain /\ [Next]_vars
           /\ UNCHANGED <<gatewayDraining, generation>>
           /\ waiter'.activeAtStart = waiter.activeAtStart
<1> DEFINE Goal == /\ InDrain
                   /\ UNCHANGED <<gatewayDraining, generation>>
                   /\ waiter'.activeAtStart = waiter.activeAtStart
<1>1. ASSUME StartSucceeds \/ StartFails \/ Exits PROVE Goal
  BY <1>1 DEF StartSucceeds, StartFails, Exits, InDrain, vars, laneVars
<1>2. ~StopSignal
  BY DEF StopSignal, InDrain, At
<1>3. ASSUME DrainEnds PROVE Goal
  BY <1>3 DEF DrainEnds, LifecycleInv, NoShutdown, At, InDrain, vars, laneVars
<1>4. ~ServerCloses
  BY DEF ServerCloses, LifecycleInv, NoShutdown, At, InDrain
<1>5. ~InProcessRestart
  BY DEF InProcessRestart, ShutdownOver, NoShutdown, At, InDrain
<1>6. ASSUME \/ QueueStep \/ Configures \/ UNCHANGED allVars
             \/ \E late \in BOOLEAN : TasksPoll(late) \/ RunsPoll(late)
             \/ \E r \in Runs :
                   RunRegisters(r) \/ RunClears(r) \/ RunEnds(r) \/ Asked(r) \/ JobAsks(r)
      PROVE  Goal
  <2>1. /\ UNCHANGED <<gatewayDraining, generation, shutdown>>
        /\ waiter'.activeAtStart = waiter.activeAtStart
    BY <1>6, LifecycleKept
  <2>2. InDrain
    BY <2>1 DEF InDrain, At
  <2> QED BY <2>1, <2>2
<1>7. Goal
  BY <1>1, <1>2, <1>3, <1>4, <1>5, <1>6 DEF GatewayNext, LoopStep
<1> QED BY <1>4, <1>7, QueueSteps DEF QueueInvs

(* A gateway that refuses work queues none, and what runs keeps its id and *)
(* its generation.                                                         *)
LEMMA NothingQueued ==
    ASSUME TypeOK, SlotInv, gatewayDraining, [Next]_vars, NEW t \in Tasks,
           status'[t] = "queued"
    PROVE  status[t] = "queued"
<1>1. CASE Settles
  <2>1. stack # <<>> /\ Head(stack).kind = "settle" /\ Head(stack) \in Frames
    BY <1>1, PopElems DEF Settles, TopIs, TypeOK
  <2>2. Head(stack).outcome \in {"resolved", "rejected"}
    BY <2>1, FrameFields
  <2> QED BY <1>1, <2>2 DEF Settles, TypeOK
<1>2. CASE QuietStep /\ ~Settles
  BY <1>2 DEF QuietStep, EnqueueRefused, Enqueue, SetCommandLaneConcurrency,
     ClearCommandLane, PumpReturns, ResetDrains, MarkGatewayDraining, ResetReturns,
     BodyAwaits, WaitForActiveTasks, WaiterPolls, vars, taskVars, TypeOK
<1>3. ASSUME NEW l \in Lanes, PumpStarts(l) PROVE status[t] = "queued"
  BY <1>3 DEF PumpStarts, TypeOK
<1>4. ASSUME NEW u \in Tasks, NEW o, NEW below, Complete(u, o, below)
      PROVE  status[t] = "queued"
  BY <1>4 DEF Complete, TypeOK
<1>5. CASE ResetAllLanes
  BY <1>5 DEF ResetAllLanes, taskVars
<1> QED BY <1>1, <1>2, <1>3, <1>4, <1>5, StepKinds DEF SlotInv

LEMMA RunningKeepsId ==
    ASSUME TypeOK, SlotInv, [Next]_vars, NEW t \in Tasks, status[t] = "running"
    PROVE  taskId'[t] = taskId[t] /\ taskGeneration'[t] = taskGeneration[t]
<1>1. CASE QuietStep
  BY <1>1, QuietKeeps DEF SlotInv
<1>2. ASSUME NEW l \in Lanes, PumpStarts(l)
      PROVE  taskId'[t] = taskId[t] /\ taskGeneration'[t] = taskGeneration[t]
  <2>1. Head(queue[l]) # t
    BY <1>2, QueuedTask DEF PumpStarts, HasWork, SlotInv
  <2> QED BY <1>2, <2>1 DEF PumpStarts, TypeOK
<1>3. ASSUME NEW u \in Tasks, NEW o, NEW below, Complete(u, o, below)
      PROVE  taskId' = taskId /\ taskGeneration' = taskGeneration
  BY <1>3 DEF Complete
<1>4. CASE ResetAllLanes
  BY <1>4 DEF ResetAllLanes, taskVars
<1> QED BY <1>1, <1>2, <1>3, <1>4, StepKinds DEF SlotInv

LEMMA DrainInvNext ==
    QueueInvs /\ LifecycleInv /\ NestInv /\ NestInv' /\ DrainInv /\ [GatewayNext]_allVars
        => DrainInv'
<1> SUFFICES ASSUME QueueInvs, LifecycleInv, NestInv, NestInv', DrainInv,
                    [GatewayNext]_allVars, InDrain'
             PROVE  /\ gatewayDraining'
                    /\ \A r \in Runs : InGlobalLane(r)' =>
                          Abandoned(r)' \/ taskId'[SessionEntry(r)] \in waiter'.activeAtStart
  BY DEF DrainInv
<1>1. CASE RestartSignal
  <2>1. /\ gatewayDraining' = TRUE /\ waiter'.activeAtStart = ActiveIds
        /\ UNCHANGED <<status, taskId, taskGeneration, generation, laneOf>>
    BY <1>1 DEF RestartSignal, Poll, taskVars, laneVars
  <2>2. ASSUME NEW r \in Runs, InGlobalLane(r), ~Abandoned(r)
        PROVE  taskId[SessionEntry(r)] \in ActiveIds
    <3>1. SessionEntry(r) \in Tasks /\ status[SessionEntry(r)] = "running"
      BY <2>2, Entries DEF NestInv, InGlobalLane
    <3>2. /\ SessionEntry(r) \in CurrentIn(laneOf[SessionEntry(r)])
          /\ laneOf[SessionEntry(r)] \in Lanes
      BY <2>2, <3>1 DEF Abandoned, IsCurrent, CurrentIn, RunningIn, QueueInvs, TypeOK
    <3> QED BY <3>2 DEF QueueInvs, SlotInv, SlotsMatchTasks, ActiveIds
  <2> QED BY <2>1, <2>2 DEF InGlobalLane, Abandoned, IsCurrent
<1>2. CASE ~RestartSignal
  <2>1. /\ InDrain /\ [Next]_vars
        /\ UNCHANGED <<gatewayDraining, generation>>
        /\ waiter'.activeAtStart = waiter.activeAtStart
    BY <1>2, DrainGoesOn
  <2>2. gatewayDraining
    BY <2>1 DEF DrainInv
  <2>3. ASSUME NEW r \in Runs, InGlobalLane(r)'
        PROVE  Abandoned(r)' \/ taskId'[SessionEntry(r)] \in waiter'.activeAtStart
    <3>1. GlobalEntry(r) \in Tasks /\ SessionEntry(r) \in Tasks
      BY Entries
    <3>2. InGlobalLane(r)
      <4>1. status'[GlobalEntry(r)] = "queued" => status[GlobalEntry(r)] = "queued"
        BY <2>1, <2>2, <3>1, NothingQueued DEF QueueInvs
      <4>2. \/ status'[GlobalEntry(r)] = status[GlobalEntry(r)]
            \/ Moves(GlobalEntry(r), status[GlobalEntry(r)], status'[GlobalEntry(r)])
        BY <3>1, StatusMoves DEF QueueInvs, TypeOK
      <4> QED BY <2>3, <4>1, <4>2 DEF InGlobalLane, Moves
    <3>3. status[SessionEntry(r)] = "running" /\ status'[SessionEntry(r)] = "running"
      BY <2>3, <3>2 DEF NestInv, InGlobalLane
    <3>4. /\ taskId'[SessionEntry(r)] = taskId[SessionEntry(r)]
          /\ taskGeneration'[SessionEntry(r)] = taskGeneration[SessionEntry(r)]
      BY <2>1, <3>1, <3>3, RunningKeepsId DEF QueueInvs
    <3>5. laneOf' = laneOf
      BY StatusMoves
    <3>6. Abandoned(r) => Abandoned(r)'
      BY <2>1, <3>3, <3>4, <3>5 DEF Abandoned, IsCurrent
    <3> QED BY <2>1, <3>2, <3>4, <3>6 DEF DrainInv
  <2> QED BY <2>1, <2>2, <2>3
<1> QED BY <1>1, <1>2

LEMMA DrainInvariant == GatewaySpec => [](QueueInvs /\ NestInv /\ DrainedInv /\ DrainInv)
<1>1. LoopInit => DrainedInv
  BY DrainedInit DEF LoopInit, RunsInit
<1>2. LoopInit => DrainInv
  BY DEF LoopInit, DrainInv, InDrain, NoShutdown, At
<1>3. QueueInvs /\ QueueInvs' /\ DrainedInv /\ [GatewayNext]_allVars => DrainedInv'
  BY GatewayDrained
<1>4. QueueInvs /\ LifecycleInv /\ NestInv /\ NestInv' /\ DrainInv /\ [GatewayNext]_allVars
         => DrainInv'
  BY DrainInvNext
<1> QED BY <1>1, <1>2, <1>3, <1>4, GatewayInvariant, LifecycleInvariant, PTL DEF GatewaySpec

-----------------------------------------------------------------------------
(* A run is registered only while it executes.                             *)

RegisteredInv ==
    /\ attempt \in [Runs -> {"before", "active", "after"}]
    /\ \A r \in Runs : attempt[r] = "active" => Executing(r)

LEMMA RegisteredNext ==
    QueueInvs /\ RegisteredInv /\ [GatewayNext]_allVars => RegisteredInv'
<1> SUFFICES ASSUME QueueInvs, RegisteredInv, [GatewayNext]_allVars PROVE RegisteredInv'
  OBVIOUS
<1>1. ASSUME NEW r \in Runs, RunRegisters(r) \/ RunClears(r) PROVE RegisteredInv'
  <2>1. status' = status
    BY <1>1 DEF RunRegisters, RunClears, vars, taskVars
  <2>2. CASE RunRegisters(r)
    <3>1. /\ Executing(r)
          /\ attempt' = [q \in Runs |-> IF q = r THEN "active" ELSE
                           IF Session[q] = Session[r] /\ attempt[q] = "active"
                           THEN "after" ELSE attempt[q]]
      BY <2>2 DEF RunRegisters
    <3> QED BY <2>1, <3>1 DEF RegisteredInv, Executing
  <2>3. CASE RunClears(r)
    BY <2>1, <2>3 DEF RunClears, RegisteredInv, Executing
  <2> QED BY <1>1, <2>2, <2>3
<1>2. ASSUME attempt' = attempt PROVE RegisteredInv'
  <2> SUFFICES ASSUME NEW r \in Runs, attempt[r] = "active"
               PROVE  status'[GlobalEntry(r)] = "running"
    BY <1>2 DEF RegisteredInv, Executing
  <2>1. status[GlobalEntry(r)] = "running" /\ GlobalEntry(r) \in Tasks
    BY Entries DEF RegisteredInv, Executing
  <2>2. ASSUME NEW t \in Tasks, NEW new \in Statuses,
               status' = [status EXCEPT ![t] = new], Moves(t, status[t], new)
        PROVE  status'[GlobalEntry(r)] = "running"
    <3>1. t # GlobalEntry(r)
      BY <2>1, <2>2 DEF Moves
    <3> QED BY <2>1, <2>2, <3>1 DEF QueueInvs, TypeOK
  <2> QED BY <2>1, <2>2, StatusMoves
<1>3. attempt' = attempt \/ \E r \in Runs : RunRegisters(r) \/ RunClears(r)
  BY DEF GatewayNext, LoopStep, StartSucceeds, StartFails, StopSignal, RestartSignal,
     DrainEnds, ServerCloses, InProcessRestart, Exits, TasksPoll, RunsPoll, RunEnds, Asked,
     JobAsks, QueueStep, Configures, loopVars, allVars
<1> QED BY <1>1, <1>2, <1>3

LEMMA RegisteredInvariant == GatewaySpec => []RegisteredInv
<1>1. LoopInit => RegisteredInv
  BY DEF LoopInit, RegisteredInv
<1> QED BY <1>1, RegisteredNext, GatewayInvariant, PTL DEF GatewaySpec

(* When the gateway closes the server because everything was drained, no   *)
(* run of this lifecycle is registered, executes or waits for its global   *)
(* lane: one that the snapshot of the active tasks missed would be cut off *)
(* by the close.                                                           *)
THEOREM DrainedMeansQuietHolds == GatewaySpec => []DrainedMeansQuiet
<1>1. QueueInvs /\ NestInv /\ DrainedInv /\ DrainInv /\ RegisteredInv => DrainedMeansQuiet
  <2> SUFFICES ASSUME QueueInvs, NestInv, DrainedMeansDone, DrainInv,
                      shutdown = At("restart", "closing"), waiter.drained,
                      NEW r \in Runs, status[GlobalEntry(r)] \in {"queued", "running"},
                      ~Abandoned(r)
               PROVE  FALSE
    BY DEF DrainedMeansQuiet, DrainedInv, RegisteredInv, Executing
  <2>1. SessionEntry(r) \in Tasks /\ status[SessionEntry(r)] = "running"
    BY Entries DEF NestInv
  <2>2. taskId[SessionEntry(r)] \in waiter.activeAtStart
    BY DEF DrainInv, InDrain, InGlobalLane
  <2>3. taskGeneration[SessionEntry(r)] < generation[laneOf[SessionEntry(r)]]
    BY <2>1, <2>2 DEF DrainedMeansDone
  <2>4. taskGeneration[SessionEntry(r)] = generation[laneOf[SessionEntry(r)]]
    BY <2>1 DEF Abandoned, IsCurrent
  <2>5. generation[laneOf[SessionEntry(r)]] \in Nat
    BY <2>1 DEF QueueInvs, TypeOK
  <2> QED BY <2>3, <2>4, <2>5
<1> QED BY <1>1, DrainInvariant, RegisteredInvariant, PTL

(* Inside the gateway too a wait for the tasks says "drained" only when    *)
(* every task of its snapshot has completed or lost its slot to a reset.   *)
THEOREM GatewayDrainedMeansDone == GatewaySpec => []DrainedMeansDone
<1>1. DrainedInv => DrainedMeansDone
  BY DEF DrainedInv
<1> QED BY <1>1, DrainInvariant, PTL
=============================================================================
