--------------------------- MODULE GatewayRestart ---------------------------
(***************************************************************************)
(* The run loop of the gateway process (src/src/cli/gateway-cli/           *)
(* run-loop.ts): it starts the server, waits for a restart, and starts it  *)
(* again, while signal handlers close the server beside it.  A restart     *)
(* refuses new work, waits for the active tasks and the embedded runs      *)
(* (src/src/agents/pi-embedded-runner/runs.ts) up to a deadline, closes    *)
(* the server and replaces the process or goes round in it, which resets   *)
(* the lanes of the command queue.                                         *)
(***************************************************************************)
EXTENDS AgentRuns

CONSTANTS
    MaxRestarts,       \* bound: restart signals that are accepted
    MaxStartFailures,  \* bound: later starts of the server that fail
    SignalsInStart     \* bound: whether signals come while the server starts

ASSUME LoopAssumption ==
    /\ MaxRestarts \in Nat /\ MaxStartFailures \in Nat
    /\ SignalsInStart \in BOOLEAN
    /\ MaxRestarts <= MaxGeneration

VARIABLES
    loop,      \* "starting": awaits start(); "waiting": awaits restartResolver
    server,    \* server is not null
    lock,      \* the gateway lock is held
    shutdown,  \* what `request' is about, and how far it is
    runsWait,  \* waitForActiveEmbeddedRuns
    attempt,   \* per run: before, in, or after its time in ACTIVE_EMBEDDED_RUNS
    exited,    \* the process has ended
    first,     \* isFirstStart
    restarts,  \* accepted restart signals so far
    failures   \* failed starts so far

loopVars == <<loop, server, lock, shutdown, runsWait, attempt, exited, first,
              restarts, failures>>
allVars == <<vars, loopVars>>

NoShutdown == [action |-> "none", stage |-> "none"]
At(action, stage) == [action |-> action, stage |-> stage]
ActiveRuns == {r \in Runs : attempt[r] = "active"}
NoWaiter == [polling |-> FALSE, drained |-> FALSE, activeAtStart |-> {}]

LoopInit ==
    /\ RunsInit
    /\ loop = "starting" /\ server = FALSE /\ lock = TRUE
    /\ shutdown = NoShutdown /\ runsWait = "none"
    /\ attempt = [r \in Runs |-> "before"]
    /\ exited = FALSE /\ first = TRUE
    /\ restarts = 0 /\ failures = 0

-----------------------------------------------------------------------------
(* The loop.  A first start that fails ends the process; a later one gives *)
(* up the lock and waits for the next restart.  (The code awaits the       *)
(* release of the lock in between; a signal in that time is taken as one   *)
(* just before this step.)                                                 *)
StartSucceeds ==
    /\ ~exited
    /\ loop = "starting"
    /\ server' = TRUE /\ first' = FALSE /\ loop' = "waiting"
    /\ UNCHANGED <<vars, lock, shutdown, runsWait, attempt, exited, restarts, failures>>

StartFails ==
    /\ ~exited
    /\ loop = "starting"
    /\ failures < MaxStartFailures
    /\ failures' = failures + 1
    /\ server' = IF first THEN server ELSE FALSE
    /\ lock' = FALSE
    /\ exited' = first
    /\ loop' = "waiting"
    /\ UNCHANGED <<vars, shutdown, runsWait, attempt, first, restarts>>

-----------------------------------------------------------------------------
(* request: the first signal wins, until the shutdown is over.             *)
MaySignal == ~exited /\ stack = <<>> /\ shutdown = NoShutdown /\ (loop = "waiting" \/ SignalsInStart)

StopSignal ==
    /\ MaySignal
    /\ shutdown' = At("stop", "closing")
    /\ UNCHANGED <<vars, loop, server, lock, runsWait, attempt, exited, first,
                   restarts, failures>>

(* The gateway refuses work from now on; each wait is for what is active   *)
(* now, and has looked once before control returns.                        *)
RestartSignal ==
    /\ MaySignal
    /\ restarts < MaxRestarts
    /\ restarts' = restarts + 1
    /\ gatewayDraining' = TRUE
    /\ shutdown' = At("restart", "draining")
    /\ Poll(ActiveIds, FALSE)
    /\ runsWait' = IF ActiveRuns = {} THEN "drained" ELSE "polling"
    /\ UNCHANGED <<laneVars, nextTaskId, stack, taskVars, loop, server, lock, attempt,
                   exited, first, failures>>

(* One poll each of the two waits; `late' says that the deadline passed.   *)
TasksPoll(late) ==
    /\ ~exited
    /\ shutdown.stage = "draining"
    /\ WaiterPolls(late)
    /\ UNCHANGED loopVars

RunsPoll(late) ==
    /\ ~exited
    /\ stack = <<>>
    /\ shutdown.stage = "draining" /\ runsWait = "polling"
    /\ runsWait' = IF ActiveRuns = {} THEN "drained" ELSE
                   IF late THEN "timedOut" ELSE "polling"
    /\ UNCHANGED <<vars, loop, server, lock, shutdown, attempt, exited, first,
                   restarts, failures>>

(* Both waits are over; the mutant goes on only if all was drained.        *)
WaitsSucceeded == waiter.drained /\ runsWait = "drained"
WaitsOver == ~waiter.polling /\ runsWait # "polling"

DrainEnds ==
    /\ ~exited
    /\ stack = <<>>
    /\ shutdown.stage = "draining"
    /\ WaitsOver
    /\ shutdown' = At("restart", "closing")
    /\ UNCHANGED <<vars, loop, server, lock, runsWait, attempt, exited, first,
                   restarts, failures>>

(* server?.close() has returned or failed.                                 *)
ServerCloses ==
    /\ ~exited
    /\ stack = <<>>
    /\ shutdown.stage = "closing"
    /\ shutdown' = [shutdown EXCEPT !.stage = "closed"]
    /\ server' = FALSE
    /\ waiter' = NoWaiter /\ runsWait' = "none"
    /\ UNCHANGED <<laneVars, gatewayDraining, nextTaskId, stack, taskVars, loop, lock,
                   attempt, exited, first, restarts, failures>>

(* The process ends: after a stop, because another process takes over,     *)
(* because the lock cannot be had back, or by the watchdog of `request'.   *)
Exits ==
    /\ ~exited
    /\ stack = <<>>
    /\ shutdown # NoShutdown
    /\ exited' = TRUE
    /\ lock' = FALSE
    /\ UNCHANGED <<vars, loop, server, shutdown, runsWait, attempt, first,
                   restarts, failures>>

(* Restart in this process: the lock is given up and, if it was held,      *)
(* taken again.  restartResolver resolves the promise the loop waits for;  *)
(* while the loop still starts it is the one of the round before.          *)
(* The mutant of NextRound forgets resetAllLanes.                          *)
NextRoundUnreset ==
    UNCHANGED <<laneVars, gatewayDraining, nextTaskId, stack, taskVars, waiter>>
NextRound == ResetAllLanes

(* shuttingDown = false; the mutant forgets it.                            *)
StillShuttingDown == shutdown
ShutdownOver == NoShutdown

InProcessRestart ==
    /\ ~exited
    /\ stack = <<>>
    /\ shutdown = At("restart", "closed")
    /\ shutdown' = ShutdownOver
    /\ IF loop = "waiting"
       THEN loop' = "starting" /\ NextRound
       ELSE UNCHANGED <<vars, loop>>
    /\ UNCHANGED <<server, lock, runsWait, attempt, exited, first, restarts, failures>>

-----------------------------------------------------------------------------
(* setActiveEmbeddedRun: one run per session is registered, the last.      *)
RunRegisters(r) ==
    /\ ~exited
    /\ stack = <<>>
    /\ Executing(r) /\ attempt[r] = "before"
    /\ attempt' = [q \in Runs |-> IF q = r THEN "active" ELSE
                     IF Session[q] = Session[r] /\ attempt[q] = "active"
                     THEN "after" ELSE attempt[q]]
    /\ UNCHANGED <<vars, loop, server, lock, shutdown, runsWait, exited, first,
                   restarts, failures>>

RunClears(r) ==
    /\ ~exited
    /\ stack = <<>>
    /\ attempt[r] = "active"
    /\ attempt' = [attempt EXCEPT ![r] = "after"]
    /\ UNCHANGED <<vars, loop, server, lock, shutdown, runsWait, exited, first,
                   restarts, failures>>

RunEnds(r) ==
    /\ ~exited
    /\ \/ attempt[r] # "active" /\ GlobalEnds(r)
       \/ SessionEnds(r)
       \/ JobEnds(r)
    /\ UNCHANGED loopVars

(* The server and the cron service call for runs while the server is up.   *)
Asked(r) ==
    /\ ~exited
    /\ server
    /\ Arrives(r) \/ RunByHand(r)
    /\ UNCHANGED loopVars

JobAsks(r) == ~exited /\ JobRuns(r) /\ UNCHANGED loopVars

QueueStep == ~exited /\ QueueRuns /\ UNCHANGED loopVars

(* Starting or reloading the server sets the limits of the lanes.          *)
Configures ==
    /\ ~exited
    /\ server
    /\ stack = <<>>
    /\ \E l \in Configured, n \in Limits : SetCommandLaneConcurrency(l, n)
    /\ UNCHANGED loopVars

LoopStep == StartSucceeds \/ DrainEnds \/ ServerCloses \/ InProcessRestart

GatewayNext ==
    \/ LoopStep
    \/ StartFails \/ StopSignal \/ RestartSignal \/ Exits
    \/ \E late \in BOOLEAN : TasksPoll(late) \/ RunsPoll(late)
    \/ \E r \in Runs :
          RunRegisters(r) \/ RunClears(r) \/ RunEnds(r) \/ Asked(r) \/ JobAsks(r)
    \/ QueueStep
    \/ Configures

(* The event loop serves its callbacks and deadlines pass; runs end, by    *)
(* themselves, by their own timeouts or aborted.  Starting the server and  *)
(* closing it take a finite time.                                          *)
Progress ==
    \/ LoopStep
    \/ TasksPoll(TRUE) \/ RunsPoll(TRUE)
    \/ shutdown = At("stop", "closed") /\ Exits
RunProgress(r) == RunClears(r) \/ RunEnds(r) \/ JobAsks(r)

GatewayFairness ==
    /\ WF_allVars(QueueStep)
    /\ SF_allVars(Progress)
    /\ \A r \in Runs : SF_allVars(RunProgress(r))

GatewaySpec == LoopInit /\ [][GatewayNext]_allVars
GatewayFairSpec == GatewaySpec /\ GatewayFairness

-----------------------------------------------------------------------------
(* Properties.                                                             *)

(* Types, and how the two activities of the loop fit together: while the   *)
(* server starts no shutdown is under way, a server that runs holds the    *)
(* lock unless an earlier start failed, and a closed server is gone.       *)
LoopOK ==
    /\ loop \in {"starting", "waiting"} /\ restarts \in 0..MaxRestarts
    /\ shutdown.action \in {"none", "stop", "restart"}
    /\ shutdown.stage \in {"none", "draining", "closing", "closed"}
    /\ attempt \in [Runs -> {"before", "active", "after"}]
    /\ loop = "starting" => shutdown = NoShutdown /\ ~server
    /\ server /\ failures = 0 /\ ~exited => lock
    /\ shutdown.stage = "closed" => ~server

(* New work is refused only while a restart is under way: no lifecycle     *)
(* starts with the mark of the one before.                                 *)
RefusesOnlyInRestart == gatewayDraining => shutdown.action = "restart"

(* When both waits report that all is drained, no run of this lifecycle is *)
(* registered, executes or waits to execute when the server is closed: the *)
(* snapshot of active ids, the refusal of new work and the registry leave  *)
(* no gap.  Runs abandoned by an earlier restart are no part of that: they *)
(* hold no slot, and may register after the look at the registry.          *)
DrainedMeansQuiet ==
    shutdown = At("restart", "closing") /\ waiter.drained /\ runsWait = "drained" =>
        \A r \in Runs :
            attempt[r] = "active" \/ status[GlobalEntry(r)] \in {"queued", "running"}
                => Abandoned(r)

(* A run that was asked for ends: waiting for a slot of a global lane with *)
(* the slots of a session lane and of the cron lane in hand never closes a *)
(* cycle, whatever restart comes in between.                               *)
Pending(r) == status[SessionEntry(r)] = "queued"
              \/ (r \in CronRuns /\ status[ManualEntry(r)] = "queued")
RunsEnd == \A r \in Runs : Pending(r) ~> (status[SessionEntry(r)] \in Settled \/ exited)

(* A restart that was accepted ends the process or makes the gateway take  *)
(* work again, also if runs do not end before the deadline.                *)
RestartCompletes ==
    shutdown.action = "restart" ~> (exited \/ (shutdown = NoShutdown /\ ~gatewayDraining))
=============================================================================
