# Specifications of the Alisio gateway

Alisio is a personal-assistant gateway: one Node.js process that receives messages from
chat channels, runs agent turns for them, and sends the replies out. This directory holds
TLA+ modules of the parts of the gateway whose correctness depends on the order of
callbacks, crashes and timers, the TLC configurations that check them on small instances,
and TLAPS proofs of what matters most for every value of the constants.

Paths below are relative to the repository; `src/src/` is its TypeScript source directory.

## 1. Inventory

JavaScript runs to completion: between two `await`s, or two callbacks, nothing else
happens. Every hazard of this code comes from what happens *across* an await, a timer or
a crash, and from synchronous re-entrancy (a callback that calls back into its caller).

| component | code | state | operations | interacts with |
|---|---|---|---|---|
| Command queue | `process/command-queue.ts` | per lane: queue, active ids, limit, `draining`, generation | enqueue, set concurrency, clear, mark draining, reset all lanes, wait for active tasks; task start and completion | everything that runs work; the restart loop resets it |
| Agent lanes | `agents/pi-embedded-runner/lanes.ts`, `agents/lanes.ts` | none of their own | a run takes a session-lane slot, then a global-lane slot | command queue, cron |
| Gateway restart loop | `cli/gateway-cli/run-loop.ts` | `shuttingDown`, restart resolver, server, lock | signals, drain with deadline, close, restart iteration | command queue, embedded runs |
| Active embedded runs | `agents/pi-embedded-runner/runs.ts` | registry of runs, waiters | register, replace, clear, wait for all | restart loop, agent runs |
| Cron scheduler | `cron/service/*.ts` | store file and cache, lock chain, timer, `running`, per job: next run, running marker, errors | timer tick, add, update, remove, manual run, start-up catch-up | cron lane, agent turns, heartbeat wake |
| Exec approvals | `gateway/exec-approval-manager.ts`, `gateway/server-methods/exec-approval.ts` | pending entries with timers | request, wait, resolve, expire, consume once | gateway methods, node runs |
| Follow-up queue | `auto-reply/reply/queue/*.ts`, `utils/queue-helpers.ts` | registry key → queue object (items, dropped previews, mode, policy, `draining`), recent message ids | enqueue, drain loop, finalize, clear, refresh of a session | agent runner, agent runs |
| Outbound delivery queue | `infra/outbound/deliver.ts`, `delivery-queue-*.ts` | files `{id}.json`, `{id}.delivered`, `failed/{id}.json` | write-ahead send, ack, fail, recovery at start | channels, gateway start, restart sentinel |
| Heartbeat wake | `infra/heartbeat-wake.ts` | handler and its generation, pending wakes, one timer, `running`, `scheduled` | request, timer callback, register, dispose | heartbeat runner, cron, restart loop |
| Subagent announce queue | `agents/subagent-announce-queue.ts` | as the follow-up queue, with failure backoff | enqueue, drain | agent turns |
| Restart sentinel | `gateway/server-restart-sentinel.ts` | one sentinel file, one queue entry | notice after restart, with retries | delivery queue |
| Others | see `PROJECT.json`, `components` | | process supervisor, node registry, channel supervision, config reload, pairing, session store, … | |

What is hard in each, and what makes it correct:

* **Command queue.** `pump()` calls task bodies synchronously, those may enqueue, clear or
  reset from inside the loop, and completions pump past the `draining` flag. A restart in
  the same process abandons running tasks that complete later. Correct: no lost wake-up, slots
  are exactly those of running tasks of the current generation, order within a lane, an entry
  is started or rejected but never both, an honest `waitForActiveTasks`.
* **Agent lanes, restart loop, embedded runs.** A run waits for a slot of one lane while it
  holds slots of others; a restart refuses, drains, abandons and resets them in the middle. Correct: no
  cycle of waiting lanes, one run per session, a drain that reports success left no run of its lifecycle going on,
  every restart ends and leaves a gateway that takes work.
* **Cron.** Jobs run outside the store lock while they are edited, removed, run by hand or
  reloaded; the file and the memory differ when a write fails; markers survive crashes.
  Correct: no two runs of a job at once, no slot skipped, nothing removed comes back,
  the timer is armed as long as something is due.
* **Exec approvals.** A decision, an expiry, a deletion after a grace period and the reuse of an id
  race. Correct: a decision stands, is used as it says, an undecided approval can be
  decided, whoever waits hears.
* **Follow-up queue.** The drain loop holds on to an object while others push to it, drop
  from it, clear it or replace it in the registry. Correct: an accepted message is neither
  lost nor answered twice, order is kept, and the loop makes progress.
* **Outbound delivery.** Live sends and recoveries, of which a restart within the process
  adds another, work on the same files, with crashes and errors at every await. Correct: nothing queued is lost, nothing acknowledged comes back,
  retries are bounded.
* **Heartbeat wake.** One timer serves several targets while calls of the handler, also of
  a replaced one, go on. Correct: pending wakes always have a timer, are not downgraded,
  batches do not overlap, retry timers hold.

`PROJECT.json` lists each hazard at its line under `hazards`, with the properties that
would catch it.

## 2. Plan

1. *(done)* `CommandQueue`; `LaneQueue`, the abstract specification it implements.
2. *(done)* `FollowupQueue`, `DeliveryQueue`, `HeartbeatWake`; `Inbox` and `DeliveryStore`,
   which the first two implement.
3. *(done)* `AgentRuns` and `GatewayRestart`, composed with the command queue.
4. *(done)* `ExecApproval`, which implements `Permits`; `CronScheduler`.
5. The announce queue as a second user of the drain loop; the route of collected batches in
   `FollowupQueue` (an item of another route may slip into a batch after the route check).
6. Liveness of recovery (a queued delivery leaves the queue if the gateway keeps being
   restarted) and the restart sentinel in `DeliveryQueue`.
7. The process supervisor (exit, timeouts and kills of a child process race), node
   invocations and the backlog of pending work, channel supervision with its backoff.
8. Config reload with deferred restarts, which would replace the signals that
   `GatewayRestart` takes from outside; device pairing and the session store.

Theorems to come: abstract specifications of the heartbeat wake and the cron scheduler and
that they implement them; an `Inbox` that also says what becomes of the messages a
disturbed queue drops.

## 3. The modules

| module | models | proofs |
|---|---|---|
| `LaneQueue` | what the command queue promises | `CommandQueue_promise` |
| `CommandQueue` | `process/command-queue.ts`, whole | `CommandQueue_proofs`, `CommandQueue_promise` |
| `AgentRuns` (EXTENDS `CommandQueue`) | nested lanes of agent runs | with `GatewayRestart` |
| `GatewayRestart` (EXTENDS `AgentRuns`) | run loop and embedded runs over the real queue | `GatewayRestart_proofs` |
| `CronScheduler` | the cron service and its file | `CronScheduler_proofs` |
| `Permits` | what approvals promise | `ExecApproval_proofs` |
| `ExecApproval` | approvals, their handlers and their use | `ExecApproval_proofs` |
| `Inbox` | what the follow-up queue promises | `FollowupQueue_proofs` |
| `FollowupQueue` | the queue of one session key | `FollowupQueue_proofs` |
| `DeliveryStore` | what the delivery queue promises of strict deliveries | `DeliveryQueue_proofs` |
| `DeliveryQueue` | write-ahead queue, live sends and recovery | `DeliveryQueue_proofs` |
| `HeartbeatWake` | wake-up timer, batches, registration | `HeartbeatWake_proofs` |
| `MC_*` | constants of the TLC instances | |

`PROJECT.json`, `map`, gives the source lines of every definition. Definitions named as a
mutant in a comment (`HasRoomOffByOne`, `EverUndecided`, …) are variants with a
plausible bug; they are used nowhere in the specifications and serve to confirm that each
property fails when the code is wrong.

### CommandQueue and LaneQueue

A step is a stretch of code between two points at which other code may run. Because
`pump()` calls task bodies on its own call stack, the stack is a variable: frames `pump`,
`body`, `settle` and `reset`. Calls (`Enqueue`, `SetCommandLaneConcurrency`,
`ClearCommandLane`, `MarkGatewayDraining`, `ResetAllLanes`) may come from the event loop
(empty stack) or from a running body; `TaskEnds` and `waitForActiveTasks` polls only from
the event loop. `resetAllLanes` bumps generations and leaves old tasks running ("zombies");
`IsCurrent` is the check that tells them. `onWait`, logging and the warning threshold are left
out; the lane of a task is fixed initially, which only names tasks.

`LaneQueue` has neither stack nor ids nor generations: a lane is a first-in first-out server
with a limit, the queue is open or closed, and a task is new, accepted, started or turned
away. `KeepsPromise` says that `CommandQueue` implements it: `waiting` is `queue`, `serving`
the running tasks of the current generation, `closed` is `gatewayDraining`, `fate` follows
from `status`.

### AgentRuns and GatewayRestart

A run is two tasks of the queue: one of the lane of its session, whose body enqueues one of
a global lane and waits for it (`Nests`). A cron job run by hand (`RunByHand`, `JobRuns`)
is a third, in the cron lane, that waits for such a run; `GlobalLane` sends the inner task to the
nested lane. `GatewayRestart` adds the run loop (`StartSucceeds`, `StartFails`,
restart), the signal handler (mark draining, wait for tasks and runs with a deadline,
close, then exit or resolve), and the registry of embedded runs. The queue below is the module `CommandQueue`
itself, with its own actions; so its invariants carry over.
What a run does, its outcome and the way it is aborted are left out: a run ends. Left out too: the
tokens, the authorisation, the timer and the deferral in `infra/restart.ts`; a restart
signal simply comes.

### CronScheduler

Every access to the store is a callback of `locked()`, which chains them per file, so a
callback is one step, with a write that succeeds or fails (`Persists`). The runs of a tick
or of the catch-up lie between two such steps, and so do manual runs. The file (`disk`) and
each service's memory (`store`) are separate, `Reload` makes a second service on the same
file while the first one still works. Time is counted per job in moments: `clock[j]` is the
number of moments at which `j` was to run that have passed; markers are fresh or stuck.
Left out: errors in computing a schedule and the disabling after them, `setRuntimeScope`,
failure alerts, failing reads, wake-ups, deliveries and the run log. The outcomes `skipped` (as
`ok`, but nothing is deleted) and `permanent` (as `transient`, but not retried) are in the
module and covered by the theorems; the TLC runs do without them.

### ExecApproval and Permits

A request is one call of `exec.approval.request`; ids may be reused, and `pending` maps an
id to its entry. The registration and the test of the route are one action, since
`forwarder.handleRequested` settles without giving way to a timer or a message. Expiry and the deletion
after 15 s are timers, in either order with decisions and waits; `Matches` is the
prefix lookup. A run is let through as `node-invoke-system-run-approval.ts` does it.
Which client asked and which command is bound to an approval is data and left out.

`Permits` has no ids, map, timers or promises: a permit is asked for, then ruled on, lapsed or
unrouted, once; calls that wait are told that outcome, and commands run as it allows.
`KeepsPromise` says that `ExecApproval` implements it: the ruling follows from `closed` and
the settled promise of the record, `spent` is `uses`, `asks` and `told` are `awaits` and
`heard`. That a consumed allow-once loses its `decision` is hidden, `spent` says the same.

### FollowupQueue and Inbox

One key, several queue objects with identities, since a drain loop outlives its object's
place in the registry (`current`). `Enqueue` is `enqueueFollowupRun` with the second look
of `agent-runner.ts:246-249`, and with `restartIfIdle`, which that caller turns off. What the
caller takes for an active run may be a reply run, a follow-up, or a run of
`agent-command.ts` in the same session (the agent RPC, an announcement of a subagent):
a reply run ends with `finalizeWithFollowup` (`PrimaryEnds`), a command run without a look
at the queue (`CommandRun`). The steps of the drain loop are the stretches between its
awaits, with `Finish` for its `finally`. The items a run was started with and the number it
will take off afterwards are kept in the loop's record, as the code keeps them in locals.
Prompts are the list of messages in them. `Modes` are the two ways of draining: `collect`,
and `followup` for every other mode (`steer` and `steer-backlog` enqueue too,
`queue-policy.ts:17`, and drain one by one). Left out: the injection of a steered message
into the running turn, how long a debounce lasts and what prolongs it, session refresh, the
expiry of the recent-id cache, the text of previews.

`Inbox` has neither objects nor loops: messages are taken in once, in order, and answered in
batches; until something is dropped or cleared (`disturbed`) what was answered is a prefix of
what was taken in, afterwards at least nothing is answered twice. `KeepsPromise` says that
`FollowupQueue` implements it, with `accepted`, `ran` and the negation of `Undisturbed`.

### DeliveryQueue and DeliveryStore

Processes are the live sends and the `Recoveries`; a process record says at which await it
is. `Accept` … `PartSent` … `AckRenames`/`AckUnlinks` or `FailReads`/`FailWrites` follow
`deliverOutboundPayloads`, `RecoveryLists` … `RecoveryAttempts` follow
`recoverPendingDeliveries`; both share the send and the bookkeeping, as the code does.
Every send and file operation may fail, `reached` telling whether the recipient has the
payload all the same. What a send throws is transient, permanent, or an `AbortError`, which
the code takes for the caller's abort although a request of the channel that times out
throws one too (`Errors`, `Threw`; `cutOff` are the strict live sends that ended so).

`Start` begins a recovery, which nothing waits for (`server.impl.ts:1251-1263`). `Restart`
is a restart within the process: live sends and earlier recoveries go on, and one more
recovery begins. `Crash` loses everything but the files, and is also the exit of a process with
deliveries in progress; `Stop` is the exit of one without.
Time is abstracted to choice: whether a tried entry is in its backoff, and whether the
recovery budget is used up once something was sent. The budget's deferral counts all
remaining entries at once in the code and one after the other here; they are separate files.
A write of an entry is one step, though two processes that write one entry at the same
moment share a temporary file. Left out: legacy entry migration, chunking, hooks and
cancellation by them, the mirror transcript.

`DeliveryStore` has neither files nor processes, faults or crashes: a delivery is accepted
once, stays in the store (`queued`, or put aside in `failed`) until it is received whole or
given up (by its caller, or by a channel that broke off), and returns only if two senders had it. `KeepsPromise` says that `DeliveryQueue`
implements it for its strict deliveries: `queued` is `onDisk`, `failed` is `parked`,
`received` are the deliveries of which all payloads are in `got`, `disputed` is `shared`.

### HeartbeatWake

One timer with ticks left and kind, pending wakes by target and priority, and batches: the
part of the timer callback after its first await. `SetHandler` may come while batches of
the old handler are under way, as it does at an in-process restart; `overlapped` remembers
that. Of the reason only the priority is kept. The order of targets within a batch is open.

## 4. Runs

| run | question | properties | states |
|---|---|---|---|
| `queue_safety` | two lanes (one configured, with limits 0 and 2), three tasks, one reset: does the queue keep slots and order right, and its promise? | `TypeOK`, `NoLostWakeup`, `SlotsMatchTasks`, `DrainedMeansDone`, `KeepsPromise` | 521 000 |
| `queue_liveness` | a session lane, three tasks, one reset: is every queued entry served? | `QueuedIsServed` | 111 000 |
| `gateway` | two restarts over a message's run and a cron job run by hand, sharing a session | `LoopOK`, `RefusesOnlyInRestart`, `DrainedMeansQuiet`, `OneRunPerSession`, `RunsEnd`, `RestartCompletes` | 125 000 |
| `gateway_lost` | the same with a signal while the server starts | `RestartCompletes` **violated** | |
| `cron` | a cron and a one-shot job, ticks, catch-up, a manual run, an edit, a failed write or crash or aged marker | `TypeOK`, `SingleRun`, `DoneStaysDone`, `RemovedStaysRemoved`, `SlotsAreNotSkipped` | 486 000 |
| `cron_live` | is a due job taken, with runs that fail, additions and troubles? | `DueIsStarted` | 84 000 |
| `cron_reload` | the same of a new service on the same file as a working old one | `DueIsStarted` | 40 000 |
| `approvals` | two requests on ids of which one is a prefix of the other, a late wait, and runs | `TypeOK`, `UndecidedIsListed`, `DecisionStands`, `RunsAsDecided`, `EveryWaitEnds` | 231 000 |
| `followup` | all drop policies and both drain modes, one failing run, one clear, redelivery, reply and command runs | `TypeOK`, `NoLossUndisturbed`, `RunOnce`, `InOrder`, `DiscardedNeverStarts`, `AcceptedIsHandled` | 266 000 |
| `delivery_safety` | a strict and a best-effort delivery of two payloads, two faults, one crash or restart within the process, two recoveries at once | `TypeOK`, `StrictNeverLost`, `AckedNotReplayed`, `RetriesBounded` | 1 340 000 |
| `delivery_lossBestEffort` | is a best-effort delivery kept until it is delivered? | `NeverLost` **violated** | |
| `heartbeat` | two targets, two priorities, two registrations, two batches | `TypeOK`, `PendingHasTimer`, `OneBatch`, `KeepsPriority`, `RetryTimerHolds`, `WakeIsServed` | 199 000 |

The two violations, with the line of the code and the sentence it disagrees with, are
under `findings` in `PROJECT.json`:

* Recovery resends a best-effort delivery without `onError`, so a second failure looks like
  success and the entry is removed.
* A restart signal during `start()` marks the gateway draining but has no server to
  close and resolves the promise of the round before. The loop goes on to wait for a new promise, `resetAllLanes` never runs, and the
  running gateway refuses all work.

### What the code does and the properties leave room for

Some behaviours are as the code has them and no property calls them wrong; each is reachable in the models:

* *Command queue, restart.* `resetAllLanes` preserves queued entries, but runs that wait
  for an inner slot behind an active one are refused during the drain. An inner entry of an
  abandoned run that is still queued is not among the tasks a later drain waits for. A run
  that outlives the drain may overlap with a new run of its session (`docs/concepts/queue.md:83`
  promises one at a time); `OneRunPerSession` excepts such runs. A start that fails in a
  restart gives up the gateway lock, and the next restart in the process does not take it
  again; `LoopOK` excepts that. A run that an earlier restart abandoned may register, or go
  on, after a later drain has found the registry empty; `DrainedMeansQuiet` is about all others.
* *Cron.* A removal whose write fails leaves the job in the file with no timer for it, and
  a start-up that fails never arms one, so `DueIsStarted` speaks of what the memory holds. A service that is stopped in
  a tick is armed again by the end of the tick. Two services on one file overwrite each
  other's changes and may run a job twice, so `SingleRun` is about one service. A job that
  becomes due during the start-up is passed over by its last step (`ops.ts:132`), so
  `SlotsAreNotSkipped` begins after it. Adding
  a job recomputes the next run of every other one (`ops.ts:297`), due ones included, so the
  property also excepts jobs beside which another was added (`Untouched`).
  `cron_reload` has neither edits nor failing writes nor crashes, and excepts a new service whose start-up failed. A forced run of a disabled job loses its marker, as does a
  run longer than `STUCK_RUN_MS` (`disowned`).
* *Exec approvals.* A wait that comes after the 15 s grace takes a decision for unknown. A
  prefix that named an approval which has been deleted may name another one afterwards. The test
  `nowMs > expiresAtMs` leaves next to no time for the path that lets a timed-out approval run.
* *Follow-up queue.* A message that is enqueued behind a run of `agent-command.ts`, while no reply run or
  drain loop is under way, stays until the next reply run or message of the session, since nothing
  drains when that run ends (`docs/concepts/queue.md:30` has it wait for the current run only);
  `AcceptedIsHandled` excepts messages that were left so (`LeftToCommand`). With a summary in followup mode, the head message is shifted off
  although only the summary was run (`drain.ts:152`), an overflow during a run shifts messages the run never had, the
  `finally` of a loop deletes the key also when it maps to a newer queue (`drain.ts:180`),
  and with dropped previews and no items the loop reschedules itself without end
  (`drain.ts:183`). So `NoLossUndisturbed`, `InOrder` and `AcceptedIsHandled` are about queues from which nothing was dropped or cleared.
* *Delivery.* A strict live send whose channel throws an `AbortError` of its own is acknowledged
  and lost, since `isAbortError` (`deliver.ts:258`, `:544-545`) cannot tell it from the caller's abort; requests
  that time out throw one (`utils/fetch-timeout.ts`, used by the channels Signal and BlueBubbles).
  `StrictNeverLost` counts it as given up (`cutOff`); in a recovery the same error is a failure.
  A crash between the send and the rename replays a complete delivery; the two-phase
  acknowledgement only protects what comes after the rename. A recovery may work on an entry together with
  its live send or, after a restart within the process, with an earlier recovery. Both may send it, one
  may write back what the other acknowledged, and one may overwrite the other's retry count;
  `AckedNotReplayed` and `RetriesBounded` except such entries (`shared`).
* *Heartbeat.* A normal timer set during the handler's call is not replaced by the retry
  timer, which shortens the cooldown; `RetryTimerHolds` is about a retry timer that is set.

### Bounds

Queue: three tasks and two lanes are what it takes for nesting (a body that enqueues in its own lane
while another task of it completes), for one zombie beside one current task and one queued
entry, and for one lane to be drained in the middle of another's reset. One reset gives two generations; the
generation check compares for equality only.

Gateway: two runs, one of them with three nested slots, share a session, so that each can
hold what the other needs; two restarts abandon a run and then meet its remains; one later
start may fail. `SignalsInStart` is off but in `gateway_lost`, where it is the subject.

Cron: one job of each kind of schedule, with `maxConcurrentRuns` and the catch-up limit at one so that the other job has to
wait; one moment per job is enough to be due, missed and early; one edit and one trouble
fall at every point of a tick, a catch-up and a manual run. `Outcomes` is `ok` where
deletion and disabling matter, and `transient` with one retry where the next attempt matters. In
`cron_reload` two services take the place of edits and troubles.

Approvals: two requests may reuse one id or have ids of which one is a prefix of the other; one wait
may be early, late or after the deletion; two uses show that an allow-once is used once.

Follow-up: three messages with a capacity of two give overflow while a run is under way,
with one message before, in and after the batch; two queue objects let a queue be replaced
under its loop. Delivery: two payloads tell partial from whole delivery, two faults let a
failure hit its own bookkeeping, one crash or restart within the process falls into each gap between two
file operations, two recoveries are as many as one such restart puts beside each other, and the retry limit of two (five in the code) is reached by a live failure and a recovery.
Heartbeat: two targets and two batches show overlap; ticks for coalescing (1) and retry (2)
are ordered as the code's 250 ms and 1 s are.

The bounds that appear in guards are `MaxGeneration`, `MaxRestarts`, `MaxStartFailures`,
`SignalsInStart`, `Manuals`, `MaxSlot`, `MaxEdits`, `MaxTroubles`, `MaxUses`, `MaxQueues`, `MaxFailures`,
`MaxClears`, `PolicyChanges`, `MaxFaults`, `MaxBreaks`, `Batches` and `MaxHandlers`.

Tasks are interchangeable, and so are recoveries; `queue_safety` and `delivery_safety` use that
symmetry, and no run with a liveness property does. `delivery_safety` also has a VIEW (`MC_View`), which
drops what no later step and no invariant can read: fields of a process for its earlier
steps, the content of deleted files, what was observed of a delivery that is excused for good. Deadlock checking is off where the inputs are finite (all tasks
enqueued, all requests made, the process gone): such a system really stops.
The delivery queue never stops, since the gateway can always be restarted, and is checked for deadlock.

### Fairness

* Command queue: weak fairness of synchronous code (the engine runs it on), strong fairness
  of each task's end. Tasks end because agent runs and cron jobs carry timeouts; strong,
  since other callbacks may keep the stack busy in between and the event loop still serves a settled promise.
* Gateway: the same for the queue; strong fairness of the loop, the polls with their
  deadlines, and of each run's end. The server starts and closes in finite time.
* Cron: weak fairness of the timer, of each step that waits for the lock (the chain serves
  all), and of the start and the end of each run (`executeJobCoreWithTimeout` ends it). A write may fail,
  a run need not succeed, and nobody has to make a request.
* Approvals: weak fairness of time, the two timers and the answers to calls. Nobody has to decide.
* Follow-up queue: weak fairness of the drain loop's steps and of the end of a reply run.
  Failures are bounded, so runs succeed eventually. Nothing is assumed of callers or of command runs.
* Heartbeat: weak fairness of the clock, of the timer callback, and of each batch's call of
  the handler, which returns or throws.
* Delivery: safety only.

## 5. Proofs

All hold for every value of the constants that satisfies the named assumptions; the bounds
play no role in the arguments.

**Command queue** (`CommandQueue_proofs`, `CommandQueue_promise`). `TypeCorrect`;
`NoLostWakeupHolds`. The property speaks of an empty stack only, so it is not inductive.
`WakeInv` is: a raised `draining` flag of a lane has a `pump` frame of that lane somewhere
on the stack, and a lane with work and room has a `pump` frame or a `reset` frame that has
the lane still to drain. Pushing and popping frames is reasoned about through the set of
frames (`PushElems`, `PopElems`); the top frame of a pump leaves only when its lane has no
work, which is what makes the invariant stable. `SlotsMatchTasksHolds` needs `SlotInv`: a
task owns at most one frame and its status fits it (`StackInv`), a queued task is in one
place (`QueueInv`), ids are fresh (`IdInv`). `DrainedMeansDoneHolds` adds that the ids a wait remembers were
given out before. `KeepsPromiseHolds` is the refinement: each action is a step
of `LaneQueue` or a stutter; `SlotsMatchTasks` is what turns the check of
`activeTaskIds.size` into that of the abstract slots.

**Gateway** (`GatewayRestart_proofs`). A step of the gateway is a step of the queue or
leaves lanes and tasks alone (`QueueSteps`), so the invariants above hold
(`GatewayNoLostWakeup`, `GatewaySlotsMatch`, `GatewayDrainedMeansDone`), and so does the promise of
`LaneQueue` (`GatewayKeepsPromise`): the marks of a drain are its `Close`, the reset of a restart its
`Reopen`. `OneRunPerSessionHolds`: a session lane keeps its limit of one (`SerialInv`) and a
run executes inside the task of its session (`NestInv`). `RefusesOnlyInRestartHolds`,
from `LifecycleInv`, and `LoopOKHolds`, from `ServerInv` (the lock is held unless a failed
start or the exit gave it up; a loop that starts and a shutdown that has closed have no server), assume that no signal comes during start-up
(`~SignalsInStart`): with such signals TLC refutes both, which is what `gateway_lost` is about. `DrainedMeansQuietHolds`: `DrainInv` relates the snapshot
of active ids and the refusal of new work during the drain: a run in its global lane has its session's
task in the snapshot, which has ended when all is drained, or was abandoned. `RegisteredInv` says
that only runs that execute there are registered.

**Cron** (`CronScheduler_proofs`). `TypeCorrect` and `DoneStaysDoneHolds` for any number of
services: every record of a one-shot job that succeeded is settled, and the runs and results that are
under way began by now (`DoneInv`). `SingleRunHolds` and `RemovedStaysRemovedHolds` assume `OneService`,
without which both are false. `HeldInv` says why they hold with one: at most one worker has claimed a
job (`OneClaim`); a claimed job that is not disowned has its fresh marker in the memory and in the file until its
result is applied, and the memory holds no initial job the file lacks (`FilesInv`);
nothing is claimed until the markers of an earlier process are cleared (`QuietInv`).
`SlotsAreNotSkippedHolds`, under `OneService` too: a job is open in the file if it is enabled,
recurs, has a time and no marker; what the file says of such a job must come from what the memory
last said. `CarriedInv` is: of a job that is open in the file and untouched (nobody edited it or added
another, and it is not disowned), the memory has the same next time, or a last run that is
not before it. Repairs, markers, timer ticks and requests on other jobs keep it; a job whose
result is being applied is held (`HeldInv`) and therefore not open in the file, so the new time that
is written for it may follow its run.

**Exec approvals** (`ExecApproval_proofs`). `ApprovalInv`: what a record looks like in each
of its phases (`RecordInv`), that map and records agree on ids (`MapInv`), what a call may
have heard of the promise it awaits (`CallInv`). From it `UndecidedIsListedHolds`,
`DecisionStandsHolds` and `RunsAsDecidedHolds`. `LedgerRefined` is the refinement of `Permits`; it
adds that a record closed without a decision has a promise settled with null (`NullInv`).

**Follow-up queue** (`FollowupQueue_proofs`). `TypeCorrect`, with the capacity.
`RunOnceHolds` and `DiscardedNeverStartsHolds`: a message is in one place only (`HeldInv`),
and what a loop leaves in its queue is not in its run (`TakenInv`), which is what makes it
safe to take items off by their number after the await.
`InOrderHolds` and `NoLossUndisturbedHolds` from `FifoInv`: as long as the session is undisturbed,
what was accepted is what ran followed by what waits, in that order, and no queue object
but the current one has a loop or items. The prompt of a run is the front of its queue over the whole
await (`RunsFront`), and the flag `draining` is up exactly while a loop goes on (`LoopInv`),
so no second loop takes the same items. `IntakeRefined` is the refinement of `Inbox`, from these and that the recent ids are
those of the messages accepted (`IntakeInv`).

**Delivery queue** (`DeliveryQueue_proofs`). `TypeCorrect`. `StrictNeverLostHolds`:
`SentInv` says how far a strict send is: all payloads before its next one have arrived, and one that is about to acknowledge has
delivered everything or was aborted, by its caller or by its channel. An entry is renamed away only by such a process or into `failed/`.
`AckedNotReplayedHolds`: `AckedInv` adds that a delivery whose live send has not begun is unknown to the
disk and to the recoveries (`UnknownInv`), that a delivery two of the processes have is in `shared`
(`OverlapInv`), and that a process between the read and the write of `failDelivery` does
not hold an acknowledged entry unless it is shared (`RewriteInv`): two processes on one
delivery are the only way in (`TwoOnOne`). `RetriesBoundedHolds`: `RetryInv` counts, phase by phase,
sends against the retries in the entry and the crashes and faults so far; a restart within the process adds
none, as what it leaves running has the delivery still. `StoreRefined` is the
refinement of `DeliveryStore`: a rename is its `Remove` by `SentInv`, a write of `failDelivery` that brings
an entry back is its `Return` by `RetryInv`, and a delivery is accepted once (`OnceInv`). TLC refutes it with best-effort deliveries counted in, and without `Return`. `GiveUp` may come with the last
part, since a request that timed out may have reached the recipient.

**Heartbeat** (`HeartbeatWake_proofs`). `TypeCorrect` and `PendingHasTimerHolds` from one
invariant (`TimerInv`), since the timer a batch leaves is set to the delay the batch was started with;
`OneBatchHolds` from `FlagInv`: until a handler is registered over a batch, `running` is up
during every batch; the action properties `KeepsPriorityHolds` and `RetryTimerHoldsAlways`.

The refinements of `DeliveryStore`, `Permits` and `Inbox` are proved and not part of the runs; with
`KeepsPromise` as a PROPERTY of the instances of `delivery_safety`, `approvals` and `followup` TLC agrees.

Every invariant and action property of the passing runs is thereby a theorem, for every value of the
constants (of those that `OneService` or `~SignalsInStart` allow, where a theorem assumes them). Only model-checked: liveness (`QueuedIsServed`, `RunsEnd`, `RestartCompletes`,
`DueIsStarted`, `EveryWaitEnds`, `AcceptedIsHandled`, `WakeIsServed`), which is out of the
prover's reach, as would be facts about recursive definitions; the modules have none.

## 6. Not modelled

See `components` in `PROJECT.json`: what is planned (section 2), what is sequential logic
that unit tests reach (rate limits, model fallback), what is wording or I/O (protocol
framing, memory search, adapters), and the separate programs around the gateway (apps, web
UI, hosted backend). Most of the repository is of the last two kinds; the models cover the
queues, timers and files through which the gateway's work goes.
