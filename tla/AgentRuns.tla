------------------------------ MODULE AgentRuns -----------------------------
(***************************************************************************)
(* Agent runs on top of the command queue                                  *)
(* (src/src/agents/pi-embedded-runner/run.ts and lanes.ts).  A run is a    *)
(* task in the lane of its session whose body enqueues a second task in a  *)
(* global lane and waits for it.  A cron job that is run by hand is a task *)
(* of the cron lane that starts such a run and waits for it                *)
(* (src/src/cron/service/ops.ts).  So slots of up to three lanes are held  *)
(* while waiting for the next one.                                         *)
(***************************************************************************)
EXTENDS CommandQueue

CONSTANTS
    Runs,     \* the agent runs that may ever be asked for
    CronRuns, \* those that belong to a cron job run by hand
    Session,  \* per run: the lane of its session
    Main, Cron, Nested \* the global lanes

SessionEntry(r) == <<"session", r>>
GlobalEntry(r)  == <<"global", r>>
ManualEntry(r)  == <<"manual", r>>

ASSUME RunsAssumption ==
    /\ CronRuns \subseteq Runs
    /\ {Main, Cron, Nested} \subseteq Lanes
    /\ Session \in [Runs -> Lanes \ ({Main, Cron, Nested} \cup Configured)]
    /\ Tasks = ({"session", "global"} \X Runs) \cup ({"manual"} \X CronRuns)

(* The lane a caller asks for; the mutant of GlobalLane takes it as it is. *)
AskedLane(r) == IF r \in CronRuns THEN Cron ELSE Main
(* resolveNestedAgentLane and resolveGlobalLane.                           *)
GlobalLane(r) == IF AskedLane(r) = Cron THEN Nested ELSE AskedLane(r)

EntryLane == [e \in Tasks |->
    CASE e[1] = "session" -> Session[e[2]]
      [] e[1] = "global"  -> GlobalLane(e[2])
      [] e[1] = "manual"  -> Cron]

RunsInit == laneOf = EntryLane /\ Init

-----------------------------------------------------------------------------
Submit(e) == Enqueue(e) \/ EnqueueRefused(e)

(* runEmbeddedPiAgent is called for a message.                             *)
Arrives(r) ==
    /\ stack = <<>> /\ r \notin CronRuns
    /\ Submit(SessionEntry(r))

(* enqueueRun of the cron service, and the job's call of the agent.        *)
RunByHand(r) ==
    /\ stack = <<>> /\ r \in CronRuns
    /\ Submit(ManualEntry(r))

JobRuns(r) ==
    /\ stack = <<>> /\ r \in CronRuns
    /\ status[ManualEntry(r)] = "running"
    /\ Submit(SessionEntry(r))

(* The body of a session task calls enqueueGlobal before its first await.  *)
Nests(r) ==
    /\ TopIs("body") /\ Head(stack).task = SessionEntry(r)
    /\ Submit(GlobalEntry(r))

Awaits ==
    /\ TopIs("body")
    /\ \A r \in Runs : Head(stack).task = SessionEntry(r) => status[GlobalEntry(r)] # "idle"
    /\ BodyAwaits

(* The agent run is over, how makes no difference to the lanes; the tasks  *)
(* around it end when it has settled.                                      *)
GlobalEnds(r) == TaskEnds(GlobalEntry(r), "resolved")

SessionEnds(r) ==
    /\ status[GlobalEntry(r)] \in Settled
    /\ TaskEnds(SessionEntry(r), IF status[GlobalEntry(r)] = "resolved"
                                 THEN "resolved" ELSE "rejected")

JobEnds(r) ==
    /\ r \in CronRuns
    /\ status[SessionEntry(r)] \in Settled
    /\ TaskEnds(ManualEntry(r), "resolved")

QueueRuns ==
    \/ \E l \in Lanes : PumpStarts(l) \/ PumpReturns(l) \/ ResetDrains(l)
    \/ ResetReturns
    \/ Settles
    \/ Awaits
    \/ \E r \in Runs : Nests(r)

-----------------------------------------------------------------------------
(* A session's runs do not overlap.  Only a run that lost its slot to a    *)
(* reset, because it outlived the drain, may go on beside a later one.     *)
Executing(r) == status[GlobalEntry(r)] = "running"
Abandoned(r) == status[SessionEntry(r)] = "running" /\ ~IsCurrent(SessionEntry(r))
OneRunPerSession ==
    \A r, q \in Runs :
        r # q /\ Session[r] = Session[q] /\ Executing(r) /\ Executing(q)
            => Abandoned(r) \/ Abandoned(q)
=============================================================================
