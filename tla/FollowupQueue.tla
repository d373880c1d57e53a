---------------------------- MODULE FollowupQueue ---------------------------
(***************************************************************************)
(* The follow-up queue of one session key: messages that arrive while an   *)
(* agent run of the session is active wait for the next turn               *)
(* (src/src/auto-reply/reply/queue/*.ts, src/src/utils/queue-helpers.ts).  *)
(*                                                                         *)
(* The registry maps the key to a queue object.  A drain loop holds on to  *)
(* the object it started with, across awaits, while other callbacks push   *)
(* to the object, drop from its front, or remove it from the registry, so  *)
(* objects have identities here: `current' is the one the key maps to and  *)
(* 0 stands for none.  An object's drain loop is at one of                 *)
(*   "idle"     no loop                                                    *)
(*   "debounce" awaiting waitForQueueDebounce                              *)
(*   "checked"  found one route for all items, about to collect them       *)
(*   "running"  awaiting runFollowup on the prompt it has built            *)
(***************************************************************************)
EXTENDS Integers, Sequences, FiniteSets

CONSTANTS
    Msgs,        \* messages, each with a message id of its own
    Routes,      \* where replies go: channel, recipient, account, thread
    Route,       \* the route of each message
    Cap,         \* capacity of a queue
    Modes,       \* queue modes callers pass
    Policies,    \* drop policies callers pass
    PolicyChanges, \* bound: whether callers change the drop policy
    MaxQueues,   \* bound: queue objects ever created
    MaxFailures, \* bound: runs that fail
    MaxClears    \* bound: calls of clearSessionQueues

ASSUME ConstantsAssumption ==
    /\ Route \in [Msgs -> Routes]
    /\ Cap \in Nat \ {0}
    /\ Modes \subseteq {"collect", "followup"}
    /\ Policies \subseteq {"old", "new", "summarize"}
    /\ PolicyChanges \in BOOLEAN
    /\ MaxQueues \in Nat /\ MaxFailures \in Nat /\ MaxClears \in Nat

VARIABLES
    current,   \* FOLLOWUP_QUEUES.get(key), 0 when absent
    created,   \* number of queue objects created
    items,     \* per object: messages waiting, oldest first
    dropped,   \* per object: messages counted in droppedCount
    mode,      \* per object
    policy,    \* per object: dropPolicy
    draining,  \* per object
    drain,     \* per object: its drain loop
    recent,    \* message ids in RECENT_QUEUE_MESSAGE_IDS
    primary,   \* a reply run of runReplyAgent is under way
    command,   \* a run of agent-command.ts is active in the session
    accepted,  \* messages enqueueFollowupRun returned true for, in order
    ran,       \* messages whose prompt a successful run got, in order
    summarized,\* messages whose preview a successful run got
    discarded, \* messages thrown away on request: cleared, or dropPolicy old
    failures,  \* failed runs so far
    clears     \* clears so far

objVars == <<items, dropped, mode, policy, draining, drain>>
logVars == <<accepted, ran, summarized, discarded>>
vars == <<current, created, objVars, recent, primary, command, logVars,
          failures, clears>>

Objects == 1..MaxQueues
Idle == [pc |-> "idle", force |-> FALSE, msgs |-> <<>>, summary |-> {}, take |-> 0]
At(pc, force) == [Idle EXCEPT !.pc = pc, !.force = force]
Members(s) == {s[i] : i \in DOMAIN s}
HasWork(q) == items[q] # <<>> \/ dropped[q] # {}

Init ==
    /\ current = 0 /\ created = 0
    /\ items = [q \in Objects |-> <<>>]
    /\ dropped = [q \in Objects |-> {}]
    /\ mode \in [Objects -> Modes] /\ \A p, q \in Objects : mode[p] = mode[q]
    /\ policy \in [Objects -> Policies] /\ \A p, q \in Objects : policy[p] = policy[q]
    /\ draining = [q \in Objects |-> FALSE]
    /\ drain = [q \in Objects |-> Idle]
    /\ recent = {}
    /\ primary = FALSE /\ command = FALSE
    /\ accepted = <<>> /\ ran = <<>> /\ summarized = {} /\ discarded = {}
    /\ failures = 0 /\ clears = 0

-----------------------------------------------------------------------------
(* scheduleFollowupDrain, when the key maps to object q (0: none), `work'  *)
(* says which objects hold anything, and `loops' and `flags' are drain and *)
(* draining so far.  A drain that finds nothing to do ends at once.        *)
ScheduleDrain(q, work, loops, flags) ==
    /\ drain' = IF q # 0 /\ ~flags[q] /\ work[q]
                THEN [loops EXCEPT ![q] = At("debounce", FALSE)] ELSE loops
    /\ draining' = IF q # 0 /\ work[q] THEN [flags EXCEPT ![q] = TRUE] ELSE flags
    /\ current' = IF q # 0 /\ ~flags[q] /\ ~work[q] THEN 0 ELSE q

(* The mutant of Finish does not schedule the drain again.                 *)
FinishOnly(q, work) ==
    /\ drain' = [drain EXCEPT ![q] = Idle]
    /\ draining' = [draining EXCEPT ![q] = FALSE]
    /\ current' = IF work[q] THEN current ELSE 0

(* finally of the drain loop of q.  An object that holds nothing removes   *)
(* the key from the registry, whatever object the key maps to by then;     *)
(* otherwise the drain of the key is scheduled again.                      *)
Finish(q, work) ==
    LET loops == [drain EXCEPT ![q] = Idle]
        flags == [draining EXCEPT ![q] = FALSE]
    IN  IF ~work[q]
        THEN current' = 0 /\ drain' = loops /\ draining' = flags
        ELSE ScheduleDrain(current, work, loops, flags)

Work == [q \in Objects |-> HasWork(q)]

-----------------------------------------------------------------------------
(* applyQueueDropPolicy: how many of the oldest items make room; the       *)
(* mutant lets the queue grow one over its cap.                            *)
ExcessLate(q) == IF Len(items[q]) <= Cap THEN 0 ELSE Len(items[q]) - Cap + 1
Excess(q) == IF Len(items[q]) < Cap THEN 0 ELSE Len(items[q]) - Cap + 1
Front(q) == {items[q][i] : i \in 1..Excess(q)}

(* The queue after the drop policy and the push; the mutant's is the      *)
(* queue of a push to the wrong end.                                       *)
PushedFront(m, q) == <<m>> \o SubSeq(items[q], Excess(q) + 1, Len(items[q]))
Pushed(m, q) == Append(SubSeq(items[q], Excess(q) + 1, Len(items[q])), m)

(* The message id is among the recent ones or in the queue; the mutant     *)
(* looks at the queue only.                                                *)
InQueueOnly(m, q) == m \in Members(items[q])
Duplicate(m, q) == m \in recent \/ m \in Members(items[q])

(* enqueueFollowupRun, and the check of its caller in agent-runner.ts: the *)
(* caller found an active run before, looks again, and schedules the drain *)
(* itself if none is active.  A command run is active until it ends; with  *)
(* a reply run or a follow-up the second look may go either way, as parts  *)
(* of these turns have no run registered.  getFollowupQueue has created    *)
(* the object and applied the settings before a duplicate is found.        *)
(* `restart' is restartIfIdle, FALSE from this caller and TRUE by default: *)
(* an accepted message then starts the drain itself, with the callback it  *)
(* has brought along, which tells only where the caller would not.         *)
(* (Messages, also rejected ones, put off the end of a debounce; how long  *)
(* it takes is left open.)                                                 *)
Enqueue(m, md, pol, active, restart) ==
    LET q == IF current = 0 THEN created + 1 ELSE current
        taken == ~Duplicate(m, q) /\ ~(Excess(q) > 0 /\ pol = "new")
    IN  /\ q \in Objects
        /\ PolicyChanges \/ pol = policy[q]
        /\ active => primary \/ command \/ \E p \in Objects : drain[p].pc = "running"
        /\ command => active
        /\ restart => active
        /\ created' = IF current = 0 THEN created + 1 ELSE created
        /\ mode' = [mode EXCEPT ![q] = md]
        /\ policy' = [policy EXCEPT ![q] = pol]
        /\ IF taken
           THEN /\ items' = [items EXCEPT ![q] = Pushed(m, q)]
                /\ dropped' = IF pol = "summarize"
                              THEN [dropped EXCEPT ![q] = @ \cup Front(q)] ELSE dropped
                /\ discarded' = IF pol = "old" THEN discarded \cup Front(q) ELSE discarded
                /\ recent' = recent \cup {m}
                /\ accepted' = Append(accepted, m)
           ELSE UNCHANGED <<items, dropped, discarded, recent, accepted>>
        /\ IF active /\ ~(restart /\ taken)
           THEN current' = q /\ UNCHANGED <<drain, draining>>
           ELSE ScheduleDrain(q, [Work EXCEPT ![q] = @ \/ taken], drain, draining)
        /\ UNCHANGED <<ran, summarized, primary, command, failures, clears>>

(* A reply run starts, and ends with finalizeWithFollowup.                 *)
PrimaryStarts ==
    /\ ~primary
    /\ primary' = TRUE
    /\ UNCHANGED <<current, created, objVars, recent, command, logVars, failures, clears>>

PrimaryEnds ==
    /\ primary
    /\ primary' = FALSE
    /\ ScheduleDrain(current, Work, drain, draining)
    /\ UNCHANGED <<created, items, dropped, mode, policy, recent, command, logVars,
                   failures, clears>>

(* A run of the agent RPC or of a subagent's announcement is registered in *)
(* the session, and ends without a look at the queue.                      *)
CommandRun ==
    /\ command' = ~command
    /\ UNCHANGED <<current, created, objVars, recent, primary, logVars, failures, clears>>

(* What clearFollowupQueue leaves in the object; the mutant only takes the *)
(* object out of the registry.                                             *)
NothingCleared(q) == items[q]
Cleared(q) == <<>>

(* clearSessionQueues.                                                     *)
Clear ==
    /\ clears < MaxClears
    /\ current # 0
    /\ clears' = clears + 1
    /\ discarded' = discarded \cup Members(items[current]) \cup dropped[current]
    /\ items' = [items EXCEPT ![current] = Cleared(current)]
    /\ dropped' = [dropped EXCEPT ![current] = {}]
    /\ current' = 0
    /\ UNCHANGED <<created, mode, policy, draining, drain, recent, primary, command,
                   accepted, ran, summarized, failures>>

-----------------------------------------------------------------------------
(* The drain loop.                                                         *)

HasSummary(q) == policy[q] = "summarize" /\ dropped[q] # {}

CrossChannel(q) == Cardinality({Route[m] : m \in Members(items[q])}) > 1

(* The loop calls runFollowup; it will take `take' items off when done.    *)
StartRun(q, force, msgs, summary, take) ==
    /\ drain' = [drain EXCEPT ![q] = [pc |-> "running", force |-> force, msgs |-> msgs,
                                      summary |-> summary, take |-> take]]
    /\ UNCHANGED <<current, draining>>

(* The loop wakes up from the debounce.  In collect mode items of several  *)
(* routes, and from then on all items of this drain, are run one by one.   *)
DrainWakes(q) ==
    LET collect == mode[q] = "collect"
        force == drain[q].force \/ (collect /\ CrossChannel(q))
    IN  /\ drain[q].pc = "debounce"
        /\ \/ /\ collect /\ ~force
              /\ drain' = [drain EXCEPT ![q] = At("checked", FALSE)]
              /\ UNCHANGED <<current, draining>>
           \/ /\ ~collect \/ force
              /\ items[q] = <<>>
              /\ Finish(q, Work)
           \/ /\ ~collect /\ items[q] # <<>> /\ HasSummary(q)
              /\ StartRun(q, force, <<>>, dropped[q], 1)
           \/ /\ IF collect THEN force ELSE ~HasSummary(q)
              /\ items[q] # <<>>
              /\ StartRun(q, force, <<Head(items[q])>>, {}, 1)
        /\ UNCHANGED <<created, items, dropped, mode, policy, recent, primary, command, logVars,
                       failures, clears>>

(* drainCollectQueueStep has returned "skipped", some microtasks later:    *)
(* only now are the items copied into one prompt.                          *)
DrainCollects(q) ==
    /\ drain[q].pc = "checked"
    /\ IF HasWork(q)
       THEN StartRun(q, FALSE, items[q], IF HasSummary(q) THEN dropped[q] ELSE {},
                     Len(items[q]))
       ELSE Finish(q, Work)
    /\ UNCHANGED <<created, items, dropped, mode, policy, recent, primary, command, logVars,
                   failures, clears>>

(* items.shift() or items.splice(0, items.length) after the run; the       *)
(* mutant takes all that is there by then.                                 *)
AllTaken(q) == <<>>
Remaining(q) == SubSeq(items[q], drain[q].take + 1, Len(items[q]))

RunSucceeds(q) ==
    LET dr == IF drain[q].summary # {} THEN {} ELSE dropped[q]
        its == Remaining(q)
    IN  /\ drain[q].pc = "running"
        /\ items' = [items EXCEPT ![q] = its]
        /\ dropped' = [dropped EXCEPT ![q] = dr]
        /\ ran' = ran \o drain[q].msgs
        /\ summarized' = summarized \cup drain[q].summary
        /\ IF its # <<>> \/ dr # {}
           THEN /\ drain' = [drain EXCEPT ![q] = At("debounce", drain[q].force)]
                /\ UNCHANGED <<current, draining>>
           ELSE Finish(q, [Work EXCEPT ![q] = FALSE])
        /\ UNCHANGED <<created, mode, policy, recent, primary, command, accepted,
                       discarded, failures, clears>>

RunFails(q) ==
    /\ drain[q].pc = "running"
    /\ failures < MaxFailures
    /\ failures' = failures + 1
    /\ Finish(q, Work)
    /\ UNCHANGED <<created, items, dropped, mode, policy, recent, primary, command, logVars, clears>>

-----------------------------------------------------------------------------
DrainStep(q) == DrainWakes(q) \/ DrainCollects(q) \/ RunSucceeds(q)

Next ==
    \/ \E m \in Msgs, md \in Modes, pol \in Policies, active, restart \in BOOLEAN :
          Enqueue(m, md, pol, active, restart)
    \/ PrimaryStarts
    \/ PrimaryEnds
    \/ CommandRun
    \/ Clear
    \/ \E q \in Objects : DrainStep(q) \/ RunFails(q)

(* Timers and microtasks are served and agent runs end.                    *)
Fairness == WF_vars(PrimaryEnds) /\ \A q \in Objects : WF_vars(DrainStep(q))

Spec == Init /\ [][Next]_vars
FairSpec == Spec /\ Fairness

-----------------------------------------------------------------------------
(* Properties.                                                             *)

TypeOK ==
    /\ current \in 0..MaxQueues /\ created \in 0..MaxQueues
    /\ items \in [Objects -> Seq(Msgs)]
    /\ \A q \in Objects : Len(items[q]) <= Cap
    /\ dropped \in [Objects -> SUBSET Msgs]
    /\ mode \in [Objects -> Modes] /\ policy \in [Objects -> Policies]
    /\ draining \in [Objects -> BOOLEAN]
    /\ drain \in [Objects -> [pc : {"idle", "debounce", "checked", "running"},
                              force : BOOLEAN, msgs : Seq(Msgs), summary : SUBSET Msgs,
                              take : Nat]]
    /\ primary \in BOOLEAN /\ command \in BOOLEAN
    /\ recent \subseteq Msgs
    /\ accepted \in Seq(Msgs) /\ ran \in Seq(Msgs)
    /\ summarized \subseteq Msgs /\ discarded \subseteq Msgs
    /\ failures \in 0..MaxFailures /\ clears \in 0..MaxClears

(* An accepted message is never lost: it waits in an object the registry   *)
(* or a drain loop still knows, is in the prompt or the summary of a run,  *)
(* or has had its run, its preview or its discard.  The queue mutates the  *)
(* items a drain is working on, across the await of the run.               *)
Known(q) == q = current \/ draining[q]
Waiting == UNION {Members(items[q]) \cup dropped[q] : q \in {p \in Objects : Known(p)}}
InFlight == UNION {Members(drain[q].msgs) \cup drain[q].summary : q \in Objects}
Done == Members(ran) \cup summarized \cup discarded
NoSilentLoss == Members(accepted) \subseteq Waiting \cup InFlight \cup Done

(* The same as long as nothing was dropped or cleared, whatever modes and  *)
(* policies are in force and whatever run fails.                           *)
Undisturbed == clears = 0 /\ discarded = {} /\ summarized = {} /\ \A q \in Objects : dropped[q] = {}
NoLossUndisturbed == Undisturbed => NoSilentLoss

(* A redelivered message is not answered twice: it is in the prompt of at  *)
(* most one successful run, even if it comes back when its run is over.    *)
RunOnce == \A i, j \in DOMAIN ran : ran[i] = ran[j] => i = j

(* Messages are answered in the order they were accepted, also when runs   *)
(* fail and are retried while new messages come in, as long as nothing is  *)
(* dropped or cleared.                                                     *)
InOrder ==
    Undisturbed => \A i, j \in DOMAIN ran : i < j =>
        \E k, l \in DOMAIN accepted : k < l /\ accepted[k] = ran[i] /\ accepted[l] = ran[j]

(* A message discarded before its run starts never gets a run: a drain     *)
(* that was debouncing when the queue was cleared finds nothing.           *)
DiscardedNeverStarts ==
    [][\A m \in discarded : m \notin InFlight => m \notin InFlight']_vars

(* Every accepted message is eventually answered, whatever run fails, as   *)
(* long as nothing is dropped or cleared, or it was once left to a command *)
(* run: it waits while neither a drain loop nor a reply run is under way,  *)
(* and nobody looks at the queue when a command run ends.  From when a     *)
(* loop or a reply run is under way it will be answered in any case.       *)
Waits(m) == current # 0 /\ m \in Members(items[current])
Attended(m) == Waits(m) /\ (primary \/ draining[current])
LeftToCommand(m) == Waits(m) /\ command /\ ~Attended(m)
Handled(m) == m \in Done \/ ~Undisturbed
AcceptedIsHandled ==
    \A m \in Msgs : /\ Attended(m) ~> Handled(m)
                    /\ <>LeftToCommand(m) \/ (m \in Members(accepted) ~> Handled(m))

(* The queue keeps the promise of Inbox: seen without objects, loops and   *)
(* modes, every step takes in a message, answers a batch or disturbs.      *)
Intake == INSTANCE Inbox WITH
    Messages <- Msgs, taken <- accepted, answered <- ran, disturbed <- ~Undisturbed
KeepsPromise == Intake!Spec
=============================================================================
