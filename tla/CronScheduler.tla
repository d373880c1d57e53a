---------------------------- MODULE CronScheduler ----------------------------
(***************************************************************************)
(* The cron service (src/src/cron/service/*.ts): jobs in one JSON file, a  *)
(* copy of it in the memory of each service, one timer per service, manual *)
(* runs, edits, and the catch-up of a service that starts.                 *)
(*                                                                         *)
(* Every access to the store is a callback of locked(), which chains them  *)
(* per file; so a callback is one step, whose write may fail.  Jobs run    *)
(* outside the lock, between two such steps.                               *)
(*                                                                         *)
(* Time is counted per job: clock[j] is the number of moments at which j   *)
(* was to run that have passed, and a time (nextRunAtMs, lastRunAtMs, the  *)
(* `at' of a one-shot job) is such a number, 0 for none.  The next moment  *)
(* in the future is always clock[j] + 1.  A running marker is "fresh", or  *)
(* "stuck" when it is older than STUCK_RUN_MS.                             *)
(***************************************************************************)
EXTENDS Integers, FiniteSets, Functions

CONSTANTS
    Jobs,              \* job ids
    Kind,              \* of each job: "every", "cron", or "at" for a one-shot
    InitialJobs,       \* the jobs that are in the file at first
    Services,          \* cron services that may be created in one process
    NoService,         \* there is none
    Manuals,           \* bound: manual runs
    MaxConcurrentRuns, \* cron.maxConcurrentRuns
    MaxMissed,         \* maxMissedJobsPerRestart
    MaxAttempts,       \* cron.retry.maxAttempts, of one-shot jobs
    Outcomes,          \* of runs: a set of "ok", "skipped", "transient" and "permanent"
    MaxSlot,           \* bound: moments per job
    MaxEdits,          \* bound: adds, updates and removals
    MaxTroubles        \* bound: writes that fail, crashes, and passings of STUCK_RUN_MS

ASSUME ConstantsAssumption ==
    /\ Kind \in [Jobs -> {"every", "cron", "at"}]
    /\ InitialJobs \subseteq Jobs
    /\ NoService \notin Services
    /\ Outcomes \subseteq {"ok", "skipped", "transient", "permanent"}
    /\ MaxConcurrentRuns \in Nat \ {0} /\ MaxMissed \in Nat /\ MaxAttempts \in Nat
    /\ MaxSlot \in Nat /\ MaxEdits \in Nat /\ MaxTroubles \in Nat

VARIABLES
    disk,     \* the file: a record for each job that exists
    store,    \* per service: its copy in memory
    timer,    \* the services whose timer is armed
    work,     \* per service: its timer tick and its start-up
    manual,   \* per manual run: how far it is
    clock,    \* per job: moments that have passed
    current,  \* the service that requests go to
    edits,    \* how often a job was added, updated or removed
    edited,   \* the jobs to which that happened
    troubles, \* failed writes, crashes and passings of STUCK_RUN_MS so far
    disowned  \* jobs that lost their marker while a run of them was going on

vars == <<disk, store, timer, work, manual, clock, current, edits, edited, troubles, disowned>>

Recurring(j) == Kind[j] # "at"

Records == [enabled : BOOLEAN, next : Nat, marker : {"none", "fresh", "stuck"},
            status : {"none", "ok", "skipped", "error"}, errors : 0..MaxAttempts + 1,
            at : Nat, last : Nat \cup {-1}, deleteAfterRun : BOOLEAN]
NewJob(n, d) == [enabled |-> TRUE, next |-> n, marker |-> "none", status |-> "none",
                 errors |-> 0, at |-> n, last |-> -1, deleteAfterRun |-> d]

(* A tick and a start-up have the same shape: jobs taken and not begun,    *)
(* runs with the time they began, results, and the jobs they set aside.    *)
(* The job objects of a tick are live until the memory is read again.      *)
Idle == [pc |-> "idle", todo |-> {}, runs |-> <<>>, results |-> <<>>,
         aside |-> {}, live |-> FALSE]
Tick(s) == <<"tick", s>>
Boot(s) == <<"boot", s>>
Workers == {"tick", "boot"} \X Services
NoRun == [pc |-> "idle", by |-> NoService, job |-> NoService, started |-> 0, outcome |-> "ok"]
Over == [NoRun EXCEPT !.pc = "done"]

Init ==
    /\ \E D \in SUBSET {j \in InitialJobs : ~Recurring(j)} :
          disk = [j \in InitialJobs |-> NewJob(1, j \in D)]
    /\ store = [s \in Services |-> <<>>]
    /\ timer = {}
    /\ work = [w \in Workers |-> Idle]
    /\ manual = [m \in Manuals |-> NoRun]
    /\ clock = [j \in Jobs |-> 0]
    /\ current = NoService
    /\ edits = 0 /\ edited = {}
    /\ troubles = 0
    /\ disowned = {}

-----------------------------------------------------------------------------
(* Time and schedules.                                                     *)

Due(j, r) == r.next # 0 /\ r.next <= clock[j]

(* computeJobNextRunAtMs.  A one-shot job that succeeded is only armed     *)
(* again if it was moved to a later time; a mutant forgets that.  Another  *)
(* computes the moment before, as computeJobPreviousRunAtMs does.          *)
NextRunAgain(j, r) ==
    IF ~r.enabled THEN 0 ELSE IF Recurring(j) THEN clock[j] + 1 ELSE r.at
NextRunBefore(j, r) ==
    IF ~r.enabled THEN 0 ELSE IF Recurring(j) THEN clock[j] - 1 ELSE r.at
NextRun(j, r) ==
    IF ~r.enabled \/ (~Recurring(j) /\ r.status = "ok" /\ r.at <= r.last) THEN 0
    ELSE IF Recurring(j) THEN clock[j] + 1 ELSE r.at

(* isRunnableJob, in a tick. *)
Runnable(j, r) == r.enabled /\ r.marker = "none" /\ Due(j, r)

(* isRunnableJob, at start-up: one-shot jobs that have run only if they    *)
(* wait for a retry, and cron jobs also if a moment has passed since their *)
(* last run, unless they are in the backoff of an error: it is as long as  *)
(* the build's clock says.                                                 *)
Overdue(j, r) ==
    /\ Runnable(j, r)
    /\ Recurring(j) \/ r.status = "none" \/ (r.status = "error" /\ r.next > r.last)
SlotMissed(j, r) ==
    /\ r.enabled /\ r.marker = "none" /\ ~Due(j, r)
    /\ Kind[j] = "cron" /\ r.last >= 0 /\ clock[j] > r.last
MayBackOff(j, r) == SlotMissed(j, r) /\ r.status = "error" /\ r.next # 0

(* normalizeJobTickState. *)
Normalized(r) ==
    IF ~r.enabled THEN [r EXCEPT !.next = 0, !.marker = "none"]
    ELSE IF r.marker = "stuck" THEN [r EXCEPT !.marker = "none"]
    ELSE r

(* recomputeNextRuns; and recomputeNextRunsForMaintenance, which repairs   *)
(* missing times, and with `expired' advances past ones that have been     *)
(* executed, but skips no moment.  The mutant does as recomputeNextRuns.   *)
Recomputed(f) ==
    [j \in DOMAIN f |->
        LET r == Normalized(f[j])
        IN  IF r.enabled /\ (r.next = 0 \/ Due(j, r))
            THEN [r EXCEPT !.next = NextRun(j, r)] ELSE r]
MaintenanceSkips(f, expired) == Recomputed(f)
Maintenance(f, expired) ==
    [j \in DOMAIN f |->
        LET r == Normalized(f[j])
            executed == Due(j, r) /\ r.marker = "none" /\ r.last >= r.next
        IN  IF r.enabled /\ (r.next = 0 \/ (expired /\ executed))
            THEN [r EXCEPT !.next = NextRun(j, r)] ELSE r]

(* applyJobResult, unless the job is deleted. *)
Errors(r, res) ==
    IF res.outcome \notin {"transient", "permanent"} THEN 0
    ELSE IF r.errors > MaxAttempts THEN r.errors ELSE r.errors + 1
Retried(r, res) == res.outcome = "transient" /\ Errors(r, res) <= MaxAttempts
Applied(j, r, res) ==
    LET again == IF Recurring(j) THEN r.enabled ELSE Retried(r, res)
    IN  [r EXCEPT !.marker = "none", !.last = res.started, !.errors = Errors(r, res),
                  !.status = IF Errors(r, res) > 0 THEN "error" ELSE res.outcome,
                  !.enabled = r.enabled /\ again,
                  !.next = IF again THEN clock[j] + 1 ELSE 0]
Deleted(j, r, res) == ~Recurring(j) /\ r.deleteAfterRun /\ res.outcome = "ok"

(* applyOutcomeToStoredJob, for each result: that of a job that is gone is *)
(* discarded.  The mutant writes it and so brings the job back.            *)
AppliedAlso(f, results) ==
    [j \in DOMAIN f \cup DOMAIN results |->
        IF j \notin DOMAIN results THEN f[j]
        ELSE Applied(j, IF j \in DOMAIN f THEN f[j] ELSE NewJob(1, FALSE), results[j])]
AppliedAll(f, results) ==
    [j \in {k \in DOMAIN f : k \notin DOMAIN results \/ ~Deleted(k, f[k], results[k])} |->
        IF j \in DOMAIN results THEN Applied(j, f[j], results[j]) ELSE f[j]]

Marked(f, S) == [j \in DOMAIN f |-> IF j \in S THEN [f[j] EXCEPT !.marker = "fresh"] ELSE f[j]]

-----------------------------------------------------------------------------
(* Memory, file and timer.                                                 *)

(* persist: the memory of s becomes f, and so does the file if the write   *)
(* succeeds (ok).  Some callbacks write only if they changed f from g.     *)
Persists(s, f, ok) ==
    /\ store' = [store EXCEPT ![s] = f]
    /\ disk' = IF ok THEN f ELSE disk
    /\ ok \/ troubles < MaxTroubles
    /\ troubles' = IF ok THEN troubles ELSE troubles + 1
PersistsChange(s, f, g, ok) ==
    IF f # g THEN Persists(s, f, ok)
    ELSE ok /\ store' = [store EXCEPT ![s] = f] /\ UNCHANGED <<disk, troubles>>

(* armTimer: there is a job to wake up for.  The mutant arms it only for   *)
(* moments to come.                                                        *)
ArmedAhead(s, f) ==
    IF \E j \in DOMAIN f : f[j].enabled /\ f[j].next > clock[j]
    THEN timer \cup {s} ELSE timer \ {s}
Armed(s, f) ==
    IF \E j \in DOMAIN f : f[j].enabled /\ f[j].next # 0
    THEN timer \cup {s} ELSE timer \ {s}

With(f, j, v) == [k \in DOMAIN f \cup {j} |-> IF k = j THEN v ELSE f[k]]
Without(f, j) == Restrict(f, DOMAIN f \ {j})

-----------------------------------------------------------------------------
(* The timer tick: onTimer.  One that finds another running only arms the  *)
(* timer again, which is still armed here.                                 *)

TickFires(s) ==
    /\ s \in timer
    /\ work[Tick(s)].pc = "idle"
    /\ work' = [work EXCEPT ![Tick(s)].pc = "check"]
    /\ UNCHANGED <<disk, store, timer, manual, clock, current, edits, edited, troubles, disowned>>

TickChecks(s, ok) ==
    LET due == {j \in DOMAIN disk : Runnable(j, disk[j])}
    IN  /\ work[Tick(s)].pc = "check"
        /\ IF due = {}
           THEN PersistsChange(s, Maintenance(disk, TRUE), disk, ok)
           ELSE Persists(s, Marked(disk, due), ok)
        /\ work' = [work EXCEPT ![Tick(s)] =
               IF ok /\ due # {}
               THEN [@ EXCEPT !.pc = "run", !.todo = due, !.live = TRUE]
               ELSE [@ EXCEPT !.pc = "end"]]
        /\ UNCHANGED <<timer, manual, clock, current, edits, edited, disowned>>

(* runDueJob and runStartupCatchupCandidate: a job begins, and ends.  A    *)
(* tick marks the job object again, in memory only.                        *)
RunStarts(w, j) ==
    /\ work[w].pc = "run"
    /\ j \in work[w].todo
    /\ Cardinality(DOMAIN work[w].runs) < IF w[1] = "tick" THEN MaxConcurrentRuns ELSE 1
    /\ work' = [work EXCEPT ![w].todo = @ \ {j}, ![w].runs = With(@, j, clock[j])]
    /\ store' = IF work[w].live THEN [store EXCEPT ![w[2]] = Marked(@, {j})] ELSE store
    /\ UNCHANGED <<disk, timer, manual, clock, current, edits, edited, troubles, disowned>>

RunEnds(w, j, o) ==
    /\ j \in DOMAIN work[w].runs
    /\ work' = [work EXCEPT ![w].runs = Without(@, j),
                            ![w].results = With(@, j, [outcome |-> o, started |-> work[w].runs[j]])]
    /\ UNCHANGED <<disk, store, timer, manual, clock, current, edits, edited, troubles, disowned>>

RunsOver(w) == work[w].pc = "run" /\ work[w].todo = {} /\ DOMAIN work[w].runs = {}

TickApplies(s, ok) ==
    /\ RunsOver(Tick(s))
    /\ Persists(s, Maintenance(AppliedAll(disk, work[Tick(s)].results), FALSE), ok)
    /\ work' = [work EXCEPT ![Tick(s)] = [Idle EXCEPT !.pc = "end"]]
    /\ UNCHANGED <<timer, manual, clock, current, edits, edited, disowned>>

TickEnds(s) ==
    /\ work[Tick(s)].pc = "end"
    /\ work' = [work EXCEPT ![Tick(s)] = Idle]
    /\ timer' = Armed(s, store[s])
    /\ UNCHANGED <<disk, store, manual, clock, current, edits, edited, troubles, disowned>>

-----------------------------------------------------------------------------
(* Start-up: start and runMissedJobs.  A write that fails ends it, with    *)
(* the timer not armed.                                                    *)

BootGoes(s, ok, next) ==
    work' = [work EXCEPT ![Boot(s)] = IF ok THEN next ELSE [Idle EXCEPT !.pc = "failed"]]

BootMarks(s, ok) ==
    LET marked == {j \in DOMAIN disk : disk[j].marker # "none"}
        cleared == [j \in DOMAIN disk |-> [disk[j] EXCEPT !.marker = "none"]]
    IN  /\ work[Boot(s)].pc = "marks"
        /\ PersistsChange(s, cleared, disk, ok)
        /\ BootGoes(s, ok, [Idle EXCEPT !.pc = "plan", !.aside = marked])
        /\ UNCHANGED <<timer, manual, clock, current, edits, edited, disowned>>

(* planStartupCatchup: jobs that were interrupted are left out; the first  *)
(* of those missed run, and the others are deferred.                       *)
BootPlans(s, ok) ==
    LET f == store[s]
        open == DOMAIN f \ work[Boot(s)].aside
        missed == {j \in open : Overdue(j, f[j]) \/ SlotMissed(j, f[j])}
    IN  /\ work[Boot(s)].pc = "plan"
        /\ \E M \in SUBSET missed :
              /\ \A j \in missed \ M : MayBackOff(j, f[j])
              /\ IF M = {}
                 THEN /\ ok
                      /\ BootGoes(s, ok, [Idle EXCEPT !.pc = "final"])
                      /\ UNCHANGED <<disk, store, troubles>>
                 ELSE \E C \in SUBSET M :
                      /\ Cardinality(C) <= MaxMissed
                      /\ C = M \/ Cardinality(C) = MaxMissed
                      /\ Persists(s, Marked(f, C), ok)
                      /\ BootGoes(s, ok, [Idle EXCEPT !.pc = "run", !.todo = C, !.aside = M \ C])
        /\ UNCHANGED <<timer, manual, clock, current, edits, edited, disowned>>

(* applyStartupCatchupOutcomes. *)
BootApplies(s, ok) ==
    LET applied == AppliedAll(store[s], work[Boot(s)].results)
        staggered == [j \in DOMAIN applied |->
            IF j \in work[Boot(s)].aside /\ applied[j].enabled
            THEN [applied[j] EXCEPT !.next = clock[j] + 1] ELSE applied[j]]
    IN  /\ RunsOver(Boot(s))
        /\ Persists(s, Maintenance(staggered, FALSE), ok)
        /\ BootGoes(s, ok, [Idle EXCEPT !.pc = "final"])
        /\ UNCHANGED <<timer, manual, clock, current, edits, edited, disowned>>

BootEnds(s, ok) ==
    /\ work[Boot(s)].pc = "final"
    /\ PersistsChange(s, Recomputed(store[s]), store[s], ok)
    /\ BootGoes(s, ok, Idle)
    /\ timer' = IF ok THEN Armed(s, Recomputed(store[s])) ELSE timer
    /\ UNCHANGED <<manual, clock, current, edits, edited, disowned>>

-----------------------------------------------------------------------------
(* Requests.  They go to the current service, behind its first callback.   *)

Serving(s) == s = current /\ work[Boot(s)].pc # "marks"

(* The runs of a job that are going on; and the jobs of which a run was    *)
(* begun or is to begin, and is not recorded.                              *)
Going(j) ==
    {w \in Workers : j \in DOMAIN work[w].runs}
        \cup {m \in Manuals : manual[m].job = j /\ manual[m].pc = "run"}
Claimed ==
    (UNION {work[w].todo \cup DOMAIN work[w].runs \cup DOMAIN work[w].results : w \in Workers})
        \cup {manual[m].job : m \in {n \in Manuals : manual[n].pc \in {"run", "finish"}}}

Edits(s, j, f, ok) ==
    /\ edits < MaxEdits
    /\ edits' = edits + 1 /\ edited' = edited \cup {j}
    /\ Persists(s, f, ok)
    /\ timer' = IF ok THEN Armed(s, f) ELSE timer
    /\ UNCHANGED <<work, manual, clock, current>>

(* add, of a job that never was there (ids are random UUIDs).              *)
Add(s, j, ok) ==
    /\ Serving(s)
    /\ j \notin InitialJobs \cup edited
    /\ Edits(s, j, Recomputed(With(store[s], j, NewJob(clock[j] + 1, ~Recurring(j)))), ok)
    /\ UNCHANGED disowned

(* update: "disable", "enable", "move" (a new schedule) or "touch" (some   *)
(* other field).  A disabled job loses its marker.                         *)
Patched(j, r, kind) ==
    LET p == [r EXCEPT !.enabled = CASE kind = "disable" -> FALSE
                                     [] kind = "enable" -> TRUE
                                     [] OTHER -> @,
                       !.at = IF kind = "move" THEN clock[j] + 1 ELSE @]
    IN  IF kind # "touch"
        THEN [p EXCEPT !.next = NextRun(j, p), !.marker = IF p.enabled THEN @ ELSE "none"]
        ELSE [p EXCEPT !.next = IF p.enabled /\ @ = 0 THEN NextRun(j, p) ELSE @]

Update(s, j, kind, ok) ==
    /\ Serving(s)
    /\ j \in DOMAIN store[s]
    /\ LET p == Patched(j, store[s][j], kind)
       IN  /\ Edits(s, j, [store[s] EXCEPT ![j] = p], ok)
           /\ disowned' = IF p.enabled THEN disowned ELSE disowned \cup ({j} \cap Claimed)

Remove(s, j, ok) ==
    /\ Serving(s)
    /\ j \in DOMAIN store[s]
    /\ Edits(s, j, Without(store[s], j), ok)
    /\ UNCHANGED disowned

(* list and status: ensureLoadedForRead. *)
List(s, ok) ==
    /\ Serving(s)
    /\ PersistsChange(s, Maintenance(store[s], FALSE), store[s], ok)
    /\ UNCHANGED <<timer, work, manual, clock, current, edits, edited, disowned>>

-----------------------------------------------------------------------------
(* A manual run: two callbacks to reserve it, the run, one to finish it.   *)

ManualPreflight(s, m, j, forced) ==
    LET f == Maintenance(store[s], FALSE)
    IN  /\ Serving(s)
        /\ manual[m].pc = "idle"
        /\ j \in DOMAIN f
        /\ store' = [store EXCEPT ![s] = f]
        /\ manual' = IF f[j].marker = "none" /\ (forced \/ (f[j].enabled /\ Due(j, f[j])))
                     THEN [manual EXCEPT ![m] =
                         [@ EXCEPT !.pc = "reserve", !.by = s, !.job = j, !.started = clock[j]]]
                     ELSE manual
        /\ UNCHANGED <<disk, timer, work, clock, current, edits, edited, troubles, disowned>>

(* The job may be gone or have been started since.  A job that is disabled *)
(* can be run by force, but loses its marker with the next maintenance.    *)
(* The mutant relies on the preflight.                                     *)
FreeSincePreflight(s, j) == j \in DOMAIN store[s]
Free(s, j) == j \in DOMAIN store[s] /\ store[s][j].marker = "none"

ManualReserves(m, ok) ==
    LET s == manual[m].by
        j == manual[m].job
    IN  /\ manual[m].pc = "reserve"
        /\ IF Free(s, j)
           THEN /\ Persists(s, Marked(store[s], {j}), ok)
                /\ disowned' = IF store[s][j].enabled THEN disowned ELSE disowned \cup {j}
                /\ manual' = [manual EXCEPT ![m] = IF ok THEN [@ EXCEPT !.pc = "run"] ELSE Over]
           ELSE /\ ok
                /\ manual' = [manual EXCEPT ![m] = Over]
                /\ UNCHANGED <<disk, store, troubles, disowned>>
        /\ UNCHANGED <<timer, work, clock, current, edits, edited>>

ManualRunEnds(m, o) ==
    /\ manual[m].pc = "run"
    /\ manual' = [manual EXCEPT ![m].pc = "finish", ![m].outcome = o]
    /\ UNCHANGED <<disk, store, timer, work, clock, current, edits, edited, troubles, disowned>>

(* The result is applied to the memory, the file is read, and the job's    *)
(* state is put into what was read, if the job is there.                   *)
ManualFinishes(m, ok) ==
    LET s == manual[m].by
        j == manual[m].job
        res == [outcome |-> manual[m].outcome, started |-> manual[m].started]
        merged == IF j \notin DOMAIN disk THEN disk
                  ELSE IF Deleted(j, store[s][j], res) THEN Without(disk, j)
                  ELSE [disk EXCEPT ![j] = [Applied(j, store[s][j], res) EXCEPT !.at = disk[j].at]]
    IN  /\ manual[m].pc = "finish"
        /\ manual' = [manual EXCEPT ![m] = Over]
        /\ IF j \in DOMAIN store[s]
           THEN /\ Persists(s, Maintenance(merged, TRUE), ok)
                /\ timer' = IF ok THEN Armed(s, Maintenance(merged, TRUE)) ELSE timer
                /\ work' = [work EXCEPT ![Tick(s)].live = FALSE]
           ELSE ok /\ UNCHANGED <<disk, store, troubles, timer, work>>
        /\ UNCHANGED <<clock, current, edits, edited, disowned>>

-----------------------------------------------------------------------------
(* The process and the clock.                                              *)

(* The gateway starts; it restarts the service after a change of the       *)
(* configuration, in the same process; it crashes.                         *)
Start(s) ==
    /\ current = NoService
    /\ current' = s
    /\ work' = [work EXCEPT ![Boot(s)].pc = "marks"]
    /\ UNCHANGED <<disk, store, timer, manual, clock, edits, edited, troubles, disowned>>

Reload(s) ==
    /\ current # NoService /\ store[s] = <<>> /\ work[Boot(s)] = Idle /\ s # current
    /\ current' = s
    /\ timer' = timer \ {current}
    /\ work' = [work EXCEPT ![Boot(s)].pc = "marks"]
    /\ UNCHANGED <<disk, store, manual, clock, edits, edited, troubles, disowned>>

Crash ==
    /\ current # NoService
    /\ troubles < MaxTroubles /\ troubles' = troubles + 1
    /\ current' = NoService
    /\ store' = [s \in Services |-> <<>>]
    /\ timer' = {}
    /\ work' = [w \in Workers |-> Idle]
    /\ manual' = [m \in Manuals |-> IF manual[m].pc = "idle" THEN NoRun ELSE Over]
    /\ disowned' = {}
    /\ UNCHANGED <<disk, clock, edits, edited>>

TimePasses(j) ==
    /\ clock[j] < MaxSlot
    /\ clock' = [clock EXCEPT ![j] = @ + 1]
    /\ UNCHANGED <<disk, store, timer, work, manual, current, edits, edited, troubles, disowned>>

(* STUCK_RUN_MS passes. *)
Aged(f) == [j \in DOMAIN f |-> IF f[j].marker = "none" THEN f[j] ELSE [f[j] EXCEPT !.marker = "stuck"]]
MarkersAge ==
    /\ troubles < MaxTroubles /\ troubles' = troubles + 1
    /\ disk' = Aged(disk)
    /\ store' = [s \in Services |-> Aged(store[s])]
    /\ disowned' = disowned \cup Claimed
    /\ UNCHANGED <<timer, work, manual, clock, current, edits, edited>>

Next ==
    \/ \E s \in Services, ok \in BOOLEAN :
          \/ TickChecks(s, ok) \/ TickApplies(s, ok)
          \/ BootMarks(s, ok) \/ BootPlans(s, ok) \/ BootApplies(s, ok) \/ BootEnds(s, ok)
          \/ List(s, ok)
          \/ \E j \in Jobs :
                \/ Add(s, j, ok) \/ Remove(s, j, ok)
                \/ \E kind \in {"disable", "enable", "move", "touch"} : Update(s, j, kind, ok)
    \/ \E s \in Services : TickFires(s) \/ TickEnds(s) \/ Start(s) \/ Reload(s)
    \/ \E w \in Workers, j \in Jobs : RunStarts(w, j) \/ \E o \in Outcomes : RunEnds(w, j, o)
    \/ \E s \in Services, m \in Manuals, j \in Jobs, forced \in BOOLEAN : ManualPreflight(s, m, j, forced)
    \/ \E m \in Manuals, ok \in BOOLEAN : ManualReserves(m, ok) \/ ManualFinishes(m, ok)
    \/ \E m \in Manuals, o \in Outcomes : ManualRunEnds(m, o)
    \/ \E j \in Jobs : TimePasses(j)
    \/ Crash \/ MarkersAge

Spec == Init /\ [][Next]_vars

(* Timers fire, callbacks get the lock, and a run ends, if only by its     *)
(* timeout (executeJobCoreWithTimeout).  Nobody has to make a request, and *)
(* a run is not obliged to succeed.                                        *)
Fairness ==
    /\ \A s \in Services :
          /\ WF_vars(TickFires(s)) /\ WF_vars(TickEnds(s))
          /\ WF_vars(\E ok \in BOOLEAN : TickChecks(s, ok))
          /\ WF_vars(\E ok \in BOOLEAN : TickApplies(s, ok))
          /\ WF_vars(\E ok \in BOOLEAN : BootMarks(s, ok) \/ BootPlans(s, ok) \/ BootApplies(s, ok) \/ BootEnds(s, ok))
    /\ \A w \in Workers :
          /\ WF_vars(\E j \in Jobs : RunStarts(w, j))
          /\ WF_vars(\E j \in Jobs, o \in Outcomes : RunEnds(w, j, o))

FairSpec == Spec /\ Fairness

-----------------------------------------------------------------------------
(* Properties.                                                             *)

Mapping(f, S) == DOMAIN f \subseteq Jobs /\ f \in [DOMAIN f -> S]
Pcs == {"idle", "check", "end", "marks", "plan", "run", "final", "failed"}

(* The types of the variables.                                             *)
TypeOK ==
    /\ Mapping(disk, Records)
    /\ DOMAIN store = Services /\ \A s \in Services : Mapping(store[s], Records)
    /\ timer \subseteq Services
    /\ DOMAIN work = Workers
    /\ \A w \in Workers :
          /\ work[w].pc \in Pcs /\ work[w].live \in BOOLEAN
          /\ work[w].todo \subseteq Jobs /\ work[w].aside \subseteq Jobs
          /\ Mapping(work[w].runs, Nat)
          /\ Mapping(work[w].results, [outcome : Outcomes, started : Nat])
    /\ manual \in [Manuals -> [pc : {"idle", "reserve", "run", "finish", "done"},
                               by : Services \cup {NoService}, job : Jobs \cup {NoService},
                               started : Nat, outcome : Outcomes \cup {"ok"}]]
    /\ clock \in [Jobs -> Nat]
    /\ current \in Services \cup {NoService}
    /\ edits \in 0..MaxEdits /\ edited \subseteq Jobs
    /\ troubles \in 0..MaxTroubles
    /\ disowned \subseteq Jobs

(* No job runs twice at the same time, by a tick, the catch-up or manual   *)
(* runs, unless its marker was taken away during a run: the job was        *)
(* disabled, or was run by force while disabled, or STUCK_RUN_MS passed.   *)
SingleRun == \A j \in Jobs \ disowned : Cardinality(Going(j)) <= 1

(* A one-shot job that has succeeded is not armed again for the time at    *)
(* which it ran: not by a result that arrives late, an update of another   *)
(* field, a repair of missing times, or a restart.  (It may get a later    *)
(* time without being moved: when it is enabled again after a manual run,  *)
(* while the catch-up has it deferred.)                                    *)
DoneStaysDone ==
    \A j \in DOMAIN disk :
        ~Recurring(j) /\ disk[j].status = "ok" /\ disk[j].at <= disk[j].last
            => disk[j].next = 0 \/ disk[j].next > disk[j].last

(* A job that was removed, or deleted after its run, never comes back into *)
(* the file, though a run of it may end later and bring a result, and the  *)
(* memory be written that was read before.                                 *)
RemovedStaysRemoved ==
    [][\A j \in InitialJobs : j \notin DOMAIN disk => j \notin DOMAIN disk']_vars

(* Once the service has started, no moment of a recurring job is skipped:  *)
(* a due time is only replaced when a run that began at it or later is     *)
(* recorded, as long as nobody edits the job or adds another.              *)
Untouched(j) == edited \subseteq InitialJobs \ {j} /\ j \notin disowned
Skips(j) ==
    /\ j \in DOMAIN disk /\ j \in DOMAIN disk'
    /\ Recurring(j) /\ disk[j].enabled /\ disk[j].marker = "none" /\ Due(j, disk[j])
    /\ disk'[j].next # disk[j].next
    /\ disk'[j].last < disk[j].next
SlotsAreNotSkipped ==
    [][current # NoService /\ work[Boot(current)].pc = "idle"
          => \A j \in Jobs : Untouched(j)' => ~Skips(j)]_vars

(* A job that the service knows to be due, enabled and not running does    *)
(* not stay so while the service is up: a tick takes it.  (The file alone  *)
(* does not suffice: a removal whose write fails leaves the job there, and *)
(* the timer is armed for what is in the memory.)                          *)
Waiting(j) ==
    /\ current # NoService /\ work[Boot(current)].pc = "idle"
    /\ j \in DOMAIN store[current] /\ Runnable(j, store[current][j])
DueIsStarted == \A j \in Jobs : Waiting(j) ~> ~Waiting(j)
=============================================================================
