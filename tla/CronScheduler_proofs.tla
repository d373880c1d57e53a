------------------------ MODULE CronScheduler_proofs ------------------------
(***************************************************************************)
(* Proofs about the cron service, for any jobs, schedules, limits and      *)
(* bounds: types, and that a one-shot job that is done stays done; and,    *)
(* for a process with one service, that a job does not run twice at a      *)
(* time, that a removed job does not come back, and that no moment of a    *)
(* recurring job is skipped.                                               *)
(*                                                                         *)
(* Jobs run outside the lock, and the memory and the file may differ when  *)
(* a write fails.  The argument is that a job which was taken for a run    *)
(* has its marker in both, whatever is read, repaired or written over it,  *)
(* until the result is applied.                                            *)
(***************************************************************************)
EXTENDS CronScheduler, FiniteSetTheorems, TLAPS

(* Functions on some of the jobs.                                          *)
Some(S) == UNION {[D -> S] : D \in SUBSET Jobs}
Files == Some(Records)
Results == [outcome : Outcomes, started : Nat]
WorkType == [pc : Pcs, todo : SUBSET Jobs, runs : Some(Nat), results : Some(Results),
             aside : SUBSET Jobs, live : BOOLEAN]
ManualType == [pc : {"idle", "reserve", "run", "finish", "done"},
               by : Services \cup {NoService}, job : Jobs \cup {NoService},
               started : Nat, outcome : Outcomes \cup {"ok"}]

TypeInv ==
    /\ disk \in Files /\ store \in [Services -> Files]
    /\ timer \subseteq Services
    /\ work \in [Workers -> WorkType]
    /\ manual \in [Manuals -> ManualType]
    /\ clock \in [Jobs -> Nat]
    /\ current \in Services \cup {NoService}
    /\ edits \in 0..MaxEdits /\ edited \subseteq Jobs
    /\ troubles \in 0..MaxTroubles
    /\ disowned \subseteq Jobs
    /\ \A m \in Manuals : manual[m].pc \notin {"idle", "done"} =>
          manual[m].by \in Services /\ manual[m].job \in Jobs

LEMMA SomeIs ==
    ASSUME NEW S, NEW f
    PROVE  f \in Some(S) <=> DOMAIN f \subseteq Jobs /\ f \in [DOMAIN f -> S]
BY DEF Some

LEMMA SomeEmpty == ASSUME NEW S PROVE <<>> \in Some(S) /\ DOMAIN <<>> = {}
BY DEF Some

(* Functions over a job more, over one less, and with a changed value.     *)
LEMMA SomeChanged ==
    ASSUME NEW S, NEW f \in Some(S), NEW j \in Jobs
    PROVE  /\ \A v \in S : With(f, j, v) \in Some(S) /\ DOMAIN With(f, j, v) = DOMAIN f \cup {j}
           /\ Without(f, j) \in Some(S) /\ DOMAIN Without(f, j) = DOMAIN f \ {j}
           /\ \A v \in S : [f EXCEPT ![j] = v] \in Some(S)
BY SomeIs DEF With, Without, Restrict

LEMMA SomeWithout ==
    ASSUME NEW S, NEW f \in Some(S), NEW j \in Jobs
    PROVE  Without(f, j) \in Some(S) /\ DOMAIN Without(f, j) = DOMAIN f \ {j}
BY SomeChanged

-----------------------------------------------------------------------------
(* What is done to records and files.                                      *)

LEMMA RecordFacts ==
    /\ Records = [enabled : BOOLEAN, next : Nat, marker : {"none", "fresh", "stuck"},
                  status : {"none", "ok", "skipped", "error"}, errors : 0..MaxAttempts + 1,
                  at : Nat, last : Nat \cup {-1}, deleteAfterRun : BOOLEAN]
    /\ MaxAttempts \in Nat
BY ConstantsAssumption DEF Records

LEMMA NewJobType ==
    ASSUME NEW n \in Nat, NEW d \in BOOLEAN
    PROVE  NewJob(n, d) \in Records
BY RecordFacts DEF NewJob

LEMMA NormalizedType ==
    ASSUME NEW r \in Records
    PROVE  /\ Normalized(r) \in Records
           /\ Normalized(r).enabled = r.enabled
           /\ r.enabled /\ r.marker = "fresh" => Normalized(r).marker = "fresh"
BY RecordFacts DEF Normalized

LEMMA NextRunType ==
    ASSUME NEW j \in Jobs, NEW r \in Records, clock \in [Jobs -> Nat]
    PROVE  NextRun(j, r) \in Nat
BY RecordFacts DEF NextRun

(* One file comes from another: no new jobs, and none of the jobs in K     *)
(* loses its marker or is disabled.                                        *)
Keeps(f, g, K) ==
    /\ g \in Files
    /\ DOMAIN g \subseteq DOMAIN f
    /\ \A j \in K \cap DOMAIN g : f[j].enabled /\ f[j].marker = "fresh" =>
                                    g[j].enabled /\ g[j].marker = "fresh"

LEMMA KeepsSame == ASSUME NEW f \in Files, NEW K PROVE Keeps(f, f, K)
BY DEF Keeps

LEMMA KeepsBoth ==
    ASSUME NEW f, NEW g, NEW h, NEW K, Keeps(f, g, K), Keeps(g, h, K)
    PROVE  Keeps(f, h, K)
BY DEF Keeps

LEMMA MaintenanceKeeps ==
    ASSUME NEW f \in Files, NEW e \in BOOLEAN, NEW K, clock \in [Jobs -> Nat]
    PROVE  Keeps(f, Maintenance(f, e), K) /\ DOMAIN Maintenance(f, e) = DOMAIN f
<1> DEFINE g == Maintenance(f, e)
<1>1. DOMAIN f \subseteq Jobs /\ f \in [DOMAIN f -> Records] /\ DOMAIN g = DOMAIN f
  BY SomeIs DEF Files, Maintenance
<1>2. ASSUME NEW j \in DOMAIN f
      PROVE  /\ g[j] \in Records
             /\ f[j].enabled /\ f[j].marker = "fresh" => g[j].enabled /\ g[j].marker = "fresh"
  <2> DEFINE r == Normalized(f[j])
  <2>1. /\ r \in Records /\ r.enabled = f[j].enabled /\ j \in Jobs
        /\ f[j].enabled /\ f[j].marker = "fresh" => r.marker = "fresh"
    BY <1>1, NormalizedType
  <2>2. g[j] = r \/ g[j] = [r EXCEPT !.next = NextRun(j, r)]
    BY DEF Maintenance
  <2> HIDE DEF r, g
  <2>3. NextRun(j, r) \in Nat
    BY <2>1, NextRunType
  <2> QED BY <2>1, <2>2, <2>3, RecordFacts
<1>3. g = [j \in DOMAIN f |-> g[j]]
  BY DEF Maintenance
<1> HIDE DEF g
<1>4. g \in Files
  BY <1>1, <1>2, <1>3, SomeIs DEF Files
<1> QED BY <1>1, <1>2, <1>4 DEF Keeps, g

LEMMA RecomputedKeeps ==
    ASSUME NEW f \in Files, NEW K, clock \in [Jobs -> Nat]
    PROVE  Keeps(f, Recomputed(f), K) /\ DOMAIN Recomputed(f) = DOMAIN f
<1> DEFINE g == Recomputed(f)
<1>1. DOMAIN f \subseteq Jobs /\ f \in [DOMAIN f -> Records] /\ DOMAIN g = DOMAIN f
  BY SomeIs DEF Files, Recomputed
<1>2. ASSUME NEW j \in DOMAIN f
      PROVE  /\ g[j] \in Records
             /\ f[j].enabled /\ f[j].marker = "fresh" => g[j].enabled /\ g[j].marker = "fresh"
  <2> DEFINE r == Normalized(f[j])
  <2>1. /\ r \in Records /\ r.enabled = f[j].enabled /\ j \in Jobs
        /\ f[j].enabled /\ f[j].marker = "fresh" => r.marker = "fresh"
    BY <1>1, NormalizedType
  <2>2. g[j] = r \/ g[j] = [r EXCEPT !.next = NextRun(j, r)]
    BY DEF Recomputed
  <2> HIDE DEF r, g
  <2>3. NextRun(j, r) \in Nat
    BY <2>1, NextRunType
  <2> QED BY <2>1, <2>2, <2>3, RecordFacts
<1>3. g = [j \in DOMAIN f |-> g[j]]
  BY DEF Recomputed
<1> HIDE DEF g
<1>4. g \in Files
  BY <1>1, <1>2, <1>3, SomeIs DEF Files
<1> QED BY <1>1, <1>2, <1>4 DEF Keeps, g

LEMMA MarkedKeeps ==
    ASSUME NEW f \in Files, NEW S, NEW K
    PROVE  /\ Keeps(f, Marked(f, S), K) /\ DOMAIN Marked(f, S) = DOMAIN f
           /\ \A j \in S \cap DOMAIN f : /\ Marked(f, S)[j].marker = "fresh"
                                         /\ Marked(f, S)[j].enabled = f[j].enabled
<1> DEFINE g == Marked(f, S)
<1>1. DOMAIN f \subseteq Jobs /\ f \in [DOMAIN f -> Records] /\ DOMAIN g = DOMAIN f
  BY SomeIs DEF Files, Marked
<1>2. ASSUME NEW j \in DOMAIN f
      PROVE  /\ g[j] \in Records /\ g[j].enabled = f[j].enabled
             /\ j \in S \/ f[j].marker = "fresh" => g[j].marker = "fresh"
  BY <1>1, RecordFacts DEF Marked
<1>3. g = [j \in DOMAIN f |-> g[j]]
  BY DEF Marked
<1> HIDE DEF g
<1>4. g \in Files
  BY <1>1, <1>2, <1>3, SomeIs DEF Files
<1> QED BY <1>1, <1>2, <1>4 DEF Keeps, g

LEMMA AppliedType ==
    ASSUME NEW j \in Jobs, NEW r \in Records, clock \in [Jobs -> Nat],
           NEW res \in [outcome : Outcomes \cup {"ok"}, started : Nat]
    PROVE  Applied(j, r, res) \in Records
<1>1. /\ Errors(r, res) \in 0..MaxAttempts + 1
      /\ res.outcome \in {"transient", "permanent"} => Errors(r, res) > 0
  BY RecordFacts DEF Errors
<1>2. (IF Errors(r, res) > 0 THEN "error" ELSE res.outcome) \in {"none", "ok", "skipped", "error"}
  BY <1>1, ConstantsAssumption
<1>3. (IF Recurring(j) THEN r.enabled ELSE Retried(r, res)) \in BOOLEAN
  BY RecordFacts DEF Retried
<1> DEFINE again == IF Recurring(j) THEN r.enabled ELSE Retried(r, res)
<1>4. (IF again THEN clock[j] + 1 ELSE 0) \in Nat
  OBVIOUS
<1>5. Applied(j, r, res) =
         [r EXCEPT !.marker = "none", !.last = res.started, !.errors = Errors(r, res),
                   !.status = IF Errors(r, res) > 0 THEN "error" ELSE res.outcome,
                   !.enabled = r.enabled /\ again,
                   !.next = IF again THEN clock[j] + 1 ELSE 0]
  BY DEF Applied
<1> HIDE DEF again
<1> QED BY <1>1, <1>2, <1>3, <1>4, <1>5, RecordFacts

LEMMA AppliedAllKeeps ==
    ASSUME NEW f \in Files, NEW res \in Some(Results), NEW K, clock \in [Jobs -> Nat]
    PROVE  Keeps(f, AppliedAll(f, res), K \ DOMAIN res)
<1> DEFINE g == AppliedAll(f, res)
           D == {k \in DOMAIN f : k \notin DOMAIN res \/ ~Deleted(k, f[k], res[k])}
<1>1. /\ DOMAIN f \subseteq Jobs /\ f \in [DOMAIN f -> Records] /\ DOMAIN g = D /\ D \subseteq DOMAIN f
      /\ res \in [DOMAIN res -> Results]
  BY SomeIs DEF Files, AppliedAll
<1>2. ASSUME NEW j \in D
      PROVE  g[j] \in Records /\ (j \notin DOMAIN res => g[j] = f[j])
  <2>1. CASE j \in DOMAIN res
    <3>1. g[j] = Applied(j, f[j], res[j])
      BY <2>1 DEF AppliedAll
    <3>2. res[j] \in [outcome : Outcomes \cup {"ok"}, started : Nat]
      BY <1>1, <2>1 DEF Results
    <3> QED BY <1>1, <2>1, <3>1, <3>2, AppliedType
  <2>2. CASE j \notin DOMAIN res
    BY <1>1, <2>2 DEF AppliedAll
  <2> QED BY <2>1, <2>2
<1>3. g = [j \in D |-> g[j]]
  BY DEF AppliedAll
<1> HIDE DEF g, D
<1>4. g \in Files
  BY <1>1, <1>2, <1>3, SomeIs DEF Files
<1> QED BY <1>1, <1>2, <1>4 DEF Keeps, g

-----------------------------------------------------------------------------
(* Type correctness.                                                       *)

LEMMA WorkTypes ==
    /\ Idle \in WorkType /\ NoRun \in ManualType /\ Over \in ManualType
    /\ NoRun.pc = "idle" /\ Over.pc = "done"
    /\ Idle.pc = "idle" /\ Idle.todo = {} /\ DOMAIN Idle.runs = {} /\ DOMAIN Idle.results = {}
    /\ \A pc \in Pcs, todo \in SUBSET Jobs, aside \in SUBSET Jobs :
          /\ [Idle EXCEPT !.pc = pc] \in WorkType
          /\ [Idle EXCEPT !.pc = pc, !.aside = aside] \in WorkType
          /\ [Idle EXCEPT !.pc = pc, !.todo = todo, !.aside = aside] \in WorkType
    /\ \A s \in Services : Tick(s) \in Workers /\ Boot(s) \in Workers /\ Tick(s) # Boot(s)
    /\ \A w \in Workers : w[2] \in Services /\ (w = Tick(w[2]) \/ w = Boot(w[2]))
<1>1. Idle \in WorkType
  BY SomeEmpty DEF Idle, WorkType, Pcs
<1>2. /\ Idle.pc = "idle" /\ Idle.todo = {} /\ DOMAIN Idle.runs = {} /\ DOMAIN Idle.results = {}
  BY SomeEmpty DEF Idle
<1>3. NoRun \in ManualType /\ Over \in ManualType /\ NoRun.pc = "idle" /\ Over.pc = "done"
  BY DEF NoRun, Over, ManualType
<1>4. \A pc \in Pcs, todo \in SUBSET Jobs, aside \in SUBSET Jobs :
          /\ [Idle EXCEPT !.pc = pc] \in WorkType
          /\ [Idle EXCEPT !.pc = pc, !.aside = aside] \in WorkType
          /\ [Idle EXCEPT !.pc = pc, !.todo = todo, !.aside = aside] \in WorkType
  BY <1>1 DEF WorkType
<1>5. \A s \in Services : Tick(s) \in Workers /\ Boot(s) \in Workers /\ Tick(s) # Boot(s)
  BY DEF Tick, Boot, Workers
<1>6. \A w \in Workers : w[2] \in Services /\ (w = Tick(w[2]) \/ w = Boot(w[2]))
  BY DEF Tick, Boot, Workers
<1> QED BY <1>1, <1>2, <1>3, <1>4, <1>5, <1>6

LEMMA TypeInvTypeOK == TypeInv => TypeOK
<1> SUFFICES ASSUME TypeInv PROVE TypeOK
  OBVIOUS
<1>1. Mapping(disk, Records)
  BY SomeIs DEF TypeInv, Files, Mapping
<1>2. \A s \in Services : Mapping(store[s], Records)
  BY SomeIs DEF TypeInv, Files, Mapping
<1>3. ASSUME NEW w \in Workers
      PROVE  /\ work[w].pc \in Pcs /\ work[w].live \in BOOLEAN
             /\ work[w].todo \subseteq Jobs /\ work[w].aside \subseteq Jobs
             /\ Mapping(work[w].runs, Nat)
             /\ Mapping(work[w].results, [outcome : Outcomes, started : Nat])
  <2>1. work[w] \in WorkType
    BY DEF TypeInv
  <2>2. work[w].runs \in Some(Nat) /\ work[w].results \in Some(Results)
    BY <2>1 DEF WorkType
  <2> QED BY <2>1, <2>2, SomeIs DEF WorkType, Mapping, Results
<1> QED BY <1>1, <1>2, <1>3 DEF TypeInv, TypeOK, ManualType

LEMMA TypeInit == Init => TypeInv
<1> SUFFICES ASSUME Init PROVE TypeInv
  OBVIOUS
<1>1. disk \in Files
  <2>1. PICK D \in SUBSET {j \in InitialJobs : ~Recurring(j)} :
          disk = [j \in InitialJobs |-> NewJob(1, j \in D)]
    BY DEF Init
  <2>2. ASSUME NEW j \in InitialJobs PROVE NewJob(1, j \in D) \in Records
    <3>1. (j \in D) \in BOOLEAN /\ 1 \in Nat
      OBVIOUS
    <3> QED BY <3>1, NewJobType
  <2>3. DOMAIN disk = InitialJobs /\ disk \in [InitialJobs -> Records]
    BY <2>1, <2>2
  <2> QED BY <2>3, SomeIs, ConstantsAssumption DEF Files
<1>2. store \in [Services -> Files]
  BY SomeEmpty DEF Init, Files
<1>3. work \in [Workers -> WorkType] /\ manual \in [Manuals -> ManualType]
      /\ \A m \in Manuals : manual[m].pc = "idle"
  BY WorkTypes DEF Init
<1> QED BY <1>1, <1>2, <1>3, ConstantsAssumption DEF Init, TypeInv

LEMMA PersistsType ==
    ASSUME TypeInv, NEW s \in Services, NEW f \in Files, NEW g, NEW ok \in BOOLEAN,
           Persists(s, f, ok) \/ PersistsChange(s, f, g, ok)
    PROVE  /\ disk' \in Files /\ store' \in [Services -> Files] /\ troubles' \in 0..MaxTroubles
           /\ store' = [store EXCEPT ![s] = f]
           /\ disk' = f \/ disk' = disk
BY ConstantsAssumption DEF TypeInv, Persists, PersistsChange

LEMMA ArmedType ==
    ASSUME TypeInv, NEW s \in Services, NEW f
    PROVE  Armed(s, f) \subseteq Services
BY DEF TypeInv, Armed

(* A step that sets one worker's record, and one that also writes.         *)
LEMMA WorkType1 ==
    ASSUME TypeInv, NEW w \in Workers, NEW v \in WorkType, work' = [work EXCEPT ![w] = v]
    PROVE  work' \in [Workers -> WorkType]
BY DEF TypeInv

LEMMA TickType ==
    ASSUME TypeInv, NEW s \in Services, NEW ok \in BOOLEAN,
           TickFires(s) \/ TickChecks(s, ok) \/ TickApplies(s, ok) \/ TickEnds(s)
    PROVE  TypeInv'
<1>0. Tick(s) \in Workers /\ work[Tick(s)] \in WorkType /\ disk \in Files
      /\ clock \in [Jobs -> Nat] /\ DOMAIN disk \subseteq Jobs
  BY WorkTypes, SomeIs DEF TypeInv, Files
<1>1. CASE TickFires(s)
  <2>1. [work[Tick(s)] EXCEPT !.pc = "check"] \in WorkType
    BY <1>0 DEF WorkType, Pcs
  <2>2. work' \in [Workers -> WorkType]
    BY <1>0, <1>1, <2>1 DEF TickFires, TypeInv
  <2> QED BY <1>1, <2>2 DEF TickFires, TypeInv
<1>2. CASE TickChecks(s, ok)
  <2> DEFINE due == {j \in DOMAIN disk : Runnable(j, disk[j])}
             v == IF ok /\ due # {}
                  THEN [work[Tick(s)] EXCEPT !.pc = "run", !.todo = due, !.live = TRUE]
                  ELSE [work[Tick(s)] EXCEPT !.pc = "end"]
  <2>1. v \in WorkType
    BY <1>0 DEF WorkType, Pcs
  <2>2. work' = [work EXCEPT ![Tick(s)] = v]
    BY <1>2 DEF TickChecks
  <2>3. /\ Maintenance(disk, TRUE) \in Files /\ Marked(disk, due) \in Files
        /\ PersistsChange(s, Maintenance(disk, TRUE), disk, ok) \/ Persists(s, Marked(disk, due), ok)
    BY <1>0, <1>2, MaintenanceKeeps, MarkedKeeps DEF TickChecks, Keeps
  <2> HIDE DEF due, v
  <2>4. disk' \in Files /\ store' \in [Services -> Files] /\ troubles' \in 0..MaxTroubles
    <3>1. CASE PersistsChange(s, Maintenance(disk, TRUE), disk, ok)
      BY <2>3, <3>1, PersistsType
    <3>2. CASE Persists(s, Marked(disk, due), ok)
      BY <2>3, <3>2, PersistsType
    <3> QED BY <2>3, <3>1, <3>2
  <2>5. work' \in [Workers -> WorkType]
    BY <1>0, <2>1, <2>2, WorkType1
  <2> QED BY <1>2, <2>4, <2>5 DEF TickChecks, TypeInv
<1>3. CASE TickApplies(s, ok)
  <2> DEFINE f == Maintenance(AppliedAll(disk, work[Tick(s)].results), FALSE)
             v == [Idle EXCEPT !.pc = "end"]
  <2>1. v \in WorkType /\ work' = [work EXCEPT ![Tick(s)] = v]
    BY <1>3, WorkTypes DEF TickApplies, Pcs
  <2>2. work[Tick(s)].results \in Some(Results)
    BY <1>0 DEF WorkType
  <2>3. AppliedAll(disk, work[Tick(s)].results) \in Files
    BY <1>0, <2>2, AppliedAllKeeps DEF Keeps
  <2>4. f \in Files /\ Persists(s, f, ok)
    BY <1>0, <1>3, <2>3, MaintenanceKeeps DEF TickApplies, Keeps
  <2> HIDE DEF f, v
  <2>5. disk' \in Files /\ store' \in [Services -> Files] /\ troubles' \in 0..MaxTroubles
    BY <2>4, PersistsType
  <2>6. work' \in [Workers -> WorkType]
    BY <1>0, <2>1, WorkType1
  <2>7. UNCHANGED <<timer, manual, clock, current, edits, edited, disowned>>
    BY <1>3 DEF TickApplies
  <2> QED BY <2>5, <2>6, <2>7 DEF TypeInv
<1>4. CASE TickEnds(s)
  <2>1. work' \in [Workers -> WorkType] /\ timer' \subseteq Services
    BY <1>0, <1>4, WorkTypes, WorkType1, ArmedType DEF TickEnds
  <2> QED BY <1>4, <2>1 DEF TickEnds, TypeInv
<1> QED BY <1>1, <1>2, <1>3, <1>4

LEMMA RunStartsType ==
    ASSUME TypeInv, NEW w \in Workers, NEW j \in Jobs, RunStarts(w, j)
    PROVE  TypeInv'
<1>0. /\ work[w] \in WorkType /\ w[2] \in Services /\ store[w[2]] \in Files
      /\ work[w].runs \in Some(Nat) /\ clock[j] \in Nat
  BY WorkTypes DEF TypeInv, WorkType
<1> DEFINE v == [work[w] EXCEPT !.todo = @ \ {j}, !.runs = With(@, j, clock[j])]
<1>1. With(work[w].runs, j, clock[j]) \in Some(Nat)
  BY <1>0, SomeChanged
<1>2. v \in WorkType
  BY <1>0, <1>1 DEF WorkType
<1>3. work' = [work EXCEPT ![w] = v]
  BY DEF RunStarts, TypeInv
<1>4. store' \in [Services -> Files]
  <2>1. Marked(store[w[2]], {j}) \in Files
    BY <1>0, MarkedKeeps DEF Keeps
  <2> QED BY <1>0, <2>1 DEF RunStarts, TypeInv
<1> HIDE DEF v
<1> QED BY <1>2, <1>3, <1>4, WorkType1 DEF RunStarts, TypeInv

LEMMA RunEndsType ==
    ASSUME TypeInv, NEW w \in Workers, NEW j \in Jobs, NEW o \in Outcomes, RunEnds(w, j, o)
    PROVE  TypeInv'
<1>0. work[w] \in WorkType /\ work[w].runs \in Some(Nat) /\ work[w].results \in Some(Results)
  BY DEF TypeInv, WorkType
<1> DEFINE res == [outcome |-> o, started |-> work[w].runs[j]]
           v == [work[w] EXCEPT !.runs = Without(@, j), !.results = With(@, j, res)]
<1>1. res \in Results
  BY <1>0, SomeIs DEF RunEnds, Results
<1>2. Without(work[w].runs, j) \in Some(Nat) /\ With(work[w].results, j, res) \in Some(Results)
  BY <1>0, <1>1, SomeChanged
<1>3. work' = [work EXCEPT ![w] = v]
  BY DEF RunEnds, TypeInv
<1> HIDE DEF res
<1>4. v \in WorkType
  BY <1>0, <1>2 DEF WorkType
<1> HIDE DEF v
<1> QED BY <1>3, <1>4, WorkType1 DEF RunEnds, TypeInv

LEMMA ClearedKeeps ==
    ASSUME NEW f \in Files
    PROVE  /\ [j \in DOMAIN f |-> [f[j] EXCEPT !.marker = "none"]] \in Files
<1> DEFINE g == [j \in DOMAIN f |-> [f[j] EXCEPT !.marker = "none"]]
<1>1. DOMAIN f \subseteq Jobs /\ f \in [DOMAIN f -> Records] /\ DOMAIN g = DOMAIN f
  BY SomeIs DEF Files
<1>2. \A j \in DOMAIN f : g[j] \in Records
  BY <1>1, RecordFacts
<1>3. g = [j \in DOMAIN f |-> g[j]]
  OBVIOUS
<1> HIDE DEF g
<1>4. g \in Files
  BY <1>1, <1>2, <1>3, SomeIs DEF Files
<1> QED BY <1>4 DEF g

(* The catch-up sets aside some jobs by their next time.                   *)
Staggered(f, S) ==
    [j \in DOMAIN f |-> IF j \in S /\ f[j].enabled THEN [f[j] EXCEPT !.next = clock[j] + 1]
                        ELSE f[j]]
LEMMA StaggeredKeeps ==
    ASSUME NEW f \in Files, NEW S, NEW K, clock \in [Jobs -> Nat]
    PROVE  Keeps(f, Staggered(f, S), K) /\ DOMAIN Staggered(f, S) = DOMAIN f
<1> DEFINE g == Staggered(f, S)
<1>1. DOMAIN f \subseteq Jobs /\ f \in [DOMAIN f -> Records] /\ DOMAIN g = DOMAIN f
  BY SomeIs DEF Files, Staggered
<1>2. ASSUME NEW j \in DOMAIN f
      PROVE  g[j] \in Records /\ g[j].enabled = f[j].enabled /\ g[j].marker = f[j].marker
  BY <1>1, RecordFacts DEF Staggered
<1>3. g = [j \in DOMAIN f |-> g[j]]
  BY DEF Staggered
<1> HIDE DEF g
<1>4. g \in Files
  BY <1>1, <1>2, <1>3, SomeIs DEF Files
<1> QED BY <1>1, <1>2, <1>4 DEF Keeps, g

LEMMA BootGoesType ==
    ASSUME TypeInv, NEW s \in Services, NEW ok \in BOOLEAN, NEW next \in WorkType,
           BootGoes(s, ok, next)
    PROVE  work' \in [Workers -> WorkType]
<1> DEFINE v == IF ok THEN next ELSE [Idle EXCEPT !.pc = "failed"]
<1>1. v \in WorkType
  BY WorkTypes DEF Pcs
<1>2. work' = [work EXCEPT ![Boot(s)] = v]
  BY DEF BootGoes
<1> HIDE DEF v
<1> QED BY <1>1, <1>2, WorkTypes, WorkType1

(* The file a start-up writes after its runs.                              *)
CaughtUp(s) ==
    Maintenance(Staggered(AppliedAll(store[s], work[Boot(s)].results), work[Boot(s)].aside), FALSE)
LEMMA CaughtUpKeeps ==
    ASSUME TypeInv, NEW s \in Services, NEW K
    PROVE  Keeps(store[s], CaughtUp(s), K \ DOMAIN work[Boot(s)].results)
<1> DEFINE applied == AppliedAll(store[s], work[Boot(s)].results)
           staggered == Staggered(applied, work[Boot(s)].aside)
           L == K \ DOMAIN work[Boot(s)].results
<1>1. store[s] \in Files /\ work[Boot(s)] \in WorkType /\ clock \in [Jobs -> Nat]
  BY WorkTypes DEF TypeInv
<1>2. work[Boot(s)].results \in Some(Results)
  BY <1>1 DEF WorkType
<1>3. Keeps(store[s], applied, L)
  BY <1>1, <1>2, AppliedAllKeeps
<1>4. applied \in Files
  BY <1>3 DEF Keeps
<1> HIDE DEF applied, L
<1>5. Keeps(applied, staggered, L) /\ staggered \in Files
  BY <1>1, <1>4, StaggeredKeeps DEF Keeps
<1> HIDE DEF staggered
<1>6. Keeps(staggered, Maintenance(staggered, FALSE), L)
  BY <1>1, <1>5, MaintenanceKeeps
<1>7. Keeps(store[s], Maintenance(staggered, FALSE), L)
  BY <1>3, <1>5, <1>6, KeepsBoth
<1> QED BY <1>7 DEF CaughtUp, L, staggered, applied

LEMMA BootAppliesIs ==
    ASSUME NEW s \in Services, NEW ok \in BOOLEAN, BootApplies(s, ok)
    PROVE  /\ RunsOver(Boot(s)) /\ Persists(s, CaughtUp(s), ok)
           /\ BootGoes(s, ok, [Idle EXCEPT !.pc = "final"])
           /\ UNCHANGED <<timer, manual, clock, current, edits, edited, disowned>>
BY DEF BootApplies, CaughtUp, Staggered

LEMMA BootType ==
    ASSUME TypeInv, NEW s \in Services, NEW ok \in BOOLEAN,
           BootMarks(s, ok) \/ BootPlans(s, ok) \/ BootApplies(s, ok) \/ BootEnds(s, ok)
    PROVE  TypeInv'
<1>0. /\ Boot(s) \in Workers /\ work[Boot(s)] \in WorkType /\ disk \in Files /\ store[s] \in Files
      /\ clock \in [Jobs -> Nat] /\ DOMAIN disk \subseteq Jobs /\ DOMAIN store[s] \subseteq Jobs
  BY WorkTypes, SomeIs DEF TypeInv, Files
<1>1. CASE BootMarks(s, ok)
  <2> DEFINE marked == {j \in DOMAIN disk : disk[j].marker # "none"}
             cleared == [j \in DOMAIN disk |-> [disk[j] EXCEPT !.marker = "none"]]
             v == [Idle EXCEPT !.pc = "plan", !.aside = marked]
  <2>1. cleared \in Files /\ v \in WorkType
    BY <1>0, ClearedKeeps, WorkTypes DEF Pcs
  <2>2. PersistsChange(s, cleared, disk, ok) /\ BootGoes(s, ok, v)
    BY <1>1 DEF BootMarks
  <2> HIDE DEF cleared, v
  <2> QED BY <1>1, <2>1, <2>2, PersistsType, BootGoesType DEF BootMarks, TypeInv
<1>2. CASE BootPlans(s, ok)
  <2>1. ASSUME BootGoes(s, ok, [Idle EXCEPT !.pc = "final"]), UNCHANGED <<disk, store, troubles>>
        PROVE  TypeInv'
    <3>1. [Idle EXCEPT !.pc = "final"] \in WorkType
      BY WorkTypes DEF Pcs
    <3> QED BY <1>2, <2>1, <3>1, BootGoesType DEF BootPlans, TypeInv
  <2>2. ASSUME NEW M \in SUBSET DOMAIN store[s], NEW C \in SUBSET M,
               Persists(s, Marked(store[s], C), ok),
               BootGoes(s, ok, [Idle EXCEPT !.pc = "run", !.todo = C, !.aside = M \ C])
        PROVE  TypeInv'
    <3>1. [Idle EXCEPT !.pc = "run", !.todo = C, !.aside = M \ C] \in WorkType
      BY <1>0, WorkTypes DEF Pcs
    <3>2. Marked(store[s], C) \in Files
      BY <1>0, MarkedKeeps DEF Keeps
    <3> QED BY <1>2, <2>2, <3>1, <3>2, BootGoesType, PersistsType DEF BootPlans, TypeInv
  <2> DEFINE open == DOMAIN store[s] \ work[Boot(s)].aside
             missed == {j \in open : Overdue(j, store[s][j]) \/ SlotMissed(j, store[s][j])}
  <2>3. PICK M \in SUBSET missed :
          IF M = {} THEN /\ BootGoes(s, ok, [Idle EXCEPT !.pc = "final"])
                         /\ UNCHANGED <<disk, store, troubles>>
          ELSE \E C \in SUBSET M :
                  /\ Persists(s, Marked(store[s], C), ok)
                  /\ BootGoes(s, ok, [Idle EXCEPT !.pc = "run", !.todo = C, !.aside = M \ C])
    BY <1>2 DEF BootPlans
  <2>4. M \in SUBSET DOMAIN store[s]
    BY <2>3
  <2> QED BY <2>1, <2>2, <2>3, <2>4
<1>3. CASE BootApplies(s, ok)
  <2>1. CaughtUp(s) \in Files
    BY CaughtUpKeeps DEF Keeps
  <2>2. [Idle EXCEPT !.pc = "final"] \in WorkType
    BY WorkTypes DEF Pcs
  <2> QED BY <1>3, <2>1, <2>2, BootAppliesIs, PersistsType, BootGoesType DEF TypeInv
<1>4. CASE BootEnds(s, ok)
  <2>1. Recomputed(store[s]) \in Files /\ Idle \in WorkType
    BY <1>0, RecomputedKeeps, WorkTypes DEF Keeps
  <2>2. timer' \subseteq Services
    BY <1>4, ArmedType DEF BootEnds, TypeInv
  <2> QED BY <1>4, <2>1, <2>2, PersistsType, BootGoesType DEF BootEnds, TypeInv
<1> QED BY <1>1, <1>2, <1>3, <1>4

LEMMA PatchedType ==
    ASSUME NEW j \in Jobs, NEW r \in Records, clock \in [Jobs -> Nat], NEW kind
    PROVE  /\ Patched(j, r, kind) \in Records
           /\ Patched(j, r, kind).enabled /\ r.marker = "fresh" => Patched(j, r, kind).marker = "fresh"
<1> DEFINE p == [r EXCEPT !.enabled = CASE kind = "disable" -> FALSE
                                        [] kind = "enable" -> TRUE
                                        [] OTHER -> @,
                          !.at = IF kind = "move" THEN clock[j] + 1 ELSE @]
<1>1. p \in Records /\ p.marker = r.marker
  <2>1. (CASE kind = "disable" -> FALSE [] kind = "enable" -> TRUE [] OTHER -> r.enabled) \in BOOLEAN
    <3>1. CASE kind = "disable"
      BY <3>1
    <3>2. CASE kind = "enable"
      BY <3>2
    <3>3. CASE kind # "disable" /\ kind # "enable"
      BY <3>3, RecordFacts
    <3> QED BY <3>1, <3>2, <3>3
  <2>2. (IF kind = "move" THEN clock[j] + 1 ELSE r.at) \in Nat
    BY RecordFacts
  <2> QED BY <2>1, <2>2, RecordFacts
<1>2. Patched(j, r, kind) = IF kind # "touch"
        THEN [p EXCEPT !.next = NextRun(j, p), !.marker = IF p.enabled THEN @ ELSE "none"]
        ELSE [p EXCEPT !.next = IF p.enabled /\ @ = 0 THEN NextRun(j, p) ELSE @]
  BY DEF Patched
<1> HIDE DEF p
<1>3. NextRun(j, p) \in Nat
  BY <1>1, NextRunType
<1>4. CASE kind # "touch"
  BY <1>1, <1>2, <1>3, <1>4, RecordFacts
<1>5. CASE kind = "touch"
  <2>1. (IF p.enabled /\ p.next = 0 THEN NextRun(j, p) ELSE p.next) \in Nat
    BY <1>1, <1>3, RecordFacts
  <2> QED BY <1>1, <1>2, <1>5, <2>1, RecordFacts
<1> QED BY <1>4, <1>5

LEMMA EditsType ==
    ASSUME TypeInv, NEW s \in Services, NEW j \in Jobs, NEW f \in Files, NEW ok \in BOOLEAN,
           Edits(s, j, f, ok), disowned' \subseteq Jobs
    PROVE  TypeInv'
<1>1. edits' \in 0..MaxEdits /\ edited' \subseteq Jobs
  BY ConstantsAssumption DEF Edits, TypeInv
<1>2. timer' \subseteq Services
  BY ArmedType DEF Edits, TypeInv
<1>3. disk' \in Files /\ store' \in [Services -> Files] /\ troubles' \in 0..MaxTroubles
  BY PersistsType DEF Edits
<1> QED BY <1>1, <1>2, <1>3 DEF Edits, TypeInv

(* What each request writes.                                               *)
LEMMA RequestFiles ==
    ASSUME TypeInv, NEW s \in Services, NEW j \in Jobs, NEW kind
    PROVE  /\ With(store[s], j, NewJob(clock[j] + 1, ~Recurring(j))) \in Files
           /\ Recomputed(With(store[s], j, NewJob(clock[j] + 1, ~Recurring(j)))) \in Files
           /\ Without(store[s], j) \in Files
           /\ j \in DOMAIN store[s] =>
                 /\ Patched(j, store[s][j], kind) \in Records
                 /\ [store[s] EXCEPT ![j] = Patched(j, store[s][j], kind)] \in Files
<1>1. store[s] \in Files /\ clock \in [Jobs -> Nat] /\ store[s] \in Some(Records)
  BY DEF TypeInv, Files
<1>2. NewJob(clock[j] + 1, ~Recurring(j)) \in Records
  <2>1. clock[j] + 1 \in Nat /\ (~Recurring(j)) \in BOOLEAN
    BY <1>1
  <2> QED BY <2>1, NewJobType
<1>3. With(store[s], j, NewJob(clock[j] + 1, ~Recurring(j))) \in Files
  BY <1>1, <1>2, SomeChanged DEF Files
<1>4. Recomputed(With(store[s], j, NewJob(clock[j] + 1, ~Recurring(j)))) \in Files
  BY <1>1, <1>3, RecomputedKeeps DEF Keeps
<1>5. Without(store[s], j) \in Files
  BY <1>1, SomeChanged DEF Files
<1>6. ASSUME j \in DOMAIN store[s]
      PROVE  /\ Patched(j, store[s][j], kind) \in Records
             /\ [store[s] EXCEPT ![j] = Patched(j, store[s][j], kind)] \in Files
  <2>1. store[s][j] \in Records
    BY <1>1, <1>6, SomeIs
  <2>2. Patched(j, store[s][j], kind) \in Records
    BY <1>1, <2>1, PatchedType
  <2> QED BY <1>1, <2>2, SomeChanged DEF Files
<1> QED BY <1>3, <1>4, <1>5, <1>6

LEMMA RequestType ==
    ASSUME TypeInv, NEW s \in Services, NEW j \in Jobs, NEW kind, NEW ok \in BOOLEAN,
           Add(s, j, ok) \/ Update(s, j, kind, ok) \/ Remove(s, j, ok) \/ List(s, ok)
    PROVE  TypeInv'
<1>1. CASE Add(s, j, ok)
  <2> DEFINE f == Recomputed(With(store[s], j, NewJob(clock[j] + 1, ~Recurring(j))))
  <2>1. f \in Files
    BY RequestFiles
  <2>2. Edits(s, j, f, ok) /\ disowned' \subseteq Jobs
    BY <1>1 DEF Add, TypeInv
  <2> HIDE DEF f
  <2> QED BY <2>1, <2>2, EditsType
<1>2. CASE Update(s, j, kind, ok)
  <2>1. disowned' \subseteq Jobs
    BY <1>2 DEF Update, TypeInv
  <2> QED BY <1>2, <2>1, RequestFiles, EditsType DEF Update
<1>3. CASE Remove(s, j, ok)
  <2>1. Without(store[s], j) \in Files
    BY RequestFiles
  <2>2. Edits(s, j, Without(store[s], j), ok) /\ disowned' \subseteq Jobs
    BY <1>3 DEF Remove, TypeInv
  <2> QED BY <2>1, <2>2, EditsType
<1>4. CASE List(s, ok)
  <2>1. Maintenance(store[s], FALSE) \in Files
    BY MaintenanceKeeps DEF TypeInv, Keeps
  <2>2. disk' \in Files /\ store' \in [Services -> Files] /\ troubles' \in 0..MaxTroubles
    BY <1>4, <2>1, PersistsType DEF List
  <2> QED BY <1>4, <2>2 DEF List, TypeInv
<1> QED BY <1>1, <1>2, <1>3, <1>4

(* The file that the end of a manual run writes.                           *)
Merged(s, j, res) ==
    IF j \notin DOMAIN disk THEN disk
    ELSE IF Deleted(j, store[s][j], res) THEN Without(disk, j)
    ELSE [disk EXCEPT ![j] = [Applied(j, store[s][j], res) EXCEPT !.at = disk[j].at]]
Result(m) == [outcome |-> manual[m].outcome, started |-> manual[m].started]

LEMMA MergedIs ==
    ASSUME NEW m \in Manuals, NEW ok \in BOOLEAN, ManualFinishes(m, ok)
    PROVE  /\ manual[m].pc = "finish"
           /\ manual' = [manual EXCEPT ![m] = Over]
           /\ UNCHANGED <<clock, current, edits, edited, disowned>>
           /\ IF manual[m].job \in DOMAIN store[manual[m].by]
              THEN LET f == Maintenance(Merged(manual[m].by, manual[m].job, Result(m)), TRUE)
                   IN  /\ Persists(manual[m].by, f, ok)
                       /\ timer' = IF ok THEN Armed(manual[m].by, f) ELSE timer
                       /\ work' = [work EXCEPT ![Tick(manual[m].by)].live = FALSE]
              ELSE UNCHANGED <<disk, store, troubles, timer, work>>
BY DEF ManualFinishes, Merged, Result

LEMMA MergedKeeps ==
    ASSUME TypeInv, NEW m \in Manuals, NEW K,
           manual[m].pc = "finish", manual[m].job \in DOMAIN store[manual[m].by]
    PROVE  Keeps(disk, Merged(manual[m].by, manual[m].job, Result(m)), K \ {manual[m].job})
<1> DEFINE s == manual[m].by
           res == Result(m)
<1>0. PICK j \in Jobs : j = manual[m].job
  BY DEF TypeInv
<1> DEFINE r == Applied(j, store[s][j], res)
<1>1. /\ s \in Services /\ disk \in Files /\ disk \in Some(Records) /\ j \in DOMAIN store[s]
      /\ store[s] \in Files /\ clock \in [Jobs -> Nat]
      /\ manual[m].started \in Nat /\ manual[m].outcome \in Outcomes \cup {"ok"}
  BY <1>0 DEF TypeInv, ManualType, Files
<1>2. res \in [outcome : Outcomes \cup {"ok"}, started : Nat] /\ store[s][j] \in Records
  BY <1>1, SomeIs DEF Result, Files
<1>3. r \in Records
  BY <1>1, <1>2, AppliedType
<1>4. CASE j \notin DOMAIN disk
  BY <1>0, <1>1, <1>4, KeepsSame DEF Merged, Keeps
<1>5. CASE j \in DOMAIN disk /\ Deleted(j, store[s][j], res)
  <2>1. Without(disk, j) \in Some(Records) /\ DOMAIN Without(disk, j) = DOMAIN disk \ {j}
    <3>1. disk \in Some(Records)
      BY <1>1
    <3> QED BY <3>1, SomeWithout
  <2>2. \A k \in DOMAIN disk \ {j} : Without(disk, j)[k] = disk[k]
    BY DEF Without, Restrict
  <2>3. Merged(s, j, res) = Without(disk, j)
    BY <1>5 DEF Merged
  <2> QED BY <1>0, <2>1, <2>2, <2>3 DEF Keeps, Files
<1>6. CASE j \in DOMAIN disk /\ ~Deleted(j, store[s][j], res)
  <2> DEFINE q == [r EXCEPT !.at = disk[j].at]
             g == [disk EXCEPT ![j] = q]
  <2>1. disk[j] \in Records /\ DOMAIN g = DOMAIN disk /\ \A k \in DOMAIN disk \ {j} : g[k] = disk[k]
    BY <1>1, <1>6, SomeIs DEF Files
  <2> HIDE DEF r
  <2>2. q \in Records
    BY <1>3, <2>1, RecordFacts
  <2> HIDE DEF q
  <2>3. g \in Files
    BY <1>1, <2>2, SomeChanged DEF Files
  <2>4. Merged(s, j, res) = g
    BY <1>6 DEF Merged, q, r
  <2> QED BY <1>0, <2>1, <2>3, <2>4 DEF Keeps
<1> QED BY <1>0, <1>4, <1>5, <1>6

LEMMA ManualType1 ==
    ASSUME TypeInv, NEW m \in Manuals, NEW v \in ManualType, manual' = [manual EXCEPT ![m] = v],
           v.pc \notin {"idle", "done"} => v.by \in Services /\ v.job \in Jobs
    PROVE  /\ manual' \in [Manuals -> ManualType]
           /\ \A n \in Manuals : manual'[n].pc \notin {"idle", "done"} =>
                 manual'[n].by \in Services /\ manual'[n].job \in Jobs
BY DEF TypeInv

LEMMA ManualPreflightType ==
    ASSUME TypeInv, NEW s \in Services, NEW m \in Manuals, NEW j \in Jobs, NEW forced \in BOOLEAN,
           ManualPreflight(s, m, j, forced)
    PROVE  TypeInv'
<1>0. manual[m] \in ManualType /\ clock \in [Jobs -> Nat] /\ disk \in Files
  BY DEF TypeInv
<1> DEFINE f == Maintenance(store[s], FALSE)
           v == [manual[m] EXCEPT !.pc = "reserve", !.by = s, !.job = j, !.started = clock[j]]
<1>1. f \in Files
  BY MaintenanceKeeps DEF TypeInv, Keeps
<1>2. store' \in [Services -> Files]
  BY <1>1 DEF ManualPreflight, TypeInv
<1>3. v \in ManualType /\ v.by \in Services /\ v.job \in Jobs
  BY <1>0 DEF ManualType
<1>4. manual' = manual \/ manual' = [manual EXCEPT ![m] = v]
  BY DEF ManualPreflight
<1> HIDE DEF v, f
<1>5. /\ manual' \in [Manuals -> ManualType]
      /\ \A n \in Manuals : manual'[n].pc \notin {"idle", "done"} =>
            manual'[n].by \in Services /\ manual'[n].job \in Jobs
  <2>1. CASE manual' = manual
    BY <2>1 DEF TypeInv
  <2>2. CASE manual' = [manual EXCEPT ![m] = v]
    BY <2>2, <1>3, ManualType1
  <2> QED BY <1>4, <2>1, <2>2
<1> QED BY <1>2, <1>5 DEF ManualPreflight, TypeInv

LEMMA ManualReservesType ==
    ASSUME TypeInv, NEW m \in Manuals, NEW ok \in BOOLEAN, ManualReserves(m, ok)
    PROVE  TypeInv'
<1>0. manual[m] \in ManualType /\ clock \in [Jobs -> Nat] /\ disk \in Files
  BY DEF TypeInv
<1> DEFINE t == manual[m].by
           k == manual[m].job
           f == Marked(store[t], {k})
           v == IF Free(t, k) /\ ok THEN [manual[m] EXCEPT !.pc = "run"] ELSE Over
<1>1. t \in Services /\ k \in Jobs
  BY DEF ManualReserves, TypeInv
<1>2. f \in Files
  BY <1>1, MarkedKeeps DEF TypeInv, Keeps
<1>3. v \in ManualType /\ (v.pc \notin {"idle", "done"} => v.by \in Services /\ v.job \in Jobs)
  BY <1>0, <1>1, WorkTypes DEF ManualType
<1>4. manual' = [manual EXCEPT ![m] = v]
  BY DEF ManualReserves
<1>5. Persists(t, f, ok) \/ UNCHANGED <<disk, store, troubles>>
  BY DEF ManualReserves
<1>6. disowned' \subseteq Jobs
  BY <1>1 DEF ManualReserves, TypeInv
<1> HIDE DEF t, k, f, v
<1>7. disk' \in Files /\ store' \in [Services -> Files] /\ troubles' \in 0..MaxTroubles
  BY <1>1, <1>2, <1>5, PersistsType DEF TypeInv
<1>8. /\ manual' \in [Manuals -> ManualType]
      /\ \A n \in Manuals : manual'[n].pc \notin {"idle", "done"} =>
            manual'[n].by \in Services /\ manual'[n].job \in Jobs
  BY <1>3, <1>4, ManualType1
<1> QED BY <1>6, <1>7, <1>8 DEF ManualReserves, TypeInv

LEMMA ManualRunEndsType ==
    ASSUME TypeInv, NEW m \in Manuals, NEW o \in Outcomes, ManualRunEnds(m, o)
    PROVE  TypeInv'
<1>0. manual[m] \in ManualType /\ clock \in [Jobs -> Nat] /\ disk \in Files
  BY DEF TypeInv
<1> DEFINE v == [manual[m] EXCEPT !.pc = "finish", !.outcome = o]
<1>1. v \in ManualType /\ v.by \in Services /\ v.job \in Jobs
  BY <1>0 DEF ManualType, ManualRunEnds, TypeInv
<1>2. manual' = [manual EXCEPT ![m] = v]
  BY DEF ManualRunEnds, TypeInv
<1> HIDE DEF v
<1> QED BY <1>1, <1>2, ManualType1 DEF ManualRunEnds, TypeInv

LEMMA ManualFinishesType ==
    ASSUME TypeInv, NEW m \in Manuals, NEW ok \in BOOLEAN, ManualFinishes(m, ok)
    PROVE  TypeInv'
<1>0. manual[m] \in ManualType /\ clock \in [Jobs -> Nat] /\ disk \in Files
  BY DEF TypeInv
<1> DEFINE t == manual[m].by
           k == manual[m].job
           f == Maintenance(Merged(t, k, Result(m)), TRUE)
           v == [work[Tick(t)] EXCEPT !.live = FALSE]
<1>9. manual[m].pc = "finish" /\ t \in Services
  BY MergedIs DEF TypeInv
<1>1. /\ manual' \in [Manuals -> ManualType]
      /\ \A n \in Manuals : manual'[n].pc \notin {"idle", "done"} =>
            manual'[n].by \in Services /\ manual'[n].job \in Jobs
  BY MergedIs, WorkTypes, ManualType1
<1>2. CASE k \in DOMAIN store[t]
  <2>1. Merged(t, k, Result(m)) \in Files
    BY <1>9, <1>2, MergedKeeps DEF Keeps
  <2>2. f \in Files
    BY <1>0, <2>1, MaintenanceKeeps DEF Keeps
  <2>3. Persists(t, f, ok) /\ timer' = IF ok THEN Armed(t, f) ELSE timer
    BY <1>2, MergedIs
  <2>4. v \in WorkType /\ Tick(t) \in Workers
    <3>1. Tick(t) \in Workers
      BY <1>9, WorkTypes
    <3>2. work[Tick(t)] \in WorkType
      BY <3>1 DEF TypeInv
    <3> QED BY <3>1, <3>2 DEF WorkType
  <2>5. work' = [work EXCEPT ![Tick(t)] = v]
    BY <1>2, MergedIs DEF TypeInv
  <2> HIDE DEF f, v
  <2>6. disk' \in Files /\ store' \in [Services -> Files] /\ troubles' \in 0..MaxTroubles
    BY <1>9, <2>2, <2>3, PersistsType
  <2>7. timer' \subseteq Services /\ work' \in [Workers -> WorkType]
    BY <1>9, <2>3, <2>4, <2>5, ArmedType, WorkType1 DEF TypeInv
  <2> QED BY <1>1, <2>6, <2>7, MergedIs DEF TypeInv
<1>3. CASE k \notin DOMAIN store[t]
  BY <1>1, <1>3, MergedIs DEF TypeInv
<1> QED BY <1>2, <1>3

LEMMA AgedType == ASSUME NEW f \in Files PROVE Aged(f) \in Files /\ DOMAIN Aged(f) = DOMAIN f
<1> DEFINE g == Aged(f)
<1>1. DOMAIN f \subseteq Jobs /\ f \in [DOMAIN f -> Records] /\ DOMAIN g = DOMAIN f
  BY SomeIs DEF Files, Aged
<1>2. \A j \in DOMAIN f : g[j] \in Records
  BY <1>1, RecordFacts DEF Aged
<1>3. g = [j \in DOMAIN f |-> g[j]]
  BY DEF Aged
<1> HIDE DEF g
<1>4. g \in Files
  BY <1>1, <1>2, <1>3, SomeIs DEF Files
<1> QED BY <1>1, <1>4 DEF g

LEMMA ClaimedType == TypeInv => Claimed \subseteq Jobs
<1> SUFFICES ASSUME TypeInv PROVE Claimed \subseteq Jobs
  OBVIOUS
<1>1. ASSUME NEW w \in Workers
      PROVE  work[w].todo \cup DOMAIN work[w].runs \cup DOMAIN work[w].results \subseteq Jobs
  <2>1. /\ work[w].runs \in Some(Nat) /\ work[w].results \in Some(Results)
        /\ work[w].todo \subseteq Jobs
    BY DEF TypeInv, WorkType
  <2> QED BY <2>1, SomeIs
<1>2. \A m \in Manuals : manual[m].pc \in {"run", "finish"} => manual[m].job \in Jobs
  BY DEF TypeInv
<1>3. UNION {work[w].todo \cup DOMAIN work[w].runs \cup DOMAIN work[w].results : w \in Workers}
         \subseteq Jobs
  BY <1>1
<1>4. {manual[m].job : m \in {n \in Manuals : manual[n].pc \in {"run", "finish"}}} \subseteq Jobs
  BY <1>2
<1> QED BY <1>3, <1>4 DEF Claimed

LEMMA StartType ==
    ASSUME TypeInv, NEW s \in Services, Start(s) \/ Reload(s)
    PROVE  TypeInv'
<1> DEFINE v == [work[Boot(s)] EXCEPT !.pc = "marks"]
<1>1. v \in WorkType /\ Boot(s) \in Workers
  <2>1. Boot(s) \in Workers
    BY WorkTypes
  <2>2. work[Boot(s)] \in WorkType
    BY <2>1 DEF TypeInv
  <2> QED BY <2>1, <2>2 DEF WorkType, Pcs
<1>2. work' = [work EXCEPT ![Boot(s)] = v]
  BY DEF Start, Reload, TypeInv
<1> HIDE DEF v
<1>3. work' \in [Workers -> WorkType]
  BY <1>1, <1>2, WorkType1
<1> QED BY <1>3 DEF Start, Reload, TypeInv

LEMMA CrashType == ASSUME TypeInv, Crash PROVE TypeInv'
<1>1. store' \in [Services -> Files] /\ work' \in [Workers -> WorkType]
  BY SomeEmpty, WorkTypes DEF Crash, Files
<1>2. manual' \in [Manuals -> ManualType] /\ \A m \in Manuals : manual'[m].pc \in {"idle", "done"}
  BY WorkTypes DEF Crash
<1> QED BY <1>1, <1>2, ConstantsAssumption DEF Crash, TypeInv

LEMMA MarkersAgeType == ASSUME TypeInv, MarkersAge PROVE TypeInv'
<1>1. disk' \in Files /\ store' \in [Services -> Files]
  BY AgedType DEF MarkersAge, TypeInv
<1>2. disowned' \subseteq Jobs
  BY ClaimedType DEF MarkersAge, TypeInv
<1> QED BY <1>1, <1>2, ConstantsAssumption DEF MarkersAge, TypeInv

LEMMA TypeNext == TypeInv /\ [Next]_vars => TypeInv'
<1> SUFFICES ASSUME TypeInv, [Next]_vars PROVE TypeInv'
  OBVIOUS
<1>1. CASE UNCHANGED vars
  BY <1>1 DEF vars, TypeInv
<1>2. ASSUME NEW s \in Services, NEW ok \in BOOLEAN, TickChecks(s, ok) \/ TickApplies(s, ok)
      PROVE  TypeInv'
  BY <1>2, TickType
<1>3. ASSUME NEW s \in Services, NEW ok \in BOOLEAN,
             BootMarks(s, ok) \/ BootPlans(s, ok) \/ BootApplies(s, ok) \/ BootEnds(s, ok)
      PROVE  TypeInv'
  BY <1>3, BootType
<1>4. ASSUME NEW s \in Services, NEW j \in Jobs, NEW ok \in BOOLEAN,
             NEW kind \in {"disable", "enable", "move", "touch"},
             Add(s, j, ok) \/ Update(s, j, kind, ok) \/ Remove(s, j, ok)
      PROVE  TypeInv'
  BY <1>4, RequestType
<1>5. ASSUME NEW s \in Services, NEW ok \in BOOLEAN, List(s, ok)
      PROVE  TypeInv'
  <2>1. Maintenance(store[s], FALSE) \in Files
    BY MaintenanceKeeps DEF TypeInv, Keeps
  <2>2. disk' \in Files /\ store' \in [Services -> Files] /\ troubles' \in 0..MaxTroubles
    BY <1>5, <2>1, PersistsType DEF List
  <2> QED BY <1>5, <2>2 DEF List, TypeInv
<1>6. ASSUME NEW s \in Services, TickFires(s) \/ TickEnds(s)
      PROVE  TypeInv'
  <2>1. TRUE \in BOOLEAN
    OBVIOUS
  <2> QED BY <1>6, <2>1, TickType
<1>7. ASSUME NEW s \in Services, Start(s) \/ Reload(s)
      PROVE  TypeInv'
  BY <1>7, StartType
<1>8. ASSUME NEW w \in Workers, NEW j \in Jobs, RunStarts(w, j)
      PROVE  TypeInv'
  BY <1>8, RunStartsType
<1>9. ASSUME NEW w \in Workers, NEW j \in Jobs, NEW o \in Outcomes, RunEnds(w, j, o)
      PROVE  TypeInv'
  BY <1>9, RunEndsType
<1>10. ASSUME NEW s \in Services, NEW m \in Manuals, NEW j \in Jobs, NEW forced \in BOOLEAN,
              ManualPreflight(s, m, j, forced)
       PROVE  TypeInv'
  BY <1>10, ManualPreflightType
<1>11. ASSUME NEW m \in Manuals, NEW ok \in BOOLEAN, ManualReserves(m, ok) \/ ManualFinishes(m, ok)
       PROVE  TypeInv'
  BY <1>11, ManualReservesType, ManualFinishesType
<1>12. ASSUME NEW m \in Manuals, NEW o \in Outcomes, ManualRunEnds(m, o)
       PROVE  TypeInv'
  BY <1>12, ManualRunEndsType
<1>13. ASSUME NEW j \in Jobs, TimePasses(j)
       PROVE  TypeInv'
  BY <1>13 DEF TimePasses, TypeInv
<1>14. CASE Crash \/ MarkersAge
  BY <1>14, CrashType, MarkersAgeType
<1> QED BY <1>1, <1>2, <1>3, <1>4, <1>5, <1>6, <1>7, <1>8, <1>9, <1>10, <1>11, <1>12, <1>13, <1>14 DEF Next

(* The variables of the scheduler keep their types.                        *)
THEOREM TypeCorrect == Spec => []TypeOK
<1>1. TypeInv /\ [Next]_vars => TypeInv'
  BY TypeNext
<1> QED BY TypeInit, <1>1, TypeInvTypeOK, PTL DEF Spec

-----------------------------------------------------------------------------
(* One service.  A job is claimed by a worker or a manual run from the     *)
(* moment it is marked until its result is applied; it is held if, in      *)
(* addition, it has not lost its marker.                                   *)
OneService == \A s, t \in Services : s = t

ClaimsIn(v) == v.todo \cup DOMAIN v.runs \cup DOMAIN v.results
WorkClaims(w) == ClaimsIn(work[w])
ManualClaims(m) == IF manual[m].pc \in {"run", "finish"} THEN {manual[m].job} ELSE {}
Held == {j \in Jobs \ disowned : \/ \E w \in Workers : j \in WorkClaims(w)
                                 \/ \E m \in Manuals : j \in ManualClaims(m)}

(* Whoever claims a job that is held is the only one.                      *)
OneClaim ==
    \A j \in Jobs \ disowned :
        /\ \A v, w \in Workers : j \in WorkClaims(v) /\ j \in WorkClaims(w) => v = w
        /\ \A m, n \in Manuals : j \in ManualClaims(m) /\ j \in ManualClaims(n) => m = n
        /\ \A w \in Workers, m \in Manuals : ~(j \in WorkClaims(w) /\ j \in ManualClaims(m))

(* In a file the jobs of K that are there have their marker; and it holds  *)
(* no job but those that were there at first or are in E.                  *)
Protects(f, K, E) ==
    /\ DOMAIN f \subseteq InitialJobs \cup E
    /\ \A j \in K \cap DOMAIN f : f[j].enabled /\ f[j].marker = "fresh"

FilesInv ==
    /\ Protects(disk, Held, edited)
    /\ Held \subseteq InitialJobs \cup edited
    /\ \A s \in Services : /\ Protects(store[s], Held, edited)
                           /\ DOMAIN store[s] \cap InitialJobs \subseteq DOMAIN disk

(* Until the markers of an earlier process are cleared nothing is claimed. *)
Quiet ==
    /\ timer = {}
    /\ \A s \in Services : work[Tick(s)].pc = "idle" /\ work[Boot(s)].pc \in {"idle", "marks"}
    /\ \A w \in Workers : WorkClaims(w) = {}
    /\ \A m \in Manuals : manual[m].pc \in {"idle", "done"}
Cleared == current # NoService /\ \A s \in Services : work[Boot(s)].pc # "marks"
QuietInv ==
    /\ Cleared \/ Quiet
    /\ current = NoService => \A w \in Workers : work[w].pc = "idle"

HeldInv == TypeInv /\ OneClaim /\ FilesInv /\ QuietInv

-----------------------------------------------------------------------------
(* What a step does to the claims.                                         *)

LEMMA WorkIs ==
    ASSUME TypeInv, NEW w \in Workers, NEW v, work' = [work EXCEPT ![w] = v]
    PROVE  /\ work'[w] = v /\ WorkClaims(w)' = ClaimsIn(v)
           /\ \A u \in Workers : u # w => work'[u] = work[u] /\ WorkClaims(u)' = WorkClaims(u)
BY DEF TypeInv, WorkClaims

(* A worker claims the jobs of D, which nobody holds, and releases others. *)
LEMMA WorkStep ==
    ASSUME TypeInv, OneClaim, NEW w \in Workers, NEW v, work' = [work EXCEPT ![w] = v],
           UNCHANGED manual, disowned \subseteq disowned',
           NEW D \in SUBSET Jobs, D \cap Held = {}, ClaimsIn(v) \subseteq WorkClaims(w) \cup D
    PROVE  /\ OneClaim' /\ Held' \subseteq Held \cup D
           /\ \A j \in WorkClaims(w) : j \notin ClaimsIn(v) => j \notin Held'
<1>1. /\ WorkClaims(w)' \subseteq WorkClaims(w) \cup D /\ WorkClaims(w)' = ClaimsIn(v)
      /\ \A u \in Workers : u # w => WorkClaims(u)' = WorkClaims(u)
  BY WorkIs
<1>2. \A m \in Manuals : ManualClaims(m)' = ManualClaims(m)
  BY DEF ManualClaims
<1>3. \A j \in D \ disowned :
         (\A u \in Workers : j \notin WorkClaims(u)) /\ (\A m \in Manuals : j \notin ManualClaims(m))
  BY DEF Held
<1>4. Held' = {j \in Jobs \ disowned' : \/ \E u \in Workers : j \in WorkClaims(u)'
                                        \/ \E m \in Manuals : j \in ManualClaims(m)'}
  BY DEF Held
<1>5. Held' \subseteq Held \cup D
  BY <1>1, <1>2, <1>4 DEF Held
<1>6. OneClaim'
  BY <1>1, <1>2, <1>3 DEF OneClaim
<1>7. \A j \in WorkClaims(w) : j \notin ClaimsIn(v) => j \notin Held'
  BY <1>1, <1>2, <1>4 DEF OneClaim
<1> QED BY <1>5, <1>6, <1>7

(* A manual run claims the jobs of D, of which the same is true.           *)
LEMMA ManualStep ==
    ASSUME TypeInv, OneClaim, NEW m \in Manuals, NEW D \in SUBSET Jobs, D \cap Held = {},
           \A w \in Workers : WorkClaims(w)' = WorkClaims(w),
           \A n \in Manuals : n # m => ManualClaims(n)' = ManualClaims(n),
           ManualClaims(m)' \subseteq ManualClaims(m) \cup D,
           disowned \subseteq disowned'
    PROVE  /\ OneClaim' /\ Held' \subseteq Held \cup D
           /\ \A j \in ManualClaims(m) : j \notin ManualClaims(m)' => j \notin Held'
<1>1. \A j \in D \ disowned :
         (\A u \in Workers : j \notin WorkClaims(u)) /\ (\A n \in Manuals : j \notin ManualClaims(n))
  BY DEF Held
<1>2. Held' = {j \in Jobs \ disowned' : \/ \E u \in Workers : j \in WorkClaims(u)'
                                        \/ \E n \in Manuals : j \in ManualClaims(n)'}
  BY DEF Held
<1>3. Held' \subseteq Held \cup D
  BY <1>2 DEF Held
<1>4. OneClaim'
  BY <1>1 DEF OneClaim
<1>5. \A j \in ManualClaims(m) : j \notin ManualClaims(m)' => j \notin Held'
  BY <1>2 DEF OneClaim
<1> QED BY <1>3, <1>4, <1>5

LEMMA ManualIs ==
    ASSUME TypeInv, NEW m \in Manuals, NEW v, manual' = [manual EXCEPT ![m] = v]
    PROVE  /\ ManualClaims(m)' = IF v.pc \in {"run", "finish"} THEN {v.job} ELSE {}
           /\ \A n \in Manuals : n # m => ManualClaims(n)' = ManualClaims(n)
BY DEF TypeInv, ManualClaims

LEMMA SameClaims ==
    ASSUME OneClaim, disowned \subseteq disowned',
           \A w \in Workers : WorkClaims(w)' = WorkClaims(w),
           \A m \in Manuals : ManualClaims(m)' = ManualClaims(m)
    PROVE  OneClaim' /\ Held' \subseteq Held
<1>1. Held' = {j \in Jobs \ disowned' : \/ \E u \in Workers : j \in WorkClaims(u)'
                                        \/ \E m \in Manuals : j \in ManualClaims(m)'}
  BY DEF Held
<1> QED BY <1>1 DEF OneClaim, Held

-----------------------------------------------------------------------------
(* What a step does to the files.                                          *)

LEMMA ProtectsLess ==
    ASSUME NEW f, NEW K, NEW L \in SUBSET K, NEW E, NEW F, E \subseteq F, Protects(f, K, E)
    PROVE  Protects(f, L, F)
BY DEF Protects

LEMMA ProtectsKept ==
    ASSUME NEW f, NEW g, NEW K, NEW L \in SUBSET K, NEW E, Protects(f, K, E), Keeps(f, g, L)
    PROVE  Protects(g, L, E)
BY DEF Protects, Keeps

(* Nothing is claimed, and one memory, or the file and it, is written.     *)
LEMMA Written ==
    ASSUME TypeInv, OneService, FilesInv, NEW s \in Services, NEW f,
           store' = [store EXCEPT ![s] = f], disk' = f \/ disk' = disk,
           Held' \subseteq Held, edited \subseteq edited',
           Protects(f, Held', edited'), DOMAIN f \cap InitialJobs \subseteq DOMAIN disk
    PROVE  FilesInv'
<1>1. store'[s] = f /\ \A t \in Services : t = s
  BY DEF TypeInv, OneService
<1>2. Protects(disk, Held', edited')
  BY ProtectsLess DEF FilesInv
<1>3. Protects(disk', Held', edited') /\ DOMAIN f \cap InitialJobs \subseteq DOMAIN disk'
  BY <1>2
<1> QED BY <1>1, <1>3 DEF FilesInv, Protects

(* Jobs are claimed, and the write succeeds.                               *)
LEMMA WrittenBoth ==
    ASSUME TypeInv, OneService, NEW s \in Services, NEW f,
           store' = [store EXCEPT ![s] = f], disk' = f,
           Protects(f, Held', edited'), Held' \subseteq InitialJobs \cup edited'
    PROVE  FilesInv'
<1>1. store'[s] = f /\ \A t \in Services : t = s
  BY DEF TypeInv, OneService
<1> QED BY <1>1 DEF FilesInv, Protects

LEMMA NotWritten ==
    ASSUME FilesInv, UNCHANGED <<disk, store>>, Held' \subseteq Held, edited \subseteq edited'
    PROVE  FilesInv'
BY DEF FilesInv, Protects

(* A step that is not one of a service that is about to start.             *)
LEMMA StaysCleared ==
    ASSUME QuietInv, ~Quiet, UNCHANGED current,
           \A s \in Services : work'[Boot(s)].pc = "marks" => work[Boot(s)].pc = "marks"
    PROVE  QuietInv'
BY DEF QuietInv, Cleared

-----------------------------------------------------------------------------
(* The steps.                                                              *)

LEMMA TickHeld ==
    ASSUME HeldInv, TypeInv', OneService, NEW s \in Services, NEW ok \in BOOLEAN,
           TickFires(s) \/ TickChecks(s, ok) \/ TickApplies(s, ok) \/ TickEnds(s)
    PROVE  HeldInv'
<1> USE DEF HeldInv
<1>0. /\ Tick(s) \in Workers /\ work[Tick(s)] \in WorkType /\ disk \in Files
      /\ clock \in [Jobs -> Nat] /\ DOMAIN disk \subseteq Jobs
      /\ \A t \in Services : Boot(t) \in Workers /\ Boot(t) # Tick(s)
      /\ {} \in SUBSET Jobs /\ {} \cap Held = {}
  BY WorkTypes, SomeIs DEF TypeInv, Files, Tick, Boot
<1>q. QuietInv'
  <2>1. ~Quiet
    BY DEF TickFires, TickChecks, TickApplies, TickEnds, RunsOver, Quiet
  <2>2. UNCHANGED current /\ \E v : work' = [work EXCEPT ![Tick(s)] = v]
    BY DEF TickFires, TickChecks, TickApplies, TickEnds, TypeInv
  <2>3. \A t \in Services : work'[Boot(t)] = work[Boot(t)]
    BY <1>0, <2>2, WorkIs
  <2> QED BY <2>1, <2>2, <2>3, StaysCleared
<1>1. CASE TickFires(s)
  <2> DEFINE v == [work[Tick(s)] EXCEPT !.pc = "check"]
  <2>1. work' = [work EXCEPT ![Tick(s)] = v] /\ ClaimsIn(v) \subseteq WorkClaims(Tick(s)) \cup {}
    BY <1>0, <1>1 DEF TickFires, TypeInv, ClaimsIn, WorkClaims, WorkType
  <2> HIDE DEF v
  <2>2. OneClaim' /\ Held' \subseteq Held \cup {}
    BY <1>0, <1>1, <2>1, WorkStep DEF TickFires
  <2> QED BY <1>q, <1>1, <2>2, NotWritten DEF TickFires
<1>2. CASE TickChecks(s, ok)
  <2> DEFINE due == {j \in DOMAIN disk : Runnable(j, disk[j])}
             f == IF due = {} THEN Maintenance(disk, TRUE) ELSE Marked(disk, due)
             v == IF ok /\ due # {}
                  THEN [work[Tick(s)] EXCEPT !.pc = "run", !.todo = due, !.live = TRUE]
                  ELSE [work[Tick(s)] EXCEPT !.pc = "end"]
             D == IF ok THEN due ELSE {}
  <2>1. due \in SUBSET Jobs /\ due \cap Held = {}
    <3>1. \A j \in due : disk[j].marker = "none" /\ j \in DOMAIN disk
      BY DEF Runnable
    <3> QED BY <1>0, <3>1 DEF FilesInv, Protects
  <2>2. ClaimsIn(v) \subseteq WorkClaims(Tick(s)) \cup D /\ work' = [work EXCEPT ![Tick(s)] = v]
    BY <1>0, <1>2 DEF TickChecks, ClaimsIn, WorkClaims, WorkType
  <2>3. UNCHANGED <<manual, disowned, edited>> /\ D \in SUBSET Jobs /\ D \cap Held = {}
    BY <1>2, <2>1 DEF TickChecks
  <2>4. OneClaim' /\ Held' \subseteq Held \cup D
    <3> HIDE DEF v, D
    <3> QED BY <1>0, <2>2, <2>3, WorkStep
  <2>5. Keeps(disk, f, Held) /\ DOMAIN f = DOMAIN disk /\ f \in Files
    BY <1>0, MaintenanceKeeps, MarkedKeeps DEF Keeps
  <2>6. /\ store' = [store EXCEPT ![s] = f] /\ (disk' = f \/ disk' = disk)
        /\ ok /\ due # {} => disk' = f
    BY <1>2 DEF TickChecks, Persists, PersistsChange
  <2>7. Protects(f, Held, edited)
    BY <2>5, ProtectsKept DEF FilesInv
  <2>8. CASE ok /\ due # {}
    <3>1. \A j \in due : disk[j].enabled
      BY DEF Runnable
    <3>2. \A j \in due : f[j].enabled /\ f[j].marker = "fresh"
      <4>1. f = Marked(disk, due)
        BY <2>8
      <4> HIDE DEF f
      <4>2. \A j \in due \cap DOMAIN disk : f[j].marker = "fresh" /\ f[j].enabled = disk[j].enabled
        BY <1>0, <4>1, MarkedKeeps
      <4> QED BY <3>1, <4>2
    <3> HIDE DEF f, v
    <3>3. Protects(f, Held', edited')
      BY <2>3, <2>4, <2>7, <3>2 DEF Protects
    <3>4. Held' \subseteq InitialJobs \cup edited'
      BY <2>3, <2>4 DEF FilesInv, Protects
    <3> HIDE DEF due
    <3>5. FilesInv'
      BY <2>6, <2>8, <3>3, <3>4, WrittenBoth
    <3> QED BY <1>q, <2>4, <3>5
  <2>9. CASE ~(ok /\ due # {})
    <3>1. Held' \subseteq Held
      BY <2>4, <2>9
    <3> HIDE DEF f, v, due, D
    <3>2. Protects(f, Held', edited') /\ DOMAIN f \cap InitialJobs \subseteq DOMAIN disk
      BY <2>3, <2>5, <2>7, <3>1, ProtectsLess
    <3>3. FilesInv'
      BY <2>3, <2>6, <3>1, <3>2, Written
    <3> QED BY <1>q, <2>4, <3>3
  <2> QED BY <2>8, <2>9
<1>3. CASE TickApplies(s, ok)
  <2> DEFINE g == AppliedAll(disk, work[Tick(s)].results)
             f == Maintenance(g, FALSE)
             v == [Idle EXCEPT !.pc = "end"]
  <2>1. work' = [work EXCEPT ![Tick(s)] = v] /\ ClaimsIn(v) = {}
    BY <1>3, WorkTypes DEF TickApplies, ClaimsIn, Idle
  <2>2. UNCHANGED <<manual, disowned, edited>> /\ Persists(s, f, ok)
    BY <1>3 DEF TickApplies
  <2>3. /\ OneClaim' /\ Held' \subseteq Held
        /\ \A j \in WorkClaims(Tick(s)) : j \notin Held'
    BY <1>0, <2>1, <2>2, WorkStep
  <2>4. Held' \subseteq Held \ DOMAIN work[Tick(s)].results
    BY <2>3 DEF WorkClaims, ClaimsIn
  <2>5. work[Tick(s)].results \in Some(Results)
    BY <1>0 DEF WorkType
  <2>6. Keeps(disk, g, Held \ DOMAIN work[Tick(s)].results) /\ g \in Files
    BY <1>0, <2>5, AppliedAllKeeps DEF Keeps
  <2> HIDE DEF g
  <2>7. Keeps(g, f, Held \ DOMAIN work[Tick(s)].results)
    BY <1>0, <2>6, MaintenanceKeeps
  <2> HIDE DEF f, v
  <2>8. Keeps(disk, f, Held \ DOMAIN work[Tick(s)].results)
    BY <2>6, <2>7, KeepsBoth
  <2>9. Protects(f, Held \ DOMAIN work[Tick(s)].results, edited)
    BY <2>8, ProtectsKept DEF FilesInv
  <2>10. Protects(f, Held', edited') /\ DOMAIN f \cap InitialJobs \subseteq DOMAIN disk
    BY <2>2, <2>4, <2>8, <2>9, ProtectsLess DEF Keeps
  <2>11. store' = [store EXCEPT ![s] = f] /\ (disk' = f \/ disk' = disk)
    BY <2>2 DEF Persists
  <2> QED BY <1>q, <2>2, <2>3, <2>10, <2>11, Written
<1>4. CASE TickEnds(s)
  <2>1. work' = [work EXCEPT ![Tick(s)] = Idle] /\ ClaimsIn(Idle) \subseteq WorkClaims(Tick(s)) \cup {}
    BY <1>4, WorkTypes DEF TickEnds, ClaimsIn
  <2>2. OneClaim' /\ Held' \subseteq Held \cup {}
    BY <1>0, <1>4, <2>1, WorkStep DEF TickEnds
  <2> QED BY <1>q, <1>4, <2>2, NotWritten DEF TickEnds
<1> QED BY <1>1, <1>2, <1>3, <1>4

LEMMA RunStartsHeld ==
    ASSUME HeldInv, TypeInv', OneService, NEW w \in Workers, NEW j \in Jobs, RunStarts(w, j)
    PROVE  HeldInv'
<1> USE DEF HeldInv
<1>0. /\ work[w] \in WorkType /\ w[2] \in Services /\ store[w[2]] \in Files
      /\ work[w].runs \in Some(Nat) /\ clock[j] \in Nat
      /\ \A t \in Services : Boot(t) \in Workers /\ work[Boot(t)] \in WorkType
      /\ {} \in SUBSET Jobs /\ {} \cap Held = {}
  BY WorkTypes DEF TypeInv, WorkType
<1> DEFINE v == [work[w] EXCEPT !.todo = @ \ {j}, !.runs = With(@, j, clock[j])]
           f == IF work[w].live THEN Marked(store[w[2]], {j}) ELSE store[w[2]]
<1>1. work' = [work EXCEPT ![w] = v] /\ v.pc = work[w].pc
  BY <1>0 DEF RunStarts, TypeInv, WorkType
<1>2. ClaimsIn(v) \subseteq WorkClaims(w) \cup {}
  <2>1. DOMAIN With(work[w].runs, j, clock[j]) = DOMAIN work[w].runs \cup {j}
    BY DEF With
  <2> QED BY <1>0, <2>1 DEF RunStarts, ClaimsIn, WorkClaims, WorkType
<1> HIDE DEF v
<1>3. QuietInv'
  <2>1. ~Quiet
    BY WorkTypes DEF RunStarts, Quiet
  <2>2. \A t \in Services : work'[Boot(t)].pc = work[Boot(t)].pc
    BY <1>0, <1>1, WorkIs
  <2> QED BY <2>1, <2>2, StaysCleared DEF RunStarts
<1>4. OneClaim' /\ Held' \subseteq Held
  BY <1>0, <1>1, <1>2, WorkStep DEF RunStarts
<1>5. Keeps(store[w[2]], f, Held) /\ DOMAIN f = DOMAIN store[w[2]]
  BY <1>0, MarkedKeeps, KeepsSame
<1>6. store' = [store EXCEPT ![w[2]] = f]
  BY <1>0 DEF RunStarts, TypeInv
<1> HIDE DEF f
<1>7. Protects(f, Held, edited)
  BY <1>0, <1>5, ProtectsKept DEF FilesInv
<1>8. UNCHANGED <<edited, disk>> /\ Protects(f, Held', edited')
  BY <1>4, <1>7, ProtectsLess DEF RunStarts
<1>9. DOMAIN f \cap InitialJobs \subseteq DOMAIN disk
  BY <1>0, <1>5 DEF FilesInv
<1> QED BY <1>0, <1>3, <1>4, <1>6, <1>8, <1>9, Written

LEMMA RunEndsHeld ==
    ASSUME HeldInv, TypeInv', OneService, NEW w \in Workers, NEW j \in Jobs, NEW o \in Outcomes,
           RunEnds(w, j, o)
    PROVE  HeldInv'
<1> USE DEF HeldInv
<1>0. /\ work[w] \in WorkType /\ work[w].runs \in Some(Nat) /\ work[w].results \in Some(Results)
      /\ \A t \in Services : Boot(t) \in Workers
      /\ {} \in SUBSET Jobs /\ {} \cap Held = {}
  BY WorkTypes DEF TypeInv, WorkType
<1> DEFINE res == [outcome |-> o, started |-> work[w].runs[j]]
           v == [work[w] EXCEPT !.runs = Without(@, j), !.results = With(@, j, res)]
<1>1. work' = [work EXCEPT ![w] = v] /\ v.pc = work[w].pc
  BY <1>0 DEF RunEnds, TypeInv, WorkType
<1>2. ClaimsIn(v) \subseteq WorkClaims(w) \cup {}
  <2>2. DOMAIN Without(work[w].runs, j) = DOMAIN work[w].runs \ {j}
    BY <1>0, SomeWithout
  <2>3. DOMAIN With(work[w].results, j, res) = DOMAIN work[w].results \cup {j}
    BY DEF With
  <2> QED BY <1>0, <2>2, <2>3 DEF RunEnds, ClaimsIn, WorkClaims, WorkType
<1> HIDE DEF v
<1>3. QuietInv'
  <2>1. ~Quiet
    BY DEF RunEnds, Quiet, WorkClaims, ClaimsIn
  <2>2. \A t \in Services : work'[Boot(t)].pc = work[Boot(t)].pc
    BY <1>0, <1>1, WorkIs
  <2> QED BY <2>1, <2>2, StaysCleared DEF RunEnds
<1>4. OneClaim' /\ Held' \subseteq Held
  BY <1>0, <1>1, <1>2, WorkStep DEF RunEnds
<1> QED BY <1>3, <1>4, NotWritten DEF RunEnds

(* A step of the catch-up: it sets the worker's record, and may claim D.   *)
LEMMA BootStep ==
    ASSUME TypeInv, OneClaim, NEW s \in Services, NEW ok \in BOOLEAN, NEW next,
           BootGoes(s, ok, next), UNCHANGED <<manual, disowned>>,
           NEW D \in SUBSET Jobs, D \cap Held = {},
           ok => ClaimsIn(next) \subseteq WorkClaims(Boot(s)) \cup D
    PROVE  /\ OneClaim' /\ Held' \subseteq Held \cup D
           /\ \A j \in WorkClaims(Boot(s)) : ~ok \/ j \notin ClaimsIn(next) => j \notin Held'
<1> DEFINE v == IF ok THEN next ELSE [Idle EXCEPT !.pc = "failed"]
<1>1. ClaimsIn([Idle EXCEPT !.pc = "failed"]) = {}
  BY WorkTypes DEF ClaimsIn, Idle
<1>2. /\ ClaimsIn(v) \subseteq WorkClaims(Boot(s)) \cup D
      /\ ok => ClaimsIn(v) = ClaimsIn(next)
      /\ ~ok => ClaimsIn(v) = {}
  BY <1>1
<1>3. Boot(s) \in Workers /\ work' = [work EXCEPT ![Boot(s)] = v]
  BY WorkTypes DEF BootGoes
<1> HIDE DEF v
<1>4. /\ OneClaim' /\ Held' \subseteq Held \cup D
      /\ \A j \in WorkClaims(Boot(s)) : j \notin ClaimsIn(v) => j \notin Held'
  BY <1>2, <1>3, WorkStep
<1> QED BY <1>2, <1>4

LEMMA BootQuiet ==
    ASSUME HeldInv, NEW s \in Services, NEW ok \in BOOLEAN,
           BootPlans(s, ok) \/ BootApplies(s, ok) \/ BootEnds(s, ok)
    PROVE  QuietInv'
<1>1. ~Quiet /\ UNCHANGED current
  BY DEF BootPlans, BootApplies, BootEnds, RunsOver, Quiet
<1>2. \E next : BootGoes(s, ok, next) /\ next.pc # "marks"
  <2>1. CASE BootPlans(s, ok)
    <3>1. \E C, A : \/ BootGoes(s, ok, [Idle EXCEPT !.pc = "final"])
                    \/ BootGoes(s, ok, [Idle EXCEPT !.pc = "run", !.todo = C, !.aside = A])
      BY <2>1 DEF BootPlans
    <3>2. [Idle EXCEPT !.pc = "final"].pc = "final"
          /\ \A C, A : [Idle EXCEPT !.pc = "run", !.todo = C, !.aside = A].pc = "run"
      BY DEF Idle
    <3> QED BY <3>1, <3>2
  <2>2. CASE BootApplies(s, ok)
    <3>1. [Idle EXCEPT !.pc = "final"].pc = "final"
      BY DEF Idle
    <3> QED BY <2>2, <3>1 DEF BootApplies
  <2>3. CASE BootEnds(s, ok)
    BY <2>3, WorkTypes DEF BootEnds
  <2> QED BY <2>1, <2>2, <2>3
<1>3. PICK next : BootGoes(s, ok, next) /\ next.pc # "marks"
  BY <1>2
<1> DEFINE v == IF ok THEN next ELSE [Idle EXCEPT !.pc = "failed"]
<1>4. v.pc # "marks"
  BY <1>3 DEF Idle
<1>5. Boot(s) \in Workers /\ work' = [work EXCEPT ![Boot(s)] = v]
      /\ \A t \in Services : Boot(t) \in Workers
  BY <1>3, WorkTypes DEF BootGoes
<1> HIDE DEF v
<1>6. \A t \in Services : work'[Boot(t)].pc = "marks" => work[Boot(t)].pc = "marks"
  BY <1>4, <1>5, WorkIs DEF HeldInv
<1> QED BY <1>1, <1>6, StaysCleared DEF HeldInv

LEMMA BootMarksHeld ==
    ASSUME HeldInv, TypeInv', OneService, NEW s \in Services, NEW ok \in BOOLEAN, BootMarks(s, ok)
    PROVE  HeldInv'
<1> USE DEF HeldInv
<1> DEFINE marked == {j \in DOMAIN disk : disk[j].marker # "none"}
           f == [j \in DOMAIN disk |-> [disk[j] EXCEPT !.marker = "none"]]
           next == [Idle EXCEPT !.pc = "plan", !.aside = marked]
           v == IF ok THEN next ELSE [Idle EXCEPT !.pc = "failed"]
<1>1. Boot(s) \in Workers /\ work[Boot(s)].pc = "marks" /\ \A t \in Services : t = s
  BY WorkTypes DEF BootMarks, OneService
<1>2. Quiet
  BY <1>1 DEF QuietInv, Cleared
<1>3. Held = {}
  BY <1>2 DEF Held, Quiet, ManualClaims
<1>4. ClaimsIn(next) = {} /\ v.pc # "marks"
  BY WorkTypes DEF ClaimsIn, Idle
<1>5. BootGoes(s, ok, next) /\ work' = [work EXCEPT ![Boot(s)] = v]
  BY DEF BootMarks, BootGoes
<1>6. /\ UNCHANGED <<manual, disowned, edited, current>>
      /\ store' = [store EXCEPT ![s] = f] /\ (disk' = f \/ disk' = disk)
      /\ DOMAIN f = DOMAIN disk
  BY DEF BootMarks, PersistsChange, Persists
<1> HIDE DEF f, next, v, marked
<1>7. OneClaim' /\ Held' \subseteq Held \cup {}
  BY <1>3, <1>4, <1>5, <1>6, BootStep
<1>8. current # NoService
  <2>1. current = NoService => work[Boot(s)].pc = "idle"
    BY <1>1 DEF QuietInv
  <2> QED BY <1>1, <2>1
<1>9. QuietInv'
  BY <1>1, <1>4, <1>5, <1>6, <1>8, WorkIs DEF QuietInv, Cleared
<1>10. Protects(f, Held', edited') /\ DOMAIN f \cap InitialJobs \subseteq DOMAIN disk
  BY <1>3, <1>6, <1>7 DEF Protects, FilesInv
<1>11. FilesInv'
  BY <1>6, <1>7, <1>10, Written
<1> QED BY <1>7, <1>9, <1>11

LEMMA BootPlansHeld ==
    ASSUME HeldInv, TypeInv', OneService, NEW s \in Services, NEW ok \in BOOLEAN, BootPlans(s, ok)
    PROVE  HeldInv'
<1> USE DEF HeldInv
<1>0. /\ store[s] \in Files /\ DOMAIN store[s] \subseteq Jobs /\ {} \in SUBSET Jobs
      /\ QuietInv' /\ UNCHANGED <<manual, disowned, edited>>
  BY BootQuiet, SomeIs DEF TypeInv, Files, BootPlans
<1> DEFINE open == DOMAIN store[s] \ work[Boot(s)].aside
           missed == {j \in open : Overdue(j, store[s][j]) \/ SlotMissed(j, store[s][j])}
<1>1. \A j \in missed : j \in DOMAIN store[s] /\ store[s][j].marker = "none" /\ store[s][j].enabled
  BY DEF Overdue, SlotMissed, Runnable
<1>2. ASSUME BootGoes(s, ok, [Idle EXCEPT !.pc = "final"]), UNCHANGED <<disk, store>>
      PROVE  HeldInv'
  <2>1. ClaimsIn([Idle EXCEPT !.pc = "final"]) = {}
    BY WorkTypes DEF ClaimsIn, Idle
  <2>2. OneClaim' /\ Held' \subseteq Held \cup {}
    BY <1>0, <1>2, <2>1, BootStep
  <2> QED BY <1>0, <1>2, <2>2, NotWritten
<1>3. ASSUME NEW C \in SUBSET missed, NEW A, Persists(s, Marked(store[s], C), ok),
             BootGoes(s, ok, [Idle EXCEPT !.pc = "run", !.todo = C, !.aside = A])
      PROVE  HeldInv'
  <2> DEFINE f == Marked(store[s], C)
             next == [Idle EXCEPT !.pc = "run", !.todo = C, !.aside = A]
             D == IF ok THEN C ELSE {}
  <2>1. ClaimsIn(next) = C
    BY WorkTypes DEF ClaimsIn, Idle
  <2>2. D \in SUBSET Jobs /\ D \cap Held = {} /\ C \subseteq DOMAIN store[s]
        /\ \A j \in C : store[s][j].enabled
    BY <1>0, <1>1 DEF FilesInv, Protects
  <2>3. Keeps(store[s], f, Held) /\ DOMAIN f = DOMAIN store[s]
        /\ \A j \in C \cap DOMAIN store[s] : f[j].marker = "fresh" /\ f[j].enabled = store[s][j].enabled
    BY <1>0, MarkedKeeps
  <2>4. /\ store' = [store EXCEPT ![s] = f] /\ (disk' = f \/ disk' = disk)
        /\ ok => disk' = f
    BY <1>3 DEF Persists
  <2>5. BootGoes(s, ok, next) /\ (ok => C = D) /\ (~ok => D = {})
    BY <1>3
  <2> HIDE DEF f, next, D, missed, open
  <2>6. OneClaim' /\ Held' \subseteq Held \cup D
    BY <1>0, <2>1, <2>2, <2>5, BootStep
  <2>7. Protects(f, Held, edited)
    BY <2>3, ProtectsKept DEF FilesInv
  <2>8. CASE ok
    <3>1. Protects(f, Held', edited')
      BY <1>0, <2>2, <2>3, <2>5, <2>6, <2>7, <2>8 DEF Protects
    <3>2. Held' \subseteq InitialJobs \cup edited'
      BY <1>0, <2>2, <2>5, <2>6, <2>8 DEF FilesInv, Protects
    <3>3. FilesInv'
      BY <2>4, <2>8, <3>1, <3>2, WrittenBoth
    <3> QED BY <1>0, <2>6, <3>3
  <2>9. CASE ~ok
    <3>1. Held' \subseteq Held
      BY <2>5, <2>6, <2>9
    <3>2. Protects(f, Held', edited') /\ DOMAIN f \cap InitialJobs \subseteq DOMAIN disk
      BY <1>0, <2>3, <2>7, <3>1, ProtectsLess DEF FilesInv
    <3>3. FilesInv'
      BY <1>0, <2>4, <3>1, <3>2, Written
    <3> QED BY <1>0, <2>6, <3>3
  <2> QED BY <2>8, <2>9
<1>4. \/ BootGoes(s, ok, [Idle EXCEPT !.pc = "final"]) /\ UNCHANGED <<disk, store>>
      \/ \E C \in SUBSET missed : \E A :
            /\ Persists(s, Marked(store[s], C), ok)
            /\ BootGoes(s, ok, [Idle EXCEPT !.pc = "run", !.todo = C, !.aside = A])
  BY DEF BootPlans
<1> QED BY <1>2, <1>3, <1>4

LEMMA BootAppliesHeld ==
    ASSUME HeldInv, TypeInv', OneService, NEW s \in Services, NEW ok \in BOOLEAN, BootApplies(s, ok)
    PROVE  HeldInv'
<1> USE DEF HeldInv
<1> DEFINE f == CaughtUp(s)
           next == [Idle EXCEPT !.pc = "final"]
           R == DOMAIN work[Boot(s)].results
<1>1. ClaimsIn(next) = {}
  BY WorkTypes DEF ClaimsIn, Idle
<1>2. /\ Persists(s, f, ok) /\ BootGoes(s, ok, next)
      /\ UNCHANGED <<manual, disowned, edited>> /\ {} \in SUBSET Jobs /\ QuietInv'
  BY BootAppliesIs, BootQuiet
<1> HIDE DEF next
<1>3. /\ OneClaim' /\ Held' \subseteq Held \cup {}
      /\ \A j \in WorkClaims(Boot(s)) : j \notin Held'
  BY <1>1, <1>2, BootStep
<1>4. Held' \subseteq Held \ R
  BY <1>3 DEF WorkClaims, ClaimsIn
<1>5. Keeps(store[s], f, Held \ R)
  BY CaughtUpKeeps
<1> HIDE DEF f, R
<1>6. Protects(f, Held \ R, edited)
  BY <1>5, ProtectsKept DEF FilesInv
<1>7. Protects(f, Held', edited') /\ DOMAIN f \cap InitialJobs \subseteq DOMAIN disk
  BY <1>2, <1>4, <1>5, <1>6, ProtectsLess DEF Keeps, FilesInv
<1>8. store' = [store EXCEPT ![s] = f] /\ (disk' = f \/ disk' = disk)
  BY <1>2 DEF Persists
<1>9. FilesInv'
  BY <1>2, <1>3, <1>7, <1>8, Written
<1> QED BY <1>2, <1>3, <1>9

LEMMA BootEndsHeld ==
    ASSUME HeldInv, TypeInv', OneService, NEW s \in Services, NEW ok \in BOOLEAN, BootEnds(s, ok)
    PROVE  HeldInv'
<1> USE DEF HeldInv
<1> DEFINE f == Recomputed(store[s])
<1>1. ClaimsIn(Idle) = {}
  BY WorkTypes DEF ClaimsIn
<1>2. /\ BootGoes(s, ok, Idle)
      /\ UNCHANGED <<manual, disowned, edited>> /\ {} \in SUBSET Jobs /\ QuietInv'
  BY BootQuiet DEF BootEnds
<1>3. OneClaim' /\ Held' \subseteq Held \cup {}
  BY <1>1, <1>2, BootStep
<1>4. Keeps(store[s], f, Held) /\ DOMAIN f = DOMAIN store[s]
  BY RecomputedKeeps DEF TypeInv
<1>5. store' = [store EXCEPT ![s] = f] /\ (disk' = f \/ disk' = disk)
  BY DEF BootEnds, PersistsChange, Persists
<1> HIDE DEF f
<1>6. Protects(f, Held, edited)
  BY <1>4, ProtectsKept DEF FilesInv
<1>7. Protects(f, Held', edited') /\ DOMAIN f \cap InitialJobs \subseteq DOMAIN disk
  BY <1>2, <1>3, <1>4, <1>6, ProtectsLess DEF FilesInv
<1>8. FilesInv'
  BY <1>2, <1>3, <1>5, <1>7, Written
<1> QED BY <1>2, <1>3, <1>8

(* A request: it is served, claims nothing, and writes f.                  *)
LEMMA RequestHeld ==
    ASSUME HeldInv, TypeInv', OneService, NEW s \in Services, NEW f,
           Serving(s), UNCHANGED <<work, current>>,
           \A m \in Manuals : ManualClaims(m)' = ManualClaims(m),
           disowned \subseteq disowned', edited \subseteq edited',
           store' = [store EXCEPT ![s] = f], disk' = f \/ disk' = disk,
           Protects(f, Held', edited'), DOMAIN f \cap InitialJobs \subseteq DOMAIN disk
    PROVE  HeldInv'
<1> USE DEF HeldInv
<1>1. OneClaim' /\ Held' \subseteq Held
  BY SameClaims DEF WorkClaims
<1>2. current # NoService /\ \A t \in Services : work[Boot(t)].pc # "marks"
  BY ConstantsAssumption DEF Serving, OneService
<1>3. QuietInv'
  BY <1>2 DEF QuietInv, Cleared
<1>4. FilesInv'
  BY <1>1, Written
<1> QED BY <1>1, <1>3, <1>4

LEMMA EditsAre ==
    ASSUME NEW s \in Services, NEW j \in Jobs, NEW f, NEW ok \in BOOLEAN, Edits(s, j, f, ok)
    PROVE  /\ UNCHANGED <<work, current>> /\ edited' = edited \cup {j}
           /\ store' = [store EXCEPT ![s] = f] /\ (disk' = f \/ disk' = disk)
           /\ \A m \in Manuals : ManualClaims(m)' = ManualClaims(m)
BY DEF Edits, Persists, ManualClaims

LEMMA HeldLess ==
    ASSUME OneClaim, UNCHANGED work, disowned \subseteq disowned',
           \A m \in Manuals : ManualClaims(m)' = ManualClaims(m)
    PROVE  Held' \subseteq Held
BY SameClaims DEF WorkClaims

LEMMA AddHeld ==
    ASSUME HeldInv, TypeInv', OneService, NEW s \in Services, NEW j \in Jobs, NEW ok \in BOOLEAN,
           Add(s, j, ok)
    PROVE  HeldInv'
<1> USE DEF HeldInv
<1> DEFINE new == NewJob(clock[j] + 1, ~Recurring(j))
           g == With(store[s], j, new)
           f == Recomputed(g)
<1>1. Serving(s) /\ j \notin InitialJobs \cup edited /\ Edits(s, j, f, ok) /\ UNCHANGED disowned
  BY DEF Add
<1>2. g \in Files /\ DOMAIN g = DOMAIN store[s] \cup {j} /\ \A k \in DOMAIN g \ {j} : g[k] = store[s][k]
  BY RequestFiles DEF With
<1> HIDE DEF g
<1>3. Keeps(g, f, Held) /\ DOMAIN f = DOMAIN g
  BY <1>2, RecomputedKeeps DEF TypeInv
<1> HIDE DEF f
<1>4. /\ UNCHANGED <<work, current>> /\ edited' = edited \cup {j}
      /\ store' = [store EXCEPT ![s] = f] /\ (disk' = f \/ disk' = disk)
      /\ \A m \in Manuals : ManualClaims(m)' = ManualClaims(m)
  BY <1>1, EditsAre
<1>5. Held' \subseteq Held
  BY <1>1, <1>4, HeldLess
<1>6. Protects(g, Held, edited')
  BY <1>1, <1>2, <1>4 DEF FilesInv, Protects
<1>7. Protects(f, Held, edited')
  BY <1>3, <1>6, ProtectsKept
<1>8. Protects(f, Held', edited') /\ DOMAIN f \cap InitialJobs \subseteq DOMAIN disk
  BY <1>1, <1>2, <1>3, <1>5, <1>7, ProtectsLess DEF FilesInv
<1> QED BY <1>1, <1>4, <1>8, RequestHeld

LEMMA UpdateHeld ==
    ASSUME HeldInv, TypeInv', OneService, NEW s \in Services, NEW j \in Jobs, NEW ok \in BOOLEAN,
           NEW kind, Update(s, j, kind, ok)
    PROVE  HeldInv'
<1> USE DEF HeldInv
<1> DEFINE r == store[s][j]
           p == Patched(j, r, kind)
           f == [store[s] EXCEPT ![j] = p]
<1>1. /\ Serving(s) /\ j \in DOMAIN store[s] /\ Edits(s, j, f, ok)
      /\ disowned' = IF p.enabled THEN disowned ELSE disowned \cup ({j} \cap Claimed)
  BY DEF Update
<1>2. r \in Records /\ (p.enabled /\ r.marker = "fresh" => p.marker = "fresh")
  BY <1>1, SomeIs, PatchedType DEF TypeInv, Files
<1> HIDE DEF p
<1>3. /\ DOMAIN f = DOMAIN store[s] /\ f[j] = p
      /\ \A k \in DOMAIN f \ {j} : f[k] = store[s][k]
  BY <1>1
<1> HIDE DEF f
<1>4. /\ UNCHANGED <<work, current>> /\ edited' = edited \cup {j}
      /\ store' = [store EXCEPT ![s] = f] /\ (disk' = f \/ disk' = disk)
      /\ \A m \in Manuals : ManualClaims(m)' = ManualClaims(m)
      /\ disowned \subseteq disowned'
  BY <1>1, EditsAre
<1>5. Held' \subseteq Held
  BY <1>4, HeldLess
<1>6. ~p.enabled => j \notin Held'
  <2>1. j \in Held => j \in Claimed
    BY DEF Held, Claimed, WorkClaims, ClaimsIn, ManualClaims
  <2>2. Held' \cap disowned' = {}
    BY DEF Held
  <2> QED BY <1>1, <1>5, <2>1, <2>2
<1>7. Protects(store[s], Held, edited)
  BY DEF FilesInv
<1>8. Protects(f, Held', edited')
  BY <1>1, <1>2, <1>3, <1>4, <1>5, <1>6, <1>7 DEF Protects
<1>9. DOMAIN f \cap InitialJobs \subseteq DOMAIN disk
  BY <1>3 DEF FilesInv
<1> QED BY <1>1, <1>4, <1>8, <1>9, RequestHeld

LEMMA RemoveHeld ==
    ASSUME HeldInv, TypeInv', OneService, NEW s \in Services, NEW j \in Jobs, NEW ok \in BOOLEAN,
           Remove(s, j, ok)
    PROVE  HeldInv'
<1> USE DEF HeldInv
<1> DEFINE f == Without(store[s], j)
<1>1. Serving(s) /\ Edits(s, j, f, ok) /\ UNCHANGED disowned
  BY DEF Remove
<1>2. DOMAIN f \subseteq DOMAIN store[s] /\ \A k \in DOMAIN f : f[k] = store[s][k]
  BY DEF Without, Restrict
<1> HIDE DEF f
<1>3. /\ UNCHANGED <<work, current>> /\ edited' = edited \cup {j}
      /\ store' = [store EXCEPT ![s] = f] /\ (disk' = f \/ disk' = disk)
      /\ \A m \in Manuals : ManualClaims(m)' = ManualClaims(m)
  BY <1>1, EditsAre
<1>4. Held' \subseteq Held
  BY <1>1, <1>3, HeldLess
<1>5. Protects(store[s], Held, edited)
  BY DEF FilesInv
<1>6. Protects(f, Held', edited')
  BY <1>2, <1>3, <1>4, <1>5 DEF Protects
<1>7. DOMAIN f \cap InitialJobs \subseteq DOMAIN disk
  BY <1>2 DEF FilesInv
<1> QED BY <1>1, <1>3, <1>6, <1>7, RequestHeld

LEMMA ListHeld ==
    ASSUME HeldInv, TypeInv', OneService, NEW s \in Services, NEW ok \in BOOLEAN, List(s, ok)
    PROVE  HeldInv'
<1> USE DEF HeldInv
<1> DEFINE f == Maintenance(store[s], FALSE)
<1>1. Keeps(store[s], f, Held) /\ DOMAIN f = DOMAIN store[s]
  BY MaintenanceKeeps DEF TypeInv
<1>2. /\ Serving(s) /\ UNCHANGED <<work, current, disowned, edited>>
      /\ store' = [store EXCEPT ![s] = f] /\ (disk' = f \/ disk' = disk)
      /\ \A m \in Manuals : ManualClaims(m)' = ManualClaims(m)
  BY DEF List, PersistsChange, Persists, ManualClaims
<1> HIDE DEF f
<1>3. Held' \subseteq Held
  BY <1>2, HeldLess
<1>4. Protects(f, Held, edited)
  BY <1>1, ProtectsKept DEF FilesInv
<1>5. Protects(f, Held', edited') /\ DOMAIN f \cap InitialJobs \subseteq DOMAIN disk
  BY <1>1, <1>2, <1>3, <1>4, ProtectsLess DEF FilesInv
<1> QED BY <1>2, <1>5, RequestHeld

LEMMA ManualPreflightHeld ==
    ASSUME HeldInv, TypeInv', OneService, NEW s \in Services, NEW m \in Manuals, NEW j \in Jobs,
           NEW forced \in BOOLEAN, ManualPreflight(s, m, j, forced)
    PROVE  HeldInv'
<1> USE DEF HeldInv
<1> DEFINE f == Maintenance(store[s], FALSE)
           v == [manual[m] EXCEPT !.pc = "reserve", !.by = s, !.job = j, !.started = clock[j]]
<1>1. Keeps(store[s], f, Held) /\ DOMAIN f = DOMAIN store[s]
  BY MaintenanceKeeps DEF TypeInv
<1>2. /\ Serving(s) /\ UNCHANGED <<work, current, disowned, edited, disk>>
      /\ store' = [store EXCEPT ![s] = f]
      /\ manual[m].pc = "idle" /\ (manual' = manual \/ manual' = [manual EXCEPT ![m] = v])
  BY DEF ManualPreflight
<1>3. v.pc = "reserve"
  BY DEF TypeInv, ManualType
<1> HIDE DEF f, v
<1>4. \A n \in Manuals : ManualClaims(n)' = ManualClaims(n)
  <2>1. CASE manual' = manual
    BY <2>1 DEF ManualClaims
  <2>2. CASE manual' = [manual EXCEPT ![m] = v]
    BY <1>2, <1>3, <2>2, ManualIs DEF ManualClaims
  <2> QED BY <1>2, <2>1, <2>2
<1>5. Held' \subseteq Held
  BY <1>2, <1>4, HeldLess
<1>6. Protects(f, Held, edited)
  BY <1>1, ProtectsKept DEF FilesInv
<1>7. Protects(f, Held', edited') /\ DOMAIN f \cap InitialJobs \subseteq DOMAIN disk
  BY <1>1, <1>2, <1>5, <1>6, ProtectsLess DEF FilesInv
<1> QED BY <1>2, <1>4, <1>7, RequestHeld

LEMMA ManualReservesHeld ==
    ASSUME HeldInv, TypeInv', OneService, NEW m \in Manuals, NEW ok \in BOOLEAN, ManualReserves(m, ok)
    PROVE  HeldInv'
<1> USE DEF HeldInv
<1> DEFINE s == manual[m].by
           j == manual[m].job
           f == Marked(store[s], {j})
           v == IF Free(s, j) /\ ok THEN [manual[m] EXCEPT !.pc = "run"] ELSE Over
           D == IF Free(s, j) /\ ok THEN {j} ELSE {}
<1>1. s \in Services /\ j \in Jobs /\ ManualClaims(m) = {}
  BY DEF ManualReserves, TypeInv, ManualClaims
<1>2. /\ manual' = [manual EXCEPT ![m] = v] /\ UNCHANGED <<work, edited, current>>
      /\ disowned \subseteq disowned'
      /\ Free(s, j) /\ ~store[s][j].enabled => j \in disowned'
      /\ ~Free(s, j) => UNCHANGED <<disk, store>>
      /\ Free(s, j) => store' = [store EXCEPT ![s] = f] /\ disk' = IF ok THEN f ELSE disk
  BY DEF ManualReserves, Persists
<1>3. (IF v.pc \in {"run", "finish"} THEN {v.job} ELSE {}) = D
  BY WorkTypes DEF TypeInv, ManualType
<1>4. D \in SUBSET Jobs /\ D \cap Held = {}
  BY <1>1 DEF Free, FilesInv, Protects
<1>5. Keeps(store[s], f, Held) /\ DOMAIN f = DOMAIN store[s]
      /\ (Free(s, j) => f[j].marker = "fresh" /\ f[j].enabled = store[s][j].enabled)
  <2> HIDE DEF s, j
  <2>1. store[s] \in Files
    BY <1>1 DEF TypeInv
  <2>2. Free(s, j) => j \in {j} \cap DOMAIN store[s]
    BY DEF Free
  <2> QED BY <2>1, <2>2, MarkedKeeps
<1>6. QuietInv'
  <2>1. ~Quiet
    BY DEF ManualReserves, Quiet
  <2> QED BY <1>2, <2>1, StaysCleared
<1>7. (Free(s, j) /\ ok => D = {j} /\ j \in DOMAIN store[s]) /\ (~(Free(s, j) /\ ok) => D = {})
  BY DEF Free
<1> HIDE DEF s, j, f, v, D
<1>8. OneClaim' /\ Held' \subseteq Held \cup D
  <2>1. /\ ManualClaims(m)' = D /\ \A n \in Manuals : n # m => ManualClaims(n)' = ManualClaims(n)
        /\ \A w \in Workers : WorkClaims(w)' = WorkClaims(w)
    BY <1>2, <1>3, ManualIs DEF WorkClaims
  <2> QED BY <1>2, <1>4, <2>1, ManualStep
<1>9. Protects(f, Held, edited)
  BY <1>1, <1>5, ProtectsKept DEF FilesInv
<1>10. Held' \cap disowned' = {}
  BY DEF Held
<1>11. CASE Free(s, j) /\ ok
  <2>1. Protects(f, Held', edited')
    BY <1>2, <1>5, <1>7, <1>8, <1>9, <1>10, <1>11 DEF Protects
  <2>2. Held' \subseteq InitialJobs \cup edited'
    BY <1>1, <1>2, <1>7, <1>8, <1>11 DEF FilesInv, Protects
  <2>3. FilesInv'
    BY <1>1, <1>2, <1>11, <2>1, <2>2, WrittenBoth
  <2> QED BY <1>6, <1>8, <2>3
<1>12. CASE Free(s, j) /\ ~ok
  <2>1. Held' \subseteq Held
    BY <1>7, <1>8, <1>12
  <2>2. Protects(f, Held', edited') /\ DOMAIN f \cap InitialJobs \subseteq DOMAIN disk
    BY <1>1, <1>2, <1>5, <1>9, <2>1, ProtectsLess DEF FilesInv
  <2>3. FilesInv'
    BY <1>1, <1>2, <1>12, <2>1, <2>2, Written
  <2> QED BY <1>6, <1>8, <2>3
<1>13. CASE ~Free(s, j)
  BY <1>2, <1>6, <1>7, <1>8, <1>13, NotWritten
<1> QED BY <1>11, <1>12, <1>13

LEMMA ManualRunEndsHeld ==
    ASSUME HeldInv, TypeInv', OneService, NEW m \in Manuals, NEW o \in Outcomes, ManualRunEnds(m, o)
    PROVE  HeldInv'
<1> USE DEF HeldInv
<1> DEFINE v == [manual[m] EXCEPT !.pc = "finish", !.outcome = o]
<1>1. /\ manual' = [manual EXCEPT ![m] = v] /\ v.pc = "finish" /\ v.job = manual[m].job
      /\ manual[m].pc = "run"
  <2>1. manual[m] \in ManualType
    BY DEF TypeInv
  <2> QED BY <2>1 DEF ManualRunEnds, TypeInv, ManualType
<1> HIDE DEF v
<1>2. /\ \A n \in Manuals : ManualClaims(n)' = ManualClaims(n)
      /\ \A w \in Workers : WorkClaims(w)' = WorkClaims(w)
  <2>1. ManualClaims(m) = {manual[m].job}
    BY <1>1 DEF ManualClaims
  <2>2. /\ ManualClaims(m)' = {manual[m].job}
        /\ \A n \in Manuals : n # m => ManualClaims(n)' = ManualClaims(n)
    BY <1>1, ManualIs
  <2>3. \A w \in Workers : WorkClaims(w)' = WorkClaims(w)
    BY DEF ManualRunEnds, WorkClaims
  <2> QED BY <2>1, <2>2, <2>3
<1>3. OneClaim' /\ Held' \subseteq Held
  BY <1>2, SameClaims DEF ManualRunEnds
<1>4. QuietInv'
  <2>1. ~Quiet
    BY <1>1 DEF Quiet
  <2> QED BY <2>1, StaysCleared DEF ManualRunEnds
<1> QED BY <1>3, <1>4, NotWritten DEF ManualRunEnds

LEMMA ManualFinishesHeld ==
    ASSUME HeldInv, TypeInv', OneService, NEW m \in Manuals, NEW ok \in BOOLEAN, ManualFinishes(m, ok)
    PROVE  HeldInv'
<1> USE DEF HeldInv
<1> DEFINE s == manual[m].by
           j == manual[m].job
           g == Merged(s, j, Result(m))
           f == Maintenance(g, TRUE)
           v == [work[Tick(s)] EXCEPT !.live = FALSE]
<1>1. /\ manual[m].pc = "finish" /\ s \in Services /\ Tick(s) \in Workers
      /\ manual' = [manual EXCEPT ![m] = Over] /\ UNCHANGED <<current, edited, disowned>>
      /\ work' = work \/ work' = [work EXCEPT ![Tick(s)] = v]
      /\ j \in DOMAIN store[s] => Persists(s, f, ok)
      /\ j \notin DOMAIN store[s] => UNCHANGED <<disk, store>>
      /\ \A t \in Services : Boot(t) \in Workers /\ Boot(t) # Tick(s)
  <2>1. /\ manual[m].pc = "finish"
        /\ manual' = [manual EXCEPT ![m] = Over] /\ UNCHANGED <<current, edited, disowned>>
        /\ work' = work \/ work' = [work EXCEPT ![Tick(s)] = v]
        /\ j \in DOMAIN store[s] => Persists(s, f, ok)
        /\ j \notin DOMAIN store[s] => UNCHANGED <<disk, store>>
    <3> HIDE DEF g
    <3>1. CASE j \in DOMAIN store[s]
      BY <3>1, MergedIs DEF g
    <3>2. CASE j \notin DOMAIN store[s]
      BY <3>2, MergedIs
    <3> QED BY <3>1, <3>2
  <2>2. s \in Services
    BY <2>1 DEF TypeInv
  <2>3. Tick(s) \in Workers /\ \A t \in Services : Boot(t) \in Workers
    BY <2>2, WorkTypes
  <2>4. \A t \in Services : Boot(t) # Tick(s)
    BY DEF Tick, Boot
  <2> QED BY <2>1, <2>2, <2>3, <2>4
<1>2. ClaimsIn(v) = WorkClaims(Tick(s))
  BY <1>1 DEF ClaimsIn, WorkClaims, TypeInv, WorkType
<1>3. ManualClaims(m) = {j} /\ ManualClaims(m)' = {} /\ \A n \in Manuals : n # m => ManualClaims(n)' = ManualClaims(n)
  <2>1. ManualClaims(m) = {j}
    BY <1>1 DEF ManualClaims
  <2>2. /\ ManualClaims(m)' = IF Over.pc \in {"run", "finish"} THEN {Over.job} ELSE {}
        /\ \A n \in Manuals : n # m => ManualClaims(n)' = ManualClaims(n)
    BY <1>1, ManualIs
  <2> QED BY <2>1, <2>2, WorkTypes
<1>4. j \in DOMAIN store[s] => Keeps(disk, g, Held \ {j}) /\ g \in Files
  BY <1>1, MergedKeeps DEF Keeps
<1> HIDE DEF g, v
<1>5. j \in DOMAIN store[s] => Keeps(g, f, Held \ {j})
  BY <1>4, MaintenanceKeeps DEF TypeInv
<1> HIDE DEF f, s, j
<1>6. /\ \A w \in Workers : WorkClaims(w)' = WorkClaims(w)
      /\ \A t \in Services : work'[Boot(t)] = work[Boot(t)]
  <2>1. CASE work' = work
    BY <2>1 DEF WorkClaims
  <2>2. CASE work' = [work EXCEPT ![Tick(s)] = v]
    BY <1>1, <1>2, <2>2, WorkIs
  <2> QED BY <1>1, <2>1, <2>2
<1>7. OneClaim' /\ Held' \subseteq Held \ {j}
  <2>1. {} \in SUBSET Jobs /\ {} \cap Held = {}
    OBVIOUS
  <2>2. OneClaim' /\ Held' \subseteq Held \cup {} /\ \A k \in ManualClaims(m) : k \notin ManualClaims(m)' => k \notin Held'
    BY <1>1, <1>3, <1>6, <2>1, ManualStep
  <2> QED BY <1>3, <2>2
<1>8. QuietInv'
  <2>1. ~Quiet
    BY <1>1 DEF Quiet
  <2> QED BY <1>1, <1>6, <2>1, StaysCleared
<1>9. CASE j \in DOMAIN store[s]
  <2>1. Keeps(disk, f, Held \ {j})
    BY <1>4, <1>5, <1>9, KeepsBoth
  <2>2. Protects(f, Held \ {j}, edited)
    BY <2>1, ProtectsKept DEF FilesInv
  <2>3. Protects(f, Held', edited') /\ DOMAIN f \cap InitialJobs \subseteq DOMAIN disk
    BY <1>1, <1>7, <2>1, <2>2, ProtectsLess DEF Keeps
  <2>4. store' = [store EXCEPT ![s] = f] /\ (disk' = f \/ disk' = disk)
    BY <1>1, <1>9 DEF Persists
  <2>5. FilesInv'
    BY <1>1, <1>7, <2>3, <2>4, Written
  <2> QED BY <1>7, <1>8, <2>5
<1>10. CASE j \notin DOMAIN store[s]
  BY <1>1, <1>7, <1>8, <1>10, NotWritten
<1> QED BY <1>9, <1>10

LEMMA StartHeld ==
    ASSUME HeldInv, TypeInv', OneService, NEW s \in Services, Start(s) \/ Reload(s)
    PROVE  HeldInv'
<1> USE DEF HeldInv
<1>1. CASE Start(s)
  <2> DEFINE v == [work[Boot(s)] EXCEPT !.pc = "marks"]
  <2>1. work' = [work EXCEPT ![Boot(s)] = v] /\ Boot(s) \in Workers /\ Quiet
        /\ \A t \in Services : t = s /\ Tick(t) \in Workers /\ Tick(t) # Boot(s)
    BY <1>1, WorkTypes DEF Start, TypeInv, QuietInv, Cleared, OneService
  <2>2. ClaimsIn(v) = WorkClaims(Boot(s)) /\ v.pc = "marks"
    BY <2>1 DEF ClaimsIn, WorkClaims, TypeInv, WorkType
  <2> HIDE DEF v
  <2>3. \A w \in Workers : WorkClaims(w)' = WorkClaims(w)
    BY <2>1, <2>2, WorkIs
  <2>4. \A m \in Manuals : ManualClaims(m)' = ManualClaims(m)
    BY <1>1 DEF Start, ManualClaims
  <2>5. OneClaim' /\ Held' \subseteq Held
    BY <1>1, <2>3, <2>4, SameClaims DEF Start
  <2>6. Quiet' /\ current' # NoService
    BY <1>1, <2>1, <2>2, <2>3, WorkIs, ConstantsAssumption DEF Start, Quiet
  <2> QED BY <1>1, <2>5, <2>6, NotWritten DEF Start, QuietInv
<1>2. CASE Reload(s)
  BY <1>2 DEF Reload, OneService, TypeInv
<1> QED BY <1>1, <1>2

LEMMA CrashHeld ==
    ASSUME HeldInv, TypeInv', Crash
    PROVE  HeldInv'
<1> USE DEF HeldInv
<1>1. \A w \in Workers : work'[w] = Idle /\ WorkClaims(w)' = {}
  BY WorkTypes DEF Crash, WorkClaims, ClaimsIn
<1>2. \A m \in Manuals : manual'[m].pc \in {"idle", "done"} /\ ManualClaims(m)' = {}
  BY WorkTypes DEF Crash, ManualClaims
<1>3. Held' = {} /\ OneClaim'
  BY <1>1, <1>2 DEF Held, OneClaim
<1>4. Quiet' /\ QuietInv'
  BY <1>1, <1>2, WorkTypes DEF Crash, Quiet, QuietInv
<1>5. /\ \A t \in Services : DOMAIN store'[t] = {}
      /\ UNCHANGED <<disk, edited>>
  BY SomeEmpty DEF Crash
<1>6. FilesInv'
  BY <1>3, <1>5 DEF FilesInv, Protects
<1> QED BY <1>3, <1>4, <1>6

LEMMA AgeHeld ==
    ASSUME HeldInv, TypeInv', MarkersAge
    PROVE  HeldInv'
<1> USE DEF HeldInv
<1>1. /\ \A w \in Workers : WorkClaims(w)' = WorkClaims(w)
      /\ \A m \in Manuals : ManualClaims(m)' = ManualClaims(m)
      /\ disowned' = disowned \cup Claimed /\ UNCHANGED <<edited, work, manual, timer, current>>
  BY DEF MarkersAge, WorkClaims, ManualClaims
<1>2. OneClaim' /\ Held' \subseteq Held
  BY <1>1, SameClaims
<1>3. Held' = {}
  <2>1. Held \subseteq Claimed
    BY DEF Held, Claimed, WorkClaims, ClaimsIn, ManualClaims
  <2>2. Held' \cap disowned' = {}
    BY DEF Held
  <2> QED BY <1>1, <1>2, <2>1, <2>2
<1>4. DOMAIN disk' = DOMAIN disk /\ \A t \in Services : DOMAIN store'[t] = DOMAIN store[t]
  BY AgedType DEF MarkersAge, TypeInv
<1>5. FilesInv'
  BY <1>1, <1>3, <1>4 DEF FilesInv, Protects
<1>6. QuietInv'
  BY <1>1 DEF QuietInv, Cleared, Quiet
<1> QED BY <1>2, <1>5, <1>6

-----------------------------------------------------------------------------
(* The theorems.                                                           *)

LEMMA HeldInit == Init => HeldInv
<1> SUFFICES ASSUME Init PROVE HeldInv
  OBVIOUS
<1>1. TypeInv
  BY TypeInit
<1>2. /\ \A w \in Workers : work[w] = Idle /\ WorkClaims(w) = {}
      /\ \A m \in Manuals : manual[m].pc = "idle" /\ ManualClaims(m) = {}
  BY WorkTypes DEF Init, WorkClaims, ClaimsIn, ManualClaims
<1>3. Held = {} /\ OneClaim
  BY <1>2 DEF Held, OneClaim
<1>4. DOMAIN disk = InitialJobs /\ \A s \in Services : DOMAIN store[s] = {}
  BY SomeEmpty DEF Init
<1>5. FilesInv
  BY <1>3, <1>4 DEF FilesInv, Protects
<1>6. QuietInv
  BY <1>2, WorkTypes DEF QuietInv, Quiet, Init
<1> QED BY <1>1, <1>3, <1>5, <1>6 DEF HeldInv

LEMMA HeldNext ==
    ASSUME OneService
    PROVE  HeldInv /\ [Next]_vars => HeldInv'
<1> SUFFICES ASSUME HeldInv, [Next]_vars PROVE HeldInv'
  OBVIOUS
<1>0. TypeInv'
  BY TypeNext DEF HeldInv
<1>1. CASE UNCHANGED vars
  <2>1. /\ \A w \in Workers : WorkClaims(w)' = WorkClaims(w)
        /\ \A m \in Manuals : ManualClaims(m)' = ManualClaims(m)
        /\ UNCHANGED <<disk, store, timer, work, manual, current, edited, disowned>>
    BY <1>1 DEF vars, WorkClaims, ManualClaims
  <2>2. OneClaim' /\ Held' \subseteq Held
    BY <2>1, SameClaims DEF HeldInv
  <2>3. FilesInv' /\ QuietInv'
    BY <2>1, <2>2, NotWritten DEF HeldInv, QuietInv, Cleared, Quiet
  <2> QED BY <1>0, <2>2, <2>3 DEF HeldInv
<1>2. ASSUME NEW s \in Services, NEW ok \in BOOLEAN,
             TickFires(s) \/ TickChecks(s, ok) \/ TickApplies(s, ok) \/ TickEnds(s)
      PROVE  HeldInv'
  BY <1>0, <1>2, TickHeld
<1>3. ASSUME NEW s \in Services, NEW ok \in BOOLEAN,
             BootMarks(s, ok) \/ BootPlans(s, ok) \/ BootApplies(s, ok) \/ BootEnds(s, ok)
      PROVE  HeldInv'
  BY <1>0, <1>3, BootMarksHeld, BootPlansHeld, BootAppliesHeld, BootEndsHeld
<1>4. ASSUME NEW s \in Services, NEW j \in Jobs, NEW ok \in BOOLEAN, NEW kind,
             Add(s, j, ok) \/ Update(s, j, kind, ok) \/ Remove(s, j, ok)
      PROVE  HeldInv'
  BY <1>0, <1>4, AddHeld, UpdateHeld, RemoveHeld
<1>5. ASSUME NEW s \in Services, NEW ok \in BOOLEAN, List(s, ok)
      PROVE  HeldInv'
  BY <1>0, <1>5, ListHeld
<1>6. ASSUME NEW w \in Workers, NEW j \in Jobs, RunStarts(w, j)
      PROVE  HeldInv'
  BY <1>0, <1>6, RunStartsHeld
<1>7. ASSUME NEW w \in Workers, NEW j \in Jobs, NEW o \in Outcomes, RunEnds(w, j, o)
      PROVE  HeldInv'
  BY <1>0, <1>7, RunEndsHeld
<1>8. ASSUME NEW s \in Services, NEW m \in Manuals, NEW j \in Jobs, NEW forced \in BOOLEAN,
             ManualPreflight(s, m, j, forced)
      PROVE  HeldInv'
  BY <1>0, <1>8, ManualPreflightHeld
<1>9. ASSUME NEW m \in Manuals, NEW ok \in BOOLEAN, ManualReserves(m, ok) \/ ManualFinishes(m, ok)
      PROVE  HeldInv'
  BY <1>0, <1>9, ManualReservesHeld, ManualFinishesHeld
<1>10. ASSUME NEW m \in Manuals, NEW o \in Outcomes, ManualRunEnds(m, o)
       PROVE  HeldInv'
  BY <1>0, <1>10, ManualRunEndsHeld
<1>11. ASSUME NEW j \in Jobs, TimePasses(j)
       PROVE  HeldInv'
  <2>1. /\ \A w \in Workers : WorkClaims(w)' = WorkClaims(w)
        /\ \A m \in Manuals : ManualClaims(m)' = ManualClaims(m)
        /\ UNCHANGED <<disk, store, timer, work, manual, current, edited, disowned>>
    BY <1>11 DEF TimePasses, WorkClaims, ManualClaims
  <2>2. OneClaim' /\ Held' \subseteq Held
    BY <2>1, SameClaims DEF HeldInv
  <2>3. FilesInv' /\ QuietInv'
    BY <2>1, <2>2, NotWritten DEF HeldInv, QuietInv, Cleared, Quiet
  <2> QED BY <1>0, <2>2, <2>3 DEF HeldInv
<1>12. ASSUME NEW s \in Services, Start(s) \/ Reload(s)
       PROVE  HeldInv'
  BY <1>0, <1>12, StartHeld
<1>13. CASE Crash \/ MarkersAge
  BY <1>0, <1>13, CrashHeld, AgeHeld
<1> QED BY <1>1, <1>2, <1>3, <1>4, <1>5, <1>6, <1>7, <1>8, <1>9, <1>10, <1>11, <1>12, <1>13 DEF Next

LEMMA SingleOne ==
    ASSUME HeldInv PROVE SingleRun
<1> SUFFICES ASSUME NEW j \in Jobs \ disowned PROVE Cardinality(Going(j)) <= 1
  BY DEF SingleRun
<1>1. \A w \in Workers : j \in DOMAIN work[w].runs => j \in WorkClaims(w)
  BY DEF WorkClaims, ClaimsIn
<1>2. \A m \in Manuals : manual[m].job = j /\ manual[m].pc = "run" => j \in ManualClaims(m)
  BY DEF ManualClaims
<1>3. \A x, y \in Going(j) : x = y
  BY <1>1, <1>2 DEF Going, HeldInv, OneClaim
<1>4. Going(j) = {} \/ \E x : Going(j) = {x}
  BY <1>3
<1>5. CASE Going(j) = {}
  <2>1. Cardinality(Going(j)) = 0
    BY <1>5, FS_EmptySet
  <2> QED BY <2>1
<1>6. CASE \E x : Going(j) = {x}
  <2>1. Cardinality(Going(j)) = 1
    BY <1>6, FS_Singleton
  <2> QED BY <2>1
<1> QED BY <1>4, <1>5, <1>6

(* With one service, no job runs twice at a time, by a tick, the catch-up  *)
(* or by hand, however the runs, the edits, failing writes and crashes     *)
(* interleave, unless its marker was taken away during a run.              *)
THEOREM SingleRunHolds ==
    ASSUME OneService
    PROVE  Spec => []SingleRun
<1>1. HeldInv /\ [Next]_vars => HeldInv'
  BY HeldNext
<1>2. HeldInv => SingleRun
  BY SingleOne
<1> QED BY HeldInit, <1>1, <1>2, PTL DEF Spec

(* No step brings a job that was there at first back into the file.        *)
Gone == \A j \in InitialJobs : j \notin DOMAIN disk => j \notin DOMAIN disk'

LEMMA GoneFrom ==
    ASSUME HeldInv, NEW s \in Services, NEW f, disk' = f \/ disk' = disk,
           DOMAIN f \subseteq DOMAIN store[s] \/ DOMAIN f \subseteq DOMAIN disk
    PROVE  Gone
BY DEF HeldInv, FilesInv, Gone

LEMMA WorkerGone ==
    ASSUME HeldInv, NEW s \in Services, NEW ok \in BOOLEAN,
           \/ TickChecks(s, ok) \/ TickApplies(s, ok)
           \/ BootMarks(s, ok) \/ BootPlans(s, ok) \/ BootApplies(s, ok) \/ BootEnds(s, ok)
    PROVE  Gone
<1>0. /\ disk \in Files /\ store[s] \in Files /\ clock \in [Jobs -> Nat] /\ TypeInv
      /\ work[Tick(s)].results \in Some(Results)
  BY WorkTypes DEF HeldInv, TypeInv, WorkType
<1>1. CASE TickChecks(s, ok)
  <2>1. \E f : (disk' = f \/ disk' = disk) /\ DOMAIN f = DOMAIN disk
    <3>1. /\ DOMAIN Maintenance(disk, TRUE) = DOMAIN disk
          /\ \A S : DOMAIN Marked(disk, S) = DOMAIN disk
      BY <1>0, MaintenanceKeeps, MarkedKeeps
    <3> QED BY <1>1, <3>1 DEF TickChecks, PersistsChange, Persists
  <2> QED BY <2>1, GoneFrom
<1>2. CASE TickApplies(s, ok)
  <2> DEFINE g == AppliedAll(disk, work[Tick(s)].results)
             f == Maintenance(g, FALSE)
  <2>1. DOMAIN g \subseteq DOMAIN disk /\ DOMAIN f = DOMAIN g
    BY <1>0, AppliedAllKeeps, MaintenanceKeeps DEF Keeps
  <2>2. disk' = f \/ disk' = disk
    BY <1>2 DEF TickApplies, Persists
  <2> HIDE DEF f, g
  <2> QED BY <2>1, <2>2, GoneFrom
<1>3. CASE BootMarks(s, ok)
  <2>1. \E f : (disk' = f \/ disk' = disk) /\ DOMAIN f = DOMAIN disk
    BY <1>3 DEF BootMarks, PersistsChange, Persists
  <2> QED BY <2>1, GoneFrom
<1>4. CASE BootPlans(s, ok)
  <2>1. \A S : DOMAIN Marked(store[s], S) = DOMAIN store[s]
    BY <1>0, MarkedKeeps
  <2>2. disk' = disk \/ \E S : disk' = Marked(store[s], S)
    BY <1>4 DEF BootPlans, Persists
  <2> QED BY <2>1, <2>2, GoneFrom
<1>5. CASE BootApplies(s, ok)
  <2>1. DOMAIN CaughtUp(s) \subseteq DOMAIN store[s]
    BY <1>0, CaughtUpKeeps DEF Keeps
  <2>2. disk' = CaughtUp(s) \/ disk' = disk
    BY <1>5, BootAppliesIs DEF Persists
  <2> QED BY <2>1, <2>2, GoneFrom
<1>6. CASE BootEnds(s, ok)
  <2>1. DOMAIN Recomputed(store[s]) = DOMAIN store[s]
    BY <1>0, RecomputedKeeps
  <2>2. disk' = Recomputed(store[s]) \/ disk' = disk
    BY <1>6 DEF BootEnds, PersistsChange, Persists
  <2> QED BY <2>1, <2>2, GoneFrom
<1> QED BY <1>1, <1>2, <1>3, <1>4, <1>5, <1>6

LEMMA RequestGone ==
    ASSUME HeldInv, NEW s \in Services, NEW j \in Jobs, NEW kind, NEW ok \in BOOLEAN,
           Add(s, j, ok) \/ Update(s, j, kind, ok) \/ Remove(s, j, ok)
    PROVE  Gone
<1>0. TypeInv
  BY DEF HeldInv
<1>1. CASE Add(s, j, ok)
  <2> DEFINE g == With(store[s], j, NewJob(clock[j] + 1, ~Recurring(j)))
             f == Recomputed(g)
  <2>1. g \in Files /\ DOMAIN g = DOMAIN store[s] \cup {j}
    BY <1>0, RequestFiles DEF With
  <2>2. (disk' = f \/ disk' = disk) /\ j \notin InitialJobs
    BY <1>1 DEF Add, Edits, Persists
  <2> HIDE DEF g
  <2>3. DOMAIN f = DOMAIN g
    BY <1>0, <2>1, RecomputedKeeps DEF TypeInv
  <2> HIDE DEF f
  <2> QED BY <2>1, <2>2, <2>3 DEF HeldInv, FilesInv, Gone
<1>2. CASE Update(s, j, kind, ok)
  <2>1. \E v : disk' = [store[s] EXCEPT ![j] = v] \/ disk' = disk
    BY <1>2 DEF Update, Edits, Persists
  <2> QED BY <2>1, GoneFrom
<1>3. CASE Remove(s, j, ok)
  <2>1. DOMAIN Without(store[s], j) \subseteq DOMAIN store[s]
    BY DEF Without, Restrict
  <2>2. disk' = Without(store[s], j) \/ disk' = disk
    BY <1>3 DEF Remove, Edits, Persists
  <2> QED BY <2>1, <2>2, GoneFrom
<1> QED BY <1>1, <1>2, <1>3

LEMMA ListGone ==
    ASSUME HeldInv, NEW s \in Services, NEW ok \in BOOLEAN, List(s, ok)
    PROVE  Gone
<1>1. DOMAIN Maintenance(store[s], FALSE) = DOMAIN store[s]
  BY MaintenanceKeeps DEF HeldInv, TypeInv
<1>2. disk' = Maintenance(store[s], FALSE) \/ disk' = disk
  BY DEF List, PersistsChange, Persists
<1> QED BY <1>1, <1>2, GoneFrom

LEMMA ManualGone ==
    ASSUME HeldInv, NEW m \in Manuals, NEW ok \in BOOLEAN, ManualReserves(m, ok) \/ ManualFinishes(m, ok)
    PROVE  Gone
<1>0. TypeInv
  BY DEF HeldInv
<1>1. CASE ManualReserves(m, ok)
  <2> DEFINE s == manual[m].by
             f == Marked(store[s], {manual[m].job})
  <2>1. s \in Services /\ (disk' = f \/ disk' = disk)
    BY <1>0, <1>1 DEF ManualReserves, Persists, TypeInv
  <2>2. DOMAIN f = DOMAIN store[s]
    BY <1>0, <2>1, MarkedKeeps DEF TypeInv
  <2> HIDE DEF f, s
  <2> QED BY <2>1, <2>2, GoneFrom
<1>2. CASE ManualFinishes(m, ok)
  <2> DEFINE g == Merged(manual[m].by, manual[m].job, Result(m))
             f == Maintenance(g, TRUE)
  <2>1. /\ manual[m].pc = "finish"
        /\ IF manual[m].job \in DOMAIN store[manual[m].by] THEN Persists(manual[m].by, f, ok)
           ELSE UNCHANGED disk
    BY <1>2, MergedIs
  <2>2. CASE manual[m].job \in DOMAIN store[manual[m].by]
    <3>1. g \in Files /\ DOMAIN g \subseteq DOMAIN disk
      BY <1>0, <2>1, <2>2, MergedKeeps DEF Keeps
    <3> HIDE DEF g
    <3>2. DOMAIN f = DOMAIN g
      BY <1>0, <3>1, MaintenanceKeeps DEF TypeInv
    <3>3. disk' = f \/ disk' = disk
      BY <2>1, <2>2 DEF Persists
    <3> HIDE DEF f
    <3> QED BY <3>1, <3>2, <3>3 DEF Gone
  <2>3. CASE manual[m].job \notin DOMAIN store[manual[m].by]
    BY <2>1, <2>3 DEF Gone
  <2> QED BY <2>2, <2>3
<1> QED BY <1>1, <1>2

LEMMA GoneNext == HeldInv /\ [Next]_vars => Gone
<1> SUFFICES ASSUME HeldInv, [Next]_vars PROVE Gone
  OBVIOUS
<1>1. UNCHANGED disk => Gone
  BY DEF Gone
<1>2. ASSUME NEW s \in Services, NEW ok \in BOOLEAN,
             \/ TickChecks(s, ok) \/ TickApplies(s, ok)
             \/ BootMarks(s, ok) \/ BootPlans(s, ok) \/ BootApplies(s, ok) \/ BootEnds(s, ok)
      PROVE  Gone
  BY <1>2, WorkerGone
<1>3. ASSUME NEW s \in Services, NEW j \in Jobs, NEW ok \in BOOLEAN, NEW kind,
             Add(s, j, ok) \/ Update(s, j, kind, ok) \/ Remove(s, j, ok)
      PROVE  Gone
  BY <1>3, RequestGone
<1>4. ASSUME NEW s \in Services, NEW ok \in BOOLEAN, List(s, ok) PROVE Gone
  BY <1>4, ListGone
<1>5. ASSUME NEW m \in Manuals, NEW ok \in BOOLEAN, ManualReserves(m, ok) \/ ManualFinishes(m, ok)
      PROVE  Gone
  BY <1>5, ManualGone
<1>6. CASE MarkersAge
  BY <1>6, AgedType DEF MarkersAge, HeldInv, TypeInv, Gone
<1>7. /\ \A s \in Services : TickFires(s) \/ TickEnds(s) \/ Start(s) \/ Reload(s) => UNCHANGED disk
      /\ \A w \in Workers, j \in Jobs : RunStarts(w, j) => UNCHANGED disk
      /\ \A w \in Workers, j \in Jobs, o \in Outcomes : RunEnds(w, j, o) => UNCHANGED disk
      /\ \A s \in Services, m \in Manuals, j \in Jobs, forced \in BOOLEAN :
            ManualPreflight(s, m, j, forced) => UNCHANGED disk
      /\ \A m \in Manuals, o \in Outcomes : ManualRunEnds(m, o) => UNCHANGED disk
      /\ \A j \in Jobs : TimePasses(j) => UNCHANGED disk
      /\ Crash \/ UNCHANGED vars => UNCHANGED disk
  <2>1. \A s \in Services : TickFires(s) \/ TickEnds(s) \/ Start(s) \/ Reload(s) => UNCHANGED disk
    BY DEF TickFires, TickEnds, Start, Reload
  <2>2. /\ \A w \in Workers, j \in Jobs : RunStarts(w, j) => UNCHANGED disk
        /\ \A w \in Workers, j \in Jobs, o \in Outcomes : RunEnds(w, j, o) => UNCHANGED disk
    BY DEF RunStarts, RunEnds
  <2>3. /\ \A s \in Services, m \in Manuals, j \in Jobs, forced \in BOOLEAN :
              ManualPreflight(s, m, j, forced) => UNCHANGED disk
        /\ \A m \in Manuals, o \in Outcomes : ManualRunEnds(m, o) => UNCHANGED disk
    BY DEF ManualPreflight, ManualRunEnds
  <2>4. /\ \A j \in Jobs : TimePasses(j) => UNCHANGED disk
        /\ Crash \/ UNCHANGED vars => UNCHANGED disk
    BY DEF TimePasses, Crash, vars
  <2> QED BY <2>1, <2>2, <2>3, <2>4
<1>8. ASSUME Next PROVE Gone
  <2> HIDE DEF Gone
  <2> QED BY <1>1, <1>2, <1>3, <1>4, <1>5, <1>6, <1>7, <1>8 DEF Next
<1> QED BY <1>1, <1>7, <1>8

(* With one service, a job that was removed, or deleted after its run,     *)
(* does not come back into the file: what is written is what was read from *)
(* it, or a memory that holds no job the file lacks but new ones.          *)
THEOREM RemovedStaysRemovedHolds ==
    ASSUME OneService
    PROVE  Spec => RemovedStaysRemoved
<1>1. HeldInv /\ [Next]_vars => HeldInv'
  BY HeldNext
<1>2. HeldInv /\ [Next]_vars
        => [\A j \in InitialJobs : j \notin DOMAIN disk => j \notin DOMAIN disk']_vars
  BY GoneNext DEF Gone
<1> QED BY HeldInit, <1>1, <1>2, PTL DEF Spec, RemovedStaysRemoved

-----------------------------------------------------------------------------
(* A one-shot job that succeeded is not armed again.  What has run, has    *)
(* begun by now; c is the clock.                                           *)
Succeeded(j, r) == ~Recurring(j) /\ r.status = "ok" /\ r.at <= r.last
Settled(c, j, r) == r.last <= c[j] /\ (Succeeded(j, r) => r.next = 0 \/ r.next > r.last)
AllSettled(c, f) == \A j \in DOMAIN f : Settled(c, j, f[j])

Timely(c, v) ==
    /\ \A j \in DOMAIN v.runs : v.runs[j] <= c[j]
    /\ \A j \in DOMAIN v.results : v.results[j].started <= c[j]

FilesSettled == AllSettled(clock, disk) /\ \A s \in Services : AllSettled(clock, store[s])
WorkTimely == \A w \in Workers : Timely(clock, work[w])
ManualTimely ==
    \A m \in Manuals : manual[m].pc \in {"reserve", "run", "finish"} =>
        manual[m].started <= clock[manual[m].job]

DoneInv == TypeInv /\ FilesSettled /\ WorkTimely /\ ManualTimely

LEMMA NextSettled ==
    ASSUME NEW j \in Jobs, NEW r \in Records, clock \in [Jobs -> Nat], r.last <= clock[j]
    PROVE  Settled(clock, j, [r EXCEPT !.next = NextRun(j, r)])
<1> DEFINE q == [r EXCEPT !.next = NextRun(j, r)]
<1>1. /\ q.last = r.last /\ q.status = r.status /\ q.at = r.at /\ q.next = NextRun(j, r)
  BY NextRunType, RecordFacts
<1>2. Succeeded(j, q) => NextRun(j, r) = 0
  BY <1>1 DEF Succeeded, NextRun
<1> HIDE DEF q
<1>3. Settled(clock, j, q)
  BY <1>1, <1>2 DEF Settled
<1> QED BY <1>3 DEF q

LEMMA NormalizedSettled ==
    ASSUME NEW j \in Jobs, NEW r \in Records, Settled(clock, j, r)
    PROVE  Settled(clock, j, Normalized(r))
<1>1. CASE ~r.enabled
  BY <1>1, RecordFacts DEF Normalized, Settled, Succeeded
<1>2. CASE r.enabled
  BY <1>2, RecordFacts DEF Normalized, Settled, Succeeded
<1> QED BY <1>1, <1>2, RecordFacts

LEMMA RepairSettled ==
    ASSUME NEW f \in Files, NEW e \in BOOLEAN, clock \in [Jobs -> Nat], AllSettled(clock, f)
    PROVE  AllSettled(clock, Maintenance(f, e)) /\ AllSettled(clock, Recomputed(f))
<1>1. DOMAIN Maintenance(f, e) = DOMAIN f /\ DOMAIN Recomputed(f) = DOMAIN f
  BY DEF Maintenance, Recomputed
<1>2. ASSUME NEW j \in DOMAIN f
      PROVE  Settled(clock, j, Maintenance(f, e)[j]) /\ Settled(clock, j, Recomputed(f)[j])
  <2> DEFINE r == Normalized(f[j])
  <2>1. j \in Jobs /\ f[j] \in Records /\ Settled(clock, j, f[j])
    BY SomeIs DEF Files, AllSettled
  <2>2. r \in Records /\ Settled(clock, j, r)
    BY <2>1, NormalizedType, NormalizedSettled
  <2>3. /\ Maintenance(f, e)[j] = r \/ Maintenance(f, e)[j] = [r EXCEPT !.next = NextRun(j, r)]
        /\ Recomputed(f)[j] = r \/ Recomputed(f)[j] = [r EXCEPT !.next = NextRun(j, r)]
    BY DEF Maintenance, Recomputed
  <2> HIDE DEF r
  <2>4. r.last <= clock[j]
    BY <2>2 DEF Settled
  <2>5. Settled(clock, j, [r EXCEPT !.next = NextRun(j, r)])
    BY <2>1, <2>2, <2>4, NextSettled
  <2> QED BY <2>2, <2>3, <2>5
<1> QED BY <1>1, <1>2 DEF AllSettled

LEMMA MarkedSettled ==
    ASSUME NEW f \in Files, NEW S, AllSettled(clock, f)
    PROVE  /\ AllSettled(clock, Marked(f, S)) /\ AllSettled(clock, Aged(f))
           /\ AllSettled(clock, [j \in DOMAIN f |-> [f[j] EXCEPT !.marker = "none"]])
<1>1. ASSUME NEW j \in DOMAIN f, NEW m
      PROVE  Settled(clock, j, [f[j] EXCEPT !.marker = m]) /\ Settled(clock, j, f[j])
  <2>1. f[j] \in Records /\ Settled(clock, j, f[j])
    BY SomeIs DEF Files, AllSettled
  <2> QED BY <2>1, RecordFacts DEF Settled, Succeeded
<1> QED BY <1>1 DEF AllSettled, Marked, Aged

LEMMA AppliedSettled ==
    ASSUME NEW j \in Jobs, NEW r \in Records, clock \in [Jobs -> Nat],
           NEW res \in [outcome : Outcomes \cup {"ok"}, started : Nat], res.started <= clock[j]
    PROVE  /\ Settled(clock, j, Applied(j, r, res))
           /\ \A a : Settled(clock, j, [Applied(j, r, res) EXCEPT !.at = a])
<1> DEFINE q == Applied(j, r, res)
<1>1. q \in Records
  BY AppliedType
<1>2. q.last = res.started /\ q.status = (IF Errors(r, res) > 0 THEN "error" ELSE res.outcome)
  BY RecordFacts DEF Applied
<1>3. Errors(r, res) \in 0..MaxAttempts + 1 /\ (Errors(r, res) = 0 => res.outcome \notin {"transient", "permanent"})
  BY RecordFacts DEF Errors
<1>4. ~Recurring(j) /\ q.status = "ok" => q.next = 0
  <2>1. q.status = "ok" => ~Retried(r, res)
    BY <1>2, <1>3 DEF Retried
  <2>2. q.next = IF (IF Recurring(j) THEN r.enabled ELSE Retried(r, res)) THEN clock[j] + 1 ELSE 0
    BY RecordFacts DEF Applied
  <2> QED BY <2>1, <2>2
<1> HIDE DEF q
<1>5. Settled(clock, j, q)
  BY <1>2, <1>4 DEF Settled, Succeeded
<1>6. ASSUME NEW a PROVE Settled(clock, j, [q EXCEPT !.at = a])
  BY <1>1, <1>2, <1>4, RecordFacts DEF Settled, Succeeded
<1> QED BY <1>5, <1>6 DEF q

LEMMA AppliedAllSettled ==
    ASSUME NEW f \in Files, NEW res \in Some(Results), clock \in [Jobs -> Nat], AllSettled(clock, f),
           \A j \in DOMAIN res : res[j].started <= clock[j]
    PROVE  AllSettled(clock, AppliedAll(f, res))
<1> DEFINE g == AppliedAll(f, res)
<1>1. ASSUME NEW j \in DOMAIN g
      PROVE  Settled(clock, j, g[j])
  <2>1. j \in DOMAIN f /\ g[j] = IF j \in DOMAIN res THEN Applied(j, f[j], res[j]) ELSE f[j]
    BY DEF AppliedAll
  <2>2. j \in Jobs /\ f[j] \in Records /\ Settled(clock, j, f[j])
    BY <2>1, SomeIs DEF Files, AllSettled
  <2>3. CASE j \in DOMAIN res
    <3>1. res[j] \in Results
      BY <2>3, SomeIs
    <3>2. res[j] \in [outcome : Outcomes \cup {"ok"}, started : Nat]
      BY <3>1 DEF Results
    <3>3. Settled(clock, j, Applied(j, f[j], res[j]))
      BY <2>2, <2>3, <3>2, AppliedSettled
    <3> QED BY <2>1, <2>3, <3>3
  <2>4. CASE j \notin DOMAIN res
    BY <2>1, <2>2, <2>4
  <2> QED BY <2>3, <2>4
<1> QED BY <1>1 DEF AllSettled

LEMMA StaggeredSettled ==
    ASSUME NEW f \in Files, NEW S, clock \in [Jobs -> Nat], AllSettled(clock, f)
    PROVE  AllSettled(clock, Staggered(f, S))
<1>1. ASSUME NEW j \in DOMAIN f
      PROVE  Settled(clock, j, f[j]) /\ Settled(clock, j, [f[j] EXCEPT !.next = clock[j] + 1])
  <2>1. j \in Jobs /\ f[j] \in Records /\ Settled(clock, j, f[j])
    BY SomeIs DEF Files, AllSettled
  <2> QED BY <2>1, RecordFacts DEF Settled, Succeeded
<1> QED BY <1>1 DEF AllSettled, Staggered

LEMMA PatchedSettled ==
    ASSUME NEW j \in Jobs, NEW r \in Records, clock \in [Jobs -> Nat], NEW kind, Settled(clock, j, r)
    PROVE  Settled(clock, j, Patched(j, r, kind))
<1> DEFINE p == [r EXCEPT !.enabled = CASE kind = "disable" -> FALSE
                                        [] kind = "enable" -> TRUE
                                        [] OTHER -> @,
                          !.at = IF kind = "move" THEN clock[j] + 1 ELSE @]
           q == [p EXCEPT !.next = NextRun(j, p)]
<1>1. p \in Records /\ p.last = r.last /\ p.next = r.next /\ p.status = r.status
      /\ (kind = "touch" => p.at = r.at)
  <2>1. (CASE kind = "disable" -> FALSE [] kind = "enable" -> TRUE [] OTHER -> r.enabled) \in BOOLEAN
    <3>1. CASE kind = "disable"
      BY <3>1
    <3>2. CASE kind = "enable"
      BY <3>2
    <3>3. CASE kind # "disable" /\ kind # "enable"
      BY <3>3, RecordFacts
    <3> QED BY <3>1, <3>2, <3>3
  <2>2. (IF kind = "move" THEN clock[j] + 1 ELSE r.at) \in Nat
    BY RecordFacts
  <2> QED BY <2>1, <2>2, RecordFacts
<1>2. Patched(j, r, kind) = IF kind # "touch"
        THEN [p EXCEPT !.next = NextRun(j, p), !.marker = IF p.enabled THEN @ ELSE "none"]
        ELSE [p EXCEPT !.next = IF p.enabled /\ @ = 0 THEN NextRun(j, p) ELSE @]
  BY DEF Patched
<1> HIDE DEF p
<1>3. NextRun(j, p) \in Nat /\ Settled(clock, j, q)
  <2>1. p.last <= clock[j]
    BY <1>1 DEF Settled
  <2> QED BY <1>1, <2>1, NextRunType, NextSettled
<1>4. /\ q.last = p.last /\ q.next = NextRun(j, p) /\ q.status = p.status /\ q.at = p.at
  BY <1>1, <1>3, RecordFacts
<1> HIDE DEF q
<1>5. CASE kind # "touch"
  <2> DEFINE x == Patched(j, r, kind)
  <2>1. x.last = p.last /\ x.next = NextRun(j, p) /\ x.status = p.status /\ x.at = p.at
    BY <1>1, <1>2, <1>3, <1>5, RecordFacts
  <2> HIDE DEF x
  <2>2. Settled(clock, j, x)
    BY <1>3, <1>4, <2>1 DEF Settled, Succeeded
  <2> QED BY <2>2 DEF x
<1>6. CASE kind = "touch"
  <2> DEFINE x == Patched(j, r, kind)
  <2>1. /\ x.last = p.last /\ x.status = p.status /\ x.at = p.at
        /\ x.next = NextRun(j, p) \/ x.next = p.next
    BY <1>1, <1>2, <1>3, <1>6, RecordFacts
  <2> HIDE DEF x
  <2>2. Settled(clock, j, x)
    BY <1>1, <1>3, <1>4, <1>6, <2>1 DEF Settled, Succeeded
  <2> QED BY <2>2 DEF x
<1> QED BY <1>5, <1>6

LEMMA FilesWritten ==
    ASSUME TypeInv, FilesSettled, UNCHANGED clock, NEW s \in Services, NEW f,
           store' = [store EXCEPT ![s] = f], disk' = f \/ disk' = disk, AllSettled(clock, f)
    PROVE  FilesSettled'
<1>1. \A t \in Services : store'[t] = IF t = s THEN f ELSE store[t]
  BY DEF TypeInv
<1>2. AllSettled(clock', disk') /\ \A t \in Services : AllSettled(clock', store'[t])
  BY <1>1 DEF FilesSettled
<1> QED BY <1>2 DEF FilesSettled, AllSettled, Settled

LEMMA FilesSame ==
    ASSUME FilesSettled, UNCHANGED <<clock, disk, store>>
    PROVE  FilesSettled'
BY DEF FilesSettled, AllSettled, Settled

LEMMA WorkWritten ==
    ASSUME TypeInv, WorkTimely, UNCHANGED clock, NEW w \in Workers, NEW v, Timely(clock, v),
           work' = [work EXCEPT ![w] = v]
    PROVE  WorkTimely'
<1>1. \A u \in Workers : work'[u] = IF u = w THEN v ELSE work[u]
  BY DEF TypeInv
<1>2. \A u \in Workers : Timely(clock', work'[u])
  BY <1>1 DEF WorkTimely
<1> QED BY <1>2 DEF WorkTimely, Timely

LEMMA IdleTimely ==
    ASSUME NEW v, v.runs = <<>>, v.results = <<>>
    PROVE  Timely(clock, v)
BY SomeEmpty DEF Timely

LEMMA TickDone ==
    ASSUME DoneInv, NEW s \in Services, NEW ok \in BOOLEAN,
           TickChecks(s, ok) \/ TickApplies(s, ok)
    PROVE  FilesSettled' /\ WorkTimely' /\ ManualTimely'
<1> USE DEF DoneInv
<1>0. /\ Tick(s) \in Workers /\ work[Tick(s)] \in WorkType /\ disk \in Files
      /\ clock \in [Jobs -> Nat] /\ AllSettled(clock, disk) /\ Timely(clock, work[Tick(s)])
  BY WorkTypes DEF TypeInv, FilesSettled, WorkTimely
<1>m. ManualTimely'
  BY DEF TickChecks, TickApplies, ManualTimely
<1>1. CASE TickChecks(s, ok)
  <2>1. \E f : AllSettled(clock, f) /\ store' = [store EXCEPT ![s] = f] /\ (disk' = f \/ disk' = disk)
    <3>1. AllSettled(clock, Maintenance(disk, TRUE)) /\ \A S : AllSettled(clock, Marked(disk, S))
      BY <1>0, RepairSettled, MarkedSettled
    <3> QED BY <1>1, <3>1 DEF TickChecks, PersistsChange, Persists
  <2>2. FilesSettled'
    BY <1>1, <2>1, FilesWritten DEF TickChecks
  <2>3. \E v : work' = [work EXCEPT ![Tick(s)] = v] /\ Timely(clock, v)
    <3> DEFINE due == {j \in DOMAIN disk : Runnable(j, disk[j])}
               v == IF ok /\ due # {}
                    THEN [work[Tick(s)] EXCEPT !.pc = "run", !.todo = due, !.live = TRUE]
                    ELSE [work[Tick(s)] EXCEPT !.pc = "end"]
    <3>1. work' = [work EXCEPT ![Tick(s)] = v]
      BY <1>1 DEF TickChecks
    <3>2. v.runs = work[Tick(s)].runs /\ v.results = work[Tick(s)].results
      BY <1>0 DEF WorkType
    <3> HIDE DEF v
    <3>3. Timely(clock, v)
      BY <1>0, <3>2 DEF Timely
    <3> QED BY <3>1, <3>3
  <2>4. WorkTimely'
    BY <1>0, <1>1, <2>3, WorkWritten DEF TickChecks
  <2> QED BY <1>m, <2>2, <2>4
<1>2. CASE TickApplies(s, ok)
  <2> DEFINE g == AppliedAll(disk, work[Tick(s)].results)
             f == Maintenance(g, FALSE)
             v == [Idle EXCEPT !.pc = "end"]
  <2>1. work[Tick(s)].results \in Some(Results)
    BY <1>0 DEF WorkType
  <2>2. g \in Files /\ AllSettled(clock, g)
    BY <1>0, <2>1, AppliedAllKeeps, AppliedAllSettled DEF Timely, Keeps
  <2> HIDE DEF g
  <2>3. AllSettled(clock, f)
    BY <1>0, <2>2, RepairSettled
  <2>4. store' = [store EXCEPT ![s] = f] /\ (disk' = f \/ disk' = disk) /\ UNCHANGED clock
    BY <1>2 DEF TickApplies, Persists, g
  <2>5. Timely(clock, v) /\ work' = [work EXCEPT ![Tick(s)] = v]
    BY <1>2, IdleTimely DEF Idle, TickApplies
  <2> HIDE DEF f, v
  <2>6. FilesSettled' /\ WorkTimely'
    BY <1>0, <2>3, <2>4, <2>5, FilesWritten, WorkWritten
  <2> QED BY <1>m, <2>6
<1> QED BY <1>1, <1>2

LEMMA BootDone ==
    ASSUME DoneInv, NEW s \in Services, NEW ok \in BOOLEAN,
           BootMarks(s, ok) \/ BootPlans(s, ok) \/ BootApplies(s, ok) \/ BootEnds(s, ok)
    PROVE  FilesSettled' /\ WorkTimely' /\ ManualTimely'
<1> USE DEF DoneInv
<1>0. /\ Boot(s) \in Workers /\ work[Boot(s)] \in WorkType /\ disk \in Files /\ store[s] \in Files
      /\ clock \in [Jobs -> Nat] /\ AllSettled(clock, disk) /\ Timely(clock, work[Boot(s)])
      /\ AllSettled(clock, store[s])
  BY WorkTypes DEF TypeInv, FilesSettled, WorkTimely
<1>1. ManualTimely' /\ UNCHANGED clock
  BY DEF BootMarks, BootPlans, BootApplies, BootEnds, ManualTimely
<1>2. WorkTimely'
  <2>1. \E next : BootGoes(s, ok, next) /\ next.runs = <<>> /\ next.results = <<>>
    <3>1. PICK pc, C, A : \/ BootGoes(s, ok, [Idle EXCEPT !.pc = pc])
                          \/ BootGoes(s, ok, [Idle EXCEPT !.pc = pc, !.aside = A])
                          \/ BootGoes(s, ok, [Idle EXCEPT !.pc = pc, !.todo = C, !.aside = A])
                          \/ BootGoes(s, ok, Idle)
      BY DEF BootMarks, BootPlans, BootApplies, BootEnds
    <3> DEFINE n1 == [Idle EXCEPT !.pc = pc]
               n2 == [Idle EXCEPT !.pc = pc, !.aside = A]
               n3 == [Idle EXCEPT !.pc = pc, !.todo = C, !.aside = A]
    <3>2. /\ n1.runs = <<>> /\ n1.results = <<>> /\ n2.runs = <<>> /\ n2.results = <<>>
          /\ n3.runs = <<>> /\ n3.results = <<>> /\ Idle.runs = <<>> /\ Idle.results = <<>>
      BY DEF Idle
    <3>3. BootGoes(s, ok, n1) \/ BootGoes(s, ok, n2) \/ BootGoes(s, ok, n3) \/ BootGoes(s, ok, Idle)
      BY <3>1
    <3> HIDE DEF n1, n2, n3
    <3> QED BY <3>2, <3>3
  <2>2. PICK next : BootGoes(s, ok, next) /\ next.runs = <<>> /\ next.results = <<>>
    BY <2>1
  <2> DEFINE v == IF ok THEN next ELSE [Idle EXCEPT !.pc = "failed"]
  <2>3. v.runs = <<>> /\ v.results = <<>>
    BY <2>2 DEF Idle
  <2>4. work' = [work EXCEPT ![Boot(s)] = v]
    BY <2>2 DEF BootGoes
  <2> HIDE DEF v
  <2>5. Timely(clock, v)
    BY <2>3, IdleTimely
  <2> QED BY <1>0, <1>1, <2>4, <2>5, WorkWritten
<1>3. CASE BootMarks(s, ok)
  <2> DEFINE f == [j \in DOMAIN disk |-> [disk[j] EXCEPT !.marker = "none"]]
  <2>1. AllSettled(clock, f)
    BY <1>0, MarkedSettled
  <2>2. store' = [store EXCEPT ![s] = f] /\ (disk' = f \/ disk' = disk)
    BY <1>3 DEF BootMarks, PersistsChange, Persists
  <2> HIDE DEF f
  <2> QED BY <1>1, <1>2, <2>1, <2>2, FilesWritten
<1>4. CASE BootPlans(s, ok)
  <2>1. \/ UNCHANGED <<disk, store>>
        \/ \E C : store' = [store EXCEPT ![s] = Marked(store[s], C)] /\ (disk' = Marked(store[s], C) \/ disk' = disk)
    BY <1>4 DEF BootPlans, Persists
  <2>2. \A C : AllSettled(clock, Marked(store[s], C))
    BY <1>0, MarkedSettled
  <2> QED BY <1>1, <1>2, <2>1, <2>2, FilesWritten, FilesSame
<1>5. CASE BootApplies(s, ok)
  <2> DEFINE applied == AppliedAll(store[s], work[Boot(s)].results)
             staggered == Staggered(applied, work[Boot(s)].aside)
             f == CaughtUp(s)
  <2>1. work[Boot(s)].results \in Some(Results)
    BY <1>0 DEF WorkType
  <2>2. applied \in Files /\ AllSettled(clock, applied)
    BY <1>0, <2>1, AppliedAllKeeps, AppliedAllSettled DEF Timely, Keeps
  <2> HIDE DEF applied
  <2>3. staggered \in Files /\ AllSettled(clock, staggered)
    BY <1>0, <2>2, StaggeredKeeps, StaggeredSettled DEF Keeps
  <2>4. f = Maintenance(staggered, FALSE)
    BY DEF CaughtUp, applied
  <2> HIDE DEF staggered, f
  <2>5. AllSettled(clock, f)
    BY <1>0, <2>3, <2>4, RepairSettled
  <2>6. store' = [store EXCEPT ![s] = f] /\ (disk' = f \/ disk' = disk)
    BY <1>5, BootAppliesIs DEF Persists, f
  <2> QED BY <1>1, <1>2, <2>5, <2>6, FilesWritten
<1>6. CASE BootEnds(s, ok)
  <2> DEFINE f == Recomputed(store[s])
  <2>1. AllSettled(clock, f)
    <3>1. TRUE \in BOOLEAN
      OBVIOUS
    <3> QED BY <1>0, <3>1, RepairSettled
  <2>2. store' = [store EXCEPT ![s] = f] /\ (disk' = f \/ disk' = disk)
    BY <1>6 DEF BootEnds, PersistsChange, Persists
  <2> HIDE DEF f
  <2> QED BY <1>1, <1>2, <2>1, <2>2, FilesWritten
<1> QED BY <1>3, <1>4, <1>5, <1>6

LEMMA RunDone ==
    ASSUME DoneInv, NEW w \in Workers, NEW j \in Jobs, RunStarts(w, j)
    PROVE  FilesSettled' /\ WorkTimely' /\ ManualTimely'
<1> USE DEF DoneInv
<1>0. /\ work[w] \in WorkType /\ w[2] \in Services /\ store[w[2]] \in Files
      /\ clock \in [Jobs -> Nat] /\ Timely(clock, work[w]) /\ AllSettled(clock, store[w[2]])
  BY WorkTypes DEF TypeInv, FilesSettled, WorkTimely
<1> DEFINE v == [work[w] EXCEPT !.todo = @ \ {j}, !.runs = With(@, j, clock[j])]
           f == IF work[w].live THEN Marked(store[w[2]], {j}) ELSE store[w[2]]
<1>1. /\ work' = [work EXCEPT ![w] = v] /\ store' = [store EXCEPT ![w[2]] = f]
      /\ UNCHANGED <<clock, disk, manual>>
  BY <1>0 DEF RunStarts, TypeInv
<1>2. v.runs = With(work[w].runs, j, clock[j]) /\ v.results = work[w].results
  BY <1>0 DEF WorkType
<1>3. AllSettled(clock, f)
  BY <1>0, MarkedSettled
<1> HIDE DEF v, f
<1>4. Timely(clock, v)
  BY <1>0, <1>2 DEF Timely, With
<1>5. FilesSettled' /\ WorkTimely'
  BY <1>0, <1>1, <1>3, <1>4, FilesWritten, WorkWritten
<1> QED BY <1>1, <1>5 DEF ManualTimely

LEMMA RunEndsDone ==
    ASSUME DoneInv, NEW w \in Workers, NEW j \in Jobs, NEW o \in Outcomes, RunEnds(w, j, o)
    PROVE  FilesSettled' /\ WorkTimely' /\ ManualTimely'
<1> USE DEF DoneInv
<1>0. work[w] \in WorkType /\ Timely(clock, work[w])
  BY DEF TypeInv, WorkTimely
<1> DEFINE res == [outcome |-> o, started |-> work[w].runs[j]]
           v == [work[w] EXCEPT !.runs = Without(@, j), !.results = With(@, j, res)]
<1>1. /\ work' = [work EXCEPT ![w] = v] /\ UNCHANGED <<clock, disk, store, manual>>
      /\ j \in DOMAIN work[w].runs
  BY DEF RunEnds, TypeInv
<1>2. v.runs = Without(work[w].runs, j) /\ v.results = With(work[w].results, j, res)
  BY <1>0 DEF WorkType
<1>3. res.started <= clock[j]
  BY <1>0, <1>1 DEF Timely
<1> HIDE DEF v, res
<1>4. Timely(clock, v)
  BY <1>0, <1>2, <1>3 DEF Timely, With, Without, Restrict
<1>5. FilesSettled' /\ WorkTimely'
  BY <1>1, <1>4, FilesSame, WorkWritten
<1> QED BY <1>1, <1>5 DEF ManualTimely

LEMMA RequestDone ==
    ASSUME DoneInv, NEW s \in Services, NEW j \in Jobs, NEW kind, NEW ok \in BOOLEAN,
           Add(s, j, ok) \/ Update(s, j, kind, ok) \/ Remove(s, j, ok)
    PROVE  FilesSettled' /\ WorkTimely' /\ ManualTimely'
<1> USE DEF DoneInv
<1>0. store[s] \in Files /\ clock \in [Jobs -> Nat] /\ AllSettled(clock, store[s])
  BY DEF TypeInv, FilesSettled
<1>1. UNCHANGED <<work, manual, clock>>
  BY DEF Add, Update, Remove, Edits
<1>2. WorkTimely' /\ ManualTimely'
  BY <1>1 DEF WorkTimely, Timely, ManualTimely
<1>3. CASE Add(s, j, ok)
  <2> DEFINE new == NewJob(clock[j] + 1, ~Recurring(j))
             g == With(store[s], j, new)
             f == Recomputed(g)
  <2>1. Settled(clock, j, new)
    BY <1>0 DEF NewJob, Settled, Succeeded
  <2>2. g \in Files /\ DOMAIN g = DOMAIN store[s] \cup {j} /\ g[j] = new
        /\ \A k \in DOMAIN g \ {j} : g[k] = store[s][k]
    BY RequestFiles DEF With
  <2> HIDE DEF new, g
  <2>3. AllSettled(clock, g)
    BY <1>0, <2>1, <2>2 DEF AllSettled
  <2>4. AllSettled(clock, f)
    <3>1. TRUE \in BOOLEAN
      OBVIOUS
    <3> QED BY <1>0, <2>2, <2>3, <3>1, RepairSettled
  <2>5. store' = [store EXCEPT ![s] = f] /\ (disk' = f \/ disk' = disk)
    BY <1>3 DEF Add, Edits, Persists, g, new
  <2> HIDE DEF f
  <2> QED BY <1>1, <1>2, <2>4, <2>5, FilesWritten
<1>4. CASE Update(s, j, kind, ok)
  <2> DEFINE p == Patched(j, store[s][j], kind)
             f == [store[s] EXCEPT ![j] = p]
  <2>1. store[s][j] \in Records /\ Settled(clock, j, store[s][j]) /\ j \in DOMAIN store[s]
    BY <1>0, <1>4, SomeIs DEF Update, Files, AllSettled
  <2>2. Settled(clock, j, p)
    BY <1>0, <2>1, PatchedSettled
  <2>3. store' = [store EXCEPT ![s] = f] /\ (disk' = f \/ disk' = disk)
    BY <1>4 DEF Update, Edits, Persists
  <2> HIDE DEF p
  <2>4. AllSettled(clock, f)
    BY <1>0, <2>1, <2>2 DEF AllSettled
  <2> HIDE DEF f
  <2> QED BY <1>1, <1>2, <2>3, <2>4, FilesWritten
<1>5. CASE Remove(s, j, ok)
  <2> DEFINE f == Without(store[s], j)
  <2>1. AllSettled(clock, f)
    BY <1>0 DEF AllSettled, Without, Restrict
  <2>2. store' = [store EXCEPT ![s] = f] /\ (disk' = f \/ disk' = disk)
    BY <1>5 DEF Remove, Edits, Persists
  <2> HIDE DEF f
  <2> QED BY <1>1, <1>2, <2>1, <2>2, FilesWritten
<1> QED BY <1>3, <1>4, <1>5

LEMMA ListDone ==
    ASSUME DoneInv, NEW s \in Services, NEW ok \in BOOLEAN, List(s, ok)
    PROVE  FilesSettled' /\ WorkTimely' /\ ManualTimely'
<1> USE DEF DoneInv
<1> DEFINE f == Maintenance(store[s], FALSE)
<1>1. AllSettled(clock, f)
  BY RepairSettled DEF TypeInv, FilesSettled
<1>2. /\ store' = [store EXCEPT ![s] = f] /\ (disk' = f \/ disk' = disk)
      /\ UNCHANGED <<work, manual, clock>>
  BY DEF List, PersistsChange, Persists
<1> HIDE DEF f
<1>3. FilesSettled'
  BY <1>1, <1>2, FilesWritten
<1> QED BY <1>2, <1>3 DEF WorkTimely, Timely, ManualTimely

LEMMA ManualWritten ==
    ASSUME TypeInv, ManualTimely, UNCHANGED clock, NEW m \in Manuals, NEW v,
           manual' = [manual EXCEPT ![m] = v],
           v.pc \in {"reserve", "run", "finish"} => v.started <= clock[v.job]
    PROVE  ManualTimely'
<1>1. \A n \in Manuals : manual'[n] = IF n = m THEN v ELSE manual[n]
  BY DEF TypeInv
<1> QED BY <1>1 DEF ManualTimely

LEMMA ManualDone ==
    ASSUME DoneInv, NEW m \in Manuals, NEW ok \in BOOLEAN, ManualReserves(m, ok) \/ ManualFinishes(m, ok)
    PROVE  FilesSettled' /\ WorkTimely' /\ ManualTimely'
<1> USE DEF DoneInv
<1>0. /\ clock \in [Jobs -> Nat] /\ disk \in Files /\ AllSettled(clock, disk)
      /\ \A t \in Services : store[t] \in Files /\ AllSettled(clock, store[t])
      /\ manual[m] \in ManualType
  BY DEF TypeInv, FilesSettled
<1>1. CASE ManualReserves(m, ok)
  <2> DEFINE s == manual[m].by
             j == manual[m].job
             f == Marked(store[s], {j})
             v == IF Free(s, j) /\ ok THEN [manual[m] EXCEPT !.pc = "run"] ELSE Over
  <2>1. s \in Services /\ manual[m].pc = "reserve" /\ UNCHANGED <<work, clock>>
    BY <1>1 DEF ManualReserves, TypeInv
  <2>2. AllSettled(clock, f)
    BY <1>0, <2>1, MarkedSettled
  <2>3. UNCHANGED <<disk, store>> \/ (store' = [store EXCEPT ![s] = f] /\ (disk' = f \/ disk' = disk))
    BY <1>1 DEF ManualReserves, Persists
  <2>4. manual' = [manual EXCEPT ![m] = v]
    BY <1>1 DEF ManualReserves
  <2>5. v.pc \in {"reserve", "run", "finish"} => v.started <= clock[v.job]
    <3>1. manual[m].started <= clock[manual[m].job]
      BY <2>1 DEF ManualTimely
    <3> QED BY <1>0, <3>1, WorkTypes DEF ManualType
  <2> HIDE DEF f, v, s
  <2>6. FilesSettled'
    BY <2>1, <2>2, <2>3, FilesWritten, FilesSame
  <2>7. ManualTimely'
    BY <2>1, <2>4, <2>5, ManualWritten
  <2> QED BY <2>1, <2>6, <2>7 DEF WorkTimely, Timely
<1>2. CASE ManualFinishes(m, ok)
  <2>1. manual[m].pc = "finish" /\ manual' = [manual EXCEPT ![m] = Over] /\ UNCHANGED clock
    BY <1>2, MergedIs
  <2>2. ManualTimely'
    BY <2>1, ManualWritten, WorkTypes
  <2>3. CASE manual[m].job \in DOMAIN store[manual[m].by]
    <3>1. PICK s \in Services, j \in Jobs : s = manual[m].by /\ j = manual[m].job
      BY <2>1 DEF TypeInv
    <3> DEFINE res == Result(m)
               g == Merged(s, j, res)
               f == Maintenance(g, TRUE)
               v == [work[Tick(s)] EXCEPT !.live = FALSE]
    <3>2. store[s][j] \in Records /\ j \in DOMAIN store[s]
      BY <1>0, <2>3, <3>1, SomeIs DEF Files
    <3>3. res \in [outcome : Outcomes \cup {"ok"}, started : Nat] /\ res.started <= clock[j]
      BY <1>0, <2>1, <3>1 DEF Result, ManualType, ManualTimely
    <3> HIDE DEF res
    <3>4. /\ Settled(clock, j, Applied(j, store[s][j], res))
          /\ \A a : Settled(clock, j, [Applied(j, store[s][j], res) EXCEPT !.at = a])
      BY <1>0, <3>2, <3>3, AppliedSettled
    <3>5. AllSettled(clock, g)
      <4>1. CASE j \notin DOMAIN disk
        BY <1>0, <4>1 DEF Merged
      <4>2. CASE j \in DOMAIN disk /\ Deleted(j, store[s][j], res)
        BY <1>0, <4>2 DEF Merged, Without, Restrict, AllSettled
      <4>3. CASE j \in DOMAIN disk /\ ~Deleted(j, store[s][j], res)
        <5> DEFINE r == [Applied(j, store[s][j], res) EXCEPT !.at = disk[j].at]
        <5>1. g = [disk EXCEPT ![j] = r]
          BY <4>3 DEF Merged
        <5>2. Settled(clock, j, r)
          BY <3>4
        <5> HIDE DEF r, g
        <5> QED BY <1>0, <4>3, <5>1, <5>2 DEF AllSettled
      <4> QED BY <4>1, <4>2, <4>3
    <3>6. g \in Files
      BY <2>1, <2>3, <3>1, MergedKeeps DEF Keeps, res
    <3>7. /\ store' = [store EXCEPT ![s] = f] /\ (disk' = f \/ disk' = disk)
          /\ work' = [work EXCEPT ![Tick(s)] = v]
      BY <1>2, <2>3, <3>1, MergedIs DEF Persists, TypeInv, res
    <3> HIDE DEF g
    <3>8. AllSettled(clock, f)
      BY <1>0, <3>5, <3>6, RepairSettled
    <3>9. Tick(s) \in Workers /\ work[Tick(s)] \in WorkType
      BY WorkTypes DEF TypeInv
    <3>10. Timely(clock, v)
      <4>1. v.runs = work[Tick(s)].runs /\ v.results = work[Tick(s)].results
        BY <3>9 DEF WorkType
      <4> HIDE DEF v
      <4> QED BY <3>9, <4>1 DEF WorkTimely, Timely
    <3> HIDE DEF f, v
    <3> QED BY <2>1, <2>2, <3>7, <3>8, <3>9, <3>10, FilesWritten, WorkWritten
  <2>4. CASE manual[m].job \notin DOMAIN store[manual[m].by]
    <3>1. UNCHANGED <<disk, store, work>>
      BY <1>2, <2>4, MergedIs
    <3> QED BY <2>1, <2>2, <3>1, FilesSame DEF WorkTimely, Timely
  <2> QED BY <2>3, <2>4
<1> QED BY <1>1, <1>2

LEMMA PreflightDone ==
    ASSUME DoneInv, NEW s \in Services, NEW m \in Manuals, NEW j \in Jobs, NEW forced \in BOOLEAN,
           ManualPreflight(s, m, j, forced)
    PROVE  FilesSettled' /\ WorkTimely' /\ ManualTimely'
<1> USE DEF DoneInv
<1> DEFINE f == Maintenance(store[s], FALSE)
           v == [manual[m] EXCEPT !.pc = "reserve", !.by = s, !.job = j, !.started = clock[j]]
<1>1. AllSettled(clock, f)
  BY RepairSettled DEF TypeInv, FilesSettled
<1>2. /\ store' = [store EXCEPT ![s] = f] /\ UNCHANGED <<work, disk, clock>>
      /\ manual' = manual \/ manual' = [manual EXCEPT ![m] = v]
  BY DEF ManualPreflight
<1>3. v.started <= clock[v.job]
  <2>1. manual[m] \in ManualType /\ clock[j] \in Nat
    BY DEF TypeInv
  <2>2. v.started = clock[j] /\ v.job = j
    BY <2>1 DEF ManualType
  <2> QED BY <2>1, <2>2
<1> HIDE DEF f, v
<1>4. FilesSettled'
  BY <1>1, <1>2, FilesWritten
<1>5. ManualTimely'
  <2>1. CASE manual' = manual
    BY <1>2, <2>1 DEF ManualTimely
  <2>2. CASE manual' = [manual EXCEPT ![m] = v]
    BY <1>2, <1>3, <2>2, ManualWritten
  <2> QED BY <1>2, <2>1, <2>2
<1> QED BY <1>2, <1>4, <1>5 DEF WorkTimely, Timely

LEMMA OtherDone ==
    ASSUME DoneInv,
           \/ \E s \in Services : TickFires(s) \/ TickEnds(s) \/ Start(s) \/ Reload(s)
           \/ \E m \in Manuals, o \in Outcomes : ManualRunEnds(m, o)
           \/ Crash \/ MarkersAge \/ UNCHANGED vars
    PROVE  FilesSettled' /\ WorkTimely' /\ ManualTimely'
<1> USE DEF DoneInv
<1>1. ASSUME NEW s \in Services, TickFires(s) \/ TickEnds(s) \/ Start(s) \/ Reload(s)
      PROVE  FilesSettled' /\ WorkTimely' /\ ManualTimely'
  <2>1. UNCHANGED <<disk, store, manual, clock>>
    BY <1>1 DEF TickFires, TickEnds, Start, Reload
  <2>2. \E w \in Workers : \E v :
           /\ work' = [work EXCEPT ![w] = v]
           /\ \/ v = Idle
              \/ \E pc : v = [work[w] EXCEPT !.pc = pc]
    <3>1. Tick(s) \in Workers /\ Boot(s) \in Workers
      BY WorkTypes
    <3>2. \/ work' = [work EXCEPT ![Tick(s)] = [work[Tick(s)] EXCEPT !.pc = "check"]]
          \/ work' = [work EXCEPT ![Tick(s)] = Idle]
          \/ work' = [work EXCEPT ![Boot(s)] = [work[Boot(s)] EXCEPT !.pc = "marks"]]
      BY <1>1, <3>1 DEF TickFires, TickEnds, Start, Reload, TypeInv
    <3> QED BY <3>1, <3>2
  <2>w. PICK w \in Workers : \E v :
           /\ work' = [work EXCEPT ![w] = v]
           /\ \/ v = Idle
              \/ \E pc : v = [work[w] EXCEPT !.pc = pc]
    BY <2>2
  <2>3. PICK v : /\ work' = [work EXCEPT ![w] = v]
                 /\ \/ v = Idle
                    \/ \E pc : v = [work[w] EXCEPT !.pc = pc]
    BY <2>w
  <2>4. Timely(clock, v)
    <3>1. CASE v = Idle
      BY <3>1, IdleTimely DEF Idle
    <3>2. CASE \E pc : v = [work[w] EXCEPT !.pc = pc]
      <4>1. work[w] \in WorkType /\ Timely(clock, work[w])
        BY DEF TypeInv, WorkTimely
      <4>2. v.runs = work[w].runs /\ v.results = work[w].results
        BY <3>2, <4>1 DEF WorkType
      <4> QED BY <4>1, <4>2 DEF Timely
    <3> QED BY <2>3, <3>1, <3>2
  <2>5. WorkTimely'
    BY <2>1, <2>3, <2>4, WorkWritten
  <2> QED BY <2>1, <2>5, FilesSame DEF ManualTimely
<1>2. ASSUME NEW m \in Manuals, NEW o \in Outcomes, ManualRunEnds(m, o)
      PROVE  FilesSettled' /\ WorkTimely' /\ ManualTimely'
  <2> DEFINE v == [manual[m] EXCEPT !.pc = "finish", !.outcome = o]
  <2>1. /\ manual' = [manual EXCEPT ![m] = v] /\ UNCHANGED <<disk, store, work, clock>>
        /\ manual[m].pc = "run" /\ manual[m] \in ManualType
    BY <1>2 DEF ManualRunEnds, TypeInv
  <2>2. v.started <= clock[v.job]
    <3>1. v.started = manual[m].started /\ v.job = manual[m].job
      BY <2>1 DEF ManualType
    <3> QED BY <2>1, <3>1 DEF ManualTimely
  <2> HIDE DEF v
  <2>3. ManualTimely'
    BY <2>1, <2>2, ManualWritten
  <2> QED BY <2>1, <2>3, FilesSame DEF WorkTimely, Timely
<1>3. CASE Crash
  <2>1. \A s \in Services : DOMAIN store'[s] = {}
    BY <1>3, SomeEmpty DEF Crash
  <2>2. FilesSettled'
    BY <1>3, <2>1 DEF Crash, FilesSettled, AllSettled, Settled
  <2>3. \A w \in Workers : DOMAIN work'[w].runs = {} /\ DOMAIN work'[w].results = {}
    BY <1>3, WorkTypes DEF Crash
  <2>4. \A m \in Manuals : manual'[m].pc \in {"idle", "done"}
    BY <1>3, WorkTypes DEF Crash
  <2> QED BY <2>2, <2>3, <2>4 DEF WorkTimely, Timely, ManualTimely
<1>4. CASE MarkersAge
  <2>1. UNCHANGED <<work, manual, clock>>
    BY <1>4 DEF MarkersAge
  <2>2. AllSettled(clock', disk') /\ \A s \in Services : AllSettled(clock', store'[s])
    BY <1>4, MarkedSettled DEF MarkersAge, FilesSettled, TypeInv
  <2> QED BY <2>1, <2>2 DEF FilesSettled, WorkTimely, Timely, ManualTimely
<1>5. CASE UNCHANGED vars
  BY <1>5, FilesSame DEF vars, WorkTimely, Timely, ManualTimely
<1> QED BY <1>1, <1>2, <1>3, <1>4, <1>5

LEMMA TimeDone ==
    ASSUME DoneInv, NEW k \in Jobs, TimePasses(k)
    PROVE  FilesSettled' /\ WorkTimely' /\ ManualTimely'
<1> USE DEF DoneInv
<1>1. /\ \A j \in Jobs : clock[j] \in Nat /\ clock'[j] \in Nat /\ clock[j] <= clock'[j]
      /\ UNCHANGED <<disk, store, work, manual>>
  BY DEF TimePasses, TypeInv
<1>2. ASSUME NEW f \in Files, AllSettled(clock, f)
      PROVE  AllSettled(clock', f)
  <2>1. \A j \in DOMAIN f : j \in Jobs /\ f[j] \in Records
    BY SomeIs DEF Files
  <2>2. \A j \in DOMAIN f : f[j].last \in Nat \cup {-1}
    BY <2>1, RecordFacts
  <2> QED BY <1>1, <1>2, <2>1, <2>2 DEF AllSettled, Settled
<1>3. FilesSettled'
  <2>1. AllSettled(clock', disk') /\ \A s \in Services : AllSettled(clock', store'[s])
    BY <1>1, <1>2 DEF FilesSettled, TypeInv
  <2> QED BY <2>1 DEF FilesSettled
<1>4. WorkTimely'
  <2>1. ASSUME NEW w \in Workers PROVE Timely(clock', work[w])
    <3>1. work[w].runs \in Some(Nat) /\ work[w].results \in Some(Results) /\ Timely(clock, work[w])
      BY DEF TypeInv, WorkType, WorkTimely
    <3>2. /\ \A j \in DOMAIN work[w].runs : j \in Jobs /\ work[w].runs[j] \in Nat
          /\ \A j \in DOMAIN work[w].results : j \in Jobs /\ work[w].results[j].started \in Nat
      <4>1. /\ DOMAIN work[w].runs \subseteq Jobs /\ work[w].runs \in [DOMAIN work[w].runs -> Nat]
            /\ DOMAIN work[w].results \subseteq Jobs
            /\ work[w].results \in [DOMAIN work[w].results -> Results]
        BY <3>1, SomeIs
      <4>2. \A j \in DOMAIN work[w].results : work[w].results[j] \in Results
        BY <4>1
      <4> QED BY <4>1, <4>2 DEF Results
    <3> QED BY <1>1, <3>1, <3>2 DEF Timely
  <2>2. \A w \in Workers : Timely(clock', work'[w])
    BY <1>1, <2>1
  <2> QED BY <2>2 DEF WorkTimely
<1>5. ManualTimely'
  <2>1. \A m \in Manuals : manual[m].pc \in {"reserve", "run", "finish"} =>
           manual[m].started \in Nat /\ manual[m].job \in Jobs
    BY DEF TypeInv, ManualType
  <2> QED BY <1>1, <2>1 DEF ManualTimely
<1> QED BY <1>3, <1>4, <1>5

LEMMA DoneInit == Init => DoneInv
<1> SUFFICES ASSUME Init PROVE DoneInv
  OBVIOUS
<1>1. TypeInv
  BY TypeInit
<1>2. PICK D \in SUBSET {j \in InitialJobs : ~Recurring(j)} :
        disk = [j \in InitialJobs |-> NewJob(1, j \in D)]
  BY DEF Init
<1>3. \A j \in InitialJobs : clock[j] = 0 /\ disk[j].last = -1 /\ disk[j].status = "none"
  BY <1>2, ConstantsAssumption DEF Init, NewJob
<1>4. DOMAIN disk = InitialJobs /\ \A s \in Services : DOMAIN store[s] = {}
  BY <1>2, SomeEmpty DEF Init
<1>5. FilesSettled
  BY <1>3, <1>4 DEF FilesSettled, AllSettled, Settled, Succeeded
<1>6. \A w \in Workers : DOMAIN work[w].runs = {} /\ DOMAIN work[w].results = {}
  BY WorkTypes DEF Init
<1>7. \A m \in Manuals : manual[m].pc = "idle"
  BY WorkTypes DEF Init
<1> QED BY <1>1, <1>5, <1>6, <1>7 DEF DoneInv, WorkTimely, Timely, ManualTimely

LEMMA DoneNext == DoneInv /\ [Next]_vars => DoneInv'
<1> SUFFICES ASSUME DoneInv, [Next]_vars PROVE DoneInv'
  OBVIOUS
<1>0. TypeInv'
  BY TypeNext DEF DoneInv
<1> DEFINE Goal == FilesSettled' /\ WorkTimely' /\ ManualTimely'
<1> SUFFICES Goal
  BY <1>0 DEF DoneInv
<1>1. ASSUME NEW s \in Services, NEW ok \in BOOLEAN, TickChecks(s, ok) \/ TickApplies(s, ok)
      PROVE  Goal
  BY <1>1, TickDone
<1>2. ASSUME NEW s \in Services, NEW ok \in BOOLEAN,
             BootMarks(s, ok) \/ BootPlans(s, ok) \/ BootApplies(s, ok) \/ BootEnds(s, ok)
      PROVE  Goal
  BY <1>2, BootDone
<1>3. ASSUME NEW s \in Services, NEW j \in Jobs, NEW ok \in BOOLEAN, NEW kind,
             Add(s, j, ok) \/ Update(s, j, kind, ok) \/ Remove(s, j, ok)
      PROVE  Goal
  BY <1>3, RequestDone
<1>4. ASSUME NEW s \in Services, NEW ok \in BOOLEAN, List(s, ok) PROVE Goal
  BY <1>4, ListDone
<1>5. ASSUME NEW w \in Workers, NEW j \in Jobs, RunStarts(w, j) PROVE Goal
  BY <1>5, RunDone
<1>6. ASSUME NEW w \in Workers, NEW j \in Jobs, NEW o \in Outcomes, RunEnds(w, j, o) PROVE Goal
  BY <1>6, RunEndsDone
<1>7. ASSUME NEW s \in Services, NEW m \in Manuals, NEW j \in Jobs, NEW forced \in BOOLEAN,
             ManualPreflight(s, m, j, forced)
      PROVE  Goal
  BY <1>7, PreflightDone
<1>8. ASSUME NEW m \in Manuals, NEW ok \in BOOLEAN, ManualReserves(m, ok) \/ ManualFinishes(m, ok)
      PROVE  Goal
  BY <1>8, ManualDone
<1>9. ASSUME NEW j \in Jobs, TimePasses(j) PROVE Goal
  BY <1>9, TimeDone
<1>10. CASE \/ \E s \in Services : TickFires(s) \/ TickEnds(s) \/ Start(s) \/ Reload(s)
            \/ \E m \in Manuals, o \in Outcomes : ManualRunEnds(m, o)
            \/ Crash \/ MarkersAge \/ UNCHANGED vars
  BY <1>10, OtherDone
<1> HIDE DEF Goal
<1> QED BY <1>1, <1>2, <1>3, <1>4, <1>5, <1>6, <1>7, <1>8, <1>9, <1>10 DEF Next

(* A one-shot job that has succeeded is not armed again for the time at    *)
(* which it ran, by a result that arrives late, an update, a repair of     *)
(* missing times or a restart, for any number of services.                 *)
THEOREM DoneStaysDoneHolds == Spec => []DoneStaysDone
<1>1. DoneInv /\ [Next]_vars => DoneInv'
  BY DoneNext
<1>2. DoneInv => DoneStaysDone
  BY DEF DoneInv, FilesSettled, AllSettled, Settled, Succeeded, DoneStaysDone
<1> QED BY DoneInit, <1>1, <1>2, PTL DEF Spec

-----------------------------------------------------------------------------
(* No moment is skipped.  The memory may be ahead of the file, after a     *)
(* write that failed.  But what it says of a job that is open in the file  *)
(* (it waits there for a moment, and is not running) either has the same   *)
(* moment, or records a run that began at that moment or later; r is the   *)
(* record of the file and q that of the memory.                            *)
Open(f, j) == /\ j \in DOMAIN f
              /\ Recurring(j) /\ f[j].enabled /\ f[j].marker = "none" /\ f[j].next # 0
Follows(r, q) == q.enabled /\ (q.next = r.next \/ ~(q.last < r.next))

(* A memory or a file f can be written without skipping a moment of the    *)
(* jobs in K.                                                              *)
Carries(f, K) ==
    \A j \in K : Open(disk, j) => j \in DOMAIN f /\ Follows(disk[j], f[j])

Spared == {j \in Jobs : Untouched(j)}
Up == current # NoService /\ work[Boot(current)].pc \notin {"marks", "failed"}
CarriedInv == Up => \A s \in Services : Carries(store[s], Spared)

Slots == current # NoService /\ work[Boot(current)].pc = "idle"
            => \A j \in Jobs : Untouched(j)' => ~Skips(j)

(* Repairs and marks change no moment that has not been executed.          *)
LEMMA MaintenanceFollows ==
    ASSUME NEW f \in Files, NEW e \in BOOLEAN, NEW j \in DOMAIN f, NEW r \in Records,
           r.next # 0, Follows(r, f[j])
    PROVE  Follows(r, Maintenance(f, e)[j])
<1> DEFINE n == Normalized(f[j])
           executed == Due(j, n) /\ n.marker = "none" /\ n.last >= n.next
           p == [n EXCEPT !.next = NextRun(j, n)]
<1>1. f[j] \in Records /\ n \in Records
  BY SomeIs, NormalizedType DEF Files
<1>2. n.enabled /\ n.next = f[j].next /\ n.last = f[j].last
  BY <1>1, RecordFacts DEF Follows, Normalized
<1>3. Maintenance(f, e)[j] = IF n.enabled /\ (n.next = 0 \/ (e /\ executed)) THEN p ELSE n
  BY DEF Maintenance
<1>4. executed => ~(n.last < n.next)
  BY <1>1, RecordFacts
<1>5. p.enabled = n.enabled /\ p.last = n.last
  BY <1>1, RecordFacts
<1> HIDE DEF n, p, executed
<1>6. Follows(r, n)
  BY <1>2 DEF Follows
<1>7. n.next = 0 \/ executed => Follows(r, p)
  BY <1>2, <1>4, <1>5, <1>6 DEF Follows
<1> QED BY <1>3, <1>6, <1>7

LEMMA MaintenanceCarries ==
    ASSUME TypeInv, NEW f \in Files, NEW e \in BOOLEAN, NEW K, Carries(f, K)
    PROVE  Carries(Maintenance(f, e), K)
<1>1. DOMAIN Maintenance(f, e) = DOMAIN f
  BY DEF Maintenance
<1>2. \A j \in DOMAIN disk : disk[j] \in Records
  BY SomeIs DEF TypeInv, Files
<1> QED BY <1>1, <1>2, MaintenanceFollows DEF Carries, Open

LEMMA MarkedCarries ==
    ASSUME NEW f \in Files, NEW S, NEW K, Carries(f, K)
    PROVE  Carries(Marked(f, S), K)
<1>1. ASSUME NEW j \in DOMAIN f
      PROVE  /\ Marked(f, S)[j].enabled = f[j].enabled
             /\ Marked(f, S)[j].next = f[j].next /\ Marked(f, S)[j].last = f[j].last
  <2>1. f[j] \in Records
    BY SomeIs DEF Files
  <2> QED BY <2>1, RecordFacts DEF Marked
<1>2. DOMAIN Marked(f, S) = DOMAIN f
  BY DEF Marked
<1> QED BY <1>1, <1>2 DEF Carries, Follows

LEMMA DiskCarries == ASSUME NEW K PROVE Carries(disk, K)
BY DEF Carries, Open, Follows

LEMMA CarriesLess ==
    ASSUME NEW f, NEW K, NEW L \in SUBSET K, Carries(f, K)
    PROVE  Carries(f, L)
BY DEF Carries

(* Who was spared until now.                                               *)
LEMMA SparedLess ==
    ASSUME edited \subseteq edited', disowned \subseteq disowned'
    PROVE  Spared' \subseteq Spared
BY DEF Spared, Untouched

(* A job that is open is not claimed, unless it was disowned.              *)
LEMMA OpenNotHeld ==
    ASSUME HeldInv, NEW j \in Spared, Open(disk, j)
    PROVE  /\ \A w \in Workers : j \notin WorkClaims(w)
           /\ \A m \in Manuals : j \notin ManualClaims(m)
<1>1. j \in Jobs /\ j \notin disowned
  BY DEF Spared, Untouched
<1>2. j \notin Held
  BY DEF HeldInv, FilesInv, Protects, Open
<1> QED BY <1>1, <1>2 DEF Held

-----------------------------------------------------------------------------
(* The steps.                                                              *)

(* Nothing is written into the file or a memory.                           *)
LEMMA SlotsSame ==
    ASSUME CarriedInv, UNCHANGED <<disk, store>>, Up' => Up,
           edited \subseteq edited', disowned \subseteq disowned'
    PROVE  CarriedInv' /\ Slots
<1>1. Slots
  BY DEF Slots, Skips
<1>2. Up' => \A s \in Services : Carries(store[s], Spared')
  BY SparedLess, CarriesLess DEF CarriedInv
<1>3. CarriedInv'
  BY <1>2 DEF CarriedInv, Carries, Open
<1> QED BY <1>1, <1>3

(* One memory, or the file and it, is written with f.                      *)
LEMMA SlotsWritten ==
    ASSUME TypeInv, OneService, NEW s \in Services, NEW f,
           store' = [store EXCEPT ![s] = f], disk' = f \/ disk' = disk, Up' => Up,
           Up => Carries(f, Spared')
    PROVE  CarriedInv' /\ Slots
<1>1. store'[s] = f /\ \A t \in Services : t = s
  BY DEF TypeInv, OneService
<1>2. Slots
  <2> SUFFICES ASSUME current # NoService, work[Boot(current)].pc = "idle",
                      NEW j \in Jobs, Untouched(j)', Skips(j)
               PROVE  FALSE
    BY DEF Slots
  <2>1. Up /\ j \in Spared'
    BY DEF Up, Spared
  <2>2. Open(disk, j)
    BY DEF Skips, Open, Due
  <2>3. Follows(disk[j], f[j])
    BY <2>1, <2>2 DEF Carries
  <2> QED BY <2>3 DEF Follows, Skips
<1>3. CarriedInv'
  <2> SUFFICES ASSUME Up', NEW t \in Services, NEW j \in Spared', Open(disk', j)
               PROVE  j \in DOMAIN store'[t] /\ Follows(disk'[j], store'[t][j])
    BY DEF CarriedInv, Carries
  <2>1. CASE disk' = f
    BY <1>1, <2>1 DEF Open, Follows
  <2>2. CASE disk' = disk
    BY <1>1, <2>2 DEF Carries
  <2> QED BY <2>1, <2>2
<1> QED BY <1>2, <1>3

(* The file and the memory are written; but the service has not started.   *)
LEMMA SlotsBooting ==
    ASSUME TypeInv, OneService, NEW s \in Services, NEW f,
           store' = [store EXCEPT ![s] = f], disk' = f, ~(work[Boot(s)].pc = "idle")
    PROVE  CarriedInv' /\ Slots
<1>1. store'[s] = f /\ \A t \in Services : t = s
  BY DEF TypeInv, OneService
<1>2. current # NoService => current = s
  BY <1>1 DEF TypeInv
<1>3. Slots
  BY <1>2 DEF Slots
<1>4. CarriedInv'
  BY <1>1 DEF CarriedInv, Carries, Open, Follows
<1> QED BY <1>3, <1>4

LEMMA TickSlots ==
    ASSUME HeldInv, OneService, CarriedInv, NEW s \in Services, NEW ok \in BOOLEAN,
           TickFires(s) \/ TickChecks(s, ok) \/ TickApplies(s, ok) \/ TickEnds(s)
    PROVE  CarriedInv' /\ Slots
<1>0. /\ TypeInv /\ disk \in Files /\ clock \in [Jobs -> Nat] /\ Tick(s) \in Workers
      /\ work[Tick(s)] \in WorkType /\ work[Tick(s)].results \in Some(Results)
  BY WorkTypes DEF HeldInv, TypeInv, WorkType
<1>1. /\ UNCHANGED <<current, edited, disowned>> /\ \E v : work' = [work EXCEPT ![Tick(s)] = v]
  BY <1>0 DEF TickFires, TickChecks, TickApplies, TickEnds, TypeInv
<1>2. Up' => Up
  <2>1. current # NoService => Boot(current) # Tick(s) /\ Boot(current) \in Workers
    BY <1>0, WorkTypes DEF TypeInv, Boot, Tick
  <2> QED BY <1>0, <1>1, <2>1, WorkIs DEF Up
<1>3. Spared' \subseteq Spared
  BY <1>1, SparedLess
<1>4. CASE TickFires(s) \/ TickEnds(s)
  <2>1. UNCHANGED <<disk, store>>
    BY <1>4 DEF TickFires, TickEnds
  <2> QED BY <1>1, <1>2, <2>1, SlotsSame
<1>5. CASE TickChecks(s, ok)
  <2>1. /\ Carries(Maintenance(disk, TRUE), Spared')
        /\ \A S : Carries(Marked(disk, S), Spared')
    BY <1>0, DiskCarries, MaintenanceCarries, MarkedCarries
  <2>2. \E f : /\ f = Maintenance(disk, TRUE) \/ \E S : f = Marked(disk, S)
               /\ store' = [store EXCEPT ![s] = f] /\ (disk' = f \/ disk' = disk)
    BY <1>5 DEF TickChecks, PersistsChange, Persists
  <2> QED BY <1>0, <1>2, <2>1, <2>2, SlotsWritten
<1>6. CASE TickApplies(s, ok)
  <2> DEFINE res == work[Tick(s)].results
             g == AppliedAll(disk, res)
             f == Maintenance(g, FALSE)
  <2>1. g \in Files
    BY <1>0, AppliedAllKeeps DEF Keeps
  <2>2. Carries(g, Spared)
    <3> SUFFICES ASSUME NEW j \in Spared, Open(disk, j)
                 PROVE  j \in DOMAIN g /\ Follows(disk[j], g[j])
      BY DEF Carries
    <3>1. j \notin DOMAIN res
      BY <1>0, OpenNotHeld DEF WorkClaims, ClaimsIn
    <3>2. j \in DOMAIN disk /\ j \in DOMAIN g /\ g[j] = disk[j]
      BY <3>1 DEF Open, AppliedAll
    <3> HIDE DEF g
    <3> QED BY <3>2 DEF Open, Follows
  <2>3. store' = [store EXCEPT ![s] = f] /\ (disk' = f \/ disk' = disk)
    BY <1>6 DEF TickApplies, Persists
  <2> HIDE DEF g
  <2>4. Carries(f, Spared')
    BY <1>0, <1>3, <2>1, <2>2, MaintenanceCarries, CarriesLess
  <2> HIDE DEF f
  <2> QED BY <1>0, <1>2, <2>3, <2>4, SlotsWritten
<1> QED BY <1>4, <1>5, <1>6

(* A step of the catch-up: on success the memory is that of the file.      *)
LEMMA BootSlots ==
    ASSUME HeldInv, OneService, CarriedInv, NEW s \in Services, NEW ok \in BOOLEAN,
           BootMarks(s, ok) \/ BootPlans(s, ok) \/ BootApplies(s, ok) \/ BootEnds(s, ok)
    PROVE  CarriedInv' /\ Slots
<1>0. /\ TypeInv /\ Boot(s) \in Workers /\ \A t \in Services : t = s
      /\ UNCHANGED <<current, edited, disowned>>
  BY WorkTypes DEF HeldInv, OneService, BootMarks, BootPlans, BootApplies, BootEnds
<1>1. work[Boot(s)].pc # "idle" /\ work[Boot(s)].pc # "failed"
  BY DEF BootMarks, BootPlans, BootApplies, BootEnds, RunsOver
<1>2. current # NoService => current = s
  BY <1>0 DEF TypeInv
<1>3. Slots
  BY <1>1, <1>2 DEF Slots
<1>4. ASSUME ~ok PROVE ~Up'
  <2>1. \E next : BootGoes(s, ok, next)
    BY DEF BootMarks, BootPlans, BootApplies, BootEnds
  <2>2. work' = [work EXCEPT ![Boot(s)] = [Idle EXCEPT !.pc = "failed"]]
    BY <1>4, <2>1 DEF BootGoes
  <2>3. work'[Boot(s)].pc = "failed"
    <3>1. work'[Boot(s)] = [Idle EXCEPT !.pc = "failed"]
      BY <1>0, <2>2, WorkIs
    <3> QED BY <3>1 DEF Idle
  <2> QED BY <1>0, <1>2, <2>3 DEF Up
<1>5. CASE ~ok
  BY <1>3, <1>4, <1>5 DEF CarriedInv
<1>6. CASE ok /\ work[Boot(s)].pc = "marks"
  <2>1. BootMarks(s, ok)
    BY <1>6 DEF BootMarks, BootPlans, BootApplies, BootEnds, RunsOver
  <2>2. \E f : store' = [store EXCEPT ![s] = f] /\ disk' = f
    BY <1>6, <2>1 DEF BootMarks, PersistsChange, Persists
  <2> QED BY <1>0, <1>1, <2>2, SlotsBooting
<1>7. CASE ok /\ work[Boot(s)].pc # "marks"
  <2>1. Up' => Up
    BY <1>0, <1>1, <1>2, <1>7 DEF Up
  <2>2. \/ \E f : store' = [store EXCEPT ![s] = f] /\ disk' = f
        \/ UNCHANGED <<disk, store>>
    <3>1. ~BootMarks(s, ok)
      BY <1>7 DEF BootMarks
    <3>2. CASE BootPlans(s, ok)
      BY <1>7, <3>2 DEF BootPlans, Persists
    <3>3. CASE BootApplies(s, ok)
      BY <1>7, <3>3, BootAppliesIs DEF Persists
    <3>4. CASE BootEnds(s, ok)
      <4>1. Recomputed(store[s]) # store[s] => disk' = Recomputed(store[s])
                                      /\ store' = [store EXCEPT ![s] = Recomputed(store[s])]
        BY <1>7, <3>4 DEF BootEnds, PersistsChange, Persists
      <4>2. Recomputed(store[s]) = store[s] => store' = store /\ disk' = disk
        BY <1>0, <3>4 DEF BootEnds, PersistsChange, TypeInv
      <4> QED BY <4>1, <4>2
    <3> QED BY <3>1, <3>2, <3>3, <3>4
  <2> QED BY <1>0, <1>1, <2>1, <2>2, SlotsBooting, SlotsSame
<1> QED BY <1>5, <1>6, <1>7

(* A request of the current service writes f, made from its memory.        *)
LEMMA ServedSlots ==
    ASSUME TypeInv, OneService, NEW s \in Services, NEW f, UNCHANGED <<work, current>>,
           store' = [store EXCEPT ![s] = f], disk' = f \/ disk' = disk,
           Carries(store[s], Spared) => Carries(f, Spared'), CarriedInv
    PROVE  CarriedInv' /\ Slots
<1>1. (Up' => Up) /\ (Up => Carries(f, Spared'))
  BY DEF Up, CarriedInv
<1> QED BY <1>1, SlotsWritten

LEMMA EditSlots ==
    ASSUME HeldInv, OneService, CarriedInv, NEW s \in Services, NEW k \in Jobs, NEW ok \in BOOLEAN,
           NEW kind, Add(s, k, ok) \/ Update(s, k, kind, ok) \/ Remove(s, k, ok)
    PROVE  CarriedInv' /\ Slots
<1>0. TypeInv
  BY DEF HeldInv
<1>1. PICK f : /\ Edits(s, k, f, ok) /\ disowned \subseteq disowned'
               /\ \A j \in Spared' \cap DOMAIN store[s] : j \in DOMAIN f /\ f[j] = store[s][j]
  <2>1. CASE Add(s, k, ok)
    <3>1. PICK f : Edits(s, k, f, ok) /\ UNCHANGED disowned /\ k \notin InitialJobs
      BY <2>1 DEF Add
    <3>2. Spared' = {}
      BY <3>1 DEF Edits, Spared, Untouched
    <3> QED BY <3>1, <3>2
  <2>2. CASE Update(s, k, kind, ok)
    <3> DEFINE f == [store[s] EXCEPT ![k] = Patched(k, store[s][k], kind)]
    <3>1. Edits(s, k, f, ok) /\ disowned \subseteq disowned'
      BY <2>2 DEF Update
    <3>2. k \notin Spared'
      BY <3>1 DEF Edits, Spared, Untouched
    <3>3. \A j \in DOMAIN store[s] \ {k} : j \in DOMAIN f /\ f[j] = store[s][j]
      OBVIOUS
    <3> HIDE DEF f
    <3> QED BY <3>1, <3>2, <3>3
  <2>3. CASE Remove(s, k, ok)
    <3> DEFINE f == Without(store[s], k)
    <3>1. Edits(s, k, f, ok) /\ disowned \subseteq disowned'
      BY <2>3 DEF Remove
    <3>2. k \notin Spared'
      BY <3>1 DEF Edits, Spared, Untouched
    <3>3. \A j \in DOMAIN store[s] \ {k} : j \in DOMAIN f /\ f[j] = store[s][j]
      BY DEF Without, Restrict
    <3> HIDE DEF f
    <3> QED BY <3>1, <3>2, <3>3
  <2> QED BY <2>1, <2>2, <2>3
<1>2. /\ UNCHANGED <<work, current>> /\ edited \subseteq edited'
      /\ store' = [store EXCEPT ![s] = f] /\ (disk' = f \/ disk' = disk)
  BY <1>1, EditsAre
<1>3. Carries(store[s], Spared) => Carries(f, Spared')
  <2>1. Spared' \subseteq Spared
    BY <1>1, <1>2, SparedLess
  <2> QED BY <1>1, <2>1 DEF Carries
<1> QED BY <1>0, <1>2, <1>3, ServedSlots

LEMMA RepairSlots ==
    ASSUME HeldInv, OneService, CarriedInv, NEW s \in Services,
           \/ \E ok \in BOOLEAN : List(s, ok)
           \/ \E m \in Manuals, j \in Jobs, forced \in BOOLEAN : ManualPreflight(s, m, j, forced)
    PROVE  CarriedInv' /\ Slots
<1> DEFINE f == Maintenance(store[s], FALSE)
<1>0. TypeInv /\ store[s] \in Files
  BY DEF HeldInv, TypeInv
<1>1. /\ UNCHANGED <<work, current, edited, disowned>>
      /\ store' = [store EXCEPT ![s] = f] /\ (disk' = f \/ disk' = disk)
  BY DEF List, PersistsChange, Persists, ManualPreflight
<1>2. Carries(store[s], Spared) => Carries(f, Spared')
  BY <1>0, <1>1, SparedLess, MaintenanceCarries, CarriesLess
<1> HIDE DEF f
<1> QED BY <1>0, <1>1, <1>2, ServedSlots

LEMMA RunSlots ==
    ASSUME HeldInv, OneService, CarriedInv, NEW w \in Workers, NEW j \in Jobs,
           RunStarts(w, j) \/ \E o \in Outcomes : RunEnds(w, j, o)
    PROVE  CarriedInv' /\ Slots
<1>0. TypeInv /\ w[2] \in Services /\ store[w[2]] \in Files
  BY WorkTypes DEF HeldInv, TypeInv
<1>1. UNCHANGED <<disk, current, edited, disowned>>
  BY DEF RunStarts, RunEnds
<1>2. \A t \in Services : work'[Boot(t)].pc = work[Boot(t)].pc
  <2>1. \A t \in Services : Boot(t) \in Workers /\ work[Boot(t)] \in WorkType
    BY <1>0, WorkTypes DEF TypeInv
  <2>2. work[w] \in WorkType /\ \A u \in Workers : u # w => work'[u] = work[u]
    BY <1>0 DEF RunStarts, RunEnds, TypeInv
  <2>3. work'[w].pc = work[w].pc
    BY <1>0, <2>2 DEF RunStarts, RunEnds, TypeInv, WorkType
  <2> QED BY <2>1, <2>2, <2>3
<1>3. Up' => Up
  BY <1>0, <1>1, <1>2 DEF Up, TypeInv
<1>4. store' = store \/ store' = [store EXCEPT ![w[2]] = Marked(store[w[2]], {j})]
  BY DEF RunStarts, RunEnds
<1>5. Up => Carries(Marked(store[w[2]], {j}), Spared')
  BY <1>0, <1>1, SparedLess, MarkedCarries, CarriesLess DEF CarriedInv
<1> QED BY <1>0, <1>1, <1>3, <1>4, <1>5, SlotsSame, SlotsWritten

LEMMA ReserveSlots ==
    ASSUME HeldInv, OneService, CarriedInv, NEW m \in Manuals, NEW ok \in BOOLEAN,
           ManualReserves(m, ok)
    PROVE  CarriedInv' /\ Slots
<1> DEFINE s == manual[m].by
           f == Marked(store[s], {manual[m].job})
<1>0. TypeInv /\ s \in Services /\ store[s] \in Files
  BY DEF ManualReserves, HeldInv, TypeInv
<1>1. /\ UNCHANGED <<work, current, edited>> /\ disowned \subseteq disowned'
      /\ \/ UNCHANGED <<disk, store>>
         \/ store' = [store EXCEPT ![s] = f] /\ (disk' = f \/ disk' = disk)
  BY DEF ManualReserves, Persists
<1>2. Carries(store[s], Spared) => Carries(f, Spared')
  BY <1>0, <1>1, SparedLess, MarkedCarries, CarriesLess
<1>3. Up' => Up
  BY <1>1 DEF Up
<1> HIDE DEF f, s
<1> QED BY <1>0, <1>1, <1>2, <1>3, ServedSlots, SlotsSame

LEMMA FinishSlots ==
    ASSUME HeldInv, OneService, CarriedInv, NEW m \in Manuals, NEW ok \in BOOLEAN,
           ManualFinishes(m, ok)
    PROVE  CarriedInv' /\ Slots
<1> DEFINE s == manual[m].by
           j == manual[m].job
           g == Merged(s, j, Result(m))
           f == Maintenance(g, TRUE)
<1>0. TypeInv /\ manual[m].pc = "finish" /\ s \in Services
  BY MergedIs DEF HeldInv, TypeInv
<1>1. /\ UNCHANGED <<current, edited, disowned>>
      /\ work' = work \/ work' = [work EXCEPT ![Tick(s)] = [@ EXCEPT !.live = FALSE]]
      /\ \/ UNCHANGED <<disk, store>>
         \/ /\ j \in DOMAIN store[s]
            /\ store' = [store EXCEPT ![s] = f] /\ (disk' = f \/ disk' = disk)
  <2> HIDE DEF g
  <2>1. CASE j \in DOMAIN store[s]
    BY <2>1, MergedIs DEF Persists, g
  <2>2. CASE j \notin DOMAIN store[s]
    BY <2>2, MergedIs
  <2> QED BY <2>1, <2>2
<1>2. Up' => Up
  <2>1. \A t \in Services : Boot(t) # Tick(s) /\ Boot(t) \in Workers
    BY WorkTypes DEF Boot, Tick
  <2>2. \A t \in Services : work'[Boot(t)] = work[Boot(t)]
    BY <1>0, <1>1, <2>1 DEF TypeInv
  <2> QED BY <1>0, <1>1, <2>2 DEF Up, TypeInv
<1>3. Spared' \subseteq Spared
  BY <1>1, SparedLess
<1>4. ASSUME j \in DOMAIN store[s]
      PROVE  Carries(f, Spared')
  <2>1. g \in Files
    BY <1>0, <1>4, MergedKeeps DEF Keeps
  <2>2. Carries(g, Spared)
    <3> SUFFICES ASSUME NEW k \in Spared, Open(disk, k)
                 PROVE  k \in DOMAIN g /\ Follows(disk[k], g[k])
      BY DEF Carries
    <3>1. k # j
      BY <1>0, OpenNotHeld DEF ManualClaims
    <3>2. k \in DOMAIN disk /\ disk[k].enabled
      BY DEF Open
    <3>3. k \in DOMAIN g /\ g[k] = disk[k]
      BY <3>1, <3>2 DEF Merged, Without, Restrict
    <3> HIDE DEF g
    <3> QED BY <3>2, <3>3 DEF Follows
  <2> HIDE DEF g
  <2> QED BY <1>0, <1>3, <2>1, <2>2, MaintenanceCarries, CarriesLess
<1> HIDE DEF f, s, j
<1> QED BY <1>0, <1>1, <1>2, <1>4, SlotsSame, SlotsWritten

LEMMA OtherSlots ==
    ASSUME HeldInv, OneService, CarriedInv,
           \/ \E s \in Services : Start(s) \/ Reload(s)
           \/ \E m \in Manuals, o \in Outcomes : ManualRunEnds(m, o)
           \/ \E j \in Jobs : TimePasses(j)
           \/ Crash \/ MarkersAge \/ UNCHANGED vars
    PROVE  CarriedInv' /\ Slots
<1>0. TypeInv
  BY DEF HeldInv
<1>1. CASE \/ \E m \in Manuals, o \in Outcomes : ManualRunEnds(m, o)
           \/ \E j \in Jobs : TimePasses(j)
           \/ UNCHANGED vars
  <2>1. UNCHANGED <<disk, store, work, current, edited, disowned>>
    BY <1>1 DEF ManualRunEnds, TimePasses, vars
  <2> QED BY <2>1, SlotsSame DEF Up
<1>2. ASSUME NEW s \in Services, Start(s) \/ Reload(s)
      PROVE  CarriedInv' /\ Slots
  <2>1. /\ UNCHANGED disk /\ current' = s
        /\ work' = [work EXCEPT ![Boot(s)] = [work[Boot(s)] EXCEPT !.pc = "marks"]]
    BY <1>2 DEF Start, Reload
  <2>2. work'[Boot(s)].pc = "marks"
    <3>1. Boot(s) \in Workers /\ work[Boot(s)] \in WorkType
      BY <1>0, WorkTypes DEF TypeInv
    <3> QED BY <1>0, <2>1, <3>1 DEF TypeInv, WorkType
  <2> QED BY <2>1, <2>2 DEF CarriedInv, Up, Slots, Skips
<1>3. CASE Crash
  BY <1>3 DEF Crash, CarriedInv, Up, Slots, Skips
<1>4. CASE MarkersAge
  <2>1. /\ UNCHANGED <<work, current, edited>> /\ disowned \subseteq disowned'
        /\ disk' = Aged(disk) /\ \A s \in Services : store'[s] = Aged(store[s])
    BY <1>4 DEF MarkersAge
  <2>2. ASSUME NEW f \in Files, NEW j \in DOMAIN f
        PROVE  /\ j \in DOMAIN Aged(f)
               /\ Aged(f)[j].enabled = f[j].enabled
               /\ Aged(f)[j].next = f[j].next /\ Aged(f)[j].last = f[j].last
               /\ Aged(f)[j].marker = "none" => f[j].marker = "none"
    <3>1. f[j] \in Records
      BY SomeIs DEF Files
    <3> QED BY <3>1, RecordFacts DEF Aged
  <2>3. DOMAIN disk' = DOMAIN disk
    BY <2>1 DEF Aged
  <2>4. Slots
    BY <1>0, <2>1, <2>2 DEF Slots, Skips, TypeInv
  <2>5. ASSUME Up', NEW s \in Services, NEW j \in Spared', Open(disk', j)
        PROVE  j \in DOMAIN store'[s] /\ Follows(disk'[j], store'[s][j])
    <3>1. j \in Spared /\ Up
      BY <2>1, <2>5, SparedLess DEF Up
    <3>2. Open(disk, j) /\ disk \in Files /\ store[s] \in Files
      BY <1>0, <2>1, <2>2, <2>3, <2>5 DEF Open, TypeInv
    <3>3. j \in DOMAIN store[s] /\ Follows(disk[j], store[s][j])
      BY <3>1, <3>2 DEF CarriedInv, Carries
    <3> QED BY <2>1, <2>2, <3>2, <3>3 DEF Follows, Open
  <2> QED BY <2>4, <2>5 DEF CarriedInv, Carries
<1> QED BY <1>1, <1>2, <1>3, <1>4

LEMMA SlotsNext ==
    ASSUME OneService
    PROVE  HeldInv /\ CarriedInv /\ [Next]_vars => CarriedInv' /\ Slots
<1> SUFFICES ASSUME HeldInv, CarriedInv, [Next]_vars PROVE CarriedInv' /\ Slots
  OBVIOUS
<1> DEFINE Goal == CarriedInv' /\ Slots
<1> SUFFICES Goal
  OBVIOUS
<1>1. ASSUME NEW s \in Services, NEW ok \in BOOLEAN, TickChecks(s, ok) \/ TickApplies(s, ok)
      PROVE  Goal
  BY <1>1, TickSlots
<1>2. ASSUME NEW s \in Services, NEW ok \in BOOLEAN,
             BootMarks(s, ok) \/ BootPlans(s, ok) \/ BootApplies(s, ok) \/ BootEnds(s, ok)
      PROVE  Goal
  BY <1>2, BootSlots
<1>3. ASSUME NEW s \in Services, NEW j \in Jobs, NEW ok \in BOOLEAN, NEW kind,
             Add(s, j, ok) \/ Update(s, j, kind, ok) \/ Remove(s, j, ok)
      PROVE  Goal
  BY <1>3, EditSlots
<1>4. ASSUME NEW s \in Services, NEW ok \in BOOLEAN, List(s, ok) PROVE Goal
  BY <1>4, RepairSlots
<1>5. ASSUME NEW s \in Services, NEW m \in Manuals, NEW j \in Jobs, NEW forced \in BOOLEAN,
             ManualPreflight(s, m, j, forced)
      PROVE  Goal
  BY <1>5, RepairSlots
<1>6. ASSUME NEW w \in Workers, NEW j \in Jobs, RunStarts(w, j) PROVE Goal
  BY <1>6, RunSlots
<1>7. ASSUME NEW w \in Workers, NEW j \in Jobs, NEW o \in Outcomes, RunEnds(w, j, o) PROVE Goal
  BY <1>7, RunSlots
<1>8. ASSUME NEW m \in Manuals, NEW ok \in BOOLEAN, ManualReserves(m, ok) \/ ManualFinishes(m, ok)
      PROVE  Goal
  BY <1>8, ReserveSlots, FinishSlots
<1>9. ASSUME NEW j \in Jobs, TimePasses(j) PROVE Goal
  BY <1>9, OtherSlots
<1>10. CASE \/ \E s \in Services : TickFires(s) \/ TickEnds(s) \/ Start(s) \/ Reload(s)
            \/ \E m \in Manuals, o \in Outcomes : ManualRunEnds(m, o)
            \/ Crash \/ MarkersAge \/ UNCHANGED vars
  <2>1. TRUE \in BOOLEAN
    OBVIOUS
  <2> QED BY <1>10, <2>1, TickSlots, OtherSlots
<1> HIDE DEF Goal
<1> QED BY <1>1, <1>2, <1>3, <1>4, <1>5, <1>6, <1>7, <1>8, <1>9, <1>10 DEF Next

(* With one service that has started, no step skips a moment of a          *)
(* recurring job that nobody edits, while failed writes leave the memory   *)
(* ahead of the file: a due time is only replaced when a run that began at *)
(* it or later is recorded.                                                *)
THEOREM SlotsAreNotSkippedHolds ==
    ASSUME OneService
    PROVE  Spec => SlotsAreNotSkipped
<1>1. Init => HeldInv /\ CarriedInv
  BY HeldInit DEF Init, CarriedInv, Up
<1>2. HeldInv /\ CarriedInv /\ [Next]_vars => HeldInv' /\ CarriedInv'
  BY HeldNext, SlotsNext
<1>3. HeldInv /\ CarriedInv /\ [Next]_vars
        => [current # NoService /\ work[Boot(current)].pc = "idle"
              => \A j \in Jobs : Untouched(j)' => ~Skips(j)]_vars
  BY SlotsNext DEF Slots
<1> QED BY <1>1, <1>2, <1>3, PTL DEF Spec, SlotsAreNotSkipped
=============================================================================
