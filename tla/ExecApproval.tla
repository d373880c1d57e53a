---------------------------- MODULE ExecApproval ----------------------------
(***************************************************************************)
(* The approvals the gateway keeps for commands that need a person's       *)
(* decision: ExecApprovalManager (gateway/exec-approval-manager.ts), the   *)
(* handlers exec.approval.request, waitDecision and resolve, and the check *)
(* node.invoke makes before it forwards an approved system.run.            *)
(*                                                                         *)
(* A request is one call of exec.approval.request.  It names an id, and    *)
(* ids may be used again by a later request: the map holds one entry per   *)
(* id, a request that is refused makes none.  A wait is one call of        *)
(* waitDecision.  What a command is and who may run it are left out: the   *)
(* run comes from the client that asked, for the command it asked about.   *)
(*                                                                         *)
(* forwarder.handleRequested delivers in the background, so its promise is *)
(* settled when it returns and no timer and no message comes between the   *)
(* registration and the test of the route: the request is one action.      *)
(***************************************************************************)
EXTENDS Naturals, FiniteSets

CONSTANTS
  Ids,        \* approval ids
  Requests,   \* calls of exec.approval.request
  Waits,      \* calls of exec.approval.waitDecision
  Matches,    \* Matches[i]: the ids that have the text i as a prefix
  MaxUses,    \* bound on the runs counted per approval
  None        \* no request, no id, no answer yet

ASSUME ApprovalAssumption ==
  /\ Requests \cap Waits = {}
  /\ None \notin Ids \cup Requests \cup Waits \cup {"allow-once", "allow-always", "deny"}
  /\ Matches \in [Ids -> SUBSET Ids]
  /\ MaxUses \in Nat \ {0}

Decisions == {"allow-once", "allow-always", "deny"}
Allowing  == {"allow-once", "allow-always"}
Callers   == Requests \cup Waits

VARIABLES
  pending,    \* pending[i]: the request whose entry the map holds under i
  idOf,       \* idOf[r]: the id of r's record, None before it is registered
  decision,   \* decision[r]: record.decision, None when undefined
  closed,     \* closed[r]: "open" (no resolvedAtMs), or record.resolvedBy
  promise,    \* promise[r]: what r's promise was settled with, None before
  timers,     \* requests whose expiry timer is set
  graces,     \* requests whose deletion timer is set
  clock,      \* clock[r]: the time, against r's expiresAtMs
  awaits,     \* awaits[c]: the request whose promise the call c awaits
  heard,      \* heard[c]: the response to the call c
  accepted,   \* accepted[r]: the decision a person was told is recorded (history)
  uses        \* uses[r]: runs let through by r's decision (history)

manager == <<pending, idOf, decision, closed, promise, timers, graces>>
vars == <<manager, clock, awaits, heard, accepted, uses>>

TypeOK ==
  /\ pending \in [Ids -> Requests \cup {None}]
  /\ idOf \in [Requests -> Ids \cup {None}]
  /\ decision \in [Requests -> Decisions \cup {None}]
  /\ closed \in [Requests -> {"open", "person", "null", "no-approval-route"}]
  /\ promise \in [Requests -> Decisions \cup {"null", None}]
  /\ timers \in SUBSET Requests /\ graces \in SUBSET Requests
  /\ clock \in [Requests -> {"before", "at", "after"}]
  /\ awaits \in [Callers -> Requests \cup {None}]
  /\ heard \in [Callers -> Decisions \cup {"null", "refused", "not found", None}]
  /\ accepted \in [Requests -> Decisions \cup {None}]
  /\ uses \in [Requests -> 0..MaxUses]

Init ==
  /\ pending = [i \in Ids |-> None]
  /\ idOf = [r \in Requests |-> None]
  /\ decision = [r \in Requests |-> None]
  /\ closed = [r \in Requests |-> "open"]
  /\ promise = [r \in Requests |-> None]
  /\ timers = {} /\ graces = {}
  /\ clock = [r \in Requests |-> "before"]
  /\ awaits = [c \in Callers |-> None]
  /\ heard = [c \in Callers |-> None]
  /\ accepted = [r \in Requests |-> None]
  /\ uses = [r \in Requests |-> 0]

Registered(r) == idOf[r] # None

\* Mutant: no test that the approval is still open, a second decision overwrites.
EverUndecided(r) == TRUE
Undecided(r) == closed[r] = "open"

----------------------------------------------------------------------------
\* The manager.

\* Mutant: a request takes the place of an open one with the same id.
TakenIfDecided(i) == pending[i] # None /\ ~Undecided(pending[i])
\* Whether an id may not be registered: an entry, decided or not, is there.
Taken(i) == pending[i] # None

\* Mutant: an approval that expires leaves its promise open.
SettledByPerson(r, d) == IF d = "null" THEN promise ELSE [promise EXCEPT ![r] = d]
\* A promise keeps the value it was settled with first.
Settled(r, d) == IF promise[r] = None THEN [promise EXCEPT ![r] = d] ELSE promise

\* What resolve and expire leave of an entry: a record that is closed, a settled
\* promise, and a deletion after the grace period.
Close(r, d, by) ==
  /\ closed' = [closed EXCEPT ![r] = by]
  /\ decision' = [decision EXCEPT ![r] = IF d = "null" THEN None ELSE d]
  /\ promise' = Settled(r, d)
  /\ graces' = graces \cup {r}

\* Mutant: resolve() records nobody.
ResolverUnnamed == "null"
\* Mutant: a resolver without a name is not turned into null.
ResolverUnset == "undefined"
\* The name resolve() records for the person who decided.  Every client that
\* connects has an id, so the handler never falls back to null.
Resolver == "person"

----------------------------------------------------------------------------
\* exec.approval.request

\* An explicit id that has an entry is refused.
Refuse(r, i) ==
  /\ ~Registered(r) /\ heard[r] = None
  /\ Taken(i)
  /\ heard' = [heard EXCEPT ![r] = "refused"]
  /\ UNCHANGED <<manager, clock, awaits, accepted, uses>>

\* Somebody can be asked: the handler goes on to await the decision.
Register(r, i) ==
  /\ ~Registered(r) /\ heard[r] = None
  /\ ~Taken(i)
  /\ pending' = [pending EXCEPT ![i] = r]
  /\ idOf' = [idOf EXCEPT ![r] = i]
  /\ timers' = timers \cup {r}
  /\ awaits' = [awaits EXCEPT ![r] = r]
  /\ UNCHANGED <<decision, closed, promise, graces, clock, heard, accepted, uses>>

\* Nobody can be asked: the approval expires at once and the answer is null.
RegisterUnrouted(r, i) ==
  /\ ~Registered(r) /\ heard[r] = None
  /\ ~Taken(i)
  /\ pending' = [pending EXCEPT ![i] = r]
  /\ idOf' = [idOf EXCEPT ![r] = i]
  /\ Close(r, "null", "no-approval-route")
  /\ heard' = [heard EXCEPT ![r] = "null"]
  /\ UNCHANGED <<timers, clock, awaits, accepted, uses>>

----------------------------------------------------------------------------
\* exec.approval.resolve

\* The ids a person's text stands for: an exact id hides what it is a prefix of.
LookupPendingId(text) ==
  IF pending[text] # None
  THEN {i \in {text} : Undecided(pending[i])}
  ELSE {i \in Matches[text] : pending[i] # None /\ Undecided(pending[i])}

\* Texts that stand for no id, or for several, change nothing.
Resolve(text, d) ==
  \E i \in LookupPendingId(text) :
    LET r == pending[i] IN
    /\ LookupPendingId(text) = {i}
    /\ Undecided(r)
    /\ timers' = timers \ {r}
    /\ Close(r, d, Resolver)
    /\ accepted' = [accepted EXCEPT ![r] = d]
    /\ UNCHANGED <<pending, idOf, clock, awaits, heard, uses>>

----------------------------------------------------------------------------
\* Timers and time.

\* The expiry timer runs when timeoutMs have passed; it goes by the id.
Expire(r) ==
  /\ r \in timers /\ clock[r] # "before"
  /\ LET e == pending[idOf[r]] IN
     IF e # None /\ Undecided(e)
     THEN timers' = timers \ {r, e} /\ Close(e, "null", "null")
     ELSE timers' = timers \ {r} /\ UNCHANGED <<decision, closed, promise, graces>>
  /\ UNCHANGED <<pending, idOf, clock, awaits, heard, accepted, uses>>

\* The deletion timer leaves an entry that has been replaced alone.
Forget(r) ==
  /\ r \in graces
  /\ graces' = graces \ {r}
  /\ pending' = [i \in Ids |-> IF i = idOf[r] /\ pending[i] = r THEN None ELSE pending[i]]
  /\ UNCHANGED <<idOf, decision, closed, promise, timers, clock, awaits, heard, accepted, uses>>

\* The moment expiresAtMs comes, and goes by.
Elapse(r) ==
  /\ Registered(r) /\ clock[r] # "after"
  /\ clock' = [clock EXCEPT ![r] = IF @ = "before" THEN "at" ELSE "after"]
  /\ UNCHANGED <<manager, awaits, heard, accepted, uses>>

----------------------------------------------------------------------------
\* exec.approval.waitDecision

WaitDecision(w, i) ==
  /\ awaits[w] = None /\ heard[w] = None
  /\ IF pending[i] = None
     THEN heard' = [heard EXCEPT ![w] = "not found"] /\ UNCHANGED awaits
     ELSE awaits' = [awaits EXCEPT ![w] = pending[i]] /\ UNCHANGED heard
  /\ UNCHANGED <<manager, clock, accepted, uses>>

\* A handler that awaits a promise goes on and responds.
Answer(c) ==
  /\ awaits[c] # None /\ heard[c] = None
  /\ promise[awaits[c]] # None
  /\ heard' = [heard EXCEPT ![c] = promise[awaits[c]]]
  /\ UNCHANGED <<manager, clock, awaits, accepted, uses>>

----------------------------------------------------------------------------
\* node.invoke system.run with an approval

\* The decision of the record the run is let through by; consumeAllowOnce
\* takes the decision away in the same step.
Consumed(r) == IF decision[r] = "allow-once" THEN [decision EXCEPT ![r] = None] ELSE decision

\* An approval that timed out lets a run through that asks for it by its own policy.
TimedOut(r) == ~Undecided(r) /\ decision[r] = None /\ closed[r] = "null"

SystemRun(i) ==
  LET r == pending[i] IN
  /\ r # None
  /\ clock[r] # "after"
  /\ decision[r] \in Allowing \/ TimedOut(r)
  /\ uses[r] < MaxUses
  /\ uses' = [uses EXCEPT ![r] = @ + 1]
  /\ decision' = Consumed(r)
  /\ UNCHANGED <<pending, idOf, closed, promise, timers, graces, clock, awaits, heard, accepted>>

----------------------------------------------------------------------------
Next ==
  \/ \E r \in Requests, i \in Ids : Refuse(r, i) \/ Register(r, i) \/ RegisterUnrouted(r, i)
  \/ \E i \in Ids, d \in Decisions : Resolve(i, d)
  \/ \E r \in Requests : Expire(r) \/ Forget(r) \/ Elapse(r)
  \/ \E w \in Waits, i \in Ids : WaitDecision(w, i)
  \/ \E c \in Callers : Answer(c)
  \/ \E i \in Ids : SystemRun(i)

Spec == Init /\ [][Next]_vars

\* Timers run, time passes and settled promises are delivered; nobody has to
\* ask, to decide or to run anything.
FairSpec ==
  /\ Spec
  /\ \A r \in Requests : WF_vars(Expire(r)) /\ WF_vars(Forget(r)) /\ WF_vars(Elapse(r))
  /\ \A c \in Callers : WF_vars(Answer(c))

----------------------------------------------------------------------------
\* Properties.

\* An approval that nobody has decided is in the map under its id, with its
\* expiry timer set and no deletion timer: it can still be decided, it cannot
\* outlive its time, and no deletion of an earlier entry of that id took it away.
UndecidedIsListed ==
  \A r \in Requests : Registered(r) /\ Undecided(r) =>
    pending[idOf[r]] = r /\ r \in timers /\ r \notin graces

\* The decision a person was told is recorded is the one the promise carries
\* and the record keeps, whatever timer or second decision comes after it; only
\* a run takes an allow-once away.  Whoever waits for the approval hears it.
DecisionStands ==
  \A r \in Requests : accepted[r] # None =>
    /\ promise[r] = accepted[r]
    /\ decision[r] = accepted[r] \/ (accepted[r] = "allow-once" /\ decision[r] = None /\ uses[r] = 1)
    /\ \A c \in Callers : awaits[c] = r => heard[c] \in {None, accepted[r]}

\* Runs are let through only as the decision says: allow-once once, deny never,
\* no decision only when the approval timed out.
RunsAsDecided ==
  \A r \in Requests : uses[r] > 0 =>
    \/ accepted[r] = "allow-always"
    \/ accepted[r] = "allow-once" /\ uses[r] = 1
    \/ accepted[r] = None /\ closed[r] = "null"

\* Every call that waits is answered, although nobody may ever decide: since
\* calls are few and an answer stays, all of them are answered time and again.
EveryWaitEnds == []<>(\A c \in Callers : awaits[c] # None => heard[c] # None)

\* The approvals keep the promise of Permits: seen without ids, map and timers,
\* every step is a step of permits that are ruled on once, of calls that are told
\* that ruling, and of runs it allows.
Ruling(r) ==
  IF ~Registered(r) THEN "unasked"
  ELSE CASE closed[r] = "open"   -> "open"
         [] closed[r] = "person" -> promise[r]
         [] closed[r] = "null"   -> "lapsed"
         [] OTHER                -> "unrouted"
Ledger == INSTANCE Permits WITH
  Permits <- Requests, Calls <- Callers, Rulings <- Decisions,
  ruling <- [r \in Requests |-> Ruling(r)], spent <- uses, asks <- awaits, told <- heard
KeepsPromise == Ledger!Spec
=============================================================================
