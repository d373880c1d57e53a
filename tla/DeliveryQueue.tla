---------------------------- MODULE DeliveryQueue ---------------------------
(***************************************************************************)
(* The write-ahead queue of outbound deliveries                            *)
(* (src/src/infra/outbound/deliver.ts, delivery-queue-storage.ts and       *)
(* delivery-queue-recovery.ts).  A live send writes {id}.json before it    *)
(* sends, and after it renames the file to {id}.delivered and unlinks it,  *)
(* or counts the failure in it.  Each time the gateway starts, a recovery  *)
(* lists the directory and sends what it finds there, while live sends go  *)
(* on.  Nothing waits for a recovery or stops it: a restart of the gateway *)
(* within its process begins another one beside it.                        *)
(*                                                                         *)
(* A process is a live send, named by its message, or a recovery; a step   *)
(* is what it does between two awaits.  Time is left out: whether the      *)
(* backoff of a failed entry is over, and whether the recovery budget is   *)
(* used up, may be answered either way.                                    *)
(***************************************************************************)
EXTENDS Integers, Sequences

CONSTANTS
    Msgs,        \* deliveries, one queue id each
    Recoveries,  \* bound: recoveries that run at the same time
    None,        \* no delivery
    Kind,        \* of each delivery: "strict" throws at the first error,
                 \* "reported" is bestEffort with, "silent" without onError
    NumParts,    \* payloads of a delivery
    MaxRetries,  \* MAX_RETRIES
    MaxFaults,   \* bound: errors of sends and of file operations
    MaxBreaks    \* bound: ends of the process with work in progress, and
                 \* starts of the gateway within a running process

ASSUME ConstantsAssumption ==
    /\ Recoveries \cap Msgs = {} /\ None \notin Msgs
    /\ Kind \in [Msgs -> {"strict", "reported", "silent"}]
    /\ NumParts \in Nat \ {0}
    /\ MaxRetries \in Nat \ {0}
    /\ MaxFaults \in Nat /\ MaxBreaks \in Nat

VARIABLES
    onDisk,     \* deliveries with an {id}.json in the queue directory
    entry,      \* its content: retryCount, and whether lastAttemptAt is set
    markers,    \* deliveries with an {id}.delivered
    parked,     \* deliveries with an {id}.json in failed/
    enqueued,   \* deliveries written to the queue, by enqueuedAt
    up,         \* the gateway process is running
    job,        \* per process: what it does and with what
    names,      \* per recovery: the .json files readdir found
    todo,       \* per recovery: the entries loaded and not yet looked at
    current,    \* per recovery: the delivery it deals with
    slow,       \* recoveries that sent something, so the budget may be used up
    deferring,  \* recoveries whose budget is used up
    got,        \* per delivery: payloads the recipient has
    aborted,    \* deliveries whose caller aborted
    cutOff,     \* deliveries that the channel aborted in their live send
    acked,      \* deliveries that were marked delivered
    shared,     \* entries a recovery loaded while another process had them
    attempts,   \* per delivery: sends begun
    unrecorded, \* per delivery: steps cut short by a crash or a fault
    faults,     \* errors so far
    breaks      \* crashes, and restarts within the process, so far

diskVars == <<onDisk, entry, markers, parked>>
recoveryVars == <<names, todo, current, slow, deferring>>
logVars == <<enqueued, aborted, cutOff, acked, shared, attempts, unrecorded>>
countVars == <<faults, breaks>>
vars == <<diskVars, up, job, recoveryVars, got, logVars, countVars>>

Procs == Msgs \cup Recoveries
Parts == 1..NumParts
Entries == [retries : Nat, tried : BOOLEAN]
Snapshots == [id : Msgs, retries : Nat, tried : BOOLEAN]
Fresh == [retries |-> 0, tried |-> FALSE]
Idle == [pc |-> "idle", part |-> 1, partial |-> FALSE, queued |-> FALSE, retries |-> 0]

(* A process is at one of these between its first and its last step:       *)
(*   sending a payload, about to rename (ack), to unlink, to read (fail)   *)
(*   or to write (rewrite) the entry, or to move it to failed/ (park).     *)
Busy == {"sending", "ack", "unlink", "fail", "rewrite", "park"}
Working(p) == job[p].pc \in Busy

Errors == {"transient", "permanent", "abort"}
Strict == {m \in Msgs : Kind[m] = "strict"}

(* The delivery a process works on.                                        *)
Target(p) == IF p \in Recoveries THEN current[p] ELSE p
WorksOn(p, m) == Working(p) /\ Target(p) = m

(* A recovery also has the deliveries whose entries it has loaded.         *)
Has(p, m) ==
    \/ WorksOn(p, m)
    \/ p \in Recoveries /\ \E e \in todo[p] : e.id = m

Init ==
    /\ onDisk = {} /\ markers = {} /\ parked = {}
    /\ entry = [m \in Msgs |-> Fresh]
    /\ enqueued = <<>>
    /\ up = FALSE
    /\ job = [p \in Procs |-> IF p \in Recoveries THEN [Idle EXCEPT !.pc = "done"] ELSE Idle]
    /\ names = [r \in Recoveries |-> {}] /\ todo = [r \in Recoveries |-> {}]
    /\ current = [r \in Recoveries |-> None]
    /\ slow = {} /\ deferring = {}
    /\ got = [m \in Msgs |-> {}]
    /\ aborted = {} /\ cutOff = {} /\ acked = {} /\ shared = {}
    /\ attempts = [m \in Msgs |-> 0]
    /\ unrecorded = [m \in Msgs |-> 0]
    /\ faults = 0 /\ breaks = 0

-----------------------------------------------------------------------------
(* Steps within a process.                                                 *)

At(p, pc) == job' = [job EXCEPT ![p].pc = pc]
Begin(p, pc) == job' = [job EXCEPT ![p] = [Idle EXCEPT !.pc = pc]]

(* The process is through with its delivery: the live send returns, and a  *)
(* recovery goes on with the rest of its entries.                          *)
Finish(p) ==
    IF p \in Recoveries
    THEN Begin(p, "next") /\ current' = [current EXCEPT ![p] = None]
    ELSE Begin(p, "done") /\ UNCHANGED current

Fault == faults < MaxFaults /\ faults' = faults + 1
Break == breaks < MaxBreaks /\ breaks' = breaks + 1

(* What was in progress on the delivery will not be counted in its entry.  *)
Unrecorded(m) == unrecorded' = [unrecorded EXCEPT ![m] = @ + 1]

-----------------------------------------------------------------------------
(* deliverOutboundPayloads, up to the call of the core.  If the entry      *)
(* cannot be written (ok is FALSE) the message is sent all the same.       *)
Accept(m, ok) ==
    /\ up /\ job[m].pc = "idle"
    /\ IF ok
       THEN /\ onDisk' = onDisk \cup {m}
            /\ entry' = [entry EXCEPT ![m] = Fresh]
            /\ enqueued' = Append(enqueued, m)
            /\ UNCHANGED faults
       ELSE Fault /\ UNCHANGED <<onDisk, entry, enqueued>>
    /\ job' = [job EXCEPT ![m] = [Idle EXCEPT !.pc = "sending", !.queued = ok]]
    /\ attempts' = [attempts EXCEPT ![m] = @ + 1]
    /\ UNCHANGED <<markers, parked, up, recoveryVars, got, aborted, cutOff, acked,
                   shared, unrecorded, breaks>>

(* What follows when the core returns, `partial' telling whether onError   *)
(* was called: a recovery acknowledges whatever the send did.              *)
Returned(p, partial) ==
    IF p \in Recoveries THEN "ack"
    ELSE IF ~job[p].queued THEN "done"
    ELSE IF partial THEN "fail" ELSE "ack"

(* What follows when the core throws, of which an AbortError of the caller *)
(* and one of the channel's own request (a timeout) look the same; the     *)
(* mutant acknowledges.                                                    *)
ThrewAcks(p, err) == IF p \in Msgs /\ ~job[p].queued THEN "done" ELSE "ack"
Threw(p, err) ==
    IF p \in Recoveries
    THEN IF err = "permanent" THEN "park" ELSE "fail"
    ELSE IF ~job[p].queued THEN "done"
    ELSE IF err = "abort" THEN "ack" ELSE "fail"

(* The loop over the payloads goes on to the next or returns.              *)
Continue(p, partial) ==
    job' = IF job[p].part < NumParts
           THEN [job EXCEPT ![p].part = @ + 1, ![p].partial = partial]
           ELSE [job EXCEPT ![p].pc = Returned(p, partial), ![p].partial = partial]

PartSent(p) ==
    /\ up /\ job[p].pc = "sending"
    /\ p \notin aborted
    /\ got' = [got EXCEPT ![Target(p)] = @ \cup {job[p].part}]
    /\ Continue(p, job[p].partial)
    /\ UNCHANGED <<diskVars, up, recoveryVars, enqueued, aborted, cutOff, acked, shared, attempts,
                   unrecorded, countVars>>

(* The payload's try block throws err, with bestEffort the loop goes on.   *)
(* A recovery passes bestEffort as the entry has it, but no onError.       *)
PartThrows(p, err) ==
    LET m == Target(p)
    IN  IF Kind[m] = "strict"
        THEN At(p, Threw(p, err))
        ELSE Continue(p, job[p].partial \/ (Kind[m] = "reported" /\ p \in Msgs))

(* The channel throws an error, an AbortError if its request timed out;    *)
(* the recipient may have the payload all the same.                        *)
PartFails(p, err, reached) ==
    /\ up /\ job[p].pc = "sending"
    /\ p \notin aborted
    /\ Fault
    /\ got' = IF reached THEN [got EXCEPT ![Target(p)] = @ \cup {job[p].part}] ELSE got
    /\ PartThrows(p, err)
    /\ cutOff' = IF err = "abort" THEN cutOff \cup ({p} \cap Strict) ELSE cutOff
    /\ UNCHANGED <<diskVars, up, recoveryVars, enqueued, aborted, acked, shared, attempts,
                   unrecorded, breaks>>

(* The caller's abort signal, which the loop looks at before each payload. *)
CallerAborts(m) ==
    /\ up /\ job[m].pc = "sending"
    /\ m \notin aborted
    /\ aborted' = aborted \cup {m}
    /\ UNCHANGED <<diskVars, up, job, recoveryVars, got, enqueued, cutOff, acked, shared,
                   attempts, unrecorded, countVars>>

PartAborted(m) ==
    /\ up /\ job[m].pc = "sending"
    /\ m \in aborted
    /\ got' = got
    /\ PartThrows(m, "abort")
    /\ UNCHANGED <<diskVars, up, recoveryVars, enqueued, aborted, cutOff, acked, shared, attempts,
                   unrecorded, countVars>>

-----------------------------------------------------------------------------
(* The {id}.json is renamed away; the mutant copies it.                    *)
StillQueued(m) == onDisk
Unqueued(m) == onDisk \ {m}

(* ackDelivery.                                                            *)
AckRenames(p) ==
    LET m == Target(p)
    IN  /\ up /\ job[p].pc = "ack"
        /\ IF m \in onDisk
           THEN /\ onDisk' = Unqueued(m)
                /\ markers' = markers \cup {m}
                /\ acked' = acked \cup {m}
                /\ At(p, "unlink") /\ UNCHANGED current
           ELSE /\ markers' = markers \ {m}
                /\ Finish(p)
                /\ UNCHANGED <<onDisk, acked>>
        /\ UNCHANGED <<entry, parked, up, names, todo, slow, deferring, got, enqueued, aborted, cutOff,
                       shared, attempts, unrecorded, countVars>>

(* Any other error of the rename: a live send ignores it, in a recovery it *)
(* counts as a failed delivery.                                            *)
AckFails(p) ==
    /\ up /\ job[p].pc = "ack"
    /\ Fault
    /\ IF p \in Recoveries
       THEN At(p, "fail") /\ UNCHANGED <<current, unrecorded>>
       ELSE Finish(p) /\ Unrecorded(p)
    /\ UNCHANGED <<diskVars, up, names, todo, slow, deferring, got, enqueued, aborted, cutOff,
                   acked, shared, attempts, breaks>>

AckUnlinks(p) ==
    /\ up /\ job[p].pc = "unlink"
    /\ markers' = markers \ {Target(p)}
    /\ Finish(p)
    /\ UNCHANGED <<onDisk, entry, parked, up, names, todo, slow, deferring, got, logVars, countVars>>

(* failDelivery: reads the entry, and writes it back counted one up.       *)
FailReads(p) ==
    LET m == Target(p)
    IN  /\ up /\ job[p].pc = "fail"
        /\ IF m \in onDisk
           THEN /\ job' = [job EXCEPT ![p].pc = "rewrite", ![p].retries = entry[m].retries]
                /\ UNCHANGED current
           ELSE Finish(p)
        /\ UNCHANGED <<diskVars, up, names, todo, slow, deferring, got, logVars, countVars>>

(* The mutant counts down.                                                 *)
CountedDown(p) == job[p].retries - 1
Counted(p) == job[p].retries + 1

FailWrites(p) ==
    LET m == Target(p)
    IN  /\ up /\ job[p].pc = "rewrite"
        /\ onDisk' = onDisk \cup {m}
        /\ entry' = [entry EXCEPT ![m] = [retries |-> Counted(p), tried |-> TRUE]]
        /\ Finish(p)
        /\ UNCHANGED <<markers, parked, up, names, todo, slow, deferring, got, logVars, countVars>>

(* moveToFailed.                                                           *)
Parks(p) ==
    LET m == Target(p)
    IN  /\ up /\ job[p].pc = "park"
        /\ IF m \in onDisk
           THEN onDisk' = Unqueued(m) /\ parked' = parked \cup {m}
           ELSE UNCHANGED <<onDisk, parked>>
        /\ Finish(p)
        /\ UNCHANGED <<entry, markers, up, names, todo, slow, deferring, got, logVars, countVars>>

(* An error of failDelivery or moveToFailed is ignored by every caller.    *)
BookkeepingFails(p) ==
    /\ up /\ job[p].pc \in {"fail", "rewrite", "park"}
    /\ Fault
    /\ Finish(p)
    /\ Unrecorded(Target(p))
    /\ UNCHANGED <<diskVars, up, names, todo, slow, deferring, got, enqueued, aborted, cutOff,
                   acked, shared, attempts, breaks>>

-----------------------------------------------------------------------------
(* recoverPendingDeliveries.                                               *)

(* loadPendingDeliveries lists the directory and unlinks the markers, then *)
(* reads the entries that are still there.                                 *)
RecoveryLists(r) ==
    /\ up /\ job[r].pc = "list"
    /\ names' = [names EXCEPT ![r] = onDisk]
    /\ markers' = {}
    /\ At(r, "read")
    /\ UNCHANGED <<onDisk, entry, parked, up, todo, current, slow, deferring, got, logVars,
                   countVars>>

Snapshot(m) == [id |-> m, retries |-> entry[m].retries, tried |-> entry[m].tried]

RecoveryReads(r) ==
    LET found == names[r] \cap onDisk
    IN  /\ up /\ job[r].pc = "read"
        /\ todo' = [todo EXCEPT ![r] = {Snapshot(m) : m \in found}]
        /\ names' = [names EXCEPT ![r] = {}]
        /\ shared' = shared \cup {m \in found : \E p \in Procs : Has(p, m)}
        /\ At(r, "next")
        /\ UNCHANGED <<diskVars, up, current, slow, deferring, got, enqueued, aborted, cutOff,
                       acked, attempts, unrecorded, countVars>>

RecoveryEnds(r) ==
    /\ up /\ job[r].pc = "next"
    /\ todo[r] = {}
    /\ At(r, "done")
    /\ slow' = slow \ {r} /\ deferring' = deferring \ {r}
    /\ UNCHANGED <<diskVars, up, names, todo, current, got, logVars, countVars>>

(* The loop takes the entries in the order of enqueuedAt.                  *)
Position(m) == CHOOSE i \in DOMAIN enqueued : enqueued[i] = m
IsNext(r, e) ==
    /\ up /\ job[r].pc = "next"
    /\ e \in todo[r] /\ \A o \in todo[r] : Position(e.id) <= Position(o.id)

Takes(r, e, pc) ==
    /\ Begin(r, pc)
    /\ current' = [current EXCEPT ![r] = e.id]
    /\ todo' = [todo EXCEPT ![r] = @ \ {e}]

(* The recovery budget is used up: all the remaining entries are counted   *)
(* as failed, whatever their count is.  (The code does so at once; the     *)
(* entries have a file each.)                                              *)
RecoveryDefers(r, e) ==
    /\ IsNext(r, e)
    /\ r \in slow \cup deferring
    /\ deferring' = deferring \cup {r}
    /\ Takes(r, e, "fail")
    /\ UNCHANGED <<diskVars, up, names, slow, got, logVars, countVars>>

(* The entry has had all its retries; the mutant grants one more.          *)
ExhaustedLate(e) == e.retries > MaxRetries
Exhausted(e) == e.retries >= MaxRetries

RecoveryGivesUp(r, e) ==
    /\ IsNext(r, e) /\ r \notin deferring
    /\ Exhausted(e)
    /\ Takes(r, e, "park")
    /\ UNCHANGED <<diskVars, up, names, slow, deferring, got, logVars, countVars>>

(* isEntryEligibleForRecoveryRetry: only an entry that was tried can be in *)
(* its backoff.                                                            *)
MayBackOff(e) == e.retries > 0 \/ e.tried

RecoverySkips(r, e) ==
    /\ IsNext(r, e) /\ r \notin deferring
    /\ ~Exhausted(e) /\ MayBackOff(e)
    /\ todo' = [todo EXCEPT ![r] = @ \ {e}]
    /\ UNCHANGED <<diskVars, up, job, names, current, slow, deferring, got, logVars, countVars>>

RecoveryAttempts(r, e) ==
    /\ IsNext(r, e) /\ r \notin deferring
    /\ ~Exhausted(e)
    /\ Takes(r, e, "sending")
    /\ slow' = slow \cup {r}
    /\ attempts' = [attempts EXCEPT ![e.id] = @ + 1]
    /\ UNCHANGED <<diskVars, up, names, deferring, got, enqueued, aborted, cutOff, acked,
                   shared, unrecorded, countVars>>

-----------------------------------------------------------------------------
(* The process of the gateway.  Its end loses all but the files.           *)
Halt ==
    /\ up' = FALSE
    /\ job' = [p \in Procs |-> IF job[p].pc = "idle" THEN job[p]
                               ELSE [Idle EXCEPT !.pc = "done"]]
    /\ names' = [r \in Recoveries |-> {}] /\ todo' = [r \in Recoveries |-> {}]
    /\ current' = [r \in Recoveries |-> None]
    /\ slow' = {} /\ deferring' = {}
    /\ UNCHANGED <<diskVars, got, enqueued, aborted, cutOff, acked, shared, attempts,
                   faults>>

(* The process crashes, or it exits: neither live sends nor recoveries are *)
(* waited for.                                                             *)
Crash ==
    /\ up
    /\ Break
    /\ unrecorded' = [m \in Msgs |-> unrecorded[m] +
                        (IF \E p \in Procs : WorksOn(p, m) THEN 1 ELSE 0)]
    /\ Halt

(* The process ends while no delivery is being dealt with.                 *)
Stop ==
    /\ up
    /\ \A p \in Procs : ~Working(p)
    /\ Halt
    /\ UNCHANGED <<unrecorded, breaks>>

(* The gateway starts: in a new process, or once more in the one there is, *)
(* and then an earlier recovery and the live sends go on.                  *)
Recover(r) ==
    /\ job[r].pc = "done"
    /\ Begin(r, "list")
    /\ UNCHANGED <<diskVars, recoveryVars, got, logVars, faults>>

Start(r) == ~up /\ up' = TRUE /\ Recover(r) /\ UNCHANGED breaks

Restart(r) ==
    /\ up /\ up' = up
    /\ Break
    /\ Recover(r)

-----------------------------------------------------------------------------
(* A step of the process itself, and one that something goes wrong in.     *)
Step(p) ==
    PartSent(p) \/ AckRenames(p) \/ AckUnlinks(p) \/ FailReads(p) \/ FailWrites(p) \/ Parks(p)

FaultStep(p) ==
    \/ \E err \in Errors, reached \in BOOLEAN : PartFails(p, err, reached)
    \/ AckFails(p)
    \/ BookkeepingFails(p)

RecoveryLoop(r) ==
    \/ RecoveryLists(r) \/ RecoveryReads(r) \/ RecoveryEnds(r)
    \/ \E e \in todo[r] : \/ RecoveryDefers(r, e) \/ RecoveryGivesUp(r, e)
                          \/ RecoverySkips(r, e) \/ RecoveryAttempts(r, e)

Next ==
    \/ \E m \in Msgs : (\E ok \in BOOLEAN : Accept(m, ok)) \/ CallerAborts(m) \/ PartAborted(m)
    \/ \E p \in Procs : Step(p) \/ FaultStep(p)
    \/ \E r \in Recoveries : RecoveryLoop(r) \/ Start(r) \/ Restart(r)
    \/ Crash \/ Stop

Spec == Init /\ [][Next]_vars

-----------------------------------------------------------------------------
(* Properties.                                                             *)

TypeOK ==
    /\ onDisk \subseteq Msgs /\ markers \subseteq Msgs /\ parked \subseteq Msgs
    /\ entry \in [Msgs -> Entries]
    /\ enqueued \in Seq(Msgs)
    /\ up \in BOOLEAN
    /\ job \in [Procs -> [pc : Busy \cup {"idle", "done", "list", "read", "next"},
                          part : Parts, partial : BOOLEAN, queued : BOOLEAN, retries : Nat]]
    /\ names \in [Recoveries -> SUBSET Msgs]
    /\ todo \in [Recoveries -> SUBSET Snapshots]
    /\ current \in [Recoveries -> Msgs \cup {None}]
    /\ \A p \in Procs : Working(p) => Target(p) \in Msgs
    /\ slow \subseteq Recoveries /\ deferring \subseteq Recoveries
    /\ got \in [Msgs -> SUBSET Parts]
    /\ aborted \subseteq Msgs /\ cutOff \subseteq Msgs /\ acked \subseteq Msgs
    /\ shared \subseteq Msgs
    /\ attempts \in [Msgs -> Nat] /\ unrecorded \in [Msgs -> Nat]
    /\ faults \in 0..MaxFaults /\ breaks \in 0..MaxBreaks

(* A delivery that was written to the queue is not lost, whatever fails or *)
(* crashes, and though a live send and recoveries may work on its file at  *)
(* the same time: all of it has reached the recipient, or it is still      *)
(* queued, or it is in failed/, or it was given up.  Its caller may abort  *)
(* it; but so does a request of the channel that times out in a strict     *)
(* live send, which deliverOutboundPayloads takes for the caller's abort.  *)
GivenUp == aborted \cup cutOff
Kept(m) == got[m] = Parts \/ m \in onDisk \cup parked \cup GivenUp
WasQueued(m) == \E i \in DOMAIN enqueued : enqueued[i] = m

StrictNeverLost == \A m \in Strict : WasQueued(m) => Kept(m)

(* The same of every delivery, also of the best-effort ones, once its live *)
(* send is over.                                                           *)
NeverLost == \A m \in Msgs : WasQueued(m) /\ ~Working(m) => Kept(m)

(* A delivery that was marked delivered is not in the queue again, so that *)
(* no later start sends it, unless two processes had it, a live send and a *)
(* recovery or two recoveries: then failDelivery of one may write back     *)
(* what the other has renamed.                                             *)
AckedNotReplayed == acked \cap onDisk \subseteq shared

(* A delivery is sent at most MAX_RETRIES times over all starts, not       *)
(* counting sends whose outcome a crash or a file error kept from disk.    *)
(* Two processes that have it at the same time are excepted: they overwrite*)
(* each other's count.                                                     *)
RetriesBounded ==
    \A m \in Msgs \ shared : attempts[m] <= MaxRetries + unrecorded[m]

(* Of its strict deliveries the queue keeps the promise of DeliveryStore:  *)
(* seen without files, processes and crashes, every step of live sends and *)
(* recoveries is a step of a store that forgets nothing it has accepted.   *)
Store == INSTANCE DeliveryStore WITH
    Deliveries <- Strict,
    accepted <- {m \in Strict : WasQueued(m)},
    queued <- onDisk \cap Strict, failed <- parked \cap Strict,
    received <- {m \in Strict : got[m] = Parts},
    givenUp <- GivenUp \cap Strict, disputed <- shared \cap Strict
KeepsPromise == Store!Spec
=============================================================================
