------------------------ MODULE DeliveryQueue_proofs ------------------------
(***************************************************************************)
(* Proofs about DeliveryQueue: type correctness, that a strict delivery    *)
(* that was written to the queue is never lost, that a delivery that was   *)
(* acknowledged does not come back, that sends are bounded, and that the   *)
(* queue implements DeliveryStore.  They hold for any number of live sends *)
(* and of recoveries that run at the same time.                            *)
(***************************************************************************)
EXTENDS DeliveryQueue, TLAPS

PCs == Busy \cup {"idle", "done", "list", "read", "next"}
Jobs == [pc : PCs, part : Parts, partial : BOOLEAN, queued : BOOLEAN, retries : Nat]

(* The parts of the type invariant.                                        *)
DiskOK ==
    /\ onDisk \subseteq Msgs /\ markers \subseteq Msgs /\ parked \subseteq Msgs
    /\ entry \in [Msgs -> Entries]

JobOK ==
    /\ job \in [Procs -> Jobs]
    /\ current \in [Recoveries -> Msgs \cup {None}]
    /\ \A p \in Procs : Working(p) => Target(p) \in Msgs

RecoveryOK ==
    /\ names \in [Recoveries -> SUBSET Msgs]
    /\ todo \in [Recoveries -> SUBSET Snapshots]

LogOK ==
    /\ enqueued \in Seq(Msgs)
    /\ got \in [Msgs -> SUBSET Parts]
    /\ aborted \subseteq Msgs /\ cutOff \subseteq Msgs /\ acked \subseteq Msgs
    /\ shared \subseteq Msgs

CountsOK ==
    /\ attempts \in [Msgs -> Nat] /\ unrecorded \in [Msgs -> Nat]
    /\ faults \in 0..MaxFaults /\ breaks \in 0..MaxBreaks

FlagsOK == up \in BOOLEAN /\ slow \subseteq Recoveries /\ deferring \subseteq Recoveries

LEMMA TypeParts ==
    TypeOK <=> DiskOK /\ JobOK /\ RecoveryOK /\ LogOK /\ CountsOK /\ FlagsOK
BY DEF TypeOK, DiskOK, JobOK, RecoveryOK, LogOK, CountsOK, FlagsOK, Jobs, PCs

LEMMA TypePartsNext ==
    DiskOK' /\ JobOK' /\ RecoveryOK' /\ LogOK' /\ CountsOK' /\ FlagsOK' => TypeOK'
BY DEF TypeOK, DiskOK, JobOK, RecoveryOK, LogOK, CountsOK, FlagsOK, Jobs, PCs

LEMMA ConstantTypes ==
    /\ Recoveries \subseteq Procs /\ Msgs \subseteq Procs
    /\ \A m \in Msgs : m \notin Recoveries /\ m # None
    /\ \A p \in Procs : p \notin Recoveries <=> p \in Msgs
    /\ 1 \in Parts
    /\ \A pc \in PCs : [Idle EXCEPT !.pc = pc] \in Jobs
    /\ Idle \in Jobs
    /\ Fresh \in Entries
<1>1. /\ Recoveries \subseteq Procs /\ Msgs \subseteq Procs
      /\ \A m \in Msgs : m \notin Recoveries /\ m # None
      /\ \A p \in Procs : p \notin Recoveries <=> p \in Msgs
  BY ConstantsAssumption DEF Procs
<1>2. 1 \in Parts /\ Fresh \in Entries
  BY ConstantsAssumption DEF Parts, Fresh, Entries
<1>3. \A pc \in PCs : [Idle EXCEPT !.pc = pc] \in Jobs
  BY <1>2 DEF Idle, Jobs
<1>4. Idle \in Jobs
  BY <1>2 DEF Idle, Jobs, PCs
<1> QED
  BY <1>1, <1>2, <1>3, <1>4

LEMMA PCTypes ==
    /\ Busy \subseteq PCs /\ {"idle", "done", "list", "read", "next"} \subseteq PCs
    /\ \A pc \in {"idle", "done", "list", "read", "next"} : pc \notin Busy
    /\ \A pc \in {"sending", "ack", "unlink", "fail", "rewrite", "park"} : pc \in Busy
BY DEF PCs, Busy

(* A live send is its own delivery.                                        *)
LEMMA Targets ==
    /\ \A m \in Msgs : Target(m) = m
    /\ \A r \in Recoveries : Target(r) = current[r]
    /\ UNCHANGED current => \A p \in Procs : Target(p)' = Target(p)
BY ConstantTypes DEF Target

(* A process at work has a delivery.                                       *)
LEMMA TargetType ==
    ASSUME JobOK, NEW p \in Procs, Working(p)
    PROVE  Target(p) \in Msgs
BY DEF JobOK

(* A step of one process.                                                  *)
LEMMA JobStep ==
    ASSUME JobOK, NEW p \in Procs, NEW j \in Jobs, job' = [job EXCEPT ![p] = j],
           current' \in [Recoveries -> Msgs \cup {None}],
           \A q \in Procs \ {p} : Target(q)' = Target(q),
           j.pc \in Busy => Target(p)' \in Msgs
    PROVE  JobOK'
<1>1. job' \in [Procs -> Jobs]
  BY DEF JobOK
<1>2. ASSUME NEW q \in Procs, Working(q)' PROVE Target(q)' \in Msgs
  <2>1. CASE q = p
    BY <1>2, <2>1 DEF JobOK, Working
  <2>2. CASE q # p
    <3>1. Working(q)
      BY <1>2, <2>2 DEF JobOK, Working
    <3> QED
      BY <2>2, <3>1 DEF JobOK
  <2> QED
    BY <2>1, <2>2
<1> QED
  BY <1>1, <1>2 DEF JobOK

LEMMA AtType ==
    ASSUME JobOK, NEW p \in Procs, NEW pc \in PCs, At(p, pc), UNCHANGED current,
           pc \in Busy => Target(p) \in Msgs
    PROVE  JobOK'
<1> DEFINE j == [job[p] EXCEPT !.pc = pc]
<1>1. j \in Jobs /\ j.pc = pc
  BY DEF JobOK, Jobs
<1>2. job' = [job EXCEPT ![p] = j]
  BY DEF At
<1> HIDE DEF j
<1>3. current' \in [Recoveries -> Msgs \cup {None}] /\ \A q \in Procs : Target(q)' = Target(q)
  BY Targets DEF JobOK
<1> QED
  BY <1>1, <1>2, <1>3, JobStep

LEMMA BeginType ==
    ASSUME JobOK, NEW p \in Procs, NEW pc \in PCs, Begin(p, pc),
           current' \in [Recoveries -> Msgs \cup {None}],
           \A q \in Procs \ {p} : Target(q)' = Target(q),
           pc \in Busy => Target(p)' \in Msgs
    PROVE  JobOK'
<1> DEFINE j == [Idle EXCEPT !.pc = pc]
<1>1. j \in Jobs /\ j.pc = pc
  BY ConstantTypes DEF Idle
<1>2. job' = [job EXCEPT ![p] = j]
  BY DEF Begin
<1> HIDE DEF j
<1> QED
  BY <1>1, <1>2, JobStep

(* What Finish does to its process and leaves of the others.               *)
LEMMA FinishFrame ==
    ASSUME JobOK, NEW p \in Procs, Finish(p)
    PROVE  /\ job'[p].pc \in {"next", "done"}
           /\ job' = [job EXCEPT ![p] = job'[p]]
           /\ current' \in [Recoveries -> Msgs \cup {None}]
           /\ \A q \in Procs \ {p} : Target(q)' = Target(q)
<1>1. CASE p \in Recoveries
  <2>1. Begin(p, "next") /\ current' = [current EXCEPT ![p] = None]
    BY <1>1 DEF Finish
  <2>2. job'[p].pc = "next" /\ job' = [job EXCEPT ![p] = job'[p]]
    BY <2>1 DEF JobOK, Begin, Idle
  <2> QED
    BY <2>1, <2>2 DEF JobOK, Target
<1>2. CASE p \notin Recoveries
  <2>1. Begin(p, "done") /\ UNCHANGED current
    BY <1>2 DEF Finish
  <2>2. job'[p].pc = "done" /\ job' = [job EXCEPT ![p] = job'[p]]
    BY <2>1 DEF JobOK, Begin, Idle
  <2> QED
    BY <2>1, <2>2 DEF JobOK, Target
<1> QED
  BY <1>1, <1>2

LEMMA FinishType ==
    ASSUME JobOK, NEW p \in Procs, Finish(p)
    PROVE  JobOK'
<1>1. PICK pc \in {"next", "done"} : Begin(p, pc)
  BY DEF Finish
<1> QED
  BY <1>1, FinishFrame, BeginType, PCTypes

(* What follows a payload.                                                 *)
LEMMA NextPC ==
    ASSUME NEW p \in Procs, NEW partial, NEW err
    PROVE  Returned(p, partial) \in PCs /\ Threw(p, err) \in PCs
BY DEF Returned, Threw, PCs, Busy

LEMMA ContinueType ==
    ASSUME TypeOK, NEW p \in Procs, job[p].pc = "sending", NEW partial \in BOOLEAN,
           Continue(p, partial), UNCHANGED current
    PROVE  JobOK'
<1>0. JobOK /\ Target(p) \in Msgs /\ job[p] \in Jobs
  BY TypeParts, TargetType DEF Working, Busy, JobOK
<1>1. PICK j \in Jobs : job' = [job EXCEPT ![p] = j]
  <2>1. CASE job[p].part < NumParts
    <3>1. job[p].part + 1 \in Parts
      BY <1>0, <2>1, ConstantsAssumption DEF Jobs, Parts
    <3>2. [job[p] EXCEPT !.part = @ + 1, !.partial = partial] \in Jobs
      BY <1>0, <3>1 DEF Jobs
    <3> QED
      BY <2>1, <3>2 DEF Continue
  <2>2. CASE ~(job[p].part < NumParts)
    <3>1. [job[p] EXCEPT !.pc = Returned(p, partial), !.partial = partial] \in Jobs
      BY <1>0, NextPC DEF Jobs
    <3> QED
      BY <2>2, <3>1 DEF Continue
  <2> QED
    BY <2>1, <2>2
<1>2. current' \in [Recoveries -> Msgs \cup {None}] /\ \A q \in Procs : Target(q)' = Target(q)
  BY <1>0, Targets DEF JobOK
<1> QED
  BY <1>0, <1>1, <1>2, JobStep

LEMMA PartThrowsType ==
    ASSUME TypeOK, NEW p \in Procs, job[p].pc = "sending", NEW err,
           PartThrows(p, err), UNCHANGED current
    PROVE  JobOK'
<1>0. JobOK /\ Target(p) \in Msgs
  BY TypeParts, TargetType DEF Working, Busy
<1>1. CASE Kind[Target(p)] = "strict"
  <2>1. At(p, Threw(p, err))
    BY <1>1 DEF PartThrows
  <2> QED
    BY <1>0, <2>1, AtType, NextPC
<1>2. CASE Kind[Target(p)] # "strict"
  <2> DEFINE partial == job[p].partial \/ (Kind[Target(p)] = "reported" /\ p \in Msgs)
  <2>1. Continue(p, partial)
    BY <1>2 DEF PartThrows
  <2>2. partial \in BOOLEAN
    OBVIOUS
  <2> HIDE DEF partial
  <2> QED
    BY <2>1, <2>2, ContinueType
<1> QED
  BY <1>1, <1>2

-----------------------------------------------------------------------------
(* Type correctness.                                                       *)
LEMMA TypeInit == Init => TypeOK
<1> SUFFICES ASSUME Init PROVE TypeOK
  OBVIOUS
<1>1. DiskOK
  BY ConstantTypes DEF Init, DiskOK
<1>2. JobOK
  <2>1. job \in [Procs -> Jobs]
    BY ConstantTypes, PCTypes DEF Init
  <2>2. \A p \in Procs : job[p].pc \in {"idle", "done"}
    BY DEF Init, Idle
  <2>3. \A p \in Procs : ~Working(p)
    BY <2>2 DEF Working, Busy
  <2> QED
    BY <2>1, <2>3 DEF Init, JobOK
<1>3. RecoveryOK /\ LogOK
  BY DEF Init, RecoveryOK, LogOK
<1>4. CountsOK
  BY ConstantsAssumption DEF Init, CountsOK
<1>5. FlagsOK
  BY DEF Init, FlagsOK
<1> QED
  BY <1>1, <1>2, <1>3, <1>4, <1>5, TypeParts

LEMMA AcceptType == ASSUME TypeOK, NEW m \in Msgs, NEW ok \in BOOLEAN, Accept(m, ok) PROVE TypeOK'
<1>0. DiskOK /\ JobOK /\ RecoveryOK /\ LogOK /\ CountsOK /\ FlagsOK
  BY TypeParts
<1>1. DiskOK'
  BY <1>0, ConstantTypes DEF Accept, DiskOK
<1>2. JobOK'
  <2>1. [Idle EXCEPT !.pc = "sending", !.queued = ok] \in Jobs
    BY ConstantTypes DEF Jobs, PCs, Busy
  <2>2. UNCHANGED current
    BY DEF Accept, recoveryVars
  <2>3. Target(m)' \in Msgs /\ current' \in [Recoveries -> Msgs \cup {None}]
        /\ \A q \in Procs : Target(q)' = Target(q)
    BY <1>0, <2>2, Targets, ConstantTypes DEF JobOK
  <2>4. job' = [job EXCEPT ![m] = [Idle EXCEPT !.pc = "sending", !.queued = ok]]
    BY DEF Accept
  <2> QED
    BY <1>0, <2>1, <2>3, <2>4, JobStep, ConstantTypes
<1>3. RecoveryOK' /\ LogOK'
  <2>1. enqueued' \in Seq(Msgs)
    <3>1. enqueued \in Seq(Msgs) /\ Append(enqueued, m) \in Seq(Msgs)
      BY <1>0 DEF LogOK
    <3>2. enqueued' = enqueued \/ enqueued' = Append(enqueued, m)
      BY DEF Accept
    <3> QED BY <3>1, <3>2
  <2>2. UNCHANGED <<recoveryVars, got, aborted, cutOff, acked, shared>>
    BY DEF Accept
  <2>3. RecoveryOK'
    BY <1>0, <2>2 DEF RecoveryOK, recoveryVars
  <2> QED
    BY <1>0, <2>1, <2>2, <2>3 DEF LogOK
<1>4. CountsOK'
  <2>1. faults' = faults \/ Fault
    BY DEF Accept
  <2>2. faults' \in 0..MaxFaults
    BY <1>0, <2>1, ConstantsAssumption DEF CountsOK, Fault
  <2>3. attempts' \in [Msgs -> Nat] /\ UNCHANGED <<unrecorded, breaks>>
    BY <1>0 DEF Accept, CountsOK
  <2> QED
    BY <1>0, <2>2, <2>3 DEF CountsOK
<1>5. FlagsOK'
  BY <1>0 DEF Accept, FlagsOK, recoveryVars
<1> QED
  BY <1>1, <1>2, <1>3, <1>4, <1>5, TypePartsNext

(* The steps of a send.                                                    *)
SendStep(p) ==
    \/ PartSent(p)
    \/ \E err \in Errors, reached \in BOOLEAN : PartFails(p, err, reached)
    \/ p \in Msgs /\ PartAborted(p)

(* What they do not touch.                                                 *)
LEMMA SendFrame ==
    ASSUME NEW p \in Procs, SendStep(p)
    PROVE  /\ job[p].pc = "sending" /\ Working(p) /\ up
           /\ UNCHANGED <<diskVars, up, recoveryVars, enqueued, aborted, acked, shared, attempts,
                          unrecorded, breaks>>
           /\ UNCHANGED current
           /\ \A q \in Procs : Target(q)' = Target(q)
<1>1. /\ job[p].pc = "sending" /\ up
      /\ UNCHANGED <<diskVars, up, recoveryVars, enqueued, aborted, acked, shared, attempts,
                     unrecorded, breaks>>
  BY DEF SendStep, PartSent, PartFails, PartAborted, countVars
<1>2. UNCHANGED current
  BY <1>1 DEF recoveryVars
<1> QED
  BY <1>1, <1>2, Targets DEF Working, Busy

LEMMA SendType == ASSUME TypeOK, NEW p \in Procs, SendStep(p) PROVE TypeOK'
<1>0. DiskOK /\ JobOK /\ RecoveryOK /\ LogOK /\ CountsOK /\ FlagsOK
  BY TypeParts
<1>1. /\ job[p].pc = "sending" /\ UNCHANGED current
      /\ UNCHANGED <<diskVars, up, recoveryVars, enqueued, aborted, acked, shared, attempts,
                     unrecorded, breaks>>
  BY SendFrame
<1>2. Target(p) \in Msgs /\ job[p].part \in Parts
  BY <1>0, <1>1, TargetType DEF Working, Busy, JobOK, Jobs
<1>3. JobOK'
  <2>1. CASE PartSent(p)
    BY <1>0, <1>1, <2>1, ContinueType DEF PartSent, JobOK, Jobs
  <2>2. CASE ~PartSent(p)
    <3>1. PICK err : PartThrows(p, err)
      BY <2>2 DEF SendStep, PartFails, PartAborted
    <3> QED
      BY <1>1, <3>1, PartThrowsType
  <2> QED
    BY <2>1, <2>2
<1>4. got' \in [Msgs -> SUBSET Parts]
  <2>1. got \in [Msgs -> SUBSET Parts]
    BY <1>0 DEF LogOK
  <2>2. got' = got \/ got' = [got EXCEPT ![Target(p)] = @ \cup {job[p].part}]
    BY DEF SendStep, PartSent, PartFails, PartAborted
  <2> QED
    BY <1>2, <2>1, <2>2
<1>5. LogOK'
  <2>1. cutOff' \subseteq Msgs
    BY <1>0 DEF LogOK, SendStep, PartSent, PartFails, PartAborted, Strict
  <2> QED
    BY <1>0, <1>1, <1>4, <2>1 DEF LogOK
<1>6. DiskOK' /\ RecoveryOK'
  BY <1>0, <1>1 DEF DiskOK, RecoveryOK, diskVars, recoveryVars
<1>7. CountsOK'
  <2>1. UNCHANGED faults \/ Fault
    BY DEF SendStep, PartSent, PartFails, PartAborted, countVars
  <2> QED
    BY <1>0, <1>1, <2>1, ConstantsAssumption DEF CountsOK, Fault
<1>8. FlagsOK'
  BY <1>0, <1>1 DEF FlagsOK, recoveryVars
<1> QED
  BY <1>3, <1>5, <1>6, <1>7, <1>8, TypePartsNext

LEMMA CallerAbortsType == ASSUME TypeOK, NEW m \in Msgs, CallerAborts(m) PROVE TypeOK'
BY TypeParts, TypePartsNext DEF CallerAborts, DiskOK, JobOK, RecoveryOK, LogOK, CountsOK,
   FlagsOK, diskVars, recoveryVars, countVars, Working, Target

(* The steps that keep the books of a delivery.                            *)
BookStep(p) ==
    \/ AckRenames(p) \/ AckFails(p) \/ AckUnlinks(p)
    \/ FailReads(p) \/ FailWrites(p) \/ Parks(p) \/ BookkeepingFails(p)

LEMMA BookPC ==
    ASSUME JobOK, NEW p \in Procs, BookStep(p)
    PROVE  Working(p) /\ Target(p) \in Msgs
<1>1. Working(p)
  BY DEF BookStep, AckRenames, AckFails, AckUnlinks, FailReads, FailWrites, Parks,
         BookkeepingFails, Working, Busy
<1> QED
  BY <1>1, TargetType

(* How they move their process.                                            *)
LEMMA BookMoves ==
    ASSUME NEW p \in Procs, BookStep(p)
    PROVE  \/ Finish(p)
           \/ UNCHANGED current /\ \E pc \in {"unlink", "fail"} : At(p, pc)
           \/ /\ FailReads(p) /\ Target(p) \in onDisk /\ UNCHANGED current
              /\ job' = [job EXCEPT ![p].pc = "rewrite", ![p].retries = entry[Target(p)].retries]
BY DEF BookStep, AckRenames, AckFails, AckUnlinks, FailReads, FailWrites, Parks, BookkeepingFails

LEMMA BookFrame ==
    ASSUME JobOK, NEW p \in Procs, BookStep(p)
    PROVE  /\ job'[p].pc \in {"next", "done", "unlink", "fail", "rewrite"}
           /\ \A q \in Procs \ {p} : UNCHANGED job[q] /\ Target(q)' = Target(q)
           /\ job'[p].pc \in Busy => UNCHANGED current /\ Target(p)' = Target(p)
           /\ current' \in [Recoveries -> Msgs \cup {None}]
<1>1. CASE Finish(p)
  BY <1>1, FinishFrame DEF JobOK, Busy
<1>2. CASE UNCHANGED current /\ \E pc \in {"unlink", "fail"} : At(p, pc)
  BY <1>2, Targets DEF JobOK, At, Jobs
<1>3. CASE /\ UNCHANGED current
           /\ job' = [job EXCEPT ![p].pc = "rewrite", ![p].retries = entry[Target(p)].retries]
  BY <1>3, Targets DEF JobOK, Jobs
<1> QED
  BY <1>1, <1>2, <1>3, BookMoves

LEMMA BookJobType ==
    ASSUME JobOK, DiskOK, NEW p \in Procs, BookStep(p)
    PROVE  JobOK'
<1>1. Target(p) \in Msgs
  BY BookPC
<1>2. {"unlink", "fail"} \subseteq PCs
  BY DEF PCs, Busy
<1>3. CASE Finish(p)
  BY <1>3, FinishType
<1>4. CASE UNCHANGED current /\ \E pc \in {"unlink", "fail"} : At(p, pc)
  BY <1>1, <1>2, <1>4, AtType
<1>5. CASE /\ UNCHANGED current
           /\ job' = [job EXCEPT ![p].pc = "rewrite", ![p].retries = entry[Target(p)].retries]
  <2> DEFINE j == [job[p] EXCEPT !.pc = "rewrite", !.retries = entry[Target(p)].retries]
  <2>1. entry[Target(p)].retries \in Nat /\ "rewrite" \in PCs
    BY <1>1 DEF DiskOK, Entries, PCs, Busy
  <2>2. j \in Jobs /\ job' = [job EXCEPT ![p] = j]
    BY <1>5, <2>1 DEF JobOK, Jobs
  <2> HIDE DEF j
  <2>3. current' \in [Recoveries -> Msgs \cup {None}] /\ \A q \in Procs : Target(q)' = Target(q)
    BY <1>5, Targets DEF JobOK
  <2> QED
    BY <1>1, <2>2, <2>3, JobStep
<1> QED
  BY <1>3, <1>4, <1>5, BookMoves

LEMMA BookType == ASSUME TypeOK, NEW p \in Procs, BookStep(p) PROVE TypeOK'
<1>0. DiskOK /\ JobOK /\ RecoveryOK /\ LogOK /\ CountsOK /\ FlagsOK
  BY TypeParts
<1>1. JobOK'
  BY <1>0, BookJobType
<1>2. Target(p) \in Msgs /\ job[p].retries \in Nat
  BY <1>0, BookPC DEF JobOK, Jobs
<1>3. DiskOK'
  <2>1. onDisk' \subseteq Msgs /\ markers' \subseteq Msgs /\ parked' \subseteq Msgs
    BY <1>0, <1>2 DEF BookStep, AckRenames, AckFails, AckUnlinks, FailReads, FailWrites,
       Parks, BookkeepingFails, DiskOK, Unqueued, diskVars
  <2>2. [retries |-> Counted(p), tried |-> TRUE] \in Entries
    BY <1>2 DEF Counted, Entries
  <2>3. \/ UNCHANGED entry
        \/ entry' = [entry EXCEPT ![Target(p)] = [retries |-> Counted(p), tried |-> TRUE]]
    BY DEF BookStep, AckRenames, AckFails, AckUnlinks, FailReads, FailWrites, Parks,
       BookkeepingFails, diskVars
  <2> QED
    BY <1>0, <1>2, <2>1, <2>2, <2>3 DEF DiskOK
<1>4. RecoveryOK' /\ LogOK'
  BY <1>0, <1>2 DEF BookStep, AckRenames, AckFails, AckUnlinks, FailReads, FailWrites,
     Parks, BookkeepingFails, RecoveryOK, LogOK, logVars
<1>5. CountsOK'
  <2>1. UNCHANGED unrecorded \/ Unrecorded(Target(p))
    BY Targets, ConstantTypes DEF BookStep, AckRenames, AckFails, AckUnlinks, FailReads,
       FailWrites, Parks, BookkeepingFails, logVars
  <2>2. UNCHANGED <<attempts, breaks>> /\ (UNCHANGED faults \/ Fault)
    BY DEF BookStep, AckRenames, AckFails, AckUnlinks, FailReads, FailWrites,
       Parks, BookkeepingFails, logVars, countVars
  <2> QED
    BY <1>0, <1>2, <2>1, <2>2, ConstantsAssumption DEF CountsOK, Unrecorded, Fault
<1>6. FlagsOK'
  BY <1>0 DEF BookStep, AckRenames, AckFails, AckUnlinks, FailReads, FailWrites,
     Parks, BookkeepingFails, FlagsOK
<1> QED
  BY <1>1, <1>3, <1>4, <1>5, <1>6, TypePartsNext

(* The loop of a recovery.                                                 *)
LEMMA TakesFrame ==
    ASSUME JobOK, RecoveryOK, NEW r \in Recoveries, NEW e \in todo[r], NEW pc, Takes(r, e, pc)
    PROVE  /\ e \in Snapshots /\ e.id \in Msgs
           /\ job'[r] = [Idle EXCEPT !.pc = pc] /\ job'[r].pc = pc
           /\ \A q \in Procs \ {r} : UNCHANGED job[q] /\ Target(q)' = Target(q)
           /\ current' \in [Recoveries -> Msgs \cup {None}] /\ Target(r)' = e.id
           /\ todo'[r] = todo[r] \ {e}
           /\ \A s \in Recoveries \ {r} : todo'[s] = todo[s]
<1>1. e \in Snapshots /\ e.id \in Msgs
  BY DEF RecoveryOK, Snapshots
<1>2. /\ job' = [job EXCEPT ![r] = [Idle EXCEPT !.pc = pc]]
      /\ current' = [current EXCEPT ![r] = e.id]
      /\ todo' = [todo EXCEPT ![r] = @ \ {e}]
  BY DEF Takes, Begin
<1>3. /\ job'[r] = [Idle EXCEPT !.pc = pc] /\ job'[r].pc = pc
      /\ \A q \in Procs \ {r} : UNCHANGED job[q]
  BY <1>2, ConstantTypes DEF JobOK, Idle
<1>4. /\ current' \in [Recoveries -> Msgs \cup {None}] /\ Target(r)' = e.id
      /\ \A q \in Procs \ {r} : Target(q)' = Target(q)
  BY <1>1, <1>2 DEF JobOK, Target
<1>5. todo'[r] = todo[r] \ {e} /\ \A s \in Recoveries \ {r} : todo'[s] = todo[s]
  BY <1>2 DEF RecoveryOK
<1> QED
  BY <1>1, <1>3, <1>4, <1>5

LEMMA TakesType ==
    ASSUME JobOK, RecoveryOK, NEW r \in Recoveries, NEW e \in todo[r], NEW pc \in PCs,
           Takes(r, e, pc)
    PROVE  JobOK'
<1>1. Begin(r, pc) /\ r \in Procs
  BY ConstantTypes DEF Takes
<1>2. current' = [current EXCEPT ![r] = e.id] /\ e.id \in Msgs
  BY DEF Takes, RecoveryOK, Snapshots
<1>3. /\ current' \in [Recoveries -> Msgs \cup {None}] /\ Target(r)' \in Msgs
      /\ \A q \in Procs \ {r} : Target(q)' = Target(q)
  BY <1>2 DEF JobOK, Target
<1> QED
  BY <1>1, <1>3, BeginType

LEMMA RecoveryLoopType == ASSUME TypeOK, NEW r \in Recoveries, RecoveryLoop(r) PROVE TypeOK'
<1>0. DiskOK /\ JobOK /\ RecoveryOK /\ LogOK /\ CountsOK /\ FlagsOK
  BY TypeParts
<1>1. CASE RecoveryLists(r)
  <2>1. JobOK'
    BY <1>0, <1>1, AtType, ConstantTypes, PCTypes DEF RecoveryLists
  <2> QED
    BY <1>0, <1>1, <2>1, TypePartsNext DEF RecoveryLists, DiskOK, RecoveryOK, LogOK,
       CountsOK, FlagsOK, logVars, countVars
<1>2. CASE RecoveryReads(r)
  <2>1. JobOK'
    BY <1>0, <1>2, AtType, ConstantTypes, PCTypes DEF RecoveryReads
  <2>2. \A m \in Msgs : Snapshot(m) \in Snapshots
    BY <1>0 DEF Snapshot, Snapshots, DiskOK, Entries
  <2>3. RecoveryOK' /\ shared' \subseteq Msgs
    <3>1. names[r] \cap onDisk \subseteq Msgs
      BY <1>0 DEF DiskOK
    <3>2. {Snapshot(m) : m \in names[r] \cap onDisk} \in SUBSET Snapshots
      BY <2>2, <3>1
    <3>3. RecoveryOK'
      BY <1>0, <1>2, <3>2 DEF RecoveryReads, RecoveryOK
    <3> QED
      BY <1>0, <1>2, <3>1, <3>3 DEF RecoveryReads, LogOK
  <2> QED
    BY <1>0, <1>2, <2>1, <2>3, TypePartsNext DEF RecoveryReads, DiskOK, LogOK, CountsOK,
       FlagsOK, diskVars, countVars
<1>3. CASE RecoveryEnds(r)
  <2>1. JobOK'
    BY <1>0, <1>3, AtType, ConstantTypes, PCTypes DEF RecoveryEnds
  <2> QED
    BY <1>0, <1>3, <2>1, TypePartsNext DEF RecoveryEnds, DiskOK, RecoveryOK, LogOK,
       CountsOK, FlagsOK, logVars, diskVars, countVars
<1>4. ASSUME NEW e \in todo[r],
             \/ RecoveryDefers(r, e) \/ RecoveryGivesUp(r, e)
             \/ RecoverySkips(r, e) \/ RecoveryAttempts(r, e)
      PROVE  TypeOK'
  <2>1. e \in Snapshots /\ e.id \in Msgs
    BY <1>0 DEF RecoveryOK, Snapshots
  <2>2. JobOK'
    <3>1. CASE \E pc \in {"fail", "park", "sending"} : Takes(r, e, pc)
      BY <1>0, <3>1, TakesType, PCTypes
    <3>2. CASE UNCHANGED <<job, current>>
      BY <1>0, <3>2 DEF JobOK, Working, Target
    <3> QED
      BY <1>4, <3>1, <3>2 DEF RecoveryDefers, RecoveryGivesUp, RecoverySkips, RecoveryAttempts
  <2>3. DiskOK' /\ LogOK'
    BY <1>0, <1>4 DEF RecoveryDefers, RecoveryGivesUp, RecoverySkips, RecoveryAttempts,
       DiskOK, LogOK, diskVars, logVars
  <2>4. RecoveryOK'
    <3>1. todo' = [todo EXCEPT ![r] = @ \ {e}] /\ UNCHANGED names
      BY <1>4 DEF RecoveryDefers, RecoveryGivesUp, RecoverySkips, RecoveryAttempts, Takes
    <3> QED
      BY <1>0, <3>1 DEF RecoveryOK
  <2>5. CountsOK'
    BY <1>0, <1>4, <2>1 DEF RecoveryDefers, RecoveryGivesUp, RecoverySkips,
       RecoveryAttempts, CountsOK, logVars, countVars
  <2>6. FlagsOK'
    BY <1>0, <1>4 DEF RecoveryDefers, RecoveryGivesUp, RecoverySkips, RecoveryAttempts, FlagsOK
  <2> QED
    BY <2>2, <2>3, <2>4, <2>5, <2>6, TypePartsNext
<1> QED
  BY <1>1, <1>2, <1>3, <1>4 DEF RecoveryLoop

(* The process of the gateway.                                             *)
LEMMA HaltFrame ==
    ASSUME JobOK, Halt
    PROVE  /\ \A p \in Procs : /\ job'[p].pc = IF job[p].pc = "idle" THEN "idle" ELSE "done"
                               /\ ~Working(p)'
           /\ job' \in [Procs -> Jobs]
<1>1. \A p \in Procs : job'[p] = IF job[p].pc = "idle" THEN job[p] ELSE [Idle EXCEPT !.pc = "done"]
  BY DEF Halt
<1>2. \A p \in Procs : job'[p].pc = IF job[p].pc = "idle" THEN "idle" ELSE "done"
  BY <1>1 DEF Idle
<1>3. job' \in [Procs -> Jobs]
  BY ConstantTypes, PCTypes DEF Halt, JobOK
<1> QED
  BY <1>2, <1>3 DEF Working, Busy

LEMMA HaltType ==
    ASSUME TypeOK, Halt
    PROVE  DiskOK' /\ JobOK' /\ RecoveryOK' /\ LogOK' /\ FlagsOK' /\ attempts' \in [Msgs -> Nat]
           /\ faults' \in 0..MaxFaults
<1>0. DiskOK /\ JobOK /\ RecoveryOK /\ LogOK /\ CountsOK /\ FlagsOK
  BY TypeParts
<1>1. JobOK'
  BY <1>0, HaltFrame DEF JobOK, Halt
<1>2. FlagsOK' /\ RecoveryOK'
  BY DEF Halt, FlagsOK, RecoveryOK
<1> QED
  BY <1>0, <1>1, <1>2 DEF Halt, DiskOK, LogOK, CountsOK, diskVars

(* Of a recovery that begins only its job changes.                         *)
LEMMA RecoverFrame ==
    ASSUME JobOK, NEW r \in Recoveries, Recover(r)
    PROVE  /\ job'[r].pc = "list" /\ ~Working(r) /\ ~Working(r)'
           /\ UNCHANGED current /\ \A q \in Procs : Target(q)' = Target(q)
           /\ \A q \in Procs \ {r} : UNCHANGED job[q]
<1>1. job' = [job EXCEPT ![r] = [Idle EXCEPT !.pc = "list"]] /\ job[r].pc = "done" /\ UNCHANGED current
  BY DEF Recover, Begin, recoveryVars
<1>2. job'[r].pc = "list" /\ \A q \in Procs \ {r} : UNCHANGED job[q]
  BY <1>1, ConstantTypes DEF JobOK, Idle
<1> QED
  BY <1>1, <1>2, Targets DEF Working, Busy

LEMMA RecoverType ==
    ASSUME TypeOK, NEW r \in Recoveries, Start(r) \/ Restart(r)
    PROVE  TypeOK'
<1>0. DiskOK /\ JobOK /\ RecoveryOK /\ LogOK /\ CountsOK /\ FlagsOK
  BY TypeParts
<1>1. Recover(r) /\ up' \in BOOLEAN
  BY <1>0 DEF Start, Restart, FlagsOK
<1>2. JobOK'
  <2>1. Begin(r, "list") /\ UNCHANGED current
    BY <1>1 DEF Recover, recoveryVars
  <2> QED
    BY <1>0, <2>1, Targets, BeginType, ConstantTypes, PCTypes DEF JobOK
<1>3. CountsOK'
  <2>1. breaks' \in 0..MaxBreaks
    BY <1>0, ConstantsAssumption DEF Start, Restart, Break, CountsOK
  <2> QED
    BY <1>0, <1>1, <2>1 DEF Recover, CountsOK, logVars
<1> QED
  BY <1>0, <1>1, <1>2, <1>3, TypePartsNext DEF Recover, DiskOK, RecoveryOK, LogOK,
     FlagsOK, diskVars, recoveryVars, logVars

LEMMA ProcessType == ASSUME TypeOK, Crash \/ Stop PROVE TypeOK'
<1>0. DiskOK /\ JobOK /\ RecoveryOK /\ LogOK /\ CountsOK /\ FlagsOK
  BY TypeParts
<1>1. CASE Crash
  <2>1. CountsOK'
    <3>1. unrecorded' \in [Msgs -> Nat]
      BY <1>0, <1>1 DEF Crash, CountsOK
    <3>2. breaks' \in 0..MaxBreaks
      BY <1>0, <1>1, ConstantsAssumption DEF Crash, Break, CountsOK
    <3> QED
      BY <1>1, <3>1, <3>2, HaltType DEF Crash, CountsOK
  <2> QED
    BY <1>1, <2>1, HaltType, TypePartsNext DEF Crash
<1>2. CASE Stop
  <2>1. CountsOK'
    BY <1>0, <1>2, HaltType DEF Stop, CountsOK
  <2> QED
    BY <1>2, <2>1, HaltType, TypePartsNext DEF Stop
<1> QED
  BY <1>1, <1>2

LEMMA StutterType == ASSUME TypeOK, UNCHANGED vars PROVE TypeOK'
BY TypeParts, TypePartsNext DEF vars, DiskOK, JobOK, RecoveryOK, LogOK, CountsOK, FlagsOK,
   diskVars, recoveryVars, logVars, countVars, Working, Target

(* The steps of the specification, by what they are about.                 *)
LEMMA NextCases ==
    ASSUME Next
    PROVE  \/ \E m \in Msgs, ok \in BOOLEAN : Accept(m, ok)
           \/ \E p \in Procs : SendStep(p)
           \/ \E m \in Msgs : CallerAborts(m)
           \/ \E p \in Procs : BookStep(p)
           \/ \E r \in Recoveries : RecoveryLoop(r)
           \/ \E r \in Recoveries : Start(r) \/ Restart(r)
           \/ Crash \/ Stop
BY DEF Next, Step, FaultStep, SendStep, BookStep, Procs

LEMMA TypeNext == TypeOK /\ [Next]_vars => TypeOK'
BY NextCases, AcceptType, SendType, CallerAbortsType, BookType, RecoveryLoopType,
   RecoverType, ProcessType, StutterType

(* Every reachable state is well typed.                                    *)
THEOREM TypeCorrect == Spec => []TypeOK
BY TypeInit, TypeNext, PTL DEF Spec

-----------------------------------------------------------------------------
(* Strict deliveries are not lost.  An entry is only renamed away by a     *)
(* process that has sent every payload, or that its caller or its channel  *)
(* aborted: a strict send that goes on has sent all payloads before its    *)
(* next one.                                                               *)
Delivered(m) == got[m] = Parts \/ m \in GivenUp

Sent(p) ==
    Kind[Target(p)] = "strict" =>
        /\ job[p].pc = "sending" => 1..(job[p].part - 1) \subseteq got[Target(p)]
        /\ job[p].pc = "ack" => Delivered(Target(p))

SentInv == \A p \in Procs : Sent(p)

(* Nothing that was sent or aborted is taken back.                         *)
Grows ==
    /\ \A m \in Msgs : got[m] \subseteq got'[m]
    /\ aborted \subseteq aborted' /\ cutOff \subseteq cutOff'

LEMMA SendGot ==
    ASSUME TypeOK, NEW p \in Procs, SendStep(p)
    PROVE  /\ Target(p) \in Msgs
           /\ got' = got \/ got' = [got EXCEPT ![Target(p)] = @ \cup {job[p].part}]
           /\ cutOff \subseteq cutOff'
           /\ cutOff' \subseteq cutOff \cup {p}
           /\ UNCHANGED aborted
BY SendFrame, TypeParts, TargetType DEF SendStep, PartSent, PartFails, PartAborted

LEMMA BookLogs ==
    ASSUME NEW p \in Procs, BookStep(p)
    PROVE  UNCHANGED <<up, enqueued, got, aborted, cutOff, shared, attempts, names, todo>>
BY DEF BookStep, AckRenames, AckFails, AckUnlinks, FailReads, FailWrites, Parks,
   BookkeepingFails, logVars

LEMMA LoopLogs ==
    ASSUME NEW r \in Recoveries, RecoveryLoop(r)
    PROVE  UNCHANGED <<up, onDisk, entry, parked, enqueued, got, aborted, cutOff, acked, unrecorded>>
BY DEF RecoveryLoop, RecoveryLists, RecoveryReads, RecoveryEnds, RecoveryDefers,
   RecoveryGivesUp, RecoverySkips, RecoveryAttempts, logVars, diskVars

LEMMA ProcessLogs ==
    ASSUME Crash \/ Stop \/ \E r \in Recoveries : Start(r) \/ Restart(r)
    PROVE  UNCHANGED <<diskVars, enqueued, got, aborted, cutOff, acked, shared, attempts>>
BY DEF Crash, Stop, Start, Restart, Halt, Recover, logVars

LEMMA NextGrows == ASSUME TypeOK, Next PROVE Grows
<1>0. LogOK
  BY TypeParts
<1>1. ASSUME UNCHANGED <<got, aborted, cutOff>> PROVE Grows
  BY <1>1 DEF Grows
<1>2. ASSUME NEW m \in Msgs, CallerAborts(m) PROVE Grows
  BY <1>2 DEF CallerAborts, Grows
<1>3. ASSUME NEW p \in Procs, SendStep(p) PROVE Grows
  BY <1>0, <1>3, SendGot DEF Grows, LogOK
<1>4. ASSUME NEW m \in Msgs, NEW ok \in BOOLEAN, Accept(m, ok) PROVE Grows
  BY <1>1, <1>4 DEF Accept
<1> QED
  BY <1>1, <1>2, <1>3, <1>4, BookLogs, LoopLogs, ProcessLogs, NextCases

(* A process that a step leaves alone, and one that it takes elsewhere.    *)
LEMMA SentFrame ==
    ASSUME TypeOK, TypeOK', Grows, NEW q \in Procs, Sent(q), UNCHANGED job[q],
           Working(q) => Target(q)' = Target(q)
    PROVE  Sent(q)'
<1>1. CASE Working(q)
  <2>1. Target(q) \in Msgs /\ Target(q)' = Target(q)
    BY <1>1, TypeParts, TargetType
  <2>2. got[Target(q)] \subseteq got'[Target(q)] /\ got'[Target(q)] \subseteq Parts
    BY <2>1 DEF Grows, TypeOK
  <2>3. Delivered(Target(q)) => Delivered(Target(q))'
    <3>1. GivenUp \subseteq GivenUp'
      BY DEF GivenUp, Grows
    <3> QED
      BY <2>1, <2>2, <3>1 DEF Delivered
  <2> QED
    BY <2>1, <2>2, <2>3 DEF Sent
<1>2. CASE ~Working(q)
  BY <1>2 DEF Sent, Working, Busy
<1> QED
  BY <1>1, <1>2

LEMMA SentElsewhere ==
    ASSUME NEW q \in Procs, job'[q].pc # "sending", job'[q].pc # "ack"
    PROVE  Sent(q)'
BY DEF Sent

LEMMA SentFirst ==
    ASSUME NEW q \in Procs, job'[q].pc = "sending", job'[q].part = 1
    PROVE  Sent(q)'
BY DEF Sent

(* A strict send that throws leaves the loop, and acknowledges only if it  *)
(* was aborted.                                                            *)
LEMMA StrictThrow ==
    ASSUME TypeOK, NEW p \in Procs, SendStep(p), ~PartSent(p), Kind[Target(p)] = "strict"
    PROVE  /\ job'[p].pc # "sending"
           /\ job'[p].pc = "ack" => p \in Msgs /\ p \in aborted' \cup cutOff'
<1>0. job \in [Procs -> Jobs]
  BY TypeParts DEF JobOK
<1>1. CASE \E err \in Errors, reached \in BOOLEAN : PartFails(p, err, reached)
  <2>1. PICK err \in Errors, reached \in BOOLEAN : PartFails(p, err, reached)
    BY <1>1
  <2>2. At(p, Threw(p, err))
    BY <2>1 DEF PartFails, PartThrows
  <2>3. job'[p].pc = Threw(p, err)
    BY <1>0, <2>2 DEF At, Jobs
  <2>4. Threw(p, err) # "sending"
    BY DEF Threw
  <2>5. ASSUME Threw(p, err) = "ack" PROVE p \in Msgs /\ p \in cutOff'
    <3>1. err = "abort" /\ p \in Msgs
      BY <2>5, ConstantTypes DEF Threw
    <3>2. Target(p) = p
      BY <3>1, Targets
    <3> QED
      BY <2>1, <3>1, <3>2 DEF PartFails, Strict
  <2> QED
    BY <2>3, <2>4, <2>5
<1>2. CASE p \in Msgs /\ PartAborted(p)
  <2>1. At(p, Threw(p, "abort")) /\ p \in aborted'
    BY <1>2 DEF PartAborted, PartThrows
  <2>2. job'[p].pc # "sending"
    BY <1>0, <2>1 DEF At, Jobs, Threw
  <2> QED
    BY <1>2, <2>1, <2>2
<1> QED
  BY <1>1, <1>2 DEF SendStep

LEMMA SentSend ==
    ASSUME TypeOK, TypeOK', Grows, NEW p \in Procs, Sent(p), SendStep(p)
    PROVE  Sent(p)'
<1>0. /\ job[p].pc = "sending" /\ Working(p) /\ Target(p)' = Target(p)
      /\ job \in [Procs -> Jobs] /\ LogOK /\ LogOK'
  BY TypeParts, SendFrame DEF JobOK, TypeOK, LogOK
<1>1. Target(p) \in Msgs /\ job[p].part \in Parts
  BY <1>0, TypeParts, TargetType DEF Jobs
<1> SUFFICES ASSUME Kind[Target(p)] = "strict"
             PROVE  Sent(p)'
  BY <1>0 DEF Sent
<1>2. CASE PartSent(p)
  <2>1. got'[Target(p)] = got[Target(p)] \cup {job[p].part}
    BY <1>0, <1>1, <1>2 DEF PartSent, LogOK
  <2>2. 1..(job[p].part - 1) \subseteq got[Target(p)]
    BY <1>0 DEF Sent
  <2>3. 1..job[p].part \subseteq got'[Target(p)]
    BY <1>1, <2>1, <2>2 DEF Parts
  <2>4. CASE job[p].part < NumParts
    <3>1. job'[p].pc = "sending" /\ job'[p].part = job[p].part + 1
      BY <1>0, <1>2, <2>4 DEF PartSent, Continue, Jobs
    <3>2. 1..(job'[p].part - 1) \subseteq got'[Target(p)]
      BY <1>1, <2>3, <3>1 DEF Parts
    <3> QED
      BY <1>0, <3>1, <3>2 DEF Sent
  <2>5. CASE ~(job[p].part < NumParts)
    <3>1. job[p].part = NumParts
      BY <1>1, <2>5, ConstantsAssumption DEF Parts
    <3>2. got'[Target(p)] = Parts
      BY <1>0, <1>1, <2>3, <3>1 DEF LogOK, Parts
    <3>3. job'[p].pc # "sending"
      BY <1>0, <1>2, <2>5 DEF PartSent, Continue, Jobs, Returned
    <3> QED
      BY <1>0, <3>2, <3>3 DEF Sent, Delivered
  <2> QED
    BY <2>4, <2>5
<1>3. CASE ~PartSent(p)
  <2>1. /\ job'[p].pc # "sending"
        /\ job'[p].pc = "ack" => p \in Msgs /\ p \in aborted' \cup cutOff'
    BY <1>3, StrictThrow
  <2>2. p \in Msgs => Target(p)' = p
    BY <1>0, Targets
  <2> QED
    BY <2>1, <2>2 DEF Sent, Delivered, GivenUp
<1> QED
  BY <1>2, <1>3

(* Only a step of the process itself changes its job.                      *)
LEMMA SendOthers ==
    ASSUME JobOK, NEW p \in Procs, SendStep(p)
    PROVE  \A q \in Procs \ {p} : UNCHANGED job[q]
BY DEF JobOK, SendStep, PartSent, PartFails, PartAborted, PartThrows, Continue, At

LEMMA AcceptFrame ==
    ASSUME JobOK, NEW m \in Msgs, NEW ok \in BOOLEAN, Accept(m, ok)
    PROVE  /\ job[m].pc = "idle" /\ ~Working(m)
           /\ job'[m].pc = "sending" /\ job'[m].part = 1 /\ Working(m)'
           /\ \A q \in Procs \ {m} : UNCHANGED job[q]
           /\ UNCHANGED current /\ \A q \in Procs : Target(q)' = Target(q)
<1>1. UNCHANGED current /\ job[m].pc = "idle"
  BY DEF Accept, recoveryVars
<1>2. /\ job'[m].pc = "sending" /\ job'[m].part = 1
      /\ \A q \in Procs \ {m} : UNCHANGED job[q]
  BY ConstantTypes DEF Accept, Idle, JobOK
<1> QED
  BY <1>1, <1>2, Targets DEF Working, Busy

LEMMA SentAccept ==
    ASSUME TypeOK, TypeOK', Grows, SentInv, NEW m \in Msgs, NEW ok \in BOOLEAN, Accept(m, ok)
    PROVE  SentInv'
<1>1. JobOK
  BY TypeParts
<1>2. ASSUME NEW q \in Procs, q # m PROVE Sent(q)'
  BY <1>1, <1>2, AcceptFrame, SentFrame DEF SentInv
<1> QED
  BY <1>1, <1>2, AcceptFrame, SentFirst, ConstantTypes DEF SentInv

LEMMA SentBook ==
    ASSUME TypeOK, TypeOK', Grows, SentInv, NEW p \in Procs, BookStep(p)
    PROVE  SentInv'
<1>0. JobOK
  BY TypeParts
<1>1. Sent(p)'
  BY <1>0, BookFrame, SentElsewhere
<1>2. ASSUME NEW q \in Procs \ {p} PROVE Sent(q)'
  BY <1>0, BookFrame, SentFrame DEF SentInv
<1> QED
  BY <1>1, <1>2 DEF SentInv

LEMMA LoopFrame ==
    ASSUME TypeOK, NEW r \in Recoveries, RecoveryLoop(r)
    PROVE  /\ \/ job'[r].pc \in {"read", "next", "done", "fail", "park"}
              \/ job'[r].pc = "sending" /\ job'[r].part = 1
           /\ \A q \in Procs \ {r} : UNCHANGED job[q] /\ Target(q)' = Target(q)
<1>0. JobOK /\ RecoveryOK
  BY TypeParts
<1>1. ASSUME NEW pc \in {"read", "next", "done"}, At(r, pc), UNCHANGED current
      PROVE  job'[r].pc = pc /\ \A q \in Procs \ {r} : UNCHANGED job[q] /\ Target(q)' = Target(q)
  BY <1>0, <1>1, ConstantTypes, Targets DEF At, JobOK, Jobs
<1>2. ASSUME NEW e \in todo[r], NEW pc, Takes(r, e, pc)
      PROVE  /\ job'[r].pc = pc /\ job'[r].part = 1
             /\ \A q \in Procs \ {r} : UNCHANGED job[q] /\ Target(q)' = Target(q)
  <2>1. job'[r] = [Idle EXCEPT !.pc = pc]
    BY <1>0, <1>2, TakesFrame
  <2>2. job'[r].part = 1
    BY <2>1 DEF Idle
  <2> QED
    BY <1>0, <1>2, <2>2, TakesFrame
<1>3. ASSUME NEW e \in todo[r], RecoverySkips(r, e)
      PROVE  job'[r].pc = "next" /\ \A q \in Procs : UNCHANGED job[q] /\ Target(q)' = Target(q)
  BY <1>3, Targets DEF RecoverySkips, IsNext
<1>4. RecoveryLists(r) => At(r, "read") /\ UNCHANGED current
  BY DEF RecoveryLists
<1>5. RecoveryReads(r) => At(r, "next") /\ UNCHANGED current
  BY DEF RecoveryReads
<1>6. RecoveryEnds(r) => At(r, "done") /\ UNCHANGED current
  BY DEF RecoveryEnds
<1>7. ASSUME NEW e \in todo[r], RecoveryDefers(r, e) \/ RecoveryGivesUp(r, e) \/ RecoveryAttempts(r, e)
      PROVE  \E pc \in {"fail", "park", "sending"} : Takes(r, e, pc)
  BY <1>7 DEF RecoveryDefers, RecoveryGivesUp, RecoveryAttempts
<1> QED
  BY <1>1, <1>2, <1>3, <1>4, <1>5, <1>6, <1>7 DEF RecoveryLoop

LEMMA SentLoop ==
    ASSUME TypeOK, TypeOK', Grows, SentInv, NEW r \in Recoveries, RecoveryLoop(r)
    PROVE  SentInv'
<1>1. Sent(r)'
  BY LoopFrame, SentElsewhere, SentFirst, ConstantTypes
<1>2. ASSUME NEW q \in Procs \ {r} PROVE Sent(q)'
  BY LoopFrame, SentFrame DEF SentInv
<1> QED
  BY <1>1, <1>2 DEF SentInv

LEMMA SentProcess ==
    ASSUME TypeOK, TypeOK', Grows, SentInv,
           Crash \/ Stop \/ \E r \in Recoveries : Start(r) \/ Restart(r)
    PROVE  SentInv'
<1>0. JobOK
  BY TypeParts
<1>1. CASE Halt
  BY <1>0, <1>1, HaltFrame, SentElsewhere DEF SentInv
<1>2. ASSUME NEW r \in Recoveries, Recover(r) PROVE SentInv'
  <2>1. Sent(r)'
    BY <1>0, <1>2, RecoverFrame, SentElsewhere, ConstantTypes
  <2>2. ASSUME NEW q \in Procs \ {r} PROVE Sent(q)'
    BY <1>0, <1>2, RecoverFrame, SentFrame DEF SentInv
  <2> QED
    BY <2>1, <2>2 DEF SentInv
<1> QED
  BY <1>1, <1>2 DEF Crash, Stop, Start, Restart

LEMMA SentNext == ASSUME TypeOK, TypeOK', SentInv, Next PROVE SentInv'
<1>0. Grows /\ JobOK
  BY NextGrows, TypeParts
<1>1. ASSUME NEW p \in Procs, SendStep(p) PROVE SentInv'
  <2>1. Sent(p)'
    BY <1>0, <1>1, SentSend DEF SentInv
  <2>2. ASSUME NEW q \in Procs \ {p} PROVE Sent(q)'
    BY <1>0, <1>1, SendFrame, SendOthers, SentFrame DEF SentInv
  <2> QED
    BY <2>1, <2>2 DEF SentInv
<1>2. ASSUME NEW m \in Msgs, CallerAborts(m) PROVE SentInv'
  BY <1>0, <1>2, SentFrame DEF SentInv, CallerAborts, recoveryVars, Target
<1>3. CASE \E m \in Msgs, ok \in BOOLEAN : Accept(m, ok)
  BY <1>0, <1>3, SentAccept
<1>4. CASE \E p \in Procs : BookStep(p)
  BY <1>0, <1>4, SentBook
<1>5. CASE \E r \in Recoveries : RecoveryLoop(r)
  BY <1>0, <1>5, SentLoop
<1>6. CASE Crash \/ Stop \/ \E r \in Recoveries : Start(r) \/ Restart(r)
  BY <1>0, <1>6, SentProcess
<1> QED
  BY <1>1, <1>2, <1>3, <1>4, <1>5, <1>6, NextCases

(* The entry of a strict delivery is only removed when it is delivered.    *)
LEMMA KeptNext ==
    ASSUME TypeOK, TypeOK', SentInv, StrictNeverLost, Next
    PROVE  StrictNeverLost'
<1> SUFFICES ASSUME NEW m \in Strict, WasQueued(m)'
             PROVE  Kept(m)'
  BY DEF StrictNeverLost, Strict
<1>0. m \in Msgs /\ Kind[m] = "strict" /\ DiskOK /\ JobOK /\ LogOK /\ LogOK' /\ Grows
  BY TypeParts, NextGrows DEF TypeOK, LogOK, Strict
<1>1. Delivered(m) => Kept(m)'
  BY <1>0 DEF Delivered, GivenUp, Kept, Grows, LogOK
<1>2. ASSUME WasQueued(m), m \in onDisk \cup parked => m \in onDisk' \cup parked' PROVE Kept(m)'
  BY <1>0, <1>1, <1>2 DEF StrictNeverLost, Kept, Delivered
<1>3. ASSUME NEW ok \in BOOLEAN, NEW x \in Msgs, Accept(x, ok) PROVE Kept(m)'
  <2>1. CASE WasQueued(m)
    BY <1>2, <1>3, <2>1 DEF Accept
  <2>2. CASE ~WasQueued(m)
    <3>1. ok /\ enqueued' = Append(enqueued, x)
      BY <1>3, <2>2 DEF Accept, WasQueued
    <3>2. x = m
      BY <1>0, <2>2, <3>1 DEF LogOK, WasQueued
    <3> QED
      BY <1>3, <3>1, <3>2 DEF Accept, Kept
  <2> QED
    BY <2>1, <2>2
<1>4. ASSUME NEW p \in Procs, BookStep(p) PROVE Kept(m)'
  <2>1. WasQueued(m)
    BY <1>4, BookLogs DEF WasQueued
  <2>2. CASE AckRenames(p) /\ Target(p) = m
    <3>1. Delivered(m)
      BY <1>0, <2>2 DEF AckRenames, SentInv, Sent
    <3> QED
      BY <1>1, <3>1
  <2>3. CASE ~(AckRenames(p) /\ Target(p) = m)
    <3>1. m \in onDisk \cup parked => m \in onDisk' \cup parked'
      BY <1>4, <2>3 DEF BookStep, AckRenames, AckFails, AckUnlinks, FailReads, FailWrites,
         Parks, BookkeepingFails, diskVars, Unqueued
    <3> QED
      BY <1>2, <2>1, <3>1
  <2> QED
    BY <2>2, <2>3
<1>5. ASSUME UNCHANGED <<enqueued, onDisk, parked>> PROVE Kept(m)'
  BY <1>2, <1>5 DEF WasQueued
<1>6. ASSUME NEW p \in Procs, SendStep(p) PROVE Kept(m)'
  BY <1>5, <1>6, SendFrame DEF diskVars
<1>7. CASE \E r \in Recoveries : RecoveryLoop(r)
  BY <1>5, <1>7, LoopLogs
<1>8. CASE Crash \/ Stop \/ \E r \in Recoveries : Start(r) \/ Restart(r)
  BY <1>5, <1>8, ProcessLogs DEF diskVars
<1>9. ASSUME NEW x \in Msgs, CallerAborts(x) PROVE Kept(m)'
  BY <1>5, <1>9 DEF CallerAborts, diskVars
<1> QED
  BY <1>3, <1>4, <1>6, <1>7, <1>8, <1>9, NextCases

StrictInv == SentInv /\ StrictNeverLost

LEMMA StrictInit == Init => StrictInv
<1> SUFFICES ASSUME Init PROVE StrictInv
  OBVIOUS
<1>1. \A p \in Procs : job[p].pc # "sending" /\ job[p].pc # "ack"
  BY DEF Init, Idle
<1>2. \A m \in Msgs : ~WasQueued(m)
  <2>1. enqueued = <<>> /\ \A i \in DOMAIN <<>> : FALSE
    BY DEF Init
  <2> QED
    BY <2>1 DEF WasQueued
<1> QED
  BY <1>1, <1>2 DEF StrictInv, SentInv, Sent, StrictNeverLost, Strict

LEMMA StrictNext == TypeOK /\ TypeOK' /\ StrictInv /\ [Next]_vars => StrictInv'
<1>1. CASE Next
  BY <1>1, SentNext, KeptNext DEF StrictInv
<1>2. CASE UNCHANGED vars
  BY <1>2 DEF vars, diskVars, recoveryVars, logVars, StrictInv, SentInv, Sent, Target,
     Delivered, GivenUp, StrictNeverLost, WasQueued, Kept
<1> QED
  BY <1>1, <1>2

(* A strict delivery that was written to the queue is delivered whole, or  *)
(* still queued, or in failed/, or was given up by its caller or by an     *)
(* AbortError of its channel: whatever fails or crashes, and though live   *)
(* send and recoveries share its file.                                     *)
THEOREM StrictNeverLostHolds == Spec => []StrictNeverLost
<1>1. StrictInv => StrictNeverLost
  BY DEF StrictInv
<1> QED
  BY StrictInit, StrictNext, TypeCorrect, <1>1, PTL DEF Spec

-----------------------------------------------------------------------------
(* What was acknowledged stays away from the queue.  Only failDelivery can *)
(* bring back an entry, between its read and its write; that takes two     *)
(* processes on one delivery, hence one whose entry a recovery loaded when *)
(* another process had it.                                                 *)
UnknownInv ==
    \A m \in Msgs : job[m].pc = "idle" =>
        /\ m \notin onDisk \cup acked
        /\ \A r \in Recoveries : m \notin names[r]
        /\ \A p \in Procs : ~Has(p, m)

OverlapInv ==
    \A m \in Msgs : \A p, q \in Procs : p # q /\ Has(p, m) /\ Has(q, m) => m \in shared

RewriteInv ==
    \A p \in Procs : job[p].pc = "rewrite" /\ Target(p) \in acked => Target(p) \in shared

AckedInv == UnknownInv /\ OverlapInv /\ RewriteInv /\ AckedNotReplayed

(* What a process works on it has.                                         *)
LEMMA WorkerHas ==
    ASSUME NEW p, NEW m, WorksOn(p, m)
    PROVE  Has(p, m)
BY DEF Has

LEMMA AckedInit == Init => AckedInv
<1> SUFFICES ASSUME Init PROVE AckedInv
  OBVIOUS
<1>1. \A p \in Procs : job[p].pc \in {"idle", "done"}
  BY DEF Init, Idle
<1>2. \A p \in Procs : ~Working(p)
  BY <1>1 DEF Working, Busy
<1>3. \A p \in Procs, m \in Msgs : ~Has(p, m)
  BY <1>2 DEF Init, Has, WorksOn
<1>4. UnknownInv
  BY <1>3 DEF Init, UnknownInv
<1>5. OverlapInv /\ RewriteInv
  BY <1>1, <1>3 DEF OverlapInv, RewriteInv
<1> QED
  BY <1>4, <1>5 DEF Init, AckedInv, AckedNotReplayed

(* A process that a step leaves alone.                                     *)
LEMMA HasFrame ==
    ASSUME NEW q \in Procs, UNCHANGED job[q], Target(q)' = Target(q),
           q \in Recoveries => UNCHANGED todo[q]
    PROVE  \A m \in Msgs : (Has(q, m)' <=> Has(q, m)) /\ (WorksOn(q, m)' <=> WorksOn(q, m))
BY DEF Has, WorksOn, Working

(* A step that gives no process a delivery, and its entry to none.         *)
LEMMA AckedFrame ==
    ASSUME AckedInv,
           UNCHANGED <<onDisk, acked>>, shared \subseteq shared',
           \A r \in Recoveries : names'[r] \subseteq names[r] \cup onDisk,
           \A p \in Procs, m \in Msgs : Has(p, m)' => Has(p, m),
           \A m \in Msgs : job'[m].pc = "idle" => job[m].pc = "idle",
           \A p \in Procs : job'[p].pc = "rewrite" =>
                                job[p].pc = "rewrite" /\ Target(p)' = Target(p)
    PROVE  AckedInv'
<1>1. UnknownInv'
  BY DEF AckedInv, UnknownInv
<1>2. OverlapInv'
  BY DEF AckedInv, OverlapInv
<1>3. RewriteInv' /\ AckedNotReplayed'
  BY DEF AckedInv, RewriteInv, AckedNotReplayed
<1> QED
  BY <1>1, <1>2, <1>3 DEF AckedInv

(* A send keeps its delivery.                                              *)
LEMMA SendPC ==
    ASSUME JobOK, NEW p \in Procs, SendStep(p)
    PROVE  job'[p].pc \in {"sending", "done", "ack", "fail", "park"}
BY DEF JobOK, SendStep, PartSent, PartFails, PartAborted, PartThrows, Continue, At, Jobs,
   Returned, Threw

LEMMA SendHas ==
    ASSUME JobOK, NEW p \in Procs, SendStep(p)
    PROVE  \A q \in Procs, m \in Msgs : /\ Has(q, m)' => Has(q, m)
                                        /\ WorksOn(q, m)' => WorksOn(q, m)
                                        /\ q # p => (WorksOn(q, m)' <=> WorksOn(q, m))
<1>1. UNCHANGED todo /\ Working(p) /\ \A q \in Procs : Target(q)' = Target(q)
  BY SendFrame DEF recoveryVars
<1>2. ASSUME NEW q \in Procs \ {p}, NEW m \in Msgs
      PROVE  (Has(q, m)' <=> Has(q, m)) /\ (WorksOn(q, m)' <=> WorksOn(q, m))
  BY <1>1, SendOthers, HasFrame
<1>3. ASSUME NEW m \in Msgs
      PROVE  (Has(p, m)' => Has(p, m)) /\ (WorksOn(p, m)' => WorksOn(p, m))
  BY <1>1 DEF Has, WorksOn
<1> QED
  BY <1>2, <1>3

LEMMA AckedSend ==
    ASSUME TypeOK, AckedInv, NEW p \in Procs, SendStep(p)
    PROVE  AckedInv'
<1>0. JobOK
  BY TypeParts
<1>1. UNCHANGED <<onDisk, acked, names, shared>> /\ \A q \in Procs : Target(q)' = Target(q)
  BY SendFrame DEF diskVars, recoveryVars
<1>2. job'[p].pc \in {"sending", "done", "ack", "fail", "park"}
  BY <1>0, SendPC
<1>3. \A q \in Procs \ {p} : UNCHANGED job[q]
  BY <1>0, SendOthers
<1> QED
  BY <1>0, <1>1, <1>2, <1>3, SendHas, AckedFrame, ConstantTypes

LEMMA AcceptHas ==
    ASSUME JobOK, NEW m \in Msgs, NEW ok \in BOOLEAN, Accept(m, ok)
    PROVE  /\ \A q \in Procs \ {m}, x \in Msgs : /\ (Has(q, x)' <=> Has(q, x))
                                                 /\ (WorksOn(q, x)' <=> WorksOn(q, x))
           /\ \A x \in Msgs : Has(m, x)' => x = m
<1>1. UNCHANGED todo
  BY DEF Accept, recoveryVars
<1>2. ASSUME NEW q \in Procs \ {m}, NEW x \in Msgs
      PROVE  (Has(q, x)' <=> Has(q, x)) /\ (WorksOn(q, x)' <=> WorksOn(q, x))
  BY <1>1, AcceptFrame, HasFrame
<1>3. ASSUME NEW x \in Msgs, Has(m, x)' PROVE x = m
  BY <1>3, AcceptFrame, ConstantTypes, Targets DEF Has, WorksOn
<1> QED
  BY <1>2, <1>3

LEMMA AckedAccept ==
    ASSUME TypeOK, AckedInv, NEW m \in Msgs, NEW ok \in BOOLEAN, Accept(m, ok)
    PROVE  AckedInv'
<1>0. JobOK /\ job[m].pc = "idle" /\ m \in Procs
  BY TypeParts, AcceptFrame, ConstantTypes
<1>1. /\ UNCHANGED <<acked, names, shared>>
      /\ onDisk' \subseteq onDisk \cup {m}
  BY DEF Accept, recoveryVars
<1>2. job'[m].pc = "sending" /\ \A q \in Procs \ {m} : UNCHANGED job[q] /\ Target(q)' = Target(q)
  BY <1>0, AcceptFrame
<1>3. m \notin acked /\ \A q \in Procs : ~Has(q, m)
  BY <1>0 DEF AckedInv, UnknownInv
<1>4. UnknownInv'
  <2>1. ASSUME NEW x \in Msgs, job'[x].pc = "idle"
        PROVE  /\ x \notin onDisk' \cup acked' /\ \A r \in Recoveries : x \notin names'[r]
               /\ \A q \in Procs : ~Has(q, x)'
    <3>1. x # m /\ job[x].pc = "idle"
      BY <1>2, <2>1, ConstantTypes
    <3>2. x \notin onDisk \cup acked /\ \A r \in Recoveries : x \notin names[r]
      BY <3>1 DEF AckedInv, UnknownInv
    <3>3. \A q \in Procs : ~Has(q, x)
      BY <3>1 DEF AckedInv, UnknownInv
    <3>4. \A q \in Procs : ~Has(q, x)'
      BY <1>0, <3>1, <3>3, AcceptHas
    <3> QED
      BY <1>1, <3>1, <3>2, <3>4
  <2> QED
    BY <2>1 DEF UnknownInv
<1>5. OverlapInv'
  <2>1. ASSUME NEW x \in Msgs, NEW p \in Procs, NEW q \in Procs, p # q, Has(p, x)', Has(q, x)'
        PROVE  x \in shared'
    <3>1. x # m
      <4>1. PICK s \in {p, q} : s # m
        BY <2>1
      <4> QED
        BY <1>0, <1>3, <2>1, <4>1, AcceptHas
    <3>2. p # m /\ q # m
      BY <1>0, <2>1, <3>1, AcceptHas
    <3>3. Has(p, x) /\ Has(q, x)
      BY <1>0, <2>1, <3>2, AcceptHas
    <3> QED
      BY <1>1, <2>1, <3>3 DEF AckedInv, OverlapInv
  <2> QED
    BY <2>1 DEF OverlapInv
<1>6. RewriteInv'
  BY <1>1, <1>2 DEF AckedInv, RewriteInv
<1>7. AckedNotReplayed'
  BY <1>1, <1>3 DEF AckedInv, AckedNotReplayed
<1> QED
  BY <1>4, <1>5, <1>6, <1>7 DEF AckedInv

(* Two processes on one delivery.                                          *)
LEMMA TwoOnOne ==
    ASSUME TypeOK, AckedInv, NEW p \in Procs, NEW q \in Procs, p # q,
           Working(p), Working(q), Target(p) = Target(q)
    PROVE  Target(p) \in shared
<1>1. Target(p) \in Msgs
  BY TypeParts, TargetType
<1>2. Has(p, Target(p)) /\ Has(q, Target(p))
  BY DEF Has, WorksOn
<1> QED
  BY <1>1, <1>2 DEF AckedInv, OverlapInv

LEMMA BookHas ==
    ASSUME JobOK, NEW p \in Procs, BookStep(p)
    PROVE  \A q \in Procs, m \in Msgs : /\ Has(q, m)' => Has(q, m)
                                        /\ WorksOn(q, m)' => WorksOn(q, m)
                                        /\ q # p => (WorksOn(q, m)' <=> WorksOn(q, m))
<1>1. UNCHANGED todo /\ Working(p)
  BY BookLogs, BookPC
<1>2. ASSUME NEW q \in Procs \ {p}, NEW m \in Msgs
      PROVE  (Has(q, m)' <=> Has(q, m)) /\ (WorksOn(q, m)' <=> WorksOn(q, m))
  BY <1>1, BookFrame, HasFrame
<1>3. Working(p)' => Target(p)' = Target(p)
  BY BookFrame DEF Working
<1>4. ASSUME NEW m \in Msgs
      PROVE  (Has(p, m)' => Has(p, m)) /\ (WorksOn(p, m)' => WorksOn(p, m))
  BY <1>1, <1>3 DEF Has, WorksOn
<1> QED
  BY <1>2, <1>4

LEMMA BookDisk ==
    ASSUME NEW p \in Procs, BookStep(p)
    PROVE  /\ onDisk' \subseteq onDisk \cup {Target(p)}
           /\ ~FailWrites(p) => onDisk' \subseteq onDisk
           /\ \/ acked' = acked
              \/ /\ acked' = acked \cup {Target(p)} /\ Target(p) \in onDisk
                 /\ onDisk' = onDisk \ {Target(p)}
BY DEF BookStep, AckRenames, AckFails, AckUnlinks, FailReads, FailWrites, Parks,
   BookkeepingFails, Unqueued, diskVars, logVars

LEMMA AckedBook ==
    ASSUME TypeOK, AckedInv, NEW p \in Procs, BookStep(p)
    PROVE  AckedInv'
<1> DEFINE m == Target(p)
<1>0. JobOK /\ Working(p) /\ m \in Msgs /\ UNCHANGED <<names, shared>>
  BY TypeParts, BookPC, BookLogs
<1>1. /\ job'[p].pc \in {"next", "done", "unlink", "fail", "rewrite"}
      /\ \A q \in Procs \ {p} : UNCHANGED job[q] /\ Target(q)' = Target(q)
      /\ job'[p].pc \in Busy => UNCHANGED current /\ Target(p)' = Target(p)
  BY <1>0, BookFrame
<1>2. job[m].pc # "idle"
  <2>1. Has(p, m)
    BY <1>0 DEF Has, WorksOn
  <2> QED
    BY <1>0, <2>1 DEF AckedInv, UnknownInv
<1>3. UnknownInv'
  <2>1. ASSUME NEW x \in Msgs, job'[x].pc = "idle"
        PROVE  /\ x \notin onDisk' \cup acked' /\ \A r \in Recoveries : x \notin names'[r]
               /\ \A q \in Procs : ~Has(q, x)'
    <3>1. job[x].pc = "idle" /\ x # m
      BY <1>1, <1>2, <2>1, ConstantTypes
    <3>2. x \notin onDisk \cup acked /\ \A r \in Recoveries : x \notin names[r]
      BY <3>1 DEF AckedInv, UnknownInv
    <3>3. \A q \in Procs : ~Has(q, x)
      BY <3>1 DEF AckedInv, UnknownInv
    <3> QED
      BY <1>0, <3>1, <3>2, <3>3, BookDisk, BookHas
  <2> QED
    BY <2>1 DEF UnknownInv
<1>4. OverlapInv'
  BY <1>0, BookHas DEF AckedInv, OverlapInv
<1>5. RewriteInv'
  <2>1. ASSUME NEW q \in Procs \ {p}, job'[q].pc = "rewrite", Target(q)' \in acked'
        PROVE  Target(q)' \in shared'
    <3>1. Target(q)' = Target(q) /\ job[q].pc = "rewrite" /\ Working(q)
      BY <1>1, <2>1 DEF Working, Busy
    <3>2. CASE Target(q) \in acked
      BY <1>0, <3>1, <3>2 DEF AckedInv, RewriteInv
    <3>3. CASE Target(q) = m
      BY <1>0, <3>1, <3>3, TwoOnOne
    <3> QED
      BY <2>1, <3>1, <3>2, <3>3, BookDisk
  <2>2. ASSUME job'[p].pc = "rewrite", Target(p)' \in acked'
        PROVE  Target(p)' \in shared'
    <3>1. Target(p)' = m
      BY <1>1, <2>2 DEF Busy
    <3>2. ~Finish(p) /\ \A pc \in {"unlink", "fail"} : ~At(p, pc)
      BY <1>0, <2>2, FinishFrame DEF At, JobOK, Jobs
    <3>3. FailReads(p) /\ m \in onDisk
      BY <3>2, BookMoves
    <3>4. UNCHANGED acked
      BY <3>3 DEF FailReads, logVars
    <3> QED
      BY <1>0, <2>2, <3>1, <3>3, <3>4 DEF AckedInv, AckedNotReplayed
  <2> QED
    BY <2>1, <2>2 DEF RewriteInv
<1>6. AckedNotReplayed'
  <2>1. CASE FailWrites(p)
    <3>1. onDisk' = onDisk \cup {m} /\ UNCHANGED acked /\ job[p].pc = "rewrite"
      BY <2>1 DEF FailWrites, logVars
    <3> QED
      BY <1>0, <3>1 DEF AckedInv, RewriteInv, AckedNotReplayed
  <2>2. CASE ~FailWrites(p)
    BY <1>0, <2>2, BookDisk DEF AckedInv, AckedNotReplayed
  <2> QED
    BY <2>1, <2>2
<1> QED
  BY <1>3, <1>4, <1>5, <1>6 DEF AckedInv

(* A recovery gets deliveries only by loading their entries.               *)
LEMMA LoopOthers ==
    ASSUME TypeOK, NEW r \in Recoveries, RecoveryLoop(r)
    PROVE  \A s \in Recoveries \ {r} : names'[s] = names[s] /\ todo'[s] = todo[s]
<1>0. RecoveryOK
  BY TypeParts
<1>1. /\ UNCHANGED names \/ \E x : names' = [names EXCEPT ![r] = x]
      /\ UNCHANGED todo \/ \E x : todo' = [todo EXCEPT ![r] = x]
  BY DEF RecoveryLoop, RecoveryLists, RecoveryReads, RecoveryEnds, RecoveryDefers,
     RecoveryGivesUp, RecoverySkips, RecoveryAttempts, Takes
<1> QED
  BY <1>0, <1>1 DEF RecoveryOK

LEMMA LoopTodo ==
    ASSUME TypeOK, NEW r \in Recoveries, RecoveryLoop(r), ~RecoveryReads(r)
    PROVE  \/ UNCHANGED todo /\ job'[r].pc \notin Busy
           \/ \E e \in todo[r] : /\ todo'[r] = todo[r] \ {e}
                                 /\ job'[r].pc \in Busy => Target(r)' = e.id
<1>0. JobOK /\ RecoveryOK
  BY TypeParts
<1>1. ASSUME NEW pc \in {"read", "done"}, At(r, pc) PROVE job'[r].pc \notin Busy
  BY <1>0, <1>1, ConstantTypes DEF At, JobOK, Jobs, Busy
<1>2. CASE RecoveryLists(r) \/ RecoveryEnds(r)
  BY <1>1, <1>2 DEF RecoveryLists, RecoveryEnds
<1>3. ASSUME NEW e \in todo[r], RecoverySkips(r, e)
      PROVE  todo'[r] = todo[r] \ {e} /\ job'[r].pc \notin Busy
  BY <1>0, <1>3 DEF RecoverySkips, IsNext, RecoveryOK, Busy
<1>4. ASSUME NEW e \in todo[r], NEW pc, Takes(r, e, pc)
      PROVE  todo'[r] = todo[r] \ {e} /\ Target(r)' = e.id
  BY <1>0, <1>4, TakesFrame
<1>5. ASSUME NEW e \in todo[r], RecoveryDefers(r, e) \/ RecoveryGivesUp(r, e) \/ RecoveryAttempts(r, e)
      PROVE  \E pc \in {"fail", "park", "sending"} : Takes(r, e, pc)
  BY <1>5 DEF RecoveryDefers, RecoveryGivesUp, RecoveryAttempts
<1> QED
  BY <1>2, <1>3, <1>4, <1>5 DEF RecoveryLoop

LEMMA LoopHas ==
    ASSUME TypeOK, NEW r \in Recoveries, RecoveryLoop(r)
    PROVE  /\ \A q \in Procs \ {r}, m \in Msgs : /\ (Has(q, m)' <=> Has(q, m))
                                                 /\ (WorksOn(q, m)' <=> WorksOn(q, m))
           /\ \A m \in Msgs : Has(r, m)' => \/ Has(r, m)
                                            \/ RecoveryReads(r) /\ m \in names[r] \cap onDisk
<1>1. ASSUME NEW q \in Procs \ {r}, NEW m \in Msgs
      PROVE  (Has(q, m)' <=> Has(q, m)) /\ (WorksOn(q, m)' <=> WorksOn(q, m))
  BY LoopOthers, LoopFrame, HasFrame
<1>2. ASSUME NEW m \in Msgs, Has(r, m)'
      PROVE  \/ Has(r, m)
             \/ RecoveryReads(r) /\ m \in names[r] \cap onDisk
  <2>1. CASE RecoveryReads(r)
    <3>1. todo'[r] = {Snapshot(x) : x \in names[r] \cap onDisk} /\ At(r, "next")
      BY <2>1, TypeParts DEF RecoveryReads, RecoveryOK
    <3>2. ~Working(r)'
      BY <3>1, TypeParts, ConstantTypes DEF At, JobOK, Jobs, Working, Busy
    <3>3. PICK e \in todo'[r] : e.id = m
      BY <1>2, <3>2 DEF Has, WorksOn
    <3> QED
      BY <2>1, <3>1, <3>3 DEF Snapshot
  <2>2. CASE ~RecoveryReads(r)
    <3>1. CASE UNCHANGED todo /\ job'[r].pc \notin Busy
      BY <1>2, <3>1 DEF Has, WorksOn, Working
    <3>2. ASSUME NEW e \in todo[r], todo'[r] = todo[r] \ {e},
                 job'[r].pc \in Busy => Target(r)' = e.id
          PROVE  Has(r, m)
      BY <1>2, <3>2 DEF Has, WorksOn, Working
    <3> QED
      BY <2>2, <3>1, <3>2, LoopTodo
  <2> QED
    BY <2>1, <2>2
<1> QED
  BY <1>1, <1>2

LEMMA AckedLoop ==
    ASSUME TypeOK, AckedInv, NEW r \in Recoveries, RecoveryLoop(r)
    PROVE  AckedInv'
<1>0. UNCHANGED <<onDisk, acked>> /\ shared \subseteq shared' /\ r \in Procs /\ RecoveryOK
  BY TypeParts, ConstantTypes, LoopLogs DEF RecoveryLoop, RecoveryLists, RecoveryReads,
     RecoveryEnds, RecoveryDefers, RecoveryGivesUp, RecoverySkips, RecoveryAttempts, logVars
<1>1. /\ job'[r].pc # "rewrite"
      /\ \A q \in Procs \ {r} : UNCHANGED job[q] /\ Target(q)' = Target(q)
      /\ \A m \in Msgs : UNCHANGED job[m]
  BY LoopFrame, ConstantTypes
<1>2. \A s \in Recoveries : names'[s] \subseteq names[s] \cup onDisk
  <2>1. names'[r] \subseteq names[r] \cup onDisk
    BY <1>0 DEF RecoveryLoop, RecoveryLists, RecoveryReads, RecoveryEnds, RecoveryDefers,
       RecoveryGivesUp, RecoverySkips, RecoveryAttempts, RecoveryOK
  <2> QED
    BY <2>1, LoopOthers
<1>3. CASE RecoveryReads(r)
  <2>1. UnknownInv'
    <3>1. ASSUME NEW x \in Msgs, job'[x].pc = "idle"
          PROVE  /\ x \notin onDisk' \cup acked' /\ \A s \in Recoveries : x \notin names'[s]
                 /\ \A q \in Procs : ~Has(q, x)'
      <4>1. job[x].pc = "idle"
        BY <1>1, <3>1
      <4>2. x \notin onDisk \cup acked /\ \A s \in Recoveries : x \notin names[s]
        BY <4>1 DEF AckedInv, UnknownInv
      <4>3. \A q \in Procs : ~Has(q, x)
        BY <4>1 DEF AckedInv, UnknownInv
      <4>4. \A q \in Procs : ~Has(q, x)'
        BY <4>2, <4>3, LoopHas
      <4> QED
        BY <1>0, <1>2, <4>2, <4>4
    <3> QED
      BY <3>1 DEF UnknownInv
  <2>2. OverlapInv'
    <3>1. shared' = shared \cup {m \in names[r] \cap onDisk : \E p \in Procs : Has(p, m)}
      BY <1>3 DEF RecoveryReads
    <3>2. ASSUME NEW m \in Msgs, NEW p \in Procs, NEW q \in Procs, p # q, Has(p, m)', Has(q, m)'
          PROVE  m \in shared'
      <4>1. CASE Has(p, m) /\ Has(q, m)
        BY <1>0, <3>2, <4>1 DEF AckedInv, OverlapInv
      <4>2. CASE ~(Has(p, m) /\ Has(q, m))
        <5>1. m \in names[r] \cap onDisk /\ (Has(p, m) \/ Has(q, m))
          BY <3>2, <4>2, LoopHas
        <5> QED
          BY <3>1, <5>1
      <4> QED
        BY <4>1, <4>2
    <3> QED
      BY <3>2 DEF OverlapInv
  <2>3. RewriteInv' /\ AckedNotReplayed'
    BY <1>0, <1>1 DEF AckedInv, RewriteInv, AckedNotReplayed
  <2> QED
    BY <2>1, <2>2, <2>3 DEF AckedInv
<1>4. CASE ~RecoveryReads(r)
  <2>1. \A p \in Procs, m \in Msgs : Has(p, m)' => Has(p, m)
    BY <1>4, LoopHas
  <2> QED
    BY <1>0, <1>1, <1>2, <2>1, AckedFrame
<1> QED
  BY <1>3, <1>4

LEMMA HaltHas ==
    ASSUME JobOK, Halt
    PROVE  \A p \in Procs, m \in Msgs : ~Has(p, m)' /\ ~WorksOn(p, m)'
BY HaltFrame DEF Halt, Has, WorksOn

LEMMA RecoverHas ==
    ASSUME JobOK, NEW r \in Recoveries, Recover(r)
    PROVE  \A p \in Procs, m \in Msgs : (Has(p, m)' => Has(p, m)) /\ (WorksOn(p, m)' <=> WorksOn(p, m))
<1>1. UNCHANGED todo
  BY DEF Recover, recoveryVars
<1>2. ASSUME NEW q \in Procs \ {r}, NEW m \in Msgs
      PROVE  (Has(q, m)' <=> Has(q, m)) /\ (WorksOn(q, m)' <=> WorksOn(q, m))
  BY <1>1, RecoverFrame, HasFrame
<1>3. ASSUME NEW m \in Msgs
      PROVE  (Has(r, m)' => Has(r, m)) /\ (WorksOn(r, m)' <=> WorksOn(r, m))
  BY <1>1, RecoverFrame DEF Has, WorksOn
<1> QED
  BY <1>2, <1>3

LEMMA AckedProcess ==
    ASSUME TypeOK, AckedInv, Crash \/ Stop \/ \E r \in Recoveries : Start(r) \/ Restart(r)
    PROVE  AckedInv'
<1>0. JobOK /\ UNCHANGED <<onDisk, acked, shared>>
  BY TypeParts, ProcessLogs DEF diskVars
<1>1. CASE Halt
  <2>1. \A r \in Recoveries : names'[r] = {}
    BY <1>1 DEF Halt
  <2>2. \A p \in Procs : job'[p].pc = IF job[p].pc = "idle" THEN "idle" ELSE "done"
    BY <1>0, <1>1, HaltFrame
  <2> QED
    BY <1>0, <1>1, <2>1, <2>2, HaltHas, AckedFrame, ConstantTypes
<1>2. ASSUME NEW r \in Recoveries, Recover(r) PROVE AckedInv'
  <2>1. UNCHANGED names
    BY <1>2 DEF Recover, recoveryVars
  <2> QED
    BY <1>0, <1>2, <2>1, RecoverFrame, RecoverHas, AckedFrame, ConstantTypes
<1> QED
  BY <1>1, <1>2 DEF Crash, Stop, Start, Restart

LEMMA AckedNext == TypeOK /\ AckedInv /\ [Next]_vars => AckedInv'
<1>1. ASSUME AckedInv, UNCHANGED <<onDisk, acked, names, todo, current, job, shared>> PROVE AckedInv'
  BY <1>1 DEF AckedInv, UnknownInv, OverlapInv, RewriteInv, AckedNotReplayed, Has, WorksOn,
     Working, Target
<1>2. ASSUME AckedInv, NEW m \in Msgs, CallerAborts(m) PROVE AckedInv'
  BY <1>1, <1>2 DEF CallerAborts, diskVars, recoveryVars
<1>3. ASSUME AckedInv, UNCHANGED vars PROVE AckedInv'
  BY <1>1, <1>3 DEF vars, diskVars, recoveryVars, logVars
<1> QED
  BY <1>2, <1>3, AckedAccept, AckedSend, AckedBook, AckedLoop, AckedProcess, NextCases

(* A delivery that was marked delivered is not in the queue again, unless  *)
(* a recovery loaded its entry while its live send or another recovery had *)
(* it.                                                                     *)
THEOREM AckedNotReplayedHolds == Spec => []AckedNotReplayed
<1>1. AckedInv => AckedNotReplayed
  BY DEF AckedInv
<1> QED
  BY AckedInit, AckedNext, TypeCorrect, <1>1, PTL DEF Spec

-----------------------------------------------------------------------------
(* How often a delivery is sent.  Its entry counts its sends, except those *)
(* under way and those kept from disk by a crash or a fault; a recovery    *)
(* looks at the count it has read before, so what it has loaded of a       *)
(* delivery must still be what the file says, although others may rewrite  *)
(* it.                                                                     *)
Held(m) == \E p \in Procs : WorksOn(p, m)
InHand(m) == IF Held(m) THEN 1 ELSE 0

CountedOK(m) ==
    /\ attempts[m] <= MaxRetries + unrecorded[m]
    /\ job[m].pc = "idle" => attempts[m] = 0
    /\ m \in onDisk => attempts[m] <= entry[m].retries + unrecorded[m] + InHand(m)

LoadedOK(m) ==
    \A r \in Recoveries : \A e \in todo[r] : e.id = m => e = Snapshot(m) /\ m \in onDisk /\ ~Held(m)

HandOK(p, m) ==
    WorksOn(p, m) =>
        /\ job[p].pc = "rewrite" => m \in onDisk /\ job[p].retries = entry[m].retries
        /\ job[p].pc = "unlink" => m \notin onDisk
        /\ p = m /\ ~job[m].queued => m \notin onDisk /\ job[m].pc = "sending"

(* A delivery at rest or in one hand.                                      *)
RetryOf(m) == CountedOK(m) /\ LoadedOK(m) /\ \A p \in Procs : HandOK(p, m)

RetryInv == \A m \in Msgs \ shared : RetryOf(m)

LEMMA RetryInit == Init => RetryInv
<1> SUFFICES ASSUME Init, NEW m \in Msgs PROVE RetryOf(m)
  BY DEF RetryInv
<1>1. \A p \in Procs : job[p].pc \in {"idle", "done"}
  BY DEF Init, Idle
<1>2. \A p \in Procs : ~WorksOn(p, m)
  BY <1>1 DEF Working, Busy, WorksOn
<1>3. CountedOK(m)
  BY ConstantsAssumption DEF Init, CountedOK
<1>4. LoadedOK(m)
  BY DEF Init, LoadedOK
<1> QED
  BY <1>2, <1>3, <1>4 DEF RetryOf, HandOK

(* A step that has nothing to do with the delivery.                        *)
LEMMA RetryFrame ==
    ASSUME NEW m \in Msgs, RetryOf(m),
           m \in onDisk' <=> m \in onDisk,
           UNCHANGED <<entry[m], attempts[m], unrecorded[m], job[m]>>,
           \A r \in Recoveries : \A e \in todo'[r] : e.id = m => e \in todo[r],
           \A p \in Procs : (WorksOn(p, m)' <=> WorksOn(p, m)),
           \A p \in Procs : WorksOn(p, m) => UNCHANGED job[p]
    PROVE  RetryOf(m)'
<1>1. (Held(m)' <=> Held(m)) /\ InHand(m)' = InHand(m)
  BY DEF Held, InHand
<1>2. Snapshot(m)' = Snapshot(m)
  BY DEF Snapshot
<1>3. CountedOK(m)'
  BY <1>1 DEF RetryOf, CountedOK
<1>4. LoadedOK(m)'
  BY <1>1, <1>2 DEF RetryOf, LoadedOK
<1>5. \A p \in Procs : HandOK(p, m)'
  BY DEF RetryOf, HandOK
<1> QED
  BY <1>3, <1>4, <1>5 DEF RetryOf

(* A delivery that a process works on is in no other hand.                 *)
LEMMA OneHand ==
    ASSUME TypeOK, AckedInv, RetryInv, NEW p \in Procs, Working(p), Target(p) \notin shared
    PROVE  /\ Target(p) \in Msgs /\ RetryOf(Target(p))
           /\ WorksOn(p, Target(p)) /\ InHand(Target(p)) = 1
           /\ job[Target(p)].pc # "idle"
           /\ \A r \in Recoveries : \A e \in todo[r] : e.id # Target(p)
           /\ \A q \in Procs \ {p} : ~WorksOn(q, Target(p))
<1>1. Target(p) \in Msgs /\ RetryOf(Target(p))
  BY TypeParts, TargetType DEF RetryInv
<1>2. WorksOn(p, Target(p)) /\ Held(Target(p)) /\ InHand(Target(p)) = 1
  BY DEF WorksOn, Held, InHand
<1>3. \A q \in Procs \ {p} : ~WorksOn(q, Target(p))
  BY TwoOnOne DEF WorksOn
<1>4. job[Target(p)].pc # "idle"
  BY <1>1, <1>2, WorkerHas DEF AckedInv, UnknownInv
<1>5. \A r \in Recoveries : \A e \in todo[r] : e.id # Target(p)
  BY <1>1, <1>2 DEF RetryOf, LoadedOK
<1> QED
  BY <1>1, <1>2, <1>3, <1>4, <1>5

(* What a step of a process leaves of the other deliveries.                *)
LEMMA RetryOthers ==
    ASSUME RetryInv, NEW p \in Procs, NEW m \in Msgs \ shared, Working(p), m # Target(p),
           m \in onDisk' <=> m \in onDisk,
           UNCHANGED <<entry[m], attempts[m], unrecorded[m], todo>>,
           \A q \in Procs \ {p} : UNCHANGED job[q] /\ (WorksOn(q, m)' <=> WorksOn(q, m)),
           WorksOn(p, m)' => WorksOn(p, m)
    PROVE  RetryOf(m)'
<1>1. UNCHANGED job[m]
  <2>1. p # m
    BY Targets
  <2> QED
    BY <2>1, ConstantTypes
<1>2. ~WorksOn(p, m) /\ ~WorksOn(p, m)'
  BY DEF WorksOn
<1> QED
  BY <1>1, <1>2, RetryFrame DEF RetryInv

LEMMA RetrySend ==
    ASSUME TypeOK, AckedInv, RetryInv, NEW p \in Procs, SendStep(p)
    PROVE  RetryInv'
<1>0. /\ JobOK /\ job[p].pc = "sending" /\ Working(p)
      /\ UNCHANGED <<onDisk, entry, attempts, unrecorded, todo, shared>>
      /\ Target(p)' = Target(p) /\ \A q \in Procs \ {p} : UNCHANGED job[q]
  BY TypeParts, SendFrame, SendOthers DEF diskVars, recoveryVars
<1>1. /\ job'[p].pc \in {"sending", "done", "ack", "fail", "park"}
      /\ job'[p].queued = job[p].queued
      /\ job'[p].pc = "done" => p \in Msgs /\ ~job[p].queued
      /\ p \in Msgs /\ ~job[p].queued => job'[p].pc \in {"sending", "done"}
  <2>1. job'[p].pc \in {"sending", "done", "ack", "fail", "park"}
    BY <1>0, SendPC
  <2>2. /\ job'[p].queued = job[p].queued
        /\ \/ job'[p].pc = "sending"
           \/ \E partial : job'[p].pc = Returned(p, partial)
           \/ \E err : job'[p].pc = Threw(p, err)
    BY <1>0 DEF JobOK, SendStep, PartSent, PartFails, PartAborted, PartThrows, Continue, At, Jobs
  <2> QED
    BY <2>1, <2>2, ConstantTypes DEF Returned, Threw
<1>2. ASSUME NEW m \in Msgs \ shared, m # Target(p) PROVE RetryOf(m)'
  BY <1>0, <1>2, SendHas, RetryOthers
<1>3. ASSUME NEW m \in Msgs \ shared, m = Target(p) PROVE RetryOf(m)'
  <2>1. /\ RetryOf(m) /\ WorksOn(p, m) /\ InHand(m) = 1 /\ job[m].pc # "idle"
        /\ \A r \in Recoveries : \A e \in todo[r] : e.id # m
        /\ \A q \in Procs \ {p} : ~WorksOn(q, m)
    BY <1>0, <1>3, OneHand
  <2>2. CASE Working(p)'
    <3>1. WorksOn(p, m)' /\ InHand(m)' = 1
      BY <1>0, <1>3, <2>2 DEF WorksOn, Held, InHand
    <3>2. job'[m].pc # "idle"
      BY <1>0, <1>1, <2>1, ConstantTypes
    <3>3. CountedOK(m)'
      BY <1>0, <2>1, <3>1, <3>2 DEF RetryOf, CountedOK
    <3>4. LoadedOK(m)'
      BY <1>0, <2>1 DEF LoadedOK
    <3>5. HandOK(p, m)'
      BY <1>0, <1>1, <2>1, <2>2 DEF RetryOf, HandOK, Working, Busy
    <3>6. \A q \in Procs \ {p} : HandOK(q, m)'
      BY <1>0, <2>1, SendHas DEF HandOK
    <3> QED
      BY <3>3, <3>4, <3>5, <3>6 DEF RetryOf
  <2>3. CASE ~Working(p)'
    <3>1. job'[p].pc = "done"
      BY <1>1, <2>3 DEF Working, Busy
    <3>2. p = m /\ m \notin onDisk
      BY <1>1, <1>3, <2>1, <3>1, Targets DEF RetryOf, HandOK
    <3>3. \A q \in Procs : ~WorksOn(q, m)'
      <4>1. ~WorksOn(p, m)'
        BY <2>3 DEF WorksOn
      <4> QED
        BY <1>0, <2>1, <4>1, SendHas
    <3>4. CountedOK(m)'
      BY <1>0, <2>1, <3>1, <3>2 DEF RetryOf, CountedOK
    <3>5. LoadedOK(m)'
      BY <1>0, <2>1 DEF LoadedOK
    <3> QED
      BY <3>3, <3>4, <3>5 DEF RetryOf, HandOK
  <2> QED
    BY <2>2, <2>3
<1> QED
  BY <1>0, <1>2, <1>3 DEF RetryInv

(* What a step of the bookkeeping leaves of its entry's count.             *)
LEMMA RetryBookCount ==
    ASSUME TypeOK, NEW p \in Procs, BookStep(p), Target(p) \in Msgs, RetryOf(Target(p)),
           WorksOn(p, Target(p)), InHand(Target(p)) = 1
    PROVE  LET m == Target(p) IN
           /\ m \in onDisk' =>
                 \/ /\ job'[p].pc \in Busy
                    /\ attempts[m] <= entry'[m].retries + unrecorded'[m] + 1
                 \/ attempts[m] <= entry'[m].retries + unrecorded'[m]
           /\ job'[p].pc = "rewrite" => m \in onDisk' /\ job'[p].retries = entry'[m].retries
           /\ job'[p].pc = "unlink" => m \notin onDisk'
           /\ job'[p].pc \in Busy => job'[p].queued = job[p].queued
           /\ unrecorded'[m] \in {unrecorded[m], unrecorded[m] + 1}
<1> DEFINE m == Target(p)
<1> DEFINE Goal == /\ m \in onDisk' =>
                        \/ /\ job'[p].pc \in Busy
                           /\ attempts[m] <= entry'[m].retries + unrecorded'[m] + 1
                        \/ attempts[m] <= entry'[m].retries + unrecorded'[m]
                   /\ job'[p].pc = "rewrite" => m \in onDisk' /\ job'[p].retries = entry'[m].retries
                   /\ job'[p].pc = "unlink" => m \notin onDisk'
                   /\ job'[p].pc \in Busy => job'[p].queued = job[p].queued
                   /\ unrecorded'[m] \in {unrecorded[m], unrecorded[m] + 1}
<1> SUFFICES Goal
  OBVIOUS
<1>0. /\ JobOK /\ entry \in [Msgs -> Entries] /\ unrecorded \in [Msgs -> Nat]
      /\ attempts[m] \in Nat /\ unrecorded[m] \in Nat /\ entry[m].retries \in Nat
      /\ m \in onDisk => attempts[m] <= entry[m].retries + unrecorded[m] + 1
      /\ HandOK(p, m)
  BY TypeParts DEF DiskOK, CountsOK, Entries, RetryOf, CountedOK
<1>1. ASSUME Finish(p) PROVE job'[p].pc \notin Busy /\ job'[p].pc \notin {"rewrite", "unlink"}
  BY <1>0, <1>1, FinishFrame DEF Busy
<1>2. ASSUME NEW pc \in {"fail", "unlink"}, At(p, pc)
      PROVE  job'[p].pc = pc /\ job'[p].queued = job[p].queued /\ pc \in Busy
  BY <1>0, <1>2 DEF At, JobOK, Jobs, Busy
<1>3. CASE AckRenames(p)
  <2>1. UNCHANGED <<unrecorded, entry>>
    BY <1>3 DEF AckRenames
  <2>2. CASE m \in onDisk
    <3>1. m \notin onDisk' /\ At(p, "unlink")
      BY <1>3, <2>2 DEF AckRenames, Unqueued
    <3> QED
      BY <1>2, <2>1, <3>1
  <2>3. CASE m \notin onDisk
    <3>1. m \notin onDisk' /\ Finish(p)
      BY <1>3, <2>3 DEF AckRenames
    <3> QED
      BY <1>1, <2>1, <3>1
  <2> QED
    BY <2>2, <2>3
<1>4. CASE AckFails(p)
  <2>1. UNCHANGED <<onDisk, entry>>
    BY <1>4 DEF AckFails, diskVars
  <2>2. CASE p \in Recoveries
    <3>1. At(p, "fail") /\ UNCHANGED unrecorded
      BY <1>4, <2>2 DEF AckFails
    <3> QED
      BY <1>0, <1>2, <2>1, <3>1
  <2>3. CASE p \notin Recoveries
    <3>1. Finish(p) /\ unrecorded'[m] = unrecorded[m] + 1
      BY <1>0, <1>4, <2>3 DEF AckFails, Unrecorded, Target
    <3> QED
      BY <1>0, <1>1, <2>1, <3>1
  <2> QED
    BY <2>2, <2>3
<1>5. CASE AckUnlinks(p)
  <2>1. m \notin onDisk
    BY <1>0, <1>5 DEF AckUnlinks, HandOK
  <2>2. Finish(p) /\ UNCHANGED <<onDisk, unrecorded>>
    BY <1>5 DEF AckUnlinks, logVars
  <2> QED
    BY <1>1, <2>1, <2>2
<1>6. CASE FailReads(p)
  <2>1. UNCHANGED <<onDisk, entry, unrecorded>>
    BY <1>6 DEF FailReads, diskVars, logVars
  <2>2. CASE m \in onDisk
    <3>1. job' = [job EXCEPT ![p].pc = "rewrite", ![p].retries = entry[m].retries]
      BY <1>6, <2>2 DEF FailReads
    <3>2. /\ job'[p].pc = "rewrite" /\ job'[p].retries = entry[m].retries
          /\ job'[p].queued = job[p].queued
      BY <1>0, <3>1 DEF JobOK, Jobs
    <3> QED
      BY <1>0, <2>1, <2>2, <3>2 DEF Busy
  <2>3. CASE m \notin onDisk
    <3>1. Finish(p)
      BY <1>6, <2>3 DEF FailReads
    <3> QED
      BY <1>1, <2>1, <2>3, <3>1
  <2> QED
    BY <2>2, <2>3
<1>7. CASE FailWrites(p)
  <2>1. m \in onDisk /\ job[p].retries = entry[m].retries
    BY <1>0, <1>7 DEF FailWrites, HandOK
  <2>2. /\ entry'[m].retries = entry[m].retries + 1
        /\ UNCHANGED unrecorded /\ Finish(p)
    BY <1>0, <1>7, <2>1 DEF FailWrites, Counted, logVars
  <2> QED
    BY <1>0, <1>1, <2>1, <2>2
<1>8. CASE Parks(p)
  <2>1. m \notin onDisk' /\ Finish(p) /\ UNCHANGED unrecorded
    BY <1>8 DEF Parks, Unqueued, logVars
  <2> QED
    BY <1>1, <2>1
<1>9. CASE BookkeepingFails(p)
  <2>1. /\ UNCHANGED <<onDisk, entry>> /\ Finish(p)
        /\ unrecorded'[m] = unrecorded[m] + 1
    BY <1>0, <1>9 DEF BookkeepingFails, Unrecorded, diskVars
  <2> QED
    BY <1>0, <1>1, <2>1
<1> QED
  BY <1>3, <1>4, <1>5, <1>6, <1>7, <1>8, <1>9 DEF BookStep

LEMMA RetryBook ==
    ASSUME TypeOK, AckedInv, RetryInv, NEW p \in Procs, BookStep(p)
    PROVE  RetryInv'
<1>0. /\ JobOK /\ Working(p) /\ Target(p) \in Msgs
      /\ UNCHANGED <<attempts, todo, shared>>
      /\ MaxRetries \in Nat /\ attempts \in [Msgs -> Nat] /\ unrecorded \in [Msgs -> Nat]
  BY TypeParts, BookPC, BookLogs, ConstantsAssumption DEF CountsOK
<1>1. /\ job'[p].pc \in {"next", "done", "unlink", "fail", "rewrite"}
      /\ \A q \in Procs \ {p} : UNCHANGED job[q]
      /\ job'[p].pc \in Busy => Target(p)' = Target(p)
  BY <1>0, BookFrame
<1>2. ASSUME NEW m \in Msgs \ shared, m # Target(p) PROVE RetryOf(m)'
  <2>1. m \in onDisk' <=> m \in onDisk
    BY <1>2 DEF BookStep, AckRenames, AckFails, AckUnlinks, FailReads, FailWrites, Parks,
       BookkeepingFails, Unqueued, diskVars
  <2>2. UNCHANGED entry[m]
    BY <1>0, <1>2, TypeParts DEF DiskOK, BookStep, AckRenames, AckFails, AckUnlinks,
       FailReads, FailWrites, Parks, BookkeepingFails, diskVars
  <2>3. UNCHANGED unrecorded[m]
    <3>1. p \in Msgs => Target(p) = p
      BY Targets
    <3> QED
      BY <1>0, <1>2, <3>1, ConstantTypes DEF BookStep, AckRenames, AckFails, AckUnlinks,
         FailReads, FailWrites, Parks, BookkeepingFails, Unrecorded, logVars
  <2> QED
    BY <1>0, <1>1, <1>2, <2>1, <2>2, <2>3, BookHas, RetryOthers
<1>3. ASSUME NEW m \in Msgs \ shared, m = Target(p) PROVE RetryOf(m)'
  <2>1. /\ RetryOf(m) /\ WorksOn(p, m) /\ InHand(m) = 1 /\ job[m].pc # "idle"
        /\ \A r \in Recoveries : \A e \in todo[r] : e.id # m
        /\ \A q \in Procs \ {p} : ~WorksOn(q, m)
    BY <1>0, <1>3, OneHand
  <2>2. /\ m \in onDisk' =>
              \/ /\ job'[p].pc \in Busy
                 /\ attempts[m] <= entry'[m].retries + unrecorded'[m] + 1
              \/ attempts[m] <= entry'[m].retries + unrecorded'[m]
        /\ job'[p].pc = "rewrite" => m \in onDisk' /\ job'[p].retries = entry'[m].retries
        /\ job'[p].pc = "unlink" => m \notin onDisk'
        /\ job'[p].pc \in Busy => job'[p].queued = job[p].queued
        /\ unrecorded'[m] \in {unrecorded[m], unrecorded[m] + 1}
    BY <1>0, <1>3, <2>1, RetryBookCount
  <2>3. job'[m].pc # "idle"
    BY <1>1, <2>1, ConstantTypes
  <2>4. \A q \in Procs \ {p} : ~WorksOn(q, m)'
    BY <1>0, <2>1, BookHas
  <2>5. InHand(m)' = IF job'[p].pc \in Busy THEN 1 ELSE 0
    BY <1>1, <1>3, <2>4 DEF InHand, Held, WorksOn, Working
  <2>6. CountedOK(m)'
    <3>1. attempts'[m] <= MaxRetries + unrecorded'[m]
      BY <1>0, <2>1, <2>2 DEF RetryOf, CountedOK
    <3>2. entry'[m].retries \in Int \/ m \notin onDisk'
      <4>1. entry[m].retries \in Nat /\ job[p].retries \in Nat
        BY <1>0, TypeParts DEF DiskOK, Entries, JobOK, Jobs
      <4> QED
        BY <1>0, <1>3, <4>1, TypeParts DEF DiskOK, BookStep, AckRenames, AckFails, AckUnlinks,
           FailReads, FailWrites, Parks, BookkeepingFails, Counted, diskVars
    <3>3. m \in onDisk' => attempts'[m] <= entry'[m].retries + unrecorded'[m] + InHand(m)'
      BY <1>0, <2>2, <2>5, <3>2
    <3> QED
      BY <2>3, <3>1, <3>3 DEF CountedOK
  <2>7. LoadedOK(m)'
    BY <1>0, <2>1 DEF LoadedOK
  <2>8. HandOK(p, m)'
    <3>1. p = m /\ job'[p].pc \in Busy => job'[m].queued
      <4>1. job[p].pc # "sending"
        BY DEF BookStep, AckRenames, AckFails, AckUnlinks, FailReads, FailWrites, Parks,
           BookkeepingFails
      <4> QED
        BY <2>1, <2>2, <4>1 DEF RetryOf, HandOK
    <3> QED
      BY <2>2, <3>1 DEF HandOK, WorksOn, Working
  <2> QED
    BY <2>4, <2>6, <2>7, <2>8 DEF RetryOf, HandOK
<1> QED
  BY <1>0, <1>2, <1>3 DEF RetryInv

LEMMA RetryAccept ==
    ASSUME TypeOK, AckedInv, RetryInv, NEW m \in Msgs, NEW ok \in BOOLEAN, Accept(m, ok)
    PROVE  RetryInv'
<1>0. JobOK /\ job[m].pc = "idle" /\ UNCHANGED <<todo, shared, unrecorded>> /\ m \in Procs
  BY TypeParts, AcceptFrame, ConstantTypes DEF Accept, recoveryVars
<1>1. /\ job'[m].pc = "sending" /\ Working(m)'
      /\ \A q \in Procs \ {m} : UNCHANGED job[q]
  BY <1>0, AcceptFrame
<1>2. ASSUME NEW x \in Msgs \ shared, x # m PROVE RetryOf(x)'
  <2>1. RetryOf(x) /\ UNCHANGED job[x]
    BY <1>0, <1>1, <1>2, ConstantTypes DEF RetryInv
  <2>2. /\ x \in onDisk' <=> x \in onDisk
        /\ UNCHANGED <<entry[x], attempts[x]>>
    BY <1>2, TypeParts DEF Accept, DiskOK, CountsOK
  <2>3. ~WorksOn(m, x) /\ ~WorksOn(m, x)'
    BY <1>2, Targets, ConstantTypes, AcceptFrame, <1>0 DEF WorksOn
  <2>4. \A q \in Procs : (WorksOn(q, x)' <=> WorksOn(q, x))
    BY <1>0, <2>3, AcceptHas
  <2> QED
    BY <1>0, <1>1, <2>1, <2>2, <2>3, <2>4, RetryFrame
<1>3. ASSUME m \notin shared PROVE RetryOf(m)'
  <2>1. attempts[m] = 0 /\ unrecorded[m] \in Nat /\ MaxRetries \in Nat \ {0}
    BY <1>0, <1>3, TypeParts, ConstantsAssumption DEF RetryInv, RetryOf, CountedOK, CountsOK
  <2>2. attempts'[m] = 1
    BY <2>1, TypeParts DEF Accept, CountsOK
  <2>3. /\ ok => onDisk' = onDisk \cup {m} /\ entry'[m] = Fresh
        /\ ~ok => onDisk' = onDisk
        /\ job'[m].queued = ok
    BY TypeParts, ConstantTypes DEF Accept, DiskOK, JobOK, Idle
  <2>4. m \notin onDisk /\ \A q \in Procs : ~Has(q, m)
    BY <1>0 DEF AckedInv, UnknownInv
  <2>5. WorksOn(m, m)' /\ InHand(m)' = 1
    BY <1>0, <1>1, AcceptFrame, Targets DEF WorksOn, Held, InHand
  <2>6. \A q \in Procs \ {m} : ~WorksOn(q, m)'
    BY <1>0, <2>4, AcceptHas, WorkerHas
  <2>7. CountedOK(m)'
    BY <1>0, <1>1, <2>1, <2>2, <2>3, <2>4, <2>5 DEF CountedOK, Fresh
  <2>8. LoadedOK(m)'
    BY <1>0, <2>4, ConstantTypes DEF LoadedOK, Has
  <2>9. HandOK(m, m)'
    BY <1>1, <2>3, <2>4 DEF HandOK
  <2> QED
    BY <2>6, <2>7, <2>8, <2>9 DEF RetryOf, HandOK
<1> QED
  BY <1>0, <1>2, <1>3 DEF RetryInv

LEMMA RetryReads ==
    ASSUME TypeOK, AckedInv, RetryInv, NEW r \in Recoveries, RecoveryReads(r)
    PROVE  RetryInv'
<1>0. /\ RecoveryLoop(r) /\ JobOK /\ RecoveryOK /\ r \in Procs
      /\ UNCHANGED <<onDisk, entry, unrecorded, attempts>>
      /\ todo' = [todo EXCEPT ![r] = {Snapshot(m) : m \in names[r] \cap onDisk}]
      /\ shared' = shared \cup {m \in names[r] \cap onDisk : \E p \in Procs : Has(p, m)}
      /\ job[r].pc = "read" /\ At(r, "next")
  BY TypeParts, ConstantTypes DEF RecoveryLoop, RecoveryReads, diskVars
<1>1. ~Working(r) /\ ~Working(r)' /\ \A q \in Procs \ {r} : UNCHANGED job[q]
  BY <1>0 DEF JobOK, Jobs, At, Working, Busy
<1>2. ASSUME NEW m \in Msgs \ shared' PROVE RetryOf(m)'
  <2>1. RetryOf(m) /\ m \notin shared
    BY <1>0, <1>2 DEF RetryInv
  <2>2. \A q \in Procs : (WorksOn(q, m)' <=> WorksOn(q, m))
    BY <1>0, <1>1, LoopHas DEF WorksOn
  <2>3. UNCHANGED job[m]
    BY <1>1, ConstantTypes
  <2>4. (Held(m)' <=> Held(m)) /\ InHand(m)' = InHand(m) /\ Snapshot(m)' = Snapshot(m)
    BY <1>0, <2>2 DEF Held, InHand, Snapshot
  <2>5. CountedOK(m)'
    BY <1>0, <2>1, <2>3, <2>4 DEF RetryOf, CountedOK
  <2>6. LoadedOK(m)'
    <3>1. ASSUME NEW s \in Recoveries, NEW e \in todo'[s], e.id = m
          PROVE  e = Snapshot(m)' /\ m \in onDisk' /\ ~Held(m)'
      <4>1. CASE s = r
        <5>1. e = Snapshot(m) /\ m \in names[r] \cap onDisk
          BY <1>0, <3>1, <4>1 DEF RecoveryOK, Snapshot
        <5>2. ~Held(m)
          BY <1>0, <1>2, <5>1, WorkerHas DEF Held
        <5> QED
          BY <1>0, <2>4, <5>1, <5>2
      <4>2. CASE s # r
        <5>1. e \in todo[s]
          BY <1>0, <3>1, <4>2 DEF RecoveryOK
        <5> QED
          BY <1>0, <2>1, <2>4, <3>1, <5>1 DEF RetryOf, LoadedOK
      <4> QED
        BY <4>1, <4>2
    <3> QED
      BY <3>1 DEF LoadedOK
  <2>7. ASSUME NEW q \in Procs PROVE HandOK(q, m)'
    <3>1. CASE q = r
      BY <1>1, <3>1 DEF HandOK, WorksOn
    <3>2. CASE q # r
      BY <1>0, <1>1, <2>1, <2>2, <2>3, <3>2 DEF RetryOf, HandOK
    <3> QED
      BY <3>1, <3>2
  <2> QED
    BY <2>5, <2>6, <2>7 DEF RetryOf
<1> QED
  BY <1>2 DEF RetryInv

(* A recovery takes up an entry that is in no other hand.                  *)
LEMMA RetryTakes ==
    ASSUME TypeOK, AckedInv, RetryInv, NEW r \in Recoveries, NEW e \in todo[r],
           NEW pc \in {"fail", "park", "sending"}, Takes(r, e, pc), job[r].pc = "next",
           UNCHANGED <<onDisk, entry, unrecorded, shared>>,
           IF pc = "sending"
           THEN ~Exhausted(e) /\ attempts' = [attempts EXCEPT ![e.id] = @ + 1]
           ELSE UNCHANGED attempts
    PROVE  RetryInv'
<1>0. /\ JobOK /\ RecoveryOK /\ r \in Procs /\ e \in Snapshots /\ e.id \in Msgs
      /\ job'[r].pc = pc /\ Target(r)' = e.id
      /\ \A q \in Procs \ {r} : UNCHANGED job[q] /\ Target(q)' = Target(q)
      /\ todo'[r] = todo[r] \ {e} /\ \A s \in Recoveries \ {r} : todo'[s] = todo[s]
  BY TypeParts, TakesFrame, ConstantTypes
<1>1. ~Working(r) /\ Working(r)' /\ \A m \in Msgs : UNCHANGED job[m]
  BY <1>0, ConstantTypes DEF Working, Busy
<1>2. \A q \in Procs \ {r}, m \in Msgs : (WorksOn(q, m)' <=> WorksOn(q, m))
  BY <1>0 DEF WorksOn, Working
<1>3. ASSUME NEW m \in Msgs \ shared, m # e.id PROVE RetryOf(m)'
  <2>1. UNCHANGED attempts[m]
    BY <1>3, TypeParts DEF CountsOK
  <2>2. ~WorksOn(r, m) /\ ~WorksOn(r, m)'
    BY <1>0, <1>1, <1>3 DEF WorksOn
  <2>3. \A s \in Recoveries : todo'[s] \subseteq todo[s]
    BY <1>0
  <2>4. RetryOf(m) /\ \A q \in Procs : (WorksOn(q, m)' <=> WorksOn(q, m))
    BY <1>2, <2>2, <1>3 DEF RetryInv
  <2>5. \A q \in Procs : WorksOn(q, m) => UNCHANGED job[q]
    BY <1>0, <2>2
  <2> QED
    BY <1>1, <2>1, <2>3, <2>4, <2>5, RetryFrame
<1>4. ASSUME NEW m \in Msgs \ shared, m = e.id PROVE RetryOf(m)'
  <2>1. RetryOf(m) /\ e = Snapshot(m) /\ m \in onDisk /\ ~Held(m) /\ InHand(m) = 0
    BY <1>0, <1>4 DEF RetryInv, RetryOf, LoadedOK, InHand
  <2>2. Has(r, m)
    BY <1>4 DEF Has
  <2>3. job[m].pc # "idle"
    BY <1>0, <2>2 DEF AckedInv, UnknownInv
  <2>4. ASSUME NEW s \in Recoveries, NEW o \in todo'[s], o.id = m PROVE FALSE
    <3>1. CASE s = r
      BY <1>0, <2>1, <2>4, <3>1 DEF RetryOf, LoadedOK
    <3>2. CASE s # r
      <4>1. Has(s, m)
        BY <1>0, <2>4, <3>2 DEF Has
      <4> QED
        BY <1>4, <2>2, <3>2, <4>1, ConstantTypes DEF AckedInv, OverlapInv
    <3> QED
      BY <3>1, <3>2
  <2>5. WorksOn(r, m)' /\ InHand(m)' = 1
    BY <1>0, <1>1, <1>4 DEF WorksOn, Held, InHand
  <2>6. /\ attempts[m] \in Nat /\ unrecorded[m] \in Nat /\ entry[m].retries \in Nat
        /\ MaxRetries \in Nat /\ e.retries = entry[m].retries
    BY <2>1, TypeParts, ConstantsAssumption DEF CountsOK, DiskOK, Entries, Snapshot
  <2>7. /\ attempts'[m] <= MaxRetries + unrecorded[m]
        /\ attempts'[m] <= entry[m].retries + unrecorded[m] + 1
    <3>1. attempts[m] <= entry[m].retries + unrecorded[m]
      BY <2>1, <2>6 DEF RetryOf, CountedOK
    <3>2. CASE pc = "sending"
      <4>1. entry[m].retries < MaxRetries
        BY <2>6, <3>2 DEF Exhausted
      <4>2. attempts'[m] = attempts[m] + 1
        BY <1>4, <3>2, TypeParts DEF CountsOK
      <4> QED
        BY <2>6, <3>1, <4>1, <4>2
    <3>3. CASE pc # "sending"
      BY <2>1, <2>6, <3>1, <3>3 DEF RetryOf, CountedOK
    <3> QED
      BY <3>2, <3>3
  <2>8. CountedOK(m)'
    BY <1>1, <2>3, <2>5, <2>7 DEF CountedOK
  <2>9. LoadedOK(m)'
    BY <2>4 DEF LoadedOK
  <2>10. ASSUME NEW q \in Procs PROVE HandOK(q, m)'
    <3>1. CASE q = r
      BY <1>0, <3>1, ConstantTypes DEF HandOK
    <3>2. CASE q # r
      BY <1>2, <2>1, <3>2 DEF Held, HandOK
    <3> QED
      BY <3>1, <3>2
  <2> QED
    BY <2>8, <2>9, <2>10 DEF RetryOf
<1> QED
  BY <1>3, <1>4 DEF RetryInv

LEMMA RetryLoop ==
    ASSUME TypeOK, AckedInv, RetryInv, NEW r \in Recoveries, RecoveryLoop(r)
    PROVE  RetryInv'
<1>0. /\ JobOK /\ RecoveryOK /\ r \in Procs /\ \A q \in Procs \ {r} : UNCHANGED job[q]
      /\ \A m \in Msgs : UNCHANGED job[m]
  BY TypeParts, LoopFrame, ConstantTypes
<1>1. CASE RecoveryLists(r) \/ RecoveryEnds(r) \/ \E e \in todo[r] : RecoverySkips(r, e)
  <2>1. /\ UNCHANGED <<onDisk, entry, unrecorded, attempts, shared>>
        /\ job[r].pc \notin Busy /\ job'[r].pc \notin Busy
    <3>1. ASSUME NEW pc \in {"read", "done"}, At(r, pc) PROVE job'[r].pc \notin Busy
      BY <1>0, <3>1 DEF At, JobOK, Jobs, Busy
    <3> QED
      BY <1>1, <3>1 DEF RecoveryLists, RecoveryEnds, RecoverySkips, IsNext, diskVars, logVars, Busy
  <2>2. \A s \in Recoveries : todo'[s] \subseteq todo[s]
    BY <1>0, <1>1 DEF RecoveryLists, RecoveryEnds, RecoverySkips, RecoveryOK
  <2>3. ~Working(r) /\ ~Working(r)'
    BY <2>1 DEF Working
  <2>4. ASSUME NEW m \in Msgs \ shared PROVE RetryOf(m)'
    <3>1. ~WorksOn(r, m) /\ ~WorksOn(r, m)'
      BY <2>3 DEF WorksOn
    <3>2. \A q \in Procs : /\ (WorksOn(q, m)' <=> WorksOn(q, m))
                           /\ WorksOn(q, m) => UNCHANGED job[q]
      BY <1>0, <3>1, LoopHas
    <3> QED
      BY <1>0, <2>1, <2>2, <3>2, RetryFrame DEF RetryInv
  <2> QED
    BY <2>1, <2>4 DEF RetryInv
<1>2. CASE RecoveryReads(r)
  BY <1>2, RetryReads
<1>3. ASSUME NEW e \in todo[r], RecoveryDefers(r, e) \/ RecoveryGivesUp(r, e) \/ RecoveryAttempts(r, e)
      PROVE  RetryInv'
  <2>1. job[r].pc = "next" /\ UNCHANGED <<onDisk, entry, unrecorded, shared>>
    BY <1>3 DEF RecoveryDefers, RecoveryGivesUp, RecoveryAttempts, IsNext, diskVars, logVars
  <2>2. CASE RecoveryDefers(r, e) \/ RecoveryGivesUp(r, e)
    BY <2>1, <2>2, RetryTakes DEF RecoveryDefers, RecoveryGivesUp, logVars
  <2>3. CASE RecoveryAttempts(r, e)
    BY <2>1, <2>3, RetryTakes DEF RecoveryAttempts
  <2> QED
    BY <1>3, <2>2, <2>3
<1> QED
  BY <1>1, <1>2, <1>3 DEF RecoveryLoop

LEMMA RetryProcess ==
    ASSUME TypeOK, AckedInv, RetryInv,
           Crash \/ Stop \/ \E r \in Recoveries : Start(r) \/ Restart(r)
    PROVE  RetryInv'
<1>0. /\ JobOK /\ attempts \in [Msgs -> Nat] /\ unrecorded \in [Msgs -> Nat]
      /\ entry \in [Msgs -> Entries] /\ MaxRetries \in Nat
      /\ UNCHANGED <<onDisk, entry, attempts, shared>>
  BY TypeParts, ProcessLogs, ConstantsAssumption DEF CountsOK, DiskOK, diskVars
<1>1. CASE Crash \/ Stop
  <2>1. Halt /\ \A r \in Recoveries : todo'[r] = {}
    BY <1>1 DEF Crash, Stop, Halt
  <2>2. ASSUME NEW m \in Msgs PROVE unrecorded'[m] = unrecorded[m] + InHand(m)
    <3>1. CASE Crash
      BY <1>0, <3>1 DEF Crash, InHand, Held
    <3>2. CASE Stop
      <4>1. ~Held(m) /\ unrecorded' = unrecorded
        BY <3>2 DEF Stop, Held, WorksOn
      <4> QED
        BY <1>0, <4>1 DEF InHand
    <3> QED
      BY <1>1, <3>1, <3>2
  <2>3. ASSUME NEW m \in Msgs \ shared PROVE RetryOf(m)'
    <3>1. RetryOf(m) /\ entry[m].retries \in Nat /\ attempts[m] \in Nat /\ unrecorded[m] \in Nat
      BY <1>0 DEF RetryInv, Entries
    <3>2. \A p \in Procs : ~WorksOn(p, m)'
      BY <1>0, <2>1, HaltHas
    <3>3. InHand(m)' = 0 /\ InHand(m) \in {0, 1}
      BY <3>2 DEF InHand, Held
    <3>4. /\ attempts'[m] <= MaxRetries + unrecorded'[m]
          /\ m \in onDisk' => attempts'[m] <= entry'[m].retries + unrecorded'[m] + InHand(m)'
      BY <1>0, <2>2, <3>1, <3>3 DEF RetryOf, CountedOK
    <3>5. job'[m].pc = "idle" => attempts'[m] = 0
      <4>1. job'[m].pc = "idle" => job[m].pc = "idle"
        BY <1>0, <2>1, HaltFrame, ConstantTypes
      <4> QED
        BY <1>0, <3>1, <4>1 DEF RetryOf, CountedOK
    <3>6. CountedOK(m)'
      BY <3>4, <3>5 DEF CountedOK
    <3> QED
      BY <2>1, <3>2, <3>6 DEF RetryOf, LoadedOK, HandOK
  <2> QED
    BY <1>0, <2>3 DEF RetryInv
<1>2. ASSUME NEW r \in Recoveries, Start(r) \/ Restart(r) PROVE RetryInv'
  <2>1. Recover(r) /\ UNCHANGED <<todo, unrecorded>>
    BY <1>2 DEF Start, Restart, Recover, recoveryVars, logVars
  <2>2. /\ ~Working(r) /\ \A q \in Procs \ {r} : UNCHANGED job[q]
        /\ \A m \in Msgs : UNCHANGED job[m]
    BY <1>0, <2>1, RecoverFrame, ConstantTypes
  <2>3. ASSUME NEW m \in Msgs \ shared PROVE RetryOf(m)'
    <3>1. \A q \in Procs : (WorksOn(q, m)' <=> WorksOn(q, m))
      BY <1>0, <2>1, RecoverHas
    <3>2. \A q \in Procs : WorksOn(q, m) => UNCHANGED job[q]
      BY <2>2 DEF WorksOn
    <3> QED
      BY <1>0, <2>1, <2>2, <3>1, <3>2, RetryFrame DEF RetryInv
  <2> QED
    BY <1>0, <2>3 DEF RetryInv
<1> QED
  BY <1>1, <1>2

LEMMA RetryNext == TypeOK /\ AckedInv /\ RetryInv /\ [Next]_vars => RetryInv'
<1>1. ASSUME RetryInv, UNCHANGED <<diskVars, job, recoveryVars, shared, attempts, unrecorded>>
      PROVE  RetryInv'
  BY <1>1 DEF RetryInv, RetryOf, CountedOK, LoadedOK, HandOK, InHand, Held, WorksOn, Working,
     Target, Snapshot, diskVars, recoveryVars
<1>2. ASSUME RetryInv, NEW m \in Msgs, CallerAborts(m) PROVE RetryInv'
  BY <1>1, <1>2 DEF CallerAborts
<1>3. ASSUME RetryInv, UNCHANGED vars PROVE RetryInv'
  BY <1>1, <1>3 DEF vars, logVars
<1> QED
  BY <1>2, <1>3, RetryAccept, RetrySend, RetryBook, RetryLoop, RetryProcess, NextCases

(* A delivery that no recovery loaded while its live send or another       *)
(* recovery had it is sent at most MAX_RETRIES times, plus the sends that  *)
(* a crash or a fault of the bookkeeping kept from its entry.              *)
THEOREM RetriesBoundedHolds == Spec => []RetriesBounded
<1>1. RetryInv => RetriesBounded
  BY DEF RetryInv, RetryOf, CountedOK, RetriesBounded
<1> QED
  BY AckedInit, AckedNext, RetryInit, RetryNext, TypeCorrect, <1>1, PTL DEF Spec

-----------------------------------------------------------------------------
(* The promise of DeliveryStore.  It takes from the invariants above that  *)
(* an entry is only renamed away when its delivery is done with (SentInv), *)
(* and that only a delivery in two hands is written back (RetryInv); what  *)
(* is new is that a delivery is written to the queue once.                 *)
OnceInv == \A m \in Msgs : WasQueued(m) => job[m].pc # "idle"

LEMMA NothingQueuedFirst == Init => \A m \in Msgs : ~WasQueued(m)
<1>1. \A i \in DOMAIN <<>> : FALSE
  OBVIOUS
<1> QED
  BY <1>1 DEF Init, WasQueued

(* A step that submits nothing, and a process that was started once.       *)
LEMMA OnceFrame ==
    ASSUME OnceInv, UNCHANGED enqueued,
           \A m \in Msgs : job'[m].pc = "idle" => job[m].pc = "idle"
    PROVE  OnceInv'
BY DEF OnceInv, WasQueued

LEMMA OnceNext == TypeOK /\ OnceInv /\ [Next]_vars => OnceInv'
<1> SUFFICES ASSUME TypeOK, OnceInv, [Next]_vars PROVE OnceInv'
  OBVIOUS
<1>0. JobOK /\ enqueued \in Seq(Msgs)
  BY TypeParts DEF LogOK
<1>1. ASSUME NEW m \in Msgs, NEW ok \in BOOLEAN, Accept(m, ok) PROVE OnceInv'
  <2>1. job'[m].pc = "sending" /\ \A x \in Msgs \ {m} : UNCHANGED job[x]
    BY <1>0, <1>1, AcceptFrame, ConstantTypes
  <2>2. ASSUME NEW x \in Msgs \ {m}, WasQueued(x)' PROVE WasQueued(x)
    <3>1. enqueued' = enqueued \/ enqueued' = Append(enqueued, m)
      BY <1>1 DEF Accept
    <3> QED
      BY <1>0, <2>2, <3>1 DEF WasQueued
  <2> QED
    BY <2>1, <2>2 DEF OnceInv
<1>2. ASSUME NEW p \in Procs, SendStep(p) PROVE OnceInv'
  <2>1. UNCHANGED enqueued /\ job'[p].pc # "idle" /\ \A q \in Procs \ {p} : UNCHANGED job[q]
    BY <1>0, <1>2, SendFrame, SendPC, SendOthers
  <2> QED
    BY <2>1, ConstantTypes, OnceFrame
<1>3. ASSUME NEW p \in Procs, BookStep(p) PROVE OnceInv'
  <2>1. UNCHANGED enqueued /\ job'[p].pc # "idle" /\ \A q \in Procs \ {p} : UNCHANGED job[q]
    BY <1>0, <1>3, BookLogs, BookFrame
  <2> QED
    BY <2>1, ConstantTypes, OnceFrame
<1>4. ASSUME NEW r \in Recoveries, RecoveryLoop(r) PROVE OnceInv'
  BY <1>4, LoopLogs, LoopFrame, ConstantTypes, OnceFrame
<1>5. CASE Crash \/ Stop \/ \E r \in Recoveries : Start(r) \/ Restart(r)
  <2>1. UNCHANGED enqueued
    BY <1>5, ProcessLogs
  <2>2. \A m \in Msgs : job'[m].pc = "idle" => job[m].pc = "idle"
    BY <1>0, <1>5, HaltFrame, RecoverFrame, ConstantTypes DEF Crash, Stop, Start, Restart
  <2> QED
    BY <2>1, <2>2, OnceFrame
<1>6. ASSUME NEW m \in Msgs, CallerAborts(m) PROVE OnceInv'
  BY <1>6, OnceFrame DEF CallerAborts
<1>7. CASE UNCHANGED vars
  BY <1>7, OnceFrame DEF vars, logVars
<1> QED
  BY <1>1, <1>2, <1>3, <1>4, <1>5, <1>6, <1>7, NextCases

-----------------------------------------------------------------------------
(* Each step as the store sees it.                                         *)
LEMMA StoreStutters ==
    ASSUME UNCHANGED <<enqueued, onDisk, parked, got, aborted, cutOff, shared>>
    PROVE  UNCHANGED Store!vars
BY DEF Store!vars, WasQueued, GivenUp

(* A send may complete what the recipient has, or be broken off, or both.  *)
LEMMA StoreSend ==
    ASSUME TypeOK, TypeOK', Grows, NEW p \in Procs, SendStep(p)
    PROVE  [Store!Next]_Store!vars
<1> PICK m \in Msgs : m = Target(p)
  BY SendGot
<1> DEFINE Received == {x \in Strict : got[x] = Parts}
<1> DEFINE ReceivedNext == {x \in Strict : got'[x] = Parts}
<1>0. /\ UNCHANGED <<enqueued, onDisk, parked, aborted, shared>>
      /\ \A x \in Msgs \ {m} : UNCHANGED got[x]
      /\ cutOff' = cutOff \/ (p \in Strict /\ m = p /\ cutOff' = cutOff \cup {p})
  <2>1. \A x \in Msgs \ {m} : UNCHANGED got[x]
    <3>1. got \in [Msgs -> SUBSET Parts]
      BY TypeParts DEF LogOK
    <3> QED
      BY <3>1, SendGot
  <2>2. UNCHANGED <<enqueued, onDisk, parked, aborted, shared>>
    BY SendFrame DEF diskVars
  <2>3. cutOff' = cutOff \/ (p \in Strict /\ cutOff' = cutOff \cup {p})
    BY DEF SendStep, PartSent, PartFails, PartAborted
  <2>4. p \in Strict => m = p
    BY Targets DEF Strict
  <2> QED
    BY <2>1, <2>2, <2>3, <2>4
<1>1. got[m] = Parts => got'[m] = Parts
  BY <1>0 DEF TypeOK, Grows
<1>2. ReceivedNext = Received \/ (m \in Strict /\ ReceivedNext = Received \cup {m})
  BY <1>0, <1>1 DEF Strict
<1>3. CASE cutOff' = cutOff
  <2>1. CASE ReceivedNext = Received
    BY <1>0, <1>3, <2>1 DEF Store!vars, WasQueued, GivenUp
  <2>2. CASE m \in Strict /\ ReceivedNext = Received \cup {m}
    <3>1. Store!Receive(m)
      BY <1>0, <1>3, <2>2 DEF Store!Receive, WasQueued, GivenUp
    <3> QED
      BY <2>2, <3>1 DEF Store!Next
  <2> QED
    BY <1>2, <2>1, <2>2
<1>4. CASE p \in Strict /\ m = p /\ cutOff' = cutOff \cup {p}
  <2>1. GivenUp' \cap Strict = (GivenUp \cap Strict) \cup {m}
    BY <1>0, <1>4 DEF GivenUp
  <2>2. ReceivedNext \in {Received, Received \cup {m}}
    BY <1>2
  <2>3. Store!GiveUp(m)
    BY <1>0, <2>1, <2>2 DEF Store!GiveUp, WasQueued
  <2> QED
    BY <1>4, <2>3 DEF Store!Next
<1> QED
  BY <1>0, <1>3, <1>4

LEMMA StoreAccept ==
    ASSUME TypeOK, OnceInv, NEW m \in Msgs, NEW ok \in BOOLEAN, Accept(m, ok)
    PROVE  [Store!Next]_Store!vars
<1>0. /\ enqueued \in Seq(Msgs) /\ job[m].pc = "idle"
      /\ UNCHANGED <<parked, got, aborted, cutOff, shared>>
  BY DEF TypeOK, Accept
<1>1. CASE ~ok
  BY <1>0, <1>1, StoreStutters DEF Accept
<1>2. CASE ok
  <2>1. enqueued' = Append(enqueued, m) /\ onDisk' = onDisk \cup {m}
    BY <1>2 DEF Accept
  <2>2. \A x \in Msgs : WasQueued(x)' <=> WasQueued(x) \/ x = m
    <3>1. \A i \in DOMAIN enqueued : i \in DOMAIN enqueued' /\ enqueued'[i] = enqueued[i]
      BY <1>0, <2>1
    <3>2. enqueued'[Len(enqueued) + 1] = m /\ Len(enqueued) + 1 \in DOMAIN enqueued'
      BY <1>0, <2>1
    <3>3. \A i \in DOMAIN enqueued' : i \in DOMAIN enqueued \/ i = Len(enqueued) + 1
      BY <1>0, <2>1
    <3> QED
      BY <3>1, <3>2, <3>3 DEF WasQueued
  <2>3. ~WasQueued(m)
    BY <1>0 DEF OnceInv
  <2>4. CASE m \in Strict
    <3>1. {x \in Strict : WasQueued(x)'} = {x \in Strict : WasQueued(x)} \cup {m}
      BY <2>2, <2>4 DEF Strict
    <3>2. Store!Accept(m)
      BY <1>0, <2>1, <2>3, <2>4, <3>1 DEF Store!Accept, Strict, GivenUp
    <3> QED
      BY <2>4, <3>2 DEF Store!Next
  <2>5. CASE m \notin Strict
    <3>1. {x \in Strict : WasQueued(x)'} = {x \in Strict : WasQueued(x)}
      BY <2>2, <2>5 DEF Strict
    <3>2. onDisk' \cap Strict = onDisk \cap Strict
      BY <2>1, <2>5
    <3>3. UNCHANGED Store!vars
      BY <1>0, <3>1, <3>2 DEF Store!vars, Strict, GivenUp
    <3> QED
      BY <3>3
  <2> QED
    BY <2>4, <2>5
<1> QED
  BY <1>1, <1>2

LEMMA StoreAborts ==
    ASSUME NEW m \in Msgs, CallerAborts(m)
    PROVE  [Store!Next]_Store!vars
<1>1. /\ GivenUp' = GivenUp \cup {m}
      /\ UNCHANGED <<enqueued, onDisk, parked, got, shared>>
  BY DEF CallerAborts, GivenUp, diskVars
<1>2. CASE m \in Strict
  <2>1. GivenUp' \cap Strict = (GivenUp \cap Strict) \cup {m}
    BY <1>1, <1>2
  <2>2. Store!GiveUp(m)
    BY <1>1, <2>1 DEF Store!GiveUp, WasQueued
  <2> QED
    BY <1>2, <2>2 DEF Store!Next
<1>3. CASE m \notin Strict
  <2>1. GivenUp' \cap Strict = GivenUp \cap Strict
    BY <1>1, <1>3
  <2> QED
    BY <1>1, <2>1 DEF Store!vars, WasQueued
<1> QED
  BY <1>2, <1>3

(* Bookkeeping is what removes deliveries, puts them aside and brings them *)
(* back.                                                                   *)
LEMMA StoreBook ==
    ASSUME TypeOK, SentInv, RetryInv, NEW p \in Procs, BookStep(p)
    PROVE  [Store!Next]_Store!vars
<1> DEFINE m == Target(p)
<1>0. m \in Msgs /\ WorksOn(p, m) /\ UNCHANGED <<enqueued, got, shared>> /\ GivenUp' = GivenUp
  BY TypeParts, BookPC, BookLogs DEF GivenUp, WorksOn
<1>1. CASE UNCHANGED <<onDisk, parked>>
  BY <1>0, <1>1 DEF Store!vars, WasQueued
<1>2. CASE AckRenames(p) /\ m \in onDisk
  <2>1. onDisk' = onDisk \ {m} /\ UNCHANGED parked /\ job[p].pc = "ack"
    BY <1>2 DEF AckRenames, Unqueued
  <2>2. CASE m \in Strict
    <3>1. got[m] = Parts \/ m \in GivenUp
      BY <2>1, <2>2 DEF SentInv, Sent, Delivered, Strict
    <3>2. onDisk' \cap Strict = (onDisk \cap Strict) \ {m}
      BY <2>1
    <3>3. m \in {x \in Strict : got[x] = Parts} \cup (GivenUp \cap Strict)
      BY <2>2, <3>1
    <3>4. Store!Remove(m)
      BY <1>0, <1>2, <2>1, <2>2, <3>2, <3>3 DEF Store!Remove, WasQueued
    <3> QED
      BY <2>2, <3>4 DEF Store!Next
  <2>3. CASE m \notin Strict
    <3>1. onDisk' \cap Strict = onDisk \cap Strict
      BY <2>1, <2>3
    <3> QED
      BY <1>0, <2>1, <3>1 DEF Store!vars, WasQueued
  <2> QED
    BY <2>2, <2>3
<1>3. CASE Parks(p) /\ m \in onDisk
  <2>1. onDisk' = onDisk \ {m} /\ parked' = parked \cup {m}
    BY <1>3 DEF Parks, Unqueued
  <2>2. CASE m \in Strict
    <3>1. /\ onDisk' \cap Strict = (onDisk \cap Strict) \ {m}
          /\ parked' \cap Strict = (parked \cap Strict) \cup {m}
      BY <2>1, <2>2
    <3>2. Store!PutAside(m)
      BY <1>0, <1>3, <2>2, <3>1 DEF Store!PutAside, WasQueued
    <3> QED
      BY <2>2, <3>2 DEF Store!Next
  <2>3. CASE m \notin Strict
    <3>1. onDisk' \cap Strict = onDisk \cap Strict /\ parked' \cap Strict = parked \cap Strict
      BY <2>1, <2>3
    <3> QED
      BY <1>0, <3>1 DEF Store!vars, WasQueued
  <2> QED
    BY <2>2, <2>3
<1>4. CASE FailWrites(p)
  <2>1. onDisk' = onDisk \cup {m} /\ UNCHANGED parked /\ job[p].pc = "rewrite"
    BY <1>4 DEF FailWrites
  <2>2. m \in shared \/ m \in onDisk
    BY <1>0, <2>1 DEF RetryInv, RetryOf, HandOK
  <2>3. CASE m \in Strict /\ m \notin onDisk
    <3>1. onDisk' \cap Strict = (onDisk \cap Strict) \cup {m}
      BY <2>1, <2>3
    <3>2. Store!Return(m)
      BY <1>0, <2>1, <2>2, <2>3, <3>1 DEF Store!Return, WasQueued
    <3> QED
      BY <2>3, <3>2 DEF Store!Next
  <2>4. CASE m \notin Strict \/ m \in onDisk
    <3>1. onDisk' \cap Strict = onDisk \cap Strict
      BY <2>1, <2>4
    <3> QED
      BY <1>0, <2>1, <3>1 DEF Store!vars, WasQueued
  <2> QED
    BY <2>3, <2>4
<1> QED
  BY <1>1, <1>2, <1>3, <1>4 DEF BookStep, AckRenames, AckFails, AckUnlinks, FailReads, Parks,
     BookkeepingFails, diskVars

LEMMA StoreLoop ==
    ASSUME NEW r \in Recoveries, RecoveryLoop(r)
    PROVE  [Store!Next]_Store!vars
<1>0. UNCHANGED <<enqueued, onDisk, parked, got, aborted, cutOff>>
  BY LoopLogs
<1>1. CASE RecoveryReads(r)
  <2> DEFINE ds == {m \in names[r] \cap onDisk : \E p \in Procs : Has(p, m)}
  <2>1. shared' = shared \cup ds
    BY <1>1 DEF RecoveryReads
  <2>2. ds \cap Strict \subseteq onDisk \cap Strict /\ ds \cap Strict \in SUBSET Strict
    OBVIOUS
  <2>3. shared' \cap Strict = (shared \cap Strict) \cup (ds \cap Strict)
    BY <2>1
  <2> HIDE DEF ds
  <2>4. Store!Dispute(ds \cap Strict)
    BY <1>0, <2>2, <2>3 DEF Store!Dispute, WasQueued, GivenUp
  <2> QED
    BY <2>2, <2>4 DEF Store!Next
<1>2. CASE ~RecoveryReads(r)
  <2>1. UNCHANGED shared
    BY <1>2 DEF RecoveryLoop, RecoveryLists, RecoveryEnds, RecoveryDefers,
       RecoveryGivesUp, RecoverySkips, RecoveryAttempts, logVars
  <2> QED
    BY <1>0, <2>1, StoreStutters
<1> QED
  BY <1>1, <1>2

-----------------------------------------------------------------------------
LEMMA StoreInit == Init => Store!Init
<1> SUFFICES ASSUME Init PROVE Store!Init
  OBVIOUS
<1>1. \A m \in Msgs : ~WasQueued(m) /\ got[m] # Parts
  BY ConstantTypes, NothingQueuedFirst DEF Init
<1>2. {m \in Strict : WasQueued(m)} = {} /\ {m \in Strict : got[m] = Parts} = {}
  BY <1>1 DEF Strict
<1> QED
  BY <1>2 DEF Init, Store!Init, GivenUp

StoreInv == SentInv /\ RetryInv /\ OnceInv

LEMMA StoreNext == TypeOK /\ TypeOK' /\ StoreInv /\ [Next]_vars => [Store!Next]_Store!vars
<1> SUFFICES ASSUME TypeOK, TypeOK', StoreInv, [Next]_vars PROVE [Store!Next]_Store!vars
  OBVIOUS
<1>0. SentInv /\ RetryInv /\ OnceInv
  BY DEF StoreInv
<1>1. ASSUME Next, NEW p \in Procs, SendStep(p) PROVE [Store!Next]_Store!vars
  BY <1>1, NextGrows, StoreSend
<1>2. CASE Crash \/ Stop \/ \E r \in Recoveries : Start(r) \/ Restart(r)
  BY <1>2, ProcessLogs, StoreStutters DEF diskVars
<1>3. CASE UNCHANGED vars
  BY <1>3, StoreStutters DEF vars, diskVars, logVars
<1> QED
  BY <1>0, <1>1, <1>2, <1>3, StoreAccept, StoreAborts, StoreBook, StoreLoop, NextCases

(* Of strict deliveries the queue implements DeliveryStore: whatever fails *)
(* or crashes, a delivery leaves the store only when it was received whole *)
(* or given up, and comes back only if two processes had it at the same    *)
(* time.                                                                   *)
THEOREM StoreRefined == Spec => KeepsPromise
<1>1. Init => OnceInv
  BY NothingQueuedFirst DEF OnceInv
<1>2. Spec => []SentInv
  <2>1. StrictInv => SentInv
    BY DEF StrictInv
  <2> QED
    BY StrictInit, StrictNext, TypeCorrect, <2>1, PTL DEF Spec
<1>3. Spec => [](RetryInv /\ OnceInv)
  BY AckedInit, AckedNext, RetryInit, RetryNext, <1>1, OnceNext, TypeCorrect, PTL DEF Spec
<1>4. SentInv /\ RetryInv /\ OnceInv => StoreInv
  BY DEF StoreInv
<1> QED
  BY StoreInit, StoreNext, TypeCorrect, <1>2, <1>3, <1>4, PTL DEF Spec, KeepsPromise, Store!Spec
=============================================================================
