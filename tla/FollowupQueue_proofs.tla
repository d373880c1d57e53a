------------------------ MODULE FollowupQueue_proofs ------------------------
(***************************************************************************)
(* Proofs about the follow-up queue of a session, for any messages,        *)
(* routes, capacity and number of queue objects: types and capacity, that  *)
(* no message is answered twice, that a discarded message gets no run, and *)
(* that without drops and clears none is lost or answered out of order.    *)
(*                                                                         *)
(* A drain loop works on items that others push to, drop from and clear    *)
(* while its run is awaited, and takes items off by their number when the  *)
(* run is over.  HeldInv says that a message is in one place only, and     *)
(* TakenInv that the items a loop leaves in the queue are not in its run.  *)
(* FifoInv says that what was accepted is what ran followed by what waits. *)
(***************************************************************************)
EXTENDS FollowupQueue, SequenceTheorems, TLAPS

DrainType == [pc : {"idle", "debounce", "checked", "running"}, force : BOOLEAN,
              msgs : Seq(Msgs), summary : SUBSET Msgs, take : Nat]
(* The states of a drain loop that has no run.                             *)
Resting(d) == d.msgs = <<>> /\ d.summary = {}

Distinct(s) == \A i, j \in DOMAIN s : s[i] = s[j] => i = j

-----------------------------------------------------------------------------
(* What is left of a sequence without its first n elements, and a push.    *)
LEMMA Suffix ==
    ASSUME NEW S, NEW s \in Seq(S), NEW n \in Nat
    PROVE  /\ SubSeq(s, n + 1, Len(s)) \in Seq(S)
           /\ Len(SubSeq(s, n + 1, Len(s))) = IF n <= Len(s) THEN Len(s) - n ELSE 0
           /\ \A i \in DOMAIN SubSeq(s, n + 1, Len(s)) :
                 i + n \in DOMAIN s /\ SubSeq(s, n + 1, Len(s))[i] = s[i + n]
<1> DEFINE t == SubSeq(s, n + 1, Len(s))
<1>1. \A i \in n + 1 .. Len(s) : s[i] \in S
  OBVIOUS
<1>2. /\ t \in Seq(S)
      /\ Len(t) = IF n + 1 <= Len(s) THEN Len(s) - (n + 1) + 1 ELSE 0
      /\ \A i \in 1 .. Len(s) - (n + 1) + 1 : t[i] = s[n + 1 + i - 1]
  BY <1>1, SubSeqProperties
<1> HIDE DEF t
<1>3. Len(t) = IF n <= Len(s) THEN Len(s) - n ELSE 0
  BY <1>2
<1>4. \A i \in DOMAIN t : i + n \in DOMAIN s /\ t[i] = s[i + n]
  <2> SUFFICES ASSUME NEW i \in 1..Len(t) PROVE i + n \in DOMAIN s /\ t[i] = s[i + n]
    BY <1>2
  <2>1. i \in 1 .. Len(s) - n
    BY <1>3
  <2> QED BY <1>2, <2>1
<1> QED BY <1>2, <1>3, <1>4 DEF t

LEMMA SuffixDistinct ==
    ASSUME NEW S, NEW s \in Seq(S), NEW n \in Nat, Distinct(s)
    PROVE  /\ Distinct(SubSeq(s, n + 1, Len(s)))
           /\ Members(SubSeq(s, n + 1, Len(s))) \subseteq Members(s)
<1> DEFINE t == SubSeq(s, n + 1, Len(s))
<1>1. t \in Seq(S) /\ \A i \in DOMAIN t : i + n \in DOMAIN s /\ t[i] = s[i + n]
  BY Suffix
<1> HIDE DEF t
<1>2. Distinct(t)
  BY <1>1 DEF Distinct
<1>3. Members(t) \subseteq Members(s)
  BY <1>1 DEF Members
<1> QED BY <1>2, <1>3 DEF t

LEMMA AppendDistinct ==
    ASSUME NEW S, NEW s \in Seq(S), NEW m \in S, Distinct(s), m \notin Members(s)
    PROVE  Distinct(Append(s, m)) /\ Members(Append(s, m)) = Members(s) \cup {m}
<1> DEFINE t == Append(s, m)
<1>1. /\ t \in Seq(S) /\ Len(t) = Len(s) + 1 /\ t[Len(s) + 1] = m
      /\ \A i \in 1..Len(s) : t[i] = s[i]
  BY AppendProperties
<1> HIDE DEF t
<1>2. DOMAIN t = 1..Len(s) + 1 /\ DOMAIN s = 1..Len(s) /\ Len(s) \in Nat
  BY <1>1
<1>3. Distinct(t)
  <2> SUFFICES ASSUME NEW i \in 1..Len(s) + 1, NEW j \in 1..Len(s) + 1, t[i] = t[j]
               PROVE  i = j
    BY <1>2 DEF Distinct
  <2>1. CASE i \in 1..Len(s) /\ j \in 1..Len(s)
    BY <1>1, <1>2, <2>1 DEF Distinct
  <2>2. CASE i = Len(s) + 1 /\ j \in 1..Len(s)
    BY <1>1, <1>2, <2>2 DEF Members
  <2>3. CASE j = Len(s) + 1 /\ i \in 1..Len(s)
    BY <1>1, <1>2, <2>3 DEF Members
  <2>4. CASE i = Len(s) + 1 /\ j = Len(s) + 1
    BY <2>4
  <2> QED BY <1>2, <2>1, <2>2, <2>3, <2>4
<1>4. Members(t) = Members(s) \cup {m}
  <2>1. \A i \in 1..Len(s) + 1 : i \in 1..Len(s) \/ i = Len(s) + 1
    BY <1>2
  <2>2. Len(s) + 1 \in 1..Len(s) + 1 /\ \A i \in 1..Len(s) : i \in 1..Len(s) + 1
    BY <1>2
  <2> QED BY <1>1, <1>2, <2>1, <2>2 DEF Members
<1> QED BY <1>3, <1>4 DEF t

LEMMA ConcatDistinct ==
    ASSUME NEW S, NEW s \in Seq(S), NEW t \in Seq(S), Distinct(s), Distinct(t),
           Members(s) \cap Members(t) = {}
    PROVE  Distinct(s \o t) /\ Members(s \o t) = Members(s) \cup Members(t)
<1> DEFINE r == s \o t
<1>1. /\ r \in Seq(S) /\ Len(r) = Len(s) + Len(t)
      /\ \A i \in 1 .. Len(s) + Len(t) : r[i] = IF i <= Len(s) THEN s[i] ELSE t[i - Len(s)]
  BY ConcatProperties
<1> HIDE DEF r
<1>2. /\ DOMAIN r = 1..Len(s) + Len(t) /\ DOMAIN s = 1..Len(s) /\ DOMAIN t = 1..Len(t)
      /\ Len(s) \in Nat /\ Len(t) \in Nat
  BY <1>1
<1>3. \A i \in DOMAIN r : \/ i \in DOMAIN s /\ r[i] = s[i]
                          \/ i - Len(s) \in DOMAIN t /\ r[i] = t[i - Len(s)] /\ i \notin DOMAIN s
  BY <1>1, <1>2
<1>4. /\ \A i \in DOMAIN s : i \in DOMAIN r /\ r[i] = s[i]
      /\ \A i \in DOMAIN t : i + Len(s) \in DOMAIN r /\ r[i + Len(s)] = t[i]
  BY <1>1, <1>2
<1>5. Distinct(r)
  <2> SUFFICES ASSUME NEW i \in DOMAIN r, NEW j \in DOMAIN r, r[i] = r[j] PROVE i = j
    BY DEF Distinct
  <2>1. CASE i \in DOMAIN s /\ j \in DOMAIN s
    BY <1>4, <2>1 DEF Distinct
  <2>2. CASE i \notin DOMAIN s /\ j \notin DOMAIN s
    <3>1. i - Len(s) = j - Len(s)
      BY <1>3, <2>2 DEF Distinct
    <3> QED BY <1>2, <3>1
  <2>3. CASE i \in DOMAIN s /\ j \notin DOMAIN s
    BY <1>3, <2>3 DEF Members
  <2>4. CASE i \notin DOMAIN s /\ j \in DOMAIN s
    BY <1>3, <2>4 DEF Members
  <2> QED BY <2>1, <2>2, <2>3, <2>4
<1>6. Members(r) = Members(s) \cup Members(t)
  <2>1. Members(r) \subseteq Members(s) \cup Members(t)
    BY <1>3 DEF Members
  <2>2. Members(s) \subseteq Members(r)
    BY <1>4 DEF Members
  <2>3. Members(t) \subseteq Members(r)
    BY <1>4 DEF Members
  <2> QED BY <2>1, <2>2, <2>3
<1> QED BY <1>5, <1>6 DEF r

-----------------------------------------------------------------------------
(* Type correctness.                                                       *)

LEMMA RestingTypes ==
    /\ Idle \in DrainType /\ Resting(Idle)
    /\ \A pc \in {"debounce", "checked"}, force \in BOOLEAN :
          At(pc, force) \in DrainType /\ Resting(At(pc, force))
<1>1. Idle \in DrainType /\ Resting(Idle)
  BY DEF Idle, DrainType, Resting
<1>2. ASSUME NEW pc \in {"debounce", "checked"}, NEW force \in BOOLEAN
      PROVE  At(pc, force) \in DrainType /\ Resting(At(pc, force))
  <2>1. ASSUME NEW d \in DrainType
        PROVE  /\ [d EXCEPT !.pc = pc, !.force = force] \in DrainType
               /\ [d EXCEPT !.pc = pc, !.force = force].msgs = d.msgs
               /\ [d EXCEPT !.pc = pc, !.force = force].summary = d.summary
    BY <1>2 DEF DrainType
  <2>2. /\ At(pc, force) \in DrainType
        /\ At(pc, force).msgs = Idle.msgs /\ At(pc, force).summary = Idle.summary
    BY <1>1, <2>1 DEF At
  <2> QED BY <1>1, <2>2 DEF Resting
<1> QED BY <1>1, <1>2

(* What a step does to the drain loops when it starts no run.              *)
LoopsRest(loops) ==
    /\ current' \in 0..MaxQueues
    /\ draining' \in [Objects -> BOOLEAN]
    /\ drain' \in [Objects -> DrainType]
    /\ \A q \in Objects : drain'[q] = loops[q] \/ Resting(drain'[q])

LEMMA ScheduleRests ==
    ASSUME NEW q \in 0..MaxQueues, NEW work, NEW loops \in [Objects -> DrainType],
           NEW flags \in [Objects -> BOOLEAN], ScheduleDrain(q, work, loops, flags)
    PROVE  LoopsRest(loops)
<1>0. 0 \in 0..MaxQueues
  BY ConstantsAssumption
<1>1. current' \in 0..MaxQueues
  BY <1>0 DEF ScheduleDrain
<1>2. draining' \in [Objects -> BOOLEAN]
  BY DEF ScheduleDrain
<1>3. CASE drain' = loops
  BY <1>1, <1>2, <1>3 DEF LoopsRest
<1>4. CASE drain' = [loops EXCEPT ![q] = At("debounce", FALSE)]
  <2>1. At("debounce", FALSE) \in DrainType /\ Resting(At("debounce", FALSE))
    BY RestingTypes
  <2>2. drain' \in [Objects -> DrainType]
    BY <1>4, <2>1
  <2>3. \A p \in Objects : drain'[p] = loops[p] \/ drain'[p] = At("debounce", FALSE)
    BY <1>4
  <2> QED BY <1>1, <1>2, <2>1, <2>2, <2>3 DEF LoopsRest
<1> QED BY <1>3, <1>4 DEF ScheduleDrain

LEMMA FinishRests ==
    ASSUME TypeOK, NEW q \in Objects, NEW work, Finish(q, work)
    PROVE  LoopsRest(drain) /\ Resting(drain'[q])
<1> DEFINE loops == [drain EXCEPT ![q] = Idle]
           flags == [draining EXCEPT ![q] = FALSE]
<1>1. /\ loops \in [Objects -> DrainType] /\ flags \in [Objects -> BOOLEAN]
      /\ loops[q] = Idle /\ \A p \in Objects : loops[p] = drain[p] \/ loops[p] = Idle
  BY RestingTypes DEF TypeOK, DrainType
<1>2. \A p \in Objects : loops[p] = drain[p] \/ Resting(loops[p])
  BY <1>1, RestingTypes
<1>3. 0 \in 0..MaxQueues /\ current \in 0..MaxQueues
  BY ConstantsAssumption DEF TypeOK
<1>4. LoopsRest(loops)
  <2>1. CASE ~work[q]
    BY <1>1, <1>3, <2>1 DEF Finish, LoopsRest
  <2>2. CASE work[q]
    <3>1. ScheduleDrain(current, work, loops, flags)
      BY <2>2 DEF Finish
    <3> HIDE DEF loops, flags
    <3> QED BY <1>1, <1>3, <3>1, ScheduleRests
  <2> QED BY <2>1, <2>2
<1> HIDE DEF loops
<1>5. Resting(drain'[q])
  BY <1>1, <1>4, RestingTypes DEF LoopsRest
<1> QED BY <1>2, <1>4, <1>5 DEF LoopsRest

(* The items that make room, and the queue after a push.                   *)
LEMMA PushType ==
    ASSUME TypeOK, NEW q \in Objects, NEW m \in Msgs
    PROVE  /\ Excess(q) \in 0..Len(items[q])
           /\ Pushed(m, q) \in Seq(Msgs) /\ Len(Pushed(m, q)) <= Cap
           /\ Front(q) \subseteq Members(items[q]) /\ Members(items[q]) \subseteq Msgs
<1>0. items[q] \in Seq(Msgs) /\ Len(items[q]) <= Cap /\ Cap \in Nat \ {0}
  BY ConstantsAssumption DEF TypeOK
<1>1. Excess(q) \in 0..Len(items[q]) /\ Len(items[q]) - Excess(q) + 1 <= Cap
  BY <1>0 DEF Excess
<1>2. /\ SubSeq(items[q], Excess(q) + 1, Len(items[q])) \in Seq(Msgs)
      /\ Len(SubSeq(items[q], Excess(q) + 1, Len(items[q]))) = Len(items[q]) - Excess(q)
  <2>1. Excess(q) \in Nat /\ Excess(q) <= Len(items[q])
    BY <1>0, <1>1
  <2> QED BY <1>0, <2>1, Suffix
<1>3. Pushed(m, q) \in Seq(Msgs) /\ Len(Pushed(m, q)) <= Cap
  BY <1>1, <1>2, AppendProperties DEF Pushed
<1>4. Front(q) \subseteq Members(items[q]) /\ Members(items[q]) \subseteq Msgs
  BY <1>0, <1>1 DEF Front, Members
<1> QED BY <1>1, <1>3, <1>4

LEMMA TypeInit == Init => TypeOK
<1> SUFFICES ASSUME Init PROVE TypeOK
  OBVIOUS
<1>1. /\ 0 \in 0..MaxQueues /\ 0 \in 0..MaxFailures /\ 0 \in 0..MaxClears
      /\ 0 <= Cap
  BY ConstantsAssumption
<1>2. items \in [Objects -> Seq(Msgs)] /\ \A q \in Objects : Len(items[q]) <= Cap
  BY <1>1 DEF Init
<1>3. drain \in [Objects -> DrainType]
  BY RestingTypes DEF Init
<1>4. accepted = <<>> /\ ran = <<>> /\ accepted \in Seq(Msgs) /\ ran \in Seq(Msgs)
  BY DEF Init
<1>5. /\ mode \in [Objects -> Modes] /\ policy \in [Objects -> Policies]
      /\ dropped \in [Objects -> SUBSET Msgs] /\ draining \in [Objects -> BOOLEAN]
  BY DEF Init
<1>6. /\ current = 0 /\ created = 0 /\ failures = 0 /\ clears = 0 /\ primary = FALSE
      /\ command = FALSE
      /\ recent = {} /\ summarized = {} /\ discarded = {}
  BY DEF Init
<1> QED BY <1>1, <1>2, <1>3, <1>4, <1>5, <1>6 DEF TypeOK, DrainType

LEMMA EnqueueType ==
    ASSUME TypeOK, NEW m \in Msgs, NEW md \in Modes, NEW pol \in Policies,
                   NEW active \in BOOLEAN, NEW restart \in BOOLEAN,
                   Enqueue(m, md, pol, active, restart)
    PROVE  TypeOK' /\ LoopsRest(drain)
<1> DEFINE q == IF current = 0 THEN created + 1 ELSE current
           taken == ~Duplicate(m, q) /\ ~(Excess(q) > 0 /\ pol = "new")
<1>1. /\ q \in Objects
      /\ created' = IF current = 0 THEN created + 1 ELSE created
      /\ mode' = [mode EXCEPT ![q] = md] /\ policy' = [policy EXCEPT ![q] = pol]
      /\ IF taken
         THEN /\ items' = [items EXCEPT ![q] = Pushed(m, q)]
              /\ dropped' = IF pol = "summarize"
                            THEN [dropped EXCEPT ![q] = @ \cup Front(q)] ELSE dropped
              /\ discarded' = IF pol = "old" THEN discarded \cup Front(q) ELSE discarded
              /\ recent' = recent \cup {m}
              /\ accepted' = Append(accepted, m)
         ELSE UNCHANGED <<items, dropped, discarded, recent, accepted>>
      /\ IF active /\ ~(restart /\ taken)
         THEN current' = q /\ UNCHANGED <<drain, draining>>
         ELSE ScheduleDrain(q, [Work EXCEPT ![q] = @ \/ taken], drain, draining)
      /\ UNCHANGED <<ran, summarized, primary, command, failures, clears>>
  BY DEF Enqueue
<1>2. q \in 0..MaxQueues /\ created' \in 0..MaxQueues
  BY <1>1, ConstantsAssumption DEF TypeOK, Objects
<1>3. /\ Pushed(m, q) \in Seq(Msgs) /\ Len(Pushed(m, q)) <= Cap /\ Front(q) \subseteq Msgs
  BY <1>1, PushType
<1> HIDE DEF taken, q
<1>4. /\ items' \in [Objects -> Seq(Msgs)] /\ \A p \in Objects : Len(items'[p]) <= Cap
  BY <1>1, <1>3 DEF TypeOK
<1>5. /\ dropped' \in [Objects -> SUBSET Msgs] /\ discarded' \subseteq Msgs
      /\ recent' \subseteq Msgs
  <2>1. CASE taken
    <3>1. dropped' = dropped \/ dropped' = [dropped EXCEPT ![q] = @ \cup Front(q)]
      BY <1>1, <2>1
    <3>2. discarded' \subseteq discarded \cup Front(q) /\ recent' = recent \cup {m}
      BY <1>1, <2>1
    <3> QED BY <1>1, <1>3, <3>1, <3>2 DEF TypeOK
  <2>2. CASE ~taken
    BY <1>1, <2>2 DEF TypeOK
  <2> QED BY <2>1, <2>2
<1>6. accepted' \in Seq(Msgs)
  <2>1. accepted \in Seq(Msgs) /\ (accepted' = Append(accepted, m) \/ accepted' = accepted)
    BY <1>1 DEF TypeOK
  <2> QED BY <2>1, AppendProperties
<1>7. LoopsRest(drain)
  <2>1. CASE active /\ ~(restart /\ taken)
    BY <1>1, <1>2, <2>1 DEF LoopsRest, TypeOK, DrainType
  <2>2. CASE ~(active /\ ~(restart /\ taken))
    <3>1. ScheduleDrain(q, [Work EXCEPT ![q] = @ \/ taken], drain, draining)
      BY <1>1, <2>2
    <3> QED BY <1>2, <3>1, ScheduleRests DEF TypeOK, DrainType
  <2> QED BY <2>1, <2>2
<1>8. mode' \in [Objects -> Modes] /\ policy' \in [Objects -> Policies]
  BY <1>1 DEF TypeOK
<1> QED BY <1>1, <1>2, <1>4, <1>5, <1>6, <1>7, <1>8 DEF TypeOK, LoopsRest, DrainType

LEMMA StartRunType ==
    ASSUME TypeOK, NEW q \in Objects, NEW force \in BOOLEAN, NEW msgs \in Seq(Msgs),
           NEW summary \in SUBSET Msgs, NEW take \in Nat,
           StartRun(q, force, msgs, summary, take)
    PROVE  /\ drain' \in [Objects -> DrainType]
           /\ current' = current /\ draining' = draining
           /\ drain'[q].msgs = msgs /\ drain'[q].summary = summary /\ drain'[q].take = take
           /\ \A p \in Objects : p # q => drain'[p] = drain[p]
<1> DEFINE run == [pc |-> "running", force |-> force, msgs |-> msgs,
                   summary |-> summary, take |-> take]
<1>1. run \in DrainType
  BY DEF DrainType
<1>2. drain' = [drain EXCEPT ![q] = run] /\ current' = current /\ draining' = draining
  BY DEF StartRun
<1>3. drain \in [Objects -> DrainType]
  BY DEF TypeOK, DrainType
<1>4. drain'[q] = run
  BY <1>2, <1>3
<1>5. drain'[q].msgs = msgs /\ drain'[q].summary = summary /\ drain'[q].take = take
  BY <1>4
<1> HIDE DEF run
<1>6. drain' \in [Objects -> DrainType] /\ \A p \in Objects : p # q => drain'[p] = drain[p]
  BY <1>1, <1>2, <1>3
<1> QED BY <1>2, <1>5, <1>6

(* What a run is started with: items of the queue, the first of which will *)
(* be taken off, or a preview.                                             *)
Begins(q) ==
    \E force \in BOOLEAN, msgs \in Seq(Msgs), summary \in SUBSET Msgs, take \in Nat :
        /\ StartRun(q, force, msgs, summary, take)
        /\ Distinct(items[q]) => Distinct(msgs)
        /\ Members(msgs) \subseteq Members(items[q])
        /\ summary \subseteq dropped[q]
        /\ Distinct(items[q]) => \A i \in DOMAIN items[q] : i > take => items[q][i] \notin Members(msgs)

LEMMA EmptyPrompt == <<>> \in Seq(Msgs) /\ Members(<<>>) = {} /\ Distinct(<<>>)
BY DEF Members, Distinct

LEMMA WakesKinds ==
    ASSUME TypeOK, NEW q \in Objects, DrainWakes(q)
    PROVE  LoopsRest(drain) \/ Begins(q)
<1> DEFINE collect == mode[q] = "collect"
           force == drain[q].force \/ (collect /\ CrossChannel(q))
<1>0. drain \in [Objects -> DrainType] /\ items[q] \in Seq(Msgs) /\ dropped[q] \in SUBSET Msgs
  BY DEF TypeOK, DrainType
<1>1. CASE /\ drain' = [drain EXCEPT ![q] = At("checked", FALSE)]
           /\ UNCHANGED <<current, draining>>
  <2>1. At("checked", FALSE) \in DrainType /\ Resting(At("checked", FALSE))
    BY RestingTypes
  <2>2. drain' \in [Objects -> DrainType]
        /\ \A p \in Objects : drain'[p] = drain[p] \/ drain'[p] = At("checked", FALSE)
    BY <1>0, <1>1, <2>1
  <2> QED BY <1>1, <2>1, <2>2 DEF LoopsRest, TypeOK
<1>2. CASE Finish(q, Work)
  BY <1>2, FinishRests
<1>3. force \in BOOLEAN
  BY <1>0 DEF DrainType
<1>4. CASE StartRun(q, force, <<>>, dropped[q], 1)
  <2>1. Members(<<>>) \subseteq Members(items[q])
        /\ \A i \in DOMAIN items[q] : i > 1 => items[q][i] \notin Members(<<>>)
    BY EmptyPrompt
  <2> HIDE DEF force
  <2> QED BY <1>0, <1>3, <1>4, <2>1, EmptyPrompt DEF Begins
<1>5. CASE items[q] # <<>> /\ StartRun(q, force, <<Head(items[q])>>, {}, 1)
  <2> DEFINE prompt == <<Head(items[q])>>
  <2>1. /\ Head(items[q]) \in Msgs /\ Head(items[q]) = items[q][1] /\ 1 \in DOMAIN items[q]
    BY <1>0, <1>5
  <2>2. prompt \in Seq(Msgs) /\ Distinct(prompt) /\ Members(prompt) = {items[q][1]}
    BY <2>1 DEF Distinct, Members
  <2>3. Members(prompt) \subseteq Members(items[q])
    BY <2>1, <2>2 DEF Members
  <2>4. Distinct(items[q]) => \A i \in DOMAIN items[q] : i > 1 => items[q][i] \notin Members(prompt)
    <3> SUFFICES ASSUME Distinct(items[q]), NEW i \in DOMAIN items[q], i > 1
                 PROVE  items[q][i] # items[q][1]
      BY <2>2
    <3>1. i # 1
      BY <1>0
    <3> QED BY <2>1, <3>1 DEF Distinct
  <2>5. StartRun(q, force, prompt, {}, 1)
    BY <1>5
  <2> HIDE DEF prompt, force
  <2> QED BY <1>3, <2>2, <2>3, <2>4, <2>5 DEF Begins
<1> QED BY <1>1, <1>2, <1>4, <1>5 DEF DrainWakes

LEMMA CollectsKinds ==
    ASSUME TypeOK, NEW q \in Objects, DrainCollects(q)
    PROVE  LoopsRest(drain) \/ Begins(q)
<1> DEFINE summary == IF HasSummary(q) THEN dropped[q] ELSE {}
<1>0. items[q] \in Seq(Msgs) /\ summary \in SUBSET Msgs /\ summary \subseteq dropped[q]
  BY DEF TypeOK
<1>1. CASE HasWork(q)
  <2>1. StartRun(q, FALSE, items[q], summary, Len(items[q]))
    BY <1>1 DEF DrainCollects
  <2>2. Len(items[q]) \in Nat /\ \A i \in DOMAIN items[q] : ~(i > Len(items[q]))
    BY <1>0
  <2> HIDE DEF summary
  <2> QED BY <1>0, <2>1, <2>2 DEF Begins
<1>2. CASE ~HasWork(q)
  BY <1>2, FinishRests DEF DrainCollects
<1> QED BY <1>1, <1>2

(* The items and the preview after a run.                                  *)
LEMMA SucceedsKinds ==
    ASSUME TypeOK, NEW q \in Objects, RunSucceeds(q)
    PROVE  /\ LoopsRest(drain) /\ Resting(drain'[q])
           /\ Remaining(q) \in Seq(Msgs) /\ Len(Remaining(q)) <= Cap
<1>0. drain \in [Objects -> DrainType] /\ items[q] \in Seq(Msgs) /\ Len(items[q]) <= Cap
      /\ drain[q] \in DrainType /\ drain[q].take \in Nat /\ drain[q].force \in BOOLEAN
      /\ Cap \in Nat
  BY ConstantsAssumption DEF TypeOK, DrainType
<1>1. Remaining(q) \in Seq(Msgs) /\ Len(Remaining(q)) <= Cap
  <2>1. /\ Remaining(q) \in Seq(Msgs)
        /\ Len(Remaining(q)) = IF drain[q].take <= Len(items[q])
                               THEN Len(items[q]) - drain[q].take ELSE 0
    BY <1>0, Suffix DEF Remaining
  <2> QED BY <1>0, <2>1
<1>2. CASE /\ drain' = [drain EXCEPT ![q] = At("debounce", drain[q].force)]
           /\ UNCHANGED <<current, draining>>
  <2>1. /\ At("debounce", drain[q].force) \in DrainType
        /\ Resting(At("debounce", drain[q].force))
    BY <1>0, RestingTypes
  <2>2. /\ drain' \in [Objects -> DrainType] /\ drain'[q] = At("debounce", drain[q].force)
        /\ \A p \in Objects : p # q => drain'[p] = drain[p]
    BY <1>0, <1>2, <2>1
  <2> QED BY <1>1, <1>2, <2>1, <2>2 DEF LoopsRest, TypeOK
<1>3. CASE Finish(q, [Work EXCEPT ![q] = FALSE])
  BY <1>1, <1>3, FinishRests
<1> QED BY <1>2, <1>3 DEF RunSucceeds

LEMMA DrainTypes ==
    ASSUME TypeOK, NEW q \in Objects, LoopsRest(drain) \/ Begins(q)
    PROVE  /\ current' \in 0..MaxQueues /\ draining' \in [Objects -> BOOLEAN]
           /\ drain' \in [Objects -> DrainType]
<1>1. CASE LoopsRest(drain)
  BY <1>1 DEF LoopsRest
<1>2. CASE Begins(q)
  BY <1>2, StartRunType DEF Begins, TypeOK
<1> QED BY <1>1, <1>2

LEMMA TypeNext == TypeOK /\ [Next]_vars => TypeOK'
<1> SUFFICES ASSUME TypeOK, [Next]_vars PROVE TypeOK'
  OBVIOUS
<1>1. ASSUME NEW m \in Msgs, NEW md \in Modes, NEW pol \in Policies,
             NEW active \in BOOLEAN, NEW restart \in BOOLEAN,
             Enqueue(m, md, pol, active, restart)
      PROVE  TypeOK'
  BY <1>1, EnqueueType
<1>2. CASE PrimaryStarts \/ CommandRun \/ UNCHANGED vars
  BY <1>2 DEF PrimaryStarts, CommandRun, vars, objVars, logVars, TypeOK
<1>3. CASE PrimaryEnds
  <2>1. LoopsRest(drain)
    BY <1>3, ScheduleRests DEF PrimaryEnds, TypeOK, DrainType
  <2> QED BY <1>3, <2>1 DEF PrimaryEnds, LoopsRest, logVars, TypeOK, DrainType
<1>4. CASE Clear
  <2>1. current \in Objects
    BY <1>4, ConstantsAssumption DEF Clear, TypeOK, Objects
  <2>2. Members(items[current]) \subseteq Msgs /\ dropped[current] \subseteq Msgs
    BY <2>1, PushType DEF TypeOK, Members
  <2>3. /\ clears' \in 0..MaxClears /\ 0 \in 0..MaxQueues
    BY <1>4, ConstantsAssumption DEF Clear, TypeOK
  <2>4. /\ items' \in [Objects -> Seq(Msgs)] /\ \A p \in Objects : Len(items'[p]) <= Cap
    <3>1. <<>> \in Seq(Msgs) /\ Len(<<>>) <= Cap
      BY ConstantsAssumption
    <3>2. items' = [items EXCEPT ![current] = <<>>]
      BY <1>4 DEF Clear, Cleared
    <3> QED BY <2>1, <3>1, <3>2 DEF TypeOK
  <2>5. dropped' \in [Objects -> SUBSET Msgs] /\ discarded' \subseteq Msgs
    BY <1>4, <2>1, <2>2 DEF Clear, TypeOK
  <2> QED BY <1>4, <2>3, <2>4, <2>5 DEF Clear, TypeOK
<1>5. ASSUME NEW q \in Objects, DrainWakes(q) \/ DrainCollects(q) PROVE TypeOK'
  <2>1. LoopsRest(drain) \/ Begins(q)
    BY <1>5, WakesKinds, CollectsKinds
  <2>2. UNCHANGED <<created, items, dropped, mode, policy, recent, primary, command, logVars,
                    failures, clears>>
    BY <1>5 DEF DrainWakes, DrainCollects
  <2> QED BY <2>1, <2>2, DrainTypes DEF logVars, TypeOK, DrainType
<1>6. ASSUME NEW q \in Objects, RunSucceeds(q) PROVE TypeOK'
  <2>1. LoopsRest(drain) /\ Remaining(q) \in Seq(Msgs) /\ Len(Remaining(q)) <= Cap
    BY <1>6, SucceedsKinds
  <2>2. /\ items' = [items EXCEPT ![q] = Remaining(q)]
        /\ dropped' = [dropped EXCEPT ![q] = IF drain[q].summary # {} THEN {} ELSE dropped[q]]
        /\ ran' = ran \o drain[q].msgs
        /\ summarized' = summarized \cup drain[q].summary
        /\ UNCHANGED <<created, mode, policy, recent, primary, command, accepted, discarded,
                       failures, clears>>
    BY <1>6 DEF RunSucceeds
  <2>3. /\ items' \in [Objects -> Seq(Msgs)] /\ \A p \in Objects : Len(items'[p]) <= Cap
    BY <2>1, <2>2 DEF TypeOK
  <2>4. dropped' \in [Objects -> SUBSET Msgs]
    BY <2>2 DEF TypeOK
  <2>5. drain[q].msgs \in Seq(Msgs) /\ drain[q].summary \subseteq Msgs
    BY DEF TypeOK
  <2>6. ran' \in Seq(Msgs) /\ summarized' \subseteq Msgs
    BY <2>2, <2>5, ConcatProperties DEF TypeOK
  <2> QED BY <2>1, <2>2, <2>3, <2>4, <2>6 DEF LoopsRest, TypeOK, DrainType
<1>7. ASSUME NEW q \in Objects, RunFails(q) PROVE TypeOK'
  <2>1. LoopsRest(drain)
    BY <1>7, FinishRests DEF RunFails
  <2>2. failures' \in 0..MaxFailures
    BY <1>7, ConstantsAssumption DEF RunFails, TypeOK
  <2> QED BY <1>7, <2>1, <2>2 DEF RunFails, LoopsRest, logVars, TypeOK, DrainType
<1> QED BY <1>1, <1>2, <1>3, <1>4, <1>5, <1>6, <1>7 DEF Next, DrainStep

(* Every reachable state of the queue is well typed, and no object holds   *)
(* more items than its capacity, whatever happens while a run is awaited.  *)
THEOREM TypeCorrect == Spec => []TypeOK
BY TypeInit, TypeNext, PTL DEF Spec

-----------------------------------------------------------------------------
(* A message is in one place.                                              *)

Place(q) == Members(items[q]) \cup dropped[q]
Prompt(q) == Members(drain[q].msgs)

HeldInv ==
    /\ discarded \subseteq recent
    /\ \A q \in Objects : /\ Distinct(items[q]) /\ Members(items[q]) \cap dropped[q] = {}
                          /\ Place(q) \subseteq recent /\ Place(q) \cap discarded = {}
    /\ \A p, q \in Objects : p # q => Place(p) \cap Place(q) = {}

(* What a loop leaves in the queue when its run is over is not in the run. *)
TakenInv ==
    /\ Distinct(ran) /\ Members(ran) \subseteq recent
    /\ \A q \in Objects :
          /\ Distinct(drain[q].msgs)
          /\ Prompt(q) \subseteq recent
          /\ Prompt(q) \cap Members(ran) = {}
          /\ Members(items[q]) \cap Members(ran) = {}
          /\ \A i \in DOMAIN items[q] : i > drain[q].take => items[q][i] \notin Prompt(q)
    /\ \A p, q \in Objects : p # q =>
          Prompt(p) \cap Prompt(q) = {} /\ Prompt(p) \cap Members(items[q]) = {}

LEMMA HeldInit == Init => HeldInv /\ TakenInv
BY EmptyPrompt DEF Init, HeldInv, TakenInv, Place, Prompt, Idle, Members, Distinct

LEMMA RestingPrompt ==
    ASSUME NEW q, drain'[q] = drain[q] \/ Resting(drain'[q])
    PROVE  /\ Prompt(q)' \subseteq Prompt(q)
           /\ Distinct(drain[q].msgs) => Distinct(drain'[q].msgs)
           /\ drain'[q] = drain[q] \/ Prompt(q)' = {}
BY EmptyPrompt DEF Prompt, Resting

(* A step that leaves the messages where they are and starts no run.       *)
LEMMA RestKeeps ==
    ASSUME HeldInv, TakenInv, LoopsRest(drain),
           UNCHANGED <<items, dropped, recent, ran, discarded>>
    PROVE  HeldInv' /\ TakenInv'
<1>1. HeldInv'
  BY DEF HeldInv, Place
<1>2. \A q \in Objects : /\ Prompt(q)' \subseteq Prompt(q)
                         /\ Distinct(drain[q].msgs) => Distinct(drain'[q].msgs)
                         /\ drain'[q] = drain[q] \/ Prompt(q)' = {}
  BY RestingPrompt DEF LoopsRest
<1>3. \A q \in Objects : \A i \in DOMAIN items[q] :
         i > drain'[q].take => items[q][i] \notin Prompt(q)'
  BY <1>2 DEF TakenInv
<1>4. TakenInv'
  BY <1>2, <1>3 DEF TakenInv
<1> QED BY <1>1, <1>4

(* A loop starts a run.                                                    *)
LEMMA BeginKeeps ==
    ASSUME TypeOK, HeldInv, TakenInv, NEW q \in Objects, Begins(q),
           UNCHANGED <<items, dropped, recent, ran, discarded>>
    PROVE  HeldInv' /\ TakenInv'
<1>1. HeldInv'
  BY DEF HeldInv, Place
<1>2. PICK force \in BOOLEAN, msgs \in Seq(Msgs), summary \in SUBSET Msgs, take \in Nat :
        /\ StartRun(q, force, msgs, summary, take)
        /\ Distinct(msgs)
        /\ Members(msgs) \subseteq Members(items[q])
        /\ \A i \in DOMAIN items[q] : i > take => items[q][i] \notin Members(msgs)
  BY DEF Begins, HeldInv
<1>3. /\ drain'[q].msgs = msgs /\ drain'[q].take = take
      /\ \A p \in Objects : p # q => drain'[p] = drain[p]
  BY <1>2, StartRunType
<1>4. /\ Prompt(q)' = Members(msgs)
      /\ \A p \in Objects : p # q => Prompt(p)' = Prompt(p)
  BY <1>3 DEF Prompt
<1>5. \A p \in Objects : p # q => Members(items[p]) \cap Members(items[q]) = {}
  BY DEF HeldInv, Place
<1>6. Members(items[q]) \subseteq recent
  BY DEF HeldInv, Place
<1>7. \A p \in Objects :
          /\ Distinct(drain'[p].msgs)
          /\ Prompt(p)' \subseteq recent
          /\ Prompt(p)' \cap Members(ran) = {}
          /\ \A i \in DOMAIN items[p] : i > drain'[p].take => items[p][i] \notin Prompt(p)'
  <2> SUFFICES ASSUME NEW p \in Objects
               PROVE  /\ Distinct(drain'[p].msgs)
                      /\ Prompt(p)' \subseteq recent
                      /\ Prompt(p)' \cap Members(ran) = {}
                      /\ \A i \in DOMAIN items[p] : i > drain'[p].take => items[p][i] \notin Prompt(p)'
    OBVIOUS
  <2>1. CASE p = q
    BY <1>2, <1>3, <1>4, <1>6, <2>1 DEF TakenInv
  <2>2. CASE p # q
    BY <1>3, <1>4, <2>2 DEF TakenInv
  <2> QED BY <2>1, <2>2
<1>8. \A o, p \in Objects : o # p =>
          Prompt(o)' \cap Prompt(p)' = {} /\ Prompt(o)' \cap Members(items[p]) = {}
  BY <1>2, <1>4, <1>5 DEF TakenInv
<1>9. TakenInv'
  BY <1>7, <1>8 DEF TakenInv
<1> QED BY <1>1, <1>9

(* A run succeeds, and the loop takes its items off.                       *)
LEMMA SucceedKeeps ==
    ASSUME TypeOK, HeldInv, TakenInv, NEW q \in Objects, RunSucceeds(q)
    PROVE  HeldInv' /\ TakenInv'
<1>1. /\ items' = [items EXCEPT ![q] = Remaining(q)]
      /\ dropped' = [dropped EXCEPT ![q] = IF drain[q].summary # {} THEN {} ELSE dropped[q]]
      /\ ran' = ran \o drain[q].msgs
      /\ recent' = recent /\ discarded' = discarded
  BY DEF RunSucceeds
<1>2. /\ \A p \in Objects : drain'[p] = drain[p] \/ Resting(drain'[p])
      /\ Resting(drain'[q])
  BY SucceedsKinds DEF LoopsRest
<1>3. /\ items[q] \in Seq(Msgs) /\ drain[q].take \in Nat /\ drain[q].msgs \in Seq(Msgs)
      /\ ran \in Seq(Msgs)
  BY DEF TypeOK
<1>4. /\ items'[q] = Remaining(q) /\ dropped'[q] \subseteq dropped[q]
      /\ \A p \in Objects : p # q => items'[p] = items[p] /\ dropped'[p] = dropped[p]
  BY <1>1 DEF TypeOK
<1>5. /\ Distinct(Remaining(q)) /\ Members(Remaining(q)) \subseteq Members(items[q])
  BY <1>3, SuffixDistinct DEF HeldInv, Remaining
<1>6. Members(Remaining(q)) \cap Prompt(q) = {}
  <2>1. /\ Remaining(q) \in Seq(Msgs)
        /\ \A i \in DOMAIN Remaining(q) :
              i + drain[q].take \in DOMAIN items[q]
              /\ Remaining(q)[i] = items[q][i + drain[q].take]
    BY <1>3, Suffix DEF Remaining
  <2>2. \A i \in DOMAIN Remaining(q) : i + drain[q].take > drain[q].take
    BY <1>3, <2>1
  <2> QED BY <2>1, <2>2 DEF TakenInv, Members
<1>7. /\ \A p \in Objects : Distinct(items'[p]) /\ Members(items'[p]) \subseteq Members(items[p])
      /\ \A p \in Objects : dropped'[p] \subseteq dropped[p]
      /\ \A p \in Objects : p # q => Members(items'[p]) = Members(items[p])
  BY <1>4, <1>5 DEF HeldInv
<1>8. HeldInv'
  <2>1. \A p \in Objects : Place(p)' \subseteq Place(p)
    BY <1>7 DEF Place
  <2> QED BY <1>1, <1>7, <2>1 DEF HeldInv
<1>9. Distinct(ran') /\ Members(ran') = Members(ran) \cup Prompt(q)
  BY <1>1, <1>3, ConcatDistinct DEF TakenInv, Prompt
<1>10. /\ \A p \in Objects : /\ Prompt(p)' \subseteq Prompt(p)
                             /\ Distinct(drain'[p].msgs)
                             /\ drain'[p] = drain[p] \/ Prompt(p)' = {}
       /\ Prompt(q)' = {}
  <2>1. Prompt(q)' = {}
    BY <1>2, EmptyPrompt DEF Prompt, Resting
  <2> QED BY <1>2, <2>1, RestingPrompt DEF TakenInv
<1>11. \A p \in Objects : Members(items'[p]) \cap Members(ran') = {}
  <2> SUFFICES ASSUME NEW p \in Objects PROVE Members(items'[p]) \cap Members(ran') = {}
    OBVIOUS
  <2>1. CASE p = q
    BY <1>4, <1>5, <1>6, <1>9, <2>1 DEF TakenInv
  <2>2. CASE p # q
    BY <1>7, <1>9, <2>2 DEF TakenInv
  <2> QED BY <2>1, <2>2
<1>12. \A p \in Objects : Prompt(p)' \cap Members(ran') = {}
  <2> SUFFICES ASSUME NEW p \in Objects PROVE Prompt(p)' \cap Members(ran') = {}
    OBVIOUS
  <2>1. CASE p = q
    BY <1>10, <2>1
  <2>2. CASE p # q
    BY <1>9, <1>10, <2>2 DEF TakenInv
  <2> QED BY <2>1, <2>2
<1>13. \A p \in Objects : \A i \in DOMAIN items'[p] :
          i > drain'[p].take => items'[p][i] \notin Prompt(p)'
  BY <1>4, <1>10 DEF TakenInv
<1>14. TakenInv'
  BY <1>1, <1>7, <1>9, <1>10, <1>11, <1>12, <1>13 DEF TakenInv
<1> QED BY <1>8, <1>14

(* clearSessionQueues empties the object that is current.                  *)
LEMMA ClearKeeps ==
    ASSUME TypeOK, HeldInv, TakenInv, Clear
    PROVE  HeldInv' /\ TakenInv'
<1>1. PICK c \in Objects : c = current
  BY ConstantsAssumption DEF Clear, TypeOK, Objects
<1>2. /\ items' = [items EXCEPT ![c] = <<>>]
      /\ dropped' = [dropped EXCEPT ![c] = {}]
      /\ discarded' = discarded \cup Place(c)
      /\ UNCHANGED <<drain, recent, ran>>
  BY <1>1 DEF Clear, Cleared, Place
<1>3. /\ items'[c] = <<>> /\ dropped'[c] = {}
      /\ \A p \in Objects : p # c => items'[p] = items[p] /\ dropped'[p] = dropped[p]
  BY <1>2 DEF TypeOK
<1>4. /\ \A p \in Objects : Distinct(items'[p]) /\ Members(items'[p]) \subseteq Members(items[p])
      /\ \A p \in Objects : p # c => Place(p)' = Place(p)
      /\ Place(c)' = {}
  BY <1>3, EmptyPrompt DEF HeldInv, Place
<1>5. HeldInv'
  <2>1. \A p \in Objects : Members(items'[p]) \cap dropped'[p] = {}
    BY <1>3, EmptyPrompt DEF HeldInv
  <2>2. \A p \in Objects : Place(p)' \subseteq recent /\ Place(p)' \cap discarded' = {}
    BY <1>1, <1>2, <1>4 DEF HeldInv
  <2>3. discarded' \subseteq recent
    BY <1>1, <1>2 DEF HeldInv
  <2>4. \A p, q \in Objects : p # q => Place(p)' \cap Place(q)' = {}
    BY <1>4 DEF HeldInv
  <2> QED BY <1>2, <1>4, <2>1, <2>2, <2>3, <2>4 DEF HeldInv
<1>6. TakenInv'
  <2>1. \A p \in Objects : Prompt(p)' = Prompt(p)
    BY <1>2 DEF Prompt
  <2>2. \A p \in Objects : \A i \in DOMAIN items'[p] :
           i > drain[p].take => items'[p][i] \notin Prompt(p)
    BY <1>3 DEF TakenInv
  <2> QED BY <1>2, <1>4, <2>1, <2>2 DEF TakenInv
<1> QED BY <1>5, <1>6

(* What a push leaves: later items than before, and the message.           *)
LEMMA PushedItems ==
    ASSUME TypeOK, NEW q \in Objects, NEW m \in Msgs, Distinct(items[q]),
           m \notin Members(items[q])
    PROVE  /\ Distinct(Pushed(m, q))
           /\ Members(Pushed(m, q)) \subseteq (Members(items[q]) \ Front(q)) \cup {m}
           /\ \A i \in DOMAIN Pushed(m, q) :
                 Pushed(m, q)[i] = m
                 \/ \E k \in DOMAIN items[q] : k >= i /\ Pushed(m, q)[i] = items[q][k]
<1> DEFINE rest == SubSeq(items[q], Excess(q) + 1, Len(items[q]))
<1>0. items[q] \in Seq(Msgs) /\ Excess(q) \in Nat /\ Excess(q) <= Len(items[q])
  BY PushType DEF TypeOK
<1>1. /\ rest \in Seq(Msgs) /\ Distinct(rest) /\ Members(rest) \subseteq Members(items[q])
      /\ \A i \in DOMAIN rest : i + Excess(q) \in DOMAIN items[q]
                                /\ rest[i] = items[q][i + Excess(q)]
  BY <1>0, Suffix, SuffixDistinct
<1>2. Members(rest) \cap Front(q) = {}
  <2> SUFFICES ASSUME NEW i \in DOMAIN rest, NEW k \in 1..Excess(q), rest[i] = items[q][k]
               PROVE  FALSE
    BY DEF Members, Front
  <2>1. k \in DOMAIN items[q] /\ i \in Nat \ {0}
    <3>1. k \in DOMAIN items[q]
      BY <1>0
    <3>2. DOMAIN rest = 1..Len(rest) /\ Len(rest) \in Nat
      BY <1>1, LenProperties
    <3> HIDE DEF rest
    <3> QED BY <3>1, <3>2
  <2>2. k = i + Excess(q)
    <3>1. i + Excess(q) \in DOMAIN items[q] /\ items[q][i + Excess(q)] = items[q][k]
      BY <1>1
    <3> QED BY <2>1, <3>1 DEF Distinct
  <2> QED BY <1>0, <2>1, <2>2
<1>3. m \notin Members(rest)
  BY <1>1
<1>4. Pushed(m, q) = Append(rest, m)
  BY DEF Pushed
<1> HIDE DEF rest
<1>5. Distinct(Pushed(m, q)) /\ Members(Pushed(m, q)) = Members(rest) \cup {m}
  BY <1>1, <1>3, <1>4, AppendDistinct
<1>6. /\ DOMAIN Pushed(m, q) = 1..Len(rest) + 1 /\ Len(rest) \in Nat
      /\ DOMAIN rest = 1..Len(rest)
      /\ Pushed(m, q)[Len(rest) + 1] = m /\ \A i \in 1..Len(rest) : Pushed(m, q)[i] = rest[i]
  BY <1>1, <1>4, AppendProperties
<1>7. ASSUME NEW i \in DOMAIN Pushed(m, q)
      PROVE  Pushed(m, q)[i] = m
             \/ \E k \in DOMAIN items[q] : k >= i /\ Pushed(m, q)[i] = items[q][k]
  <2>1. CASE i = Len(rest) + 1
    BY <1>6, <2>1
  <2>2. CASE i \in 1..Len(rest)
    <3>1. i + Excess(q) \in DOMAIN items[q] /\ i + Excess(q) >= i
          /\ Pushed(m, q)[i] = items[q][i + Excess(q)]
      BY <1>0, <1>1, <1>6, <2>2
    <3> QED BY <3>1
  <2> QED BY <1>6, <2>1, <2>2
<1> QED BY <1>1, <1>2, <1>5, <1>7

(* A message that is not known is pushed, and the oldest make room for it. *)
LEMMA EnqueueKeeps ==
    ASSUME TypeOK, HeldInv, TakenInv,
           NEW m \in Msgs, NEW md \in Modes, NEW pol \in Policies,
           NEW active \in BOOLEAN, NEW restart \in BOOLEAN,
           Enqueue(m, md, pol, active, restart)
    PROVE  HeldInv' /\ TakenInv'
<1> DEFINE target == IF current = 0 THEN created + 1 ELSE current
<1>q. PICK q \in Objects : q = target
  BY DEF Enqueue
<1> DEFINE taken == ~Duplicate(m, q) /\ ~(Excess(q) > 0 /\ pol = "new")
<1>0. LoopsRest(drain)
  BY EnqueueType
<1>1. CASE ~taken
  <2>1. UNCHANGED <<items, dropped, recent, ran, discarded>>
    BY <1>1, <1>q DEF Enqueue
  <2> QED BY <1>0, <2>1, RestKeeps
<1>2. CASE taken
  <2>1. /\ items' = [items EXCEPT ![q] = Pushed(m, q)]
        /\ dropped' = IF pol = "summarize"
                      THEN [dropped EXCEPT ![q] = @ \cup Front(q)] ELSE dropped
        /\ discarded' = IF pol = "old" THEN discarded \cup Front(q) ELSE discarded
        /\ recent' = recent \cup {m}
        /\ ran' = ran
        /\ m \notin recent /\ m \notin Members(items[q])
    BY <1>2, <1>q DEF Enqueue, Duplicate
  <2> HIDE DEF target, taken
  <2>2. /\ Distinct(Pushed(m, q))
        /\ Members(Pushed(m, q)) \subseteq (Members(items[q]) \ Front(q)) \cup {m}
        /\ \A i \in DOMAIN Pushed(m, q) :
              Pushed(m, q)[i] = m
              \/ \E k \in DOMAIN items[q] : k >= i /\ Pushed(m, q)[i] = items[q][k]
    BY <2>1, PushedItems DEF HeldInv
  <2>3. Front(q) \subseteq Members(items[q])
    BY <2>1, PushType
  <2>4. /\ items'[q] = Pushed(m, q)
        /\ \A p \in Objects : p # q => items'[p] = items[p] /\ dropped'[p] = dropped[p]
    BY <2>1 DEF TypeOK
  <2>5. \/ dropped'[q] = dropped[q] \cup Front(q) /\ discarded' = discarded
        \/ dropped'[q] = dropped[q] /\ discarded' \subseteq discarded \cup Front(q)
    <3>1. CASE pol = "summarize"
      BY <2>1, <3>1 DEF TypeOK
    <3>2. CASE pol # "summarize"
      BY <2>1, <3>2
    <3> QED BY <3>1, <3>2
  <2>6. /\ Place(q)' \subseteq Place(q) \cup {m}
        /\ Members(items'[q]) \cap dropped'[q] = {}
        /\ Place(q)' \cap discarded' = {}
    <3>1. /\ Place(q) \subseteq recent /\ Place(q) \cap discarded = {}
          /\ Members(items[q]) \cap dropped[q] = {} /\ discarded \subseteq recent
      BY <2>1 DEF HeldInv
    <3>2. m \notin Place(q) /\ m \notin discarded
      BY <2>1, <3>1
    <3> QED BY <2>2, <2>3, <2>4, <2>5, <3>1, <3>2 DEF Place
  <2>7. /\ \A p \in Objects : p # q => Place(p)' = Place(p)
        /\ \A p \in Objects : m \notin Place(p)
        /\ discarded' \subseteq discarded \cup Place(q) /\ m \notin discarded
    BY <2>1, <2>3, <2>4, <2>5 DEF HeldInv, Place
  <2>8. HeldInv'
    <3>1. discarded' \subseteq recent'
      BY <2>1, <2>7 DEF HeldInv
    <3>2. ASSUME NEW p \in Objects
          PROVE  /\ Distinct(items'[p]) /\ Members(items'[p]) \cap dropped'[p] = {}
                 /\ Place(p)' \subseteq recent' /\ Place(p)' \cap discarded' = {}
      <4>1. CASE p = q
        BY <2>1, <2>2, <2>4, <2>6, <4>1 DEF HeldInv
      <4>2. CASE p # q
        BY <2>1, <2>4, <2>7, <4>2 DEF HeldInv
      <4> QED BY <4>1, <4>2
    <3>3. \A o, p \in Objects : o # p => Place(o)' \cap Place(p)' = {}
      <4>1. ASSUME NEW p \in Objects, p # q PROVE Place(p)' \cap Place(q)' = {}
        BY <2>1, <2>6, <2>7, <4>1 DEF HeldInv
      <4>2. ASSUME NEW o \in Objects, NEW p \in Objects, o # p, o # q, p # q
            PROVE  Place(o)' \cap Place(p)' = {}
        BY <2>7, <4>2 DEF HeldInv
      <4> QED BY <4>1, <4>2
    <3> QED BY <3>1, <3>2, <3>3 DEF HeldInv
  <2>9. \A p \in Objects : /\ Prompt(p)' \subseteq Prompt(p) /\ m \notin Prompt(p)
                           /\ Distinct(drain'[p].msgs)
                           /\ drain'[p] = drain[p] \/ Prompt(p)' = {}
    BY <1>0, <2>1, RestingPrompt DEF LoopsRest, TakenInv
  <2>10. /\ \A p \in Objects : Members(items'[p]) \subseteq Members(items[p]) \cup {m}
         /\ m \notin Members(ran)
    <3>1. m \notin Members(ran)
      BY <2>1 DEF TakenInv
    <3>2. \A p \in Objects : Members(items'[p]) \subseteq Members(items[p]) \cup {m}
      BY <2>2, <2>4
    <3> QED BY <3>1, <3>2
  <2>11. ASSUME NEW p \in Objects, NEW i \in DOMAIN items'[p], i > drain'[p].take
         PROVE  items'[p][i] \notin Prompt(p)'
    <3>1. CASE Prompt(p)' = {}
      BY <3>1
    <3>2. CASE drain'[p] = drain[p] /\ p # q
      BY <2>4, <2>9, <2>11, <3>2 DEF TakenInv
    <3>3. CASE drain'[p] = drain[p] /\ p = q
      <4>1. CASE items'[q][i] = m
        BY <2>9, <3>3, <4>1
      <4>2. ASSUME NEW k \in DOMAIN items[q], k >= i, items'[q][i] = items[q][k]
            PROVE  items'[q][i] \notin Prompt(q)'
        <5>1. /\ drain[q].take \in Nat /\ k \in Nat /\ i \in Nat
          <6>1. items[q] \in Seq(Msgs) /\ Pushed(m, q) \in Seq(Msgs)
            BY PushType DEF TypeOK
          <6>2. drain[q].take \in Nat
            BY DEF TypeOK
          <6> QED BY <2>4, <2>11, <3>3, <6>1, <6>2
        <5>2. k > drain[q].take
          BY <2>11, <3>3, <4>2, <5>1
        <5> QED BY <2>1, <2>9, <4>2, <5>2 DEF TakenInv
      <4> QED BY <2>2, <2>4, <2>11, <3>3, <4>1, <4>2
    <3> QED BY <2>9, <3>1, <3>2, <3>3
  <2>12. TakenInv'
    <3>1. \A p \in Objects :
            /\ Prompt(p)' \subseteq recent' /\ Prompt(p)' \cap Members(ran) = {}
            /\ Members(items'[p]) \cap Members(ran) = {}
      BY <2>1, <2>9, <2>10 DEF TakenInv
    <3>2. \A o, p \in Objects : o # p =>
            Prompt(o)' \cap Prompt(p)' = {} /\ Prompt(o)' \cap Members(items'[p]) = {}
      BY <2>9, <2>10 DEF TakenInv
    <3>3. Distinct(ran) /\ Members(ran) \subseteq recent'
      BY <2>1 DEF TakenInv
    <3> QED BY <2>1, <2>9, <2>11, <3>1, <3>2, <3>3 DEF TakenInv
  <2> QED BY <2>8, <2>12
<1> QED BY <1>1, <1>2

LEMMA HeldNext == TypeOK /\ HeldInv /\ TakenInv /\ [Next]_vars => HeldInv' /\ TakenInv'
<1> SUFFICES ASSUME TypeOK, HeldInv, TakenInv, [Next]_vars PROVE HeldInv' /\ TakenInv'
  OBVIOUS
<1>1. CASE \E m \in Msgs, md \in Modes, pol \in Policies,
               active, restart \in BOOLEAN :
              Enqueue(m, md, pol, active, restart)
  BY <1>1, EnqueueKeeps
<1>2. CASE PrimaryStarts \/ CommandRun \/ UNCHANGED vars
  <2>1. LoopsRest(drain) /\ UNCHANGED <<items, dropped, recent, ran, discarded>>
    BY <1>2 DEF PrimaryStarts, CommandRun, vars, objVars, logVars, LoopsRest, TypeOK, DrainType
  <2> QED BY <2>1, RestKeeps
<1>3. CASE PrimaryEnds
  <2>1. LoopsRest(drain)
    BY <1>3, ScheduleRests DEF PrimaryEnds, TypeOK, DrainType
  <2>2. UNCHANGED <<items, dropped, recent, ran, discarded>>
    BY <1>3 DEF PrimaryEnds, logVars
  <2> QED BY <2>1, <2>2, RestKeeps
<1>4. CASE Clear
  BY <1>4, ClearKeeps
<1>5. ASSUME NEW q \in Objects, DrainWakes(q) \/ DrainCollects(q)
      PROVE  HeldInv' /\ TakenInv'
  <2>1. UNCHANGED <<items, dropped, recent, ran, discarded>>
    BY <1>5 DEF DrainWakes, DrainCollects, logVars
  <2> QED BY <1>5, <2>1, WakesKinds, CollectsKinds, RestKeeps, BeginKeeps
<1>6. ASSUME NEW q \in Objects, RunSucceeds(q) PROVE HeldInv' /\ TakenInv'
  BY <1>6, SucceedKeeps
<1>7. ASSUME NEW q \in Objects, RunFails(q) PROVE HeldInv' /\ TakenInv'
  <2>1. LoopsRest(drain) /\ UNCHANGED <<items, dropped, recent, ran, discarded>>
    BY <1>7, FinishRests DEF RunFails, logVars
  <2> QED BY <2>1, RestKeeps
<1> QED BY <1>1, <1>2, <1>3, <1>4, <1>5, <1>6, <1>7 DEF Next, DrainStep

LEMMA HeldInvariant == Spec => [](TypeOK /\ HeldInv /\ TakenInv)
BY TypeInit, TypeNext, HeldInit, HeldNext, PTL DEF Spec

(* No message is in the prompt of two successful runs, although failed     *)
(* runs leave theirs in the queue, overflow drops items of a run that goes *)
(* on, a cleared object is replaced by another whose loop runs beside the  *)
(* old one, and channels deliver a message again.                          *)
THEOREM RunOnceHolds == Spec => []RunOnce
<1>1. TakenInv => RunOnce
  BY DEF TakenInv, Distinct, RunOnce
<1> QED BY <1>1, HeldInvariant, PTL

(* A run that begins takes messages from one place, which has none that    *)
(* were discarded.                                                         *)
LEMMA DiscardedNext ==
    TypeOK /\ HeldInv /\ [Next]_vars
        => [\A m \in discarded : m \notin InFlight => m \notin InFlight']_vars
<1> SUFFICES ASSUME TypeOK, HeldInv, Next
             PROVE  \A m \in discarded : m \notin InFlight => m \notin InFlight'
  OBVIOUS
<1>1. ASSUME LoopsRest(drain) PROVE InFlight' \subseteq InFlight
  <2>1. \A p \in Objects : \/ drain'[p] = drain[p]
                           \/ Members(drain'[p].msgs) = {} /\ drain'[p].summary = {}
    BY <1>1, EmptyPrompt DEF LoopsRest, Resting
  <2> QED BY <2>1 DEF InFlight
<1>2. ASSUME NEW q \in Objects, Begins(q) PROVE InFlight' \subseteq InFlight \cup Place(q)
  <2>1. PICK force \in BOOLEAN, msgs \in Seq(Msgs), summary \in SUBSET Msgs, take \in Nat :
          /\ StartRun(q, force, msgs, summary, take)
          /\ Members(msgs) \subseteq Members(items[q]) /\ summary \subseteq dropped[q]
    BY <1>2 DEF Begins
  <2>2. /\ drain'[q].msgs = msgs /\ drain'[q].summary = summary
        /\ \A p \in Objects : p # q => drain'[p] = drain[p]
    BY <2>1, StartRunType
  <2>3. Members(drain'[q].msgs) \cup drain'[q].summary \subseteq Place(q)
    BY <2>1, <2>2 DEF Place
  <2> QED BY <2>2, <2>3 DEF InFlight
<1>3. \A q \in Objects : Place(q) \cap discarded = {}
  BY DEF HeldInv
<1>4. \/ Clear \/ PrimaryStarts \/ CommandRun
      \/ LoopsRest(drain)
      \/ \E q \in Objects : Begins(q)
  <2>1. ASSUME NEW m \in Msgs, NEW md \in Modes, NEW pol \in Policies,
               NEW active \in BOOLEAN, NEW restart \in BOOLEAN,
               Enqueue(m, md, pol, active, restart)
        PROVE  LoopsRest(drain)
    BY <2>1, EnqueueType
  <2>2. ASSUME PrimaryEnds PROVE LoopsRest(drain)
    BY <2>2, ScheduleRests DEF PrimaryEnds, TypeOK, DrainType
  <2>3. ASSUME NEW q \in Objects, DrainStep(q) PROVE LoopsRest(drain) \/ Begins(q)
    BY <2>3, WakesKinds, CollectsKinds, SucceedsKinds DEF DrainStep
  <2>4. ASSUME NEW q \in Objects, RunFails(q) PROVE LoopsRest(drain)
    BY <2>4, FinishRests DEF RunFails
  <2> QED BY <2>1, <2>2, <2>3, <2>4 DEF Next
<1>5. CASE Clear \/ PrimaryStarts \/ CommandRun
  BY <1>5 DEF Clear, PrimaryStarts, CommandRun, objVars, InFlight
<1> QED BY <1>1, <1>2, <1>3, <1>4, <1>5

(* What was discarded before its run began gets no run: no prompt and no   *)
(* summary of a run that begins has it.                                    *)
THEOREM DiscardedNeverStartsHolds == Spec => DiscardedNeverStarts
BY HeldInvariant, DiscardedNext, PTL DEF Spec, DiscardedNeverStarts

-----------------------------------------------------------------------------
(* First in, first out.                                                    *)

(* An object is marked as draining exactly while it has a drain loop.      *)
LoopInv == \A q \in Objects : draining[q] <=> drain[q].pc # "idle"

(* What waits in the object the key maps to.                               *)
Backlog == IF current = 0 THEN <<>> ELSE items[current]

(* The prompt of a run is the front of the queue it was built from.        *)
RunsFront(q) ==
    drain[q].pc = "running" => /\ drain[q].take <= Len(items[q])
                               /\ drain[q].msgs = SubSeq(items[q], 1, drain[q].take)

(* Undisturbed, the session has one queue: what was accepted is what ran   *)
(* followed by what waits, and no other object has a loop or items.        *)
Fifo ==
    /\ accepted = ran \o Backlog
    /\ \A q \in Objects : q # current => drain[q].pc = "idle" /\ items[q] = <<>>
    /\ \A q \in Objects : RunsFront(q) /\ drain[q].summary = {}
FifoInv == Undisturbed => Fifo

LEMMA RestingIdle ==
    /\ Idle.pc = "idle" /\ Idle.summary = {}
    /\ \A pc \in {"debounce", "checked"}, force \in BOOLEAN :
          At(pc, force).pc = pc /\ At(pc, force).summary = {}
<1>1. Idle.pc = "idle" /\ Idle.summary = {}
  BY DEF Idle
<1>2. ASSUME NEW pc \in {"debounce", "checked"}, NEW force \in BOOLEAN
      PROVE  At(pc, force).pc = pc /\ At(pc, force).summary = {}
  <2>1. ASSUME NEW d \in DrainType
        PROVE  /\ [d EXCEPT !.pc = pc, !.force = force].pc = pc
               /\ [d EXCEPT !.pc = pc, !.force = force].summary = d.summary
    BY <1>2 DEF DrainType
  <2>2. Idle \in DrainType
    BY RestingTypes
  <2> QED BY <1>1, <2>1, <2>2 DEF At
<1> QED BY <1>1, <1>2

(* The loop of q ends or begins anew, or stays as it is, and the registry  *)
(* forgets q only when q has neither loop nor work.                        *)
Settled(q, work) ==
    /\ \A p \in Objects : p # q => drain'[p] = drain[p] /\ draining'[p] = draining[p]
    /\ \/ drain'[q] = drain[q] /\ draining'[q] = draining[q]
       \/ drain'[q] = At("debounce", FALSE) /\ draining'[q]
       \/ drain'[q] = Idle /\ ~draining'[q]
    /\ \/ current' = q
       \/ current' = 0 /\ ~draining'[q] /\ ~work[q]

LEMMA ScheduleSettles ==
    ASSUME TypeOK, LoopInv, NEW q \in Objects, NEW work,
           ScheduleDrain(q, work, drain, draining)
    PROVE  Settled(q, work)
<1>1. q # 0 /\ drain \in [Objects -> DrainType] /\ draining \in [Objects -> BOOLEAN]
  BY DEF TypeOK, DrainType, Objects
<1>2. /\ drain' = IF ~draining[q] /\ work[q]
                  THEN [drain EXCEPT ![q] = At("debounce", FALSE)] ELSE drain
      /\ draining' = IF work[q] THEN [draining EXCEPT ![q] = TRUE] ELSE draining
      /\ current' = IF ~draining[q] /\ ~work[q] THEN 0 ELSE q
  BY <1>1 DEF ScheduleDrain
<1>3. CASE draining[q]
  <2>1. drain' = drain /\ current' = q /\ draining' = draining
    BY <1>1, <1>2, <1>3
  <2> QED BY <2>1 DEF Settled
<1>4. CASE ~draining[q] /\ work[q]
  <2>1. /\ drain' = [drain EXCEPT ![q] = At("debounce", FALSE)]
        /\ draining' = [draining EXCEPT ![q] = TRUE] /\ current' = q
    BY <1>2, <1>4
  <2> QED BY <1>1, <2>1 DEF Settled
<1>5. CASE ~draining[q] /\ ~work[q]
  <2>1. drain' = drain /\ draining' = draining /\ current' = 0
    BY <1>2, <1>5
  <2> QED BY <1>5, <2>1 DEF Settled
<1> QED BY <1>3, <1>4, <1>5

(* The loop of the object the key maps to, or of a forgotten one, ends.    *)
LEMMA FinishSettles ==
    ASSUME TypeOK, LoopInv, NEW q \in Objects, current = q, NEW work, Finish(q, work)
    PROVE  Settled(q, work) /\ drain'[q].pc # "running"
<1> DEFINE loops == [drain EXCEPT ![q] = Idle]
           flags == [draining EXCEPT ![q] = FALSE]
<1>1. /\ q # 0 /\ loops[q] = Idle /\ ~flags[q]
      /\ \A p \in Objects : p # q => loops[p] = drain[p] /\ flags[p] = draining[p]
  BY DEF TypeOK, Objects
<1>2. DOMAIN loops = Objects /\ DOMAIN flags = Objects
  BY DEF TypeOK
<1>3. CASE ~work[q]
  <2>1. current' = 0 /\ drain' = loops /\ draining' = flags
    BY <1>3 DEF Finish
  <2> HIDE DEF loops, flags
  <2> QED BY <1>1, <1>3, <2>1, RestingIdle DEF Settled
<1>4. CASE work[q]
  <2>1. ScheduleDrain(q, work, loops, flags)
    BY <1>4 DEF Finish
  <2> HIDE DEF loops, flags
  <2>2. /\ drain' = [loops EXCEPT ![q] = At("debounce", FALSE)]
        /\ draining' = [flags EXCEPT ![q] = TRUE] /\ current' = q
    BY <1>1, <1>4, <2>1 DEF ScheduleDrain
  <2> QED BY <1>1, <1>2, <2>2, RestingIdle DEF Settled
<1> QED BY <1>3, <1>4

(* LoopInv is an invariant, also when the key maps to another object.      *)
LEMMA ScheduleLoops ==
    ASSUME NEW q \in 0..MaxQueues, NEW work, NEW loops \in [Objects -> DrainType],
           NEW flags \in [Objects -> BOOLEAN],
           \A p \in Objects : flags[p] <=> loops[p].pc # "idle",
           ScheduleDrain(q, work, loops, flags)
    PROVE  LoopInv'
<1>1. CASE q # 0 /\ work[q]
  <2>1. drain' = IF ~flags[q] THEN [loops EXCEPT ![q] = At("debounce", FALSE)] ELSE loops
    BY <1>1 DEF ScheduleDrain
  <2>2. draining' = [flags EXCEPT ![q] = TRUE]
    BY <1>1 DEF ScheduleDrain
  <2>3. At("debounce", FALSE).pc # "idle"
    BY RestingIdle
  <2>4. q \in Objects
    BY <1>1 DEF Objects
  <2>5. ASSUME NEW p \in Objects PROVE draining'[p] <=> drain'[p].pc # "idle"
    BY <2>1, <2>2, <2>3, <2>4
  <2> QED BY <2>5 DEF LoopInv
<1>2. CASE ~(q # 0 /\ work[q])
  <2>1. draining' = flags
    BY <1>2 DEF ScheduleDrain
  <2>2. drain' = loops
    BY <1>2 DEF ScheduleDrain
  <2> QED BY <2>1, <2>2 DEF LoopInv
<1> QED BY <1>1, <1>2

LEMMA FinishLoops ==
    ASSUME TypeOK, LoopInv, NEW q \in Objects, NEW work, Finish(q, work)
    PROVE  LoopInv'
<1> DEFINE loops == [drain EXCEPT ![q] = Idle]
           flags == [draining EXCEPT ![q] = FALSE]
<1>1. loops \in [Objects -> DrainType] /\ flags \in [Objects -> BOOLEAN]
  BY RestingTypes DEF TypeOK, DrainType
<1>2. ASSUME NEW p \in Objects PROVE flags[p] <=> loops[p].pc # "idle"
  <2>1. CASE p = q
    BY <2>1, RestingIdle DEF TypeOK
  <2>2. CASE p # q
    <3>1. flags[p] = draining[p] /\ loops[p] = drain[p]
      BY <2>2 DEF TypeOK
    <3> QED BY <3>1 DEF LoopInv
  <2> QED BY <2>1, <2>2
<1>3. CASE ~work[q]
  BY <1>2, <1>3 DEF Finish, LoopInv
<1>4. CASE work[q]
  <2>1. ScheduleDrain(current, work, loops, flags) /\ current \in 0..MaxQueues
    BY <1>4 DEF Finish, TypeOK
  <2> HIDE DEF loops, flags
  <2> QED BY <1>1, <1>2, <2>1, ScheduleLoops
<1> QED BY <1>3, <1>4

LEMMA StartLoops ==
    ASSUME TypeOK, LoopInv, NEW q \in Objects, draining[q], NEW d, d.pc # "idle",
           drain' = [drain EXCEPT ![q] = d], draining' = draining
    PROVE  LoopInv'
<1> SUFFICES ASSUME NEW p \in Objects PROVE draining[p] <=> drain'[p].pc # "idle"
  BY DEF LoopInv
<1>1. CASE p = q
  BY <1>1 DEF TypeOK
<1>2. CASE p # q
  BY <1>2 DEF TypeOK, LoopInv
<1> QED BY <1>1, <1>2

LEMMA LoopNext == TypeOK /\ LoopInv /\ [Next]_vars => LoopInv'
<1> SUFFICES ASSUME TypeOK, LoopInv, [Next]_vars PROVE LoopInv'
  OBVIOUS
<1>0. drain \in [Objects -> DrainType] /\ draining \in [Objects -> BOOLEAN]
      /\ current \in 0..MaxQueues
  BY DEF TypeOK, DrainType
<1>1. ASSUME NEW m \in Msgs, NEW md \in Modes, NEW pol \in Policies,
             NEW active \in BOOLEAN, NEW restart \in BOOLEAN,
             Enqueue(m, md, pol, active, restart)
      PROVE  LoopInv'
  <2> DEFINE q == IF current = 0 THEN created + 1 ELSE current
             work == [Work EXCEPT ![q] =
                         @ \/ (~Duplicate(m, q) /\ ~(Excess(q) > 0 /\ pol = "new"))]
  <2>1. /\ q \in 0..MaxQueues
        /\ \/ drain' = drain /\ draining' = draining
           \/ ScheduleDrain(q, work, drain, draining)
    BY <1>1 DEF Enqueue, Objects
  <2> HIDE DEF q, work
  <2>2. CASE drain' = drain /\ draining' = draining
    BY <2>2 DEF LoopInv
  <2>3. CASE ScheduleDrain(q, work, drain, draining)
    BY <1>0, <2>1, <2>3, ScheduleLoops DEF LoopInv
  <2> QED BY <2>1, <2>2, <2>3
<1>2. CASE PrimaryEnds
  <2>1. ScheduleDrain(current, Work, drain, draining)
    BY <1>2 DEF PrimaryEnds
  <2> QED BY <1>0, <2>1, ScheduleLoops DEF LoopInv
<1>3. CASE PrimaryStarts \/ CommandRun \/ Clear \/ UNCHANGED vars
  BY <1>3 DEF PrimaryStarts, CommandRun, Clear, vars, objVars, LoopInv
<1>4. ASSUME NEW q \in Objects, DrainStep(q) \/ RunFails(q) PROVE LoopInv'
  <2>0. drain[q].pc # "idle"
    BY <1>4 DEF DrainStep, RunFails, DrainWakes, DrainCollects, RunSucceeds
  <2>1. draining[q]
    BY <2>0 DEF LoopInv
  <2>2. ASSUME NEW work, Finish(q, work) PROVE LoopInv'
    BY <2>2, FinishLoops
  <2>3. ASSUME NEW force, NEW msgs, NEW summary, NEW take,
               StartRun(q, force, msgs, summary, take)
        PROVE  LoopInv'
    <3> DEFINE d == [pc |-> "running", force |-> force, msgs |-> msgs,
                     summary |-> summary, take |-> take]
    <3>1. d.pc # "idle"
      OBVIOUS
    <3>2. drain' = [drain EXCEPT ![q] = d] /\ draining' = draining
      BY <2>3 DEF StartRun
    <3> HIDE DEF d
    <3> QED BY <2>1, <3>1, <3>2, StartLoops
  <2>4. ASSUME NEW pc \in {"debounce", "checked"}, NEW force \in BOOLEAN,
               drain' = [drain EXCEPT ![q] = At(pc, force)], draining' = draining
        PROVE  LoopInv'
    <3>1. At(pc, force).pc # "idle"
      BY RestingIdle
    <3> QED BY <2>1, <2>4, <3>1, StartLoops
  <2>5. drain[q].force \in BOOLEAN
    BY <1>0 DEF DrainType
  <2>6. CASE DrainWakes(q)
    <3>1. \/ \E work : Finish(q, work)
          \/ \E force, msgs, summary, take : StartRun(q, force, msgs, summary, take)
          \/ drain' = [drain EXCEPT ![q] = At("checked", FALSE)] /\ draining' = draining
      BY <2>6 DEF DrainWakes
    <3> QED BY <2>2, <2>3, <2>4, <3>1
  <2>7. CASE DrainCollects(q)
    BY <2>2, <2>3, <2>7 DEF DrainCollects
  <2>8. CASE RunSucceeds(q)
    BY <2>2, <2>4, <2>5, <2>8 DEF RunSucceeds
  <2>9. CASE RunFails(q)
    BY <2>2, <2>9 DEF RunFails
  <2> QED BY <1>4, <2>6, <2>7, <2>8, <2>9 DEF DrainStep
<1> QED BY <1>1, <1>2, <1>3, <1>4 DEF Next

(* Nothing undoes a drop, a summary or a clear unseen.                     *)
LEMMA UndisturbedBefore ==
    TypeOK /\ [Next]_vars /\ Undisturbed' => Undisturbed
<1> SUFFICES ASSUME TypeOK, [Next]_vars, Undisturbed' PROVE Undisturbed
  OBVIOUS
<1>0. /\ clears' = 0 /\ discarded' = {} /\ summarized' = {}
      /\ \A p \in Objects : dropped'[p] = {}
  BY DEF Undisturbed
<1>1. ASSUME NEW m \in Msgs, NEW md \in Modes, NEW pol \in Policies,
             NEW active \in BOOLEAN, NEW restart \in BOOLEAN,
             Enqueue(m, md, pol, active, restart)
      PROVE  Undisturbed
  <2> DEFINE q == IF current = 0 THEN created + 1 ELSE current
  <2>1. clears' = clears /\ summarized' = summarized /\ discarded \subseteq discarded'
    BY <1>1 DEF Enqueue
  <2>2. q \in Objects
    BY <1>1 DEF Enqueue
  <2>3. dropped' = dropped \/ dropped' = [dropped EXCEPT ![q] = @ \cup Front(q)]
    BY <1>1 DEF Enqueue
  <2> HIDE DEF q
  <2>4. \A p \in Objects : dropped[p] \subseteq dropped'[p]
    BY <2>2, <2>3 DEF TypeOK
  <2> QED BY <1>0, <2>1, <2>4 DEF Undisturbed
<1>2. CASE PrimaryStarts \/ CommandRun \/ PrimaryEnds \/ UNCHANGED vars
  BY <1>2 DEF PrimaryStarts, CommandRun, PrimaryEnds, vars, objVars, logVars, Undisturbed
<1>3. CASE Clear
  <2>1. clears \in Nat /\ clears' = clears + 1
    BY <1>3, ConstantsAssumption DEF Clear, TypeOK
  <2> QED BY <1>0, <2>1
<1>4. ASSUME NEW q \in Objects, DrainWakes(q) \/ DrainCollects(q) \/ RunFails(q)
      PROVE  Undisturbed
  BY <1>4 DEF DrainWakes, DrainCollects, RunFails, logVars, Undisturbed
<1>5. ASSUME NEW q \in Objects, RunSucceeds(q) PROVE Undisturbed
  <2>1. /\ clears' = clears /\ discarded' = discarded
        /\ summarized' = summarized \cup drain[q].summary
        /\ dropped' = [dropped EXCEPT ![q] = IF drain[q].summary # {} THEN {} ELSE dropped[q]]
    BY <1>5 DEF RunSucceeds
  <2>2. drain[q].summary = {}
    BY <1>0, <2>1
  <2>3. dropped' = dropped
    BY <2>1, <2>2 DEF TypeOK
  <2> QED BY <1>0, <2>1, <2>3 DEF Undisturbed
<1> QED BY <1>1, <1>2, <1>3, <1>4, <1>5 DEF Next, DrainStep

LEMMA FifoInit == Init => LoopInv /\ FifoInv
<1> SUFFICES ASSUME Init PROVE LoopInv /\ FifoInv
  OBVIOUS
<1>1. \A q \in Objects : drain[q] = Idle /\ ~draining[q] /\ items[q] = <<>>
  BY DEF Init
<1>2. accepted = ran \o Backlog
  BY EmptySeq, ConcatProperties DEF Init, Backlog
<1>3. LoopInv
  BY <1>1, RestingIdle DEF LoopInv
<1>4. Fifo
  BY <1>1, <1>2, RestingIdle DEF Fifo, RunsFront
<1> QED BY <1>3, <1>4 DEF FifoInv

(* What the parts of a step add up to, q being the one object in use.      *)
LEMMA FifoParts ==
    ASSUME NEW q \in Objects,
           accepted' = ran' \o items'[q],
           \A p \in Objects : p # q => drain'[p].pc = "idle" /\ items'[p] = <<>>,
           \A p \in Objects : drain'[p].summary = {},
           RunsFront(q)',
           current' = q \/ (current' = 0 /\ drain'[q].pc = "idle" /\ items'[q] = <<>>)
    PROVE  Fifo'
<1>1. q # 0
  BY DEF Objects
<1>2. accepted' = ran' \o Backlog'
  BY <1>1 DEF Backlog
<1>3. \A p \in Objects : p # current' => drain'[p].pc = "idle" /\ items'[p] = <<>>
  OBVIOUS
<1>4. \A p \in Objects : RunsFront(p)'
  BY DEF RunsFront
<1> QED BY <1>2, <1>3, <1>4 DEF Fifo

(* A step that settles the loop of q over items that leave the front as it *)
(* is.                                                                     *)
LEMMA FifoSettled ==
    ASSUME TypeOK, LoopInv', Fifo, NEW q \in Objects, current \in {0, q},
           NEW work, Settled(q, work),
           \A p \in Objects : p # q => items'[p] = items[p],
           accepted' = ran' \o items'[q],
           ~work[q] => items'[q] = <<>>,
           drain'[q] = drain[q] => RunsFront(q)'
    PROVE  Fifo'
<1>1. \A p \in Objects : p # q => drain'[p].pc = "idle" /\ items'[p] = <<>>
  BY DEF Fifo, Objects, Settled
<1>2. drain'[q] = drain[q] \/ drain'[q].pc \in {"idle", "debounce"}
  BY RestingIdle DEF Settled
<1>3. RunsFront(q)'
  BY <1>2 DEF RunsFront
<1>4. \A p \in Objects : drain'[p].summary = {}
  BY RestingIdle DEF Fifo, Settled
<1>5. current' = q \/ (current' = 0 /\ drain'[q].pc = "idle" /\ items'[q] = <<>>)
  BY DEF Settled, LoopInv
<1> QED BY <1>1, <1>3, <1>4, <1>5, FifoParts

(* A push at the end leaves the front as it is.                            *)
LEMMA FrontOfAppend ==
    ASSUME NEW S, NEW s \in Seq(S), NEW m \in S, NEW n \in Nat, n <= Len(s)
    PROVE  SubSeq(Append(s, m), 1, n) = SubSeq(s, 1, n)
<1>1. Append(s, m) = s \o <<m>> /\ <<m>> \in Seq(S) /\ Len(s) \in Nat
  BY AppendIsConcat
<1>2. CASE n = 0
  BY <1>2, SubSeqEmpty
<1>3. CASE n # 0
  <2>1. 1 \in 1..Len(s) /\ n \in 1..Len(s)
    BY <1>1, <1>3
  <2> QED BY <1>1, <2>1, SubSeqOfConcat1
<1> QED BY <1>2, <1>3

(* A sequence is its front followed by the rest.                           *)
LEMMA FrontAndRest ==
    ASSUME NEW S, NEW s \in Seq(S), NEW n \in Nat, n <= Len(s)
    PROVE  s = SubSeq(s, 1, n) \o SubSeq(s, n + 1, Len(s))
<1>1. Len(s) \in Nat /\ 1 \in 1..Len(s) + 1 /\ n \in 1 - 1 .. Len(s) /\ Len(s) \in n .. Len(s)
  BY LenProperties
<1>2. SubSeq(s, 1, n) \o SubSeq(s, n + 1, Len(s)) = SubSeq(s, 1, Len(s))
  BY <1>1, ConcatAdjacentSubSeq
<1> QED BY <1>2, SubSeqFull

(* Undisturbed, a push drops nothing to make room.                         *)
LEMMA EnqueueFifo ==
    ASSUME TypeOK, LoopInv, LoopInv', Undisturbed', Undisturbed, Fifo,
           NEW m \in Msgs, NEW md \in Modes, NEW pol \in Policies,
           NEW active \in BOOLEAN, NEW restart \in BOOLEAN,
           Enqueue(m, md, pol, active, restart)
    PROVE  Fifo'
<1> DEFINE target == IF current = 0 THEN created + 1 ELSE current
<1>q. PICK q \in Objects : q = target
  BY DEF Enqueue
<1> DEFINE taken == ~Duplicate(m, q) /\ ~(Excess(q) > 0 /\ pol = "new")
           work == [Work EXCEPT ![q] = @ \/ taken]
<1>1. current \in {0, q} /\ q # 0
  BY <1>q DEF Objects
<1>2. /\ IF taken
         THEN /\ items' = [items EXCEPT ![q] = Pushed(m, q)]
              /\ dropped' = IF pol = "summarize"
                            THEN [dropped EXCEPT ![q] = @ \cup Front(q)] ELSE dropped
              /\ discarded' = IF pol = "old" THEN discarded \cup Front(q) ELSE discarded
              /\ accepted' = Append(accepted, m)
         ELSE UNCHANGED <<items, dropped, discarded, accepted>>
      /\ ran' = ran
      /\ \/ current' = q /\ UNCHANGED <<drain, draining>>
         \/ ScheduleDrain(q, work, drain, draining)
  BY <1>q DEF Enqueue
<1> HIDE DEF target
<1>3. /\ items[q] \in Seq(Msgs) /\ ran \in Seq(Msgs) /\ Len(items[q]) \in Nat
      /\ accepted = ran \o items[q]
      /\ \A p \in Objects : p # q => drain[p].pc = "idle" /\ items[p] = <<>>
  <2>1. items[q] \in Seq(Msgs) /\ ran \in Seq(Msgs)
    BY DEF TypeOK
  <2>2. \A p \in Objects : p # q => drain[p].pc = "idle" /\ items[p] = <<>>
    BY <1>1 DEF Fifo, Objects
  <2>3. accepted = ran \o items[q]
    BY <1>1 DEF Fifo, Backlog
  <2> QED BY <2>1, <2>2, <2>3
<1>4. /\ \A p \in Objects : p # q => items'[p] = items[p]
      /\ accepted' = ran' \o items'[q]
      /\ RunsFront(q) /\ drain'[q] = drain[q] => RunsFront(q)'
      /\ ~work[q] => items'[q] = <<>>
  <2>1. CASE taken
    <3>1. Excess(q) = 0
      <4>1. Excess(q) \in 0..Len(items[q])
        BY PushType
      <4>2. SUFFICES ASSUME Excess(q) > 0 PROVE FALSE
        BY <1>3, <4>1
      <4>3. Front(q) # {}
        <5>1. 1 \in 1..Excess(q)
          BY <4>1, <4>2
        <5> QED BY <5>1 DEF Front
      <4>4. pol = "old" \/ pol = "summarize"
        BY <2>1, <4>2, ConstantsAssumption
      <4>5. CASE pol = "old"
        BY <1>2, <2>1, <4>3, <4>5 DEF Undisturbed
      <4>6. CASE pol = "summarize"
        BY <1>2, <2>1, <4>3, <4>6 DEF Undisturbed, TypeOK
      <4> QED BY <4>4, <4>5, <4>6
    <3>2. Pushed(m, q) = Append(items[q], m)
      BY <1>3, <3>1, SubSeqFull DEF Pushed
    <3>3. /\ items'[q] = Append(items[q], m) /\ items'[q] # <<>>
          /\ \A p \in Objects : p # q => items'[p] = items[p]
          /\ accepted' = Append(ran \o items[q], m)
      BY <1>2, <1>3, <2>1, <3>2, AppendProperties DEF TypeOK
    <3>4. accepted' = ran \o items'[q]
      <4>1. <<m>> \in Seq(Msgs) /\ ran \o items[q] \in Seq(Msgs)
        BY <1>3, ConcatProperties
      <4>2. /\ Append(ran \o items[q], m) = (ran \o items[q]) \o <<m>>
            /\ Append(items[q], m) = items[q] \o <<m>>
        BY <1>3, <4>1, AppendIsConcat
      <4>3. \A r, s, t \in Seq(Msgs) : (r \o s) \o t = r \o (s \o t)
        BY ConcatAssociative
      <4>4. (ran \o items[q]) \o <<m>> = ran \o (items[q] \o <<m>>)
        BY <1>3, <4>1, <4>3, Zenon
      <4> QED BY <3>3, <4>2, <4>4
    <3>5. ASSUME RunsFront(q), drain'[q] = drain[q] PROVE RunsFront(q)'
      <4>1. drain[q].take \in Nat /\ Len(Append(items[q], m)) = Len(items[q]) + 1
        BY <1>3, AppendProperties DEF TypeOK
      <4> QED BY <1>3, <3>3, <3>5, <4>1, FrontOfAppend DEF RunsFront
    <3>6. work[q]
      <4>1. DOMAIN Work = Objects
        BY DEF Work
      <4> QED BY <2>1, <4>1
    <3> QED BY <1>2, <3>3, <3>4, <3>5, <3>6
  <2>2. CASE ~taken
    <3>1. items' = items /\ accepted' = accepted
      BY <1>2, <2>2
    <3>2. ~work[q] => items[q] = <<>>
      BY DEF Work, HasWork
    <3> QED BY <1>2, <1>3, <3>1, <3>2 DEF RunsFront
  <2> QED BY <2>1, <2>2
<1> HIDE DEF taken, work
<1>5. CASE current' = q /\ UNCHANGED <<drain, draining>>
  <2>1. /\ \A p \in Objects : p # q => drain'[p].pc = "idle" /\ items'[p] = <<>>
        /\ \A p \in Objects : drain'[p].summary = {}
        /\ RunsFront(q)'
    BY <1>3, <1>4, <1>5 DEF Fifo
  <2> QED BY <1>4, <1>5, <2>1, FifoParts
<1>6. CASE ScheduleDrain(q, work, drain, draining)
  <2>1. Settled(q, work)
    BY <1>6, ScheduleSettles
  <2>2. drain'[q] = drain[q] => RunsFront(q)'
    BY <1>4 DEF Fifo
  <2> QED BY <1>1, <1>4, <2>1, <2>2, FifoSettled
<1> QED BY <1>2, <1>5, <1>6

LEMMA SubSeqOne ==
    ASSUME NEW S, NEW s \in Seq(S), NEW i \in 1..Len(s)
    PROVE  SubSeq(s, i, i) = <<s[i]>>
<1>1. Len(s) \in Nat /\ i \in Int /\ s[i] \in S
  BY ElementOfSeq
<1>2. /\ SubSeq(s, i, i) \in Seq(S) /\ Len(SubSeq(s, i, i)) = 1
      /\ SubSeq(s, i, i)[1] = s[i]
  <2>1. \A j \in i..i : s[j] \in S
    BY <1>1
  <2>2. i <= i /\ i - i + 1 = 1 /\ 1 \in 1..i - i + 1 /\ i + 1 - 1 = i
    BY <1>1
  <2> QED BY <1>1, <2>1, <2>2, SubSeqProperties
<1>3. <<s[i]>> \in Seq(S) /\ Len(<<s[i]>>) = 1 /\ <<s[i]>>[1] = s[i]
  BY <1>1
<1>4. \A t, u \in Seq(S) : Len(t) = 1 /\ Len(u) = 1 /\ t[1] = u[1] => t = u
  BY SeqEqual
<1> QED BY <1>2, <1>3, <1>4

(* A loop starts a run of the front of its queue, without a summary.       *)
LEMMA StartFifo ==
    ASSUME TypeOK, Fifo, NEW q \in Objects, drain[q].pc # "idle",
           NEW force \in BOOLEAN, NEW take \in Nat, take <= Len(items[q]),
           NEW prompt, prompt = SubSeq(items[q], 1, take),
           StartRun(q, force, prompt, {}, take),
           UNCHANGED <<items, accepted, ran>>
    PROVE  Fifo'
<1> DEFINE run == [pc |-> "running", force |-> force, msgs |-> prompt,
                   summary |-> {}, take |-> take]
<1>1. drain' = [drain EXCEPT ![q] = run] /\ current' = current /\ current = q
  BY DEF StartRun, Fifo
<1>2. drain'[q] = run /\ \A p \in Objects : p # q => drain'[p] = drain[p]
  BY <1>1 DEF TypeOK
<1>3. RunsFront(q)' /\ drain'[q].summary = {}
  BY <1>2 DEF RunsFront
<1> HIDE DEF run
<1>4. accepted' = ran' \o items'[q]
  BY <1>1 DEF Fifo, Backlog, Objects
<1>5. \A p \in Objects : p # q => drain'[p].pc = "idle" /\ items'[p] = <<>>
  BY <1>1, <1>2 DEF Fifo
<1>6. \A p \in Objects : drain'[p].summary = {}
  BY <1>2, <1>3 DEF Fifo
<1> QED BY <1>1, <1>3, <1>4, <1>5, <1>6, FifoParts

LEMMA WakesFifo ==
    ASSUME TypeOK, LoopInv, LoopInv', Undisturbed, Fifo, NEW q \in Objects, DrainWakes(q)
    PROVE  Fifo'
<1> DEFINE force == drain[q].force \/ (mode[q] = "collect" /\ CrossChannel(q))
<1>0. UNCHANGED <<items, accepted, ran>> /\ drain[q].pc = "debounce"
  BY DEF DrainWakes, logVars
<1>1. current = q
  BY <1>0 DEF Fifo
<1>2. accepted' = ran' \o items'[q] /\ ~HasSummary(q)
  BY <1>0, <1>1 DEF Fifo, Backlog, Objects, Undisturbed, HasSummary
<1>3. /\ items[q] \in Seq(Msgs) /\ Len(items[q]) \in Nat /\ force \in BOOLEAN
  BY DEF TypeOK
<1>4. CASE drain' = [drain EXCEPT ![q] = At("checked", FALSE)] /\ UNCHANGED <<current, draining>>
  <2>1. /\ drain'[q] = At("checked", FALSE) /\ \A p \in Objects : p # q => drain'[p] = drain[p]
    BY <1>4 DEF TypeOK
  <2>2. drain'[q].pc # "running" /\ \A p \in Objects : drain'[p].summary = {}
    BY <2>1, RestingIdle DEF Fifo
  <2>3. \A p \in Objects : p # q => drain'[p].pc = "idle" /\ items'[p] = <<>>
    BY <1>0, <1>1, <2>1 DEF Fifo
  <2>4. RunsFront(q)'
    BY <2>2 DEF RunsFront
  <2> QED BY <1>1, <1>2, <1>4, <2>2, <2>3, <2>4, FifoParts
<1>5. CASE items[q] = <<>> /\ Finish(q, Work)
  <2>1. Settled(q, Work) /\ drain'[q].pc # "running"
    BY <1>1, <1>5, FinishSettles
  <2> QED BY <1>0, <1>1, <1>2, <1>5, <2>1, FifoSettled DEF RunsFront
<1>6. CASE items[q] # <<>> /\ StartRun(q, force, <<Head(items[q])>>, {}, 1)
  <2>1. 1 \in 1..Len(items[q]) /\ 1 <= Len(items[q]) /\ Head(items[q]) = items[q][1]
    BY <1>3, <1>6
  <2>2. SubSeq(items[q], 1, 1) = <<Head(items[q])>>
    BY <1>3, <2>1, SubSeqOne
  <2>3. drain[q].pc # "idle" /\ 1 \in Nat
    BY <1>0
  <2> HIDE DEF force
  <2> QED BY <1>0, <1>3, <1>6, <2>1, <2>2, <2>3, StartFifo
<1> QED BY <1>2, <1>4, <1>5, <1>6 DEF DrainWakes

LEMMA CollectsFifo ==
    ASSUME TypeOK, LoopInv, LoopInv', Undisturbed, Fifo, NEW q \in Objects, DrainCollects(q)
    PROVE  Fifo'
<1>0. UNCHANGED <<items, accepted, ran>> /\ drain[q].pc = "checked"
  BY DEF DrainCollects, logVars
<1>1. current = q
  BY <1>0 DEF Fifo
<1>2. accepted' = ran' \o items'[q] /\ ~HasSummary(q) /\ dropped[q] = {}
  BY <1>0, <1>1 DEF Fifo, Backlog, Objects, Undisturbed, HasSummary
<1>3. /\ items[q] \in Seq(Msgs) /\ Len(items[q]) \in Nat
      /\ SubSeq(items[q], 1, Len(items[q])) = items[q]
  BY SubSeqFull DEF TypeOK
<1>4. CASE HasWork(q)
  <2>1. StartRun(q, FALSE, items[q], {}, Len(items[q]))
    BY <1>2, <1>3, <1>4 DEF DrainCollects
  <2>2. drain[q].pc # "idle" /\ Len(items[q]) <= Len(items[q])
    BY <1>0, <1>3
  <2>3. \A n \in Nat : \A p :
           n <= Len(items[q]) /\ p = SubSeq(items[q], 1, n) /\ StartRun(q, FALSE, p, {}, n)
              => Fifo'
    BY <1>0, <2>2, StartFifo
  <2> QED BY <1>3, <2>1, <2>2, <2>3, Zenon
<1>5. CASE ~HasWork(q)
  <2>1. Finish(q, Work) /\ items[q] = <<>>
    BY <1>5 DEF DrainCollects, HasWork
  <2>2. Settled(q, Work) /\ drain'[q].pc # "running"
    BY <1>1, <2>1, FinishSettles
  <2> QED BY <1>0, <1>1, <1>2, <2>1, <2>2, FifoSettled DEF RunsFront
<1> QED BY <1>4, <1>5

(* The prompt joins what ran, and the queue keeps the rest.                *)
LEMMA SucceedsFifo ==
    ASSUME TypeOK, LoopInv, LoopInv', Undisturbed, Fifo, NEW q \in Objects, RunSucceeds(q)
    PROVE  Fifo'
<1>0. /\ drain[q].pc = "running"
      /\ items' = [items EXCEPT ![q] = Remaining(q)]
      /\ ran' = ran \o drain[q].msgs /\ accepted' = accepted
  BY DEF RunSucceeds
<1>1. current = q /\ drain[q].summary = {} /\ dropped[q] = {}
  BY <1>0 DEF Fifo, Undisturbed
<1>2. /\ items[q] \in Seq(Msgs) /\ ran \in Seq(Msgs) /\ drain[q].take \in Nat
      /\ drain[q].msgs \in Seq(Msgs) /\ drain[q].force \in BOOLEAN
      /\ Remaining(q) \in Seq(Msgs)
  BY SucceedsKinds DEF TypeOK
<1>3. /\ drain[q].take <= Len(items[q])
      /\ drain[q].msgs = SubSeq(items[q], 1, drain[q].take)
      /\ accepted = ran \o items[q]
  BY <1>0, <1>1 DEF Fifo, RunsFront, Backlog, Objects
<1>4. items[q] = drain[q].msgs \o Remaining(q)
  BY <1>2, <1>3, FrontAndRest DEF Remaining
<1>5. /\ items'[q] = Remaining(q)
      /\ \A p \in Objects : p # q => items'[p] = items[p]
  BY <1>0 DEF TypeOK
<1>6. accepted' = ran' \o items'[q]
  <2>1. \A r, s, t \in Seq(Msgs) : (r \o s) \o t = r \o (s \o t)
    BY ConcatAssociative
  <2>2. (ran \o drain[q].msgs) \o Remaining(q) = ran \o (drain[q].msgs \o Remaining(q))
    BY <1>2, <2>1, Zenon
  <2> QED BY <1>0, <1>3, <1>4, <1>5, <2>2
<1>7. CASE /\ drain' = [drain EXCEPT ![q] = At("debounce", drain[q].force)]
           /\ UNCHANGED <<current, draining>>
  <2>1. /\ drain'[q] = At("debounce", drain[q].force)
        /\ \A p \in Objects : p # q => drain'[p] = drain[p]
    BY <1>7 DEF TypeOK
  <2>2. drain'[q].pc # "running" /\ \A p \in Objects : drain'[p].summary = {}
    BY <1>2, <2>1, RestingIdle DEF Fifo
  <2>3. \A p \in Objects : p # q => drain'[p].pc = "idle" /\ items'[p] = <<>>
    BY <1>1, <1>5, <2>1 DEF Fifo
  <2>4. RunsFront(q)'
    BY <2>2 DEF RunsFront
  <2> QED BY <1>1, <1>6, <1>7, <2>2, <2>3, <2>4, FifoParts
<1>8. CASE Remaining(q) = <<>> /\ Finish(q, [Work EXCEPT ![q] = FALSE])
  <2> DEFINE work == [Work EXCEPT ![q] = FALSE]
  <2>1. Finish(q, work)
    BY <1>8
  <2> HIDE DEF work
  <2>2. Settled(q, work) /\ drain'[q].pc # "running"
    BY <1>1, <2>1, FinishSettles
  <2> QED BY <1>1, <1>5, <1>6, <1>8, <2>2, FifoSettled DEF RunsFront
<1> QED BY <1>1, <1>7, <1>8 DEF RunSucceeds

LEMMA FifoNext ==
    TypeOK /\ TypeOK' /\ LoopInv /\ LoopInv' /\ FifoInv /\ [Next]_vars => FifoInv'
<1> SUFFICES ASSUME TypeOK, TypeOK', LoopInv, LoopInv', FifoInv, [Next]_vars, Undisturbed'
             PROVE  Fifo'
  BY DEF FifoInv
<1>0. Undisturbed /\ Fifo
  BY UndisturbedBefore DEF FifoInv
<1>1. ASSUME NEW m \in Msgs, NEW md \in Modes, NEW pol \in Policies,
             NEW active \in BOOLEAN, NEW restart \in BOOLEAN,
             Enqueue(m, md, pol, active, restart)
      PROVE  Fifo'
  BY <1>0, <1>1, EnqueueFifo
<1>2. CASE PrimaryStarts \/ CommandRun \/ UNCHANGED vars
  BY <1>0, <1>2 DEF PrimaryStarts, CommandRun, vars, objVars, logVars, Fifo, Backlog, RunsFront
<1>3. CASE PrimaryEnds
  <2>1. /\ ScheduleDrain(current, Work, drain, draining)
        /\ UNCHANGED <<items, accepted, ran>>
    BY <1>3 DEF PrimaryEnds, logVars
  <2>2. CASE current = 0
    BY <1>0, <2>1, <2>2 DEF ScheduleDrain, Fifo, Backlog, RunsFront
  <2>3. CASE current # 0
    <3>1. PICK q \in Objects : q = current
      BY <2>3, ConstantsAssumption DEF TypeOK, Objects
    <3>2. Settled(q, Work)
      BY <2>1, <3>1, ScheduleSettles
    <3>3. accepted' = ran' \o items'[q] /\ (~Work[q] => items'[q] = <<>>)
      BY <1>0, <2>1, <2>3, <3>1 DEF Fifo, Backlog, Work, HasWork
    <3>4. drain'[q] = drain[q] => RunsFront(q)'
      BY <1>0, <2>1 DEF Fifo, RunsFront
    <3> QED BY <1>0, <2>1, <3>1, <3>2, <3>3, <3>4, FifoSettled
  <2> QED BY <2>2, <2>3
<1>4. CASE Clear
  <2>1. clears \in Nat /\ clears' = clears + 1
    BY <1>4, ConstantsAssumption DEF Clear, TypeOK
  <2> QED BY <2>1 DEF Undisturbed
<1>5. ASSUME NEW q \in Objects, DrainStep(q) PROVE Fifo'
  BY <1>0, <1>5, WakesFifo, CollectsFifo, SucceedsFifo DEF DrainStep
<1>6. ASSUME NEW q \in Objects, RunFails(q) PROVE Fifo'
  <2>1. /\ drain[q].pc = "running" /\ Finish(q, Work)
        /\ UNCHANGED <<items, accepted, ran>>
    BY <1>6 DEF RunFails, logVars
  <2>2. current = q
    BY <1>0, <2>1 DEF Fifo
  <2>3. Settled(q, Work) /\ drain'[q].pc # "running"
    BY <2>1, <2>2, FinishSettles
  <2>4. accepted' = ran' \o items'[q] /\ (~Work[q] => items'[q] = <<>>)
    <3>1. accepted = ran \o items[q]
      BY <1>0, <2>2 DEF Fifo, Backlog, Objects
    <3>2. ~Work[q] => items[q] = <<>>
      BY DEF Work, HasWork
    <3> QED BY <2>1, <3>1, <3>2
  <2> QED BY <1>0, <2>1, <2>2, <2>3, <2>4, FifoSettled DEF RunsFront
<1> QED BY <1>1, <1>2, <1>3, <1>4, <1>5, <1>6 DEF Next

LEMMA FifoInvariant == Spec => [](TypeOK /\ LoopInv /\ FifoInv)
BY TypeInit, TypeNext, FifoInit, LoopNext, FifoNext, PTL DEF Spec

(* Messages are answered in the order they were accepted: a failed run     *)
(* leaves its prompt in the queue, pushes go behind it, and a loop that    *)
(* ends forgets its object only when there is nothing in it.               *)
THEOREM InOrderHolds == Spec => []InOrder
<1>1. TypeOK /\ FifoInv => InOrder
  <2> SUFFICES ASSUME TypeOK, Undisturbed, Fifo, NEW i \in DOMAIN ran, NEW j \in DOMAIN ran,
                      i < j
               PROVE  \E k, l \in DOMAIN accepted :
                         k < l /\ accepted[k] = ran[i] /\ accepted[l] = ran[j]
    BY DEF FifoInv, InOrder
  <2>1. /\ ran \in Seq(Msgs) /\ Backlog \in Seq(Msgs) /\ accepted \in Seq(Msgs)
        /\ accepted = ran \o Backlog
    BY ConstantsAssumption, EmptySeq DEF TypeOK, Backlog, Fifo, Objects
  <2>2. \A n \in DOMAIN ran : n \in DOMAIN accepted /\ accepted[n] = ran[n]
    BY <2>1, ConcatProperties, LenProperties
  <2> QED BY <2>2
<1> QED BY <1>1, FifoInvariant, PTL

(* Undisturbed, no accepted message is lost: it ran, or it waits in the    *)
(* object the key maps to.                                                 *)
THEOREM NoLossUndisturbedHolds == Spec => []NoLossUndisturbed
<1>1. TypeOK /\ FifoInv => NoLossUndisturbed
  <2> SUFFICES ASSUME TypeOK, Undisturbed, Fifo, NEW i \in DOMAIN accepted
               PROVE  accepted[i] \in Waiting \cup Done
    BY DEF FifoInv, NoLossUndisturbed, NoSilentLoss, Members
  <2>1. /\ ran \in Seq(Msgs) /\ Backlog \in Seq(Msgs) /\ accepted \in Seq(Msgs)
        /\ accepted = ran \o Backlog
    BY ConstantsAssumption, EmptySeq DEF TypeOK, Backlog, Fifo, Objects
  <2>2. \/ i \in DOMAIN ran /\ accepted[i] = ran[i]
        \/ i - Len(ran) \in DOMAIN Backlog /\ accepted[i] = Backlog[i - Len(ran)]
    BY <2>1, ConcatProperties, LenProperties
  <2>3. CASE i \in DOMAIN ran /\ accepted[i] = ran[i]
    BY <2>3 DEF Done, Members
  <2>4. CASE i - Len(ran) \in DOMAIN Backlog /\ accepted[i] = Backlog[i - Len(ran)]
    <3>1. current # 0 /\ Backlog = items[current]
      BY <2>4, EmptySeq DEF Backlog
    <3>2. current \in Objects /\ Known(current)
      BY <3>1, ConstantsAssumption DEF TypeOK, Objects, Known
    <3>3. accepted[i] \in Members(items[current])
      BY <2>4, <3>1 DEF Members
    <3> QED BY <3>2, <3>3 DEF Waiting
  <2> QED BY <2>2, <2>3, <2>4
<1> QED BY <1>1, FifoInvariant, PTL

-----------------------------------------------------------------------------
(* The promise of Inbox.  The recent message ids are those of the messages *)
(* accepted, so that none is accepted twice.                               *)
IntakeInv == recent = Members(accepted)

LEMMA AppendMembers ==
    ASSUME NEW S, NEW s \in Seq(S), NEW m \in S
    PROVE  Members(Append(s, m)) = Members(s) \cup {m}
<1>1. /\ Len(s) \in Nat /\ DOMAIN s = 1..Len(s)
      /\ DOMAIN Append(s, m) = 1..(Len(s) + 1)
      /\ Append(s, m)[Len(s) + 1] = m
      /\ \A i \in 1..Len(s) : Append(s, m)[i] = s[i]
  BY LenProperties, AppendProperties
<1>2. \A i \in 1..(Len(s) + 1) : i \in 1..Len(s) \/ i = Len(s) + 1
  BY <1>1
<1>3. Len(s) + 1 \in 1..(Len(s) + 1) /\ \A i \in 1..Len(s) : i \in 1..(Len(s) + 1)
  BY <1>1
<1>4. Members(Append(s, m)) \subseteq Members(s) \cup {m}
  BY <1>1, <1>2 DEF Members
<1>5. Members(s) \cup {m} \subseteq Members(Append(s, m))
  BY <1>1, <1>3 DEF Members
<1> QED BY <1>4, <1>5

(* A sequence is a prefix of what continues it.                            *)
LEMMA ConcatPrefix ==
    ASSUME NEW S, NEW s \in Seq(S), NEW t \in Seq(S)
    PROVE  Intake!Prefix(s, s \o t)
<1>1. Len(s) \in Nat /\ Len(t) \in Nat /\ Len(s \o t) = Len(s) + Len(t)
  BY LenProperties, ConcatProperties
<1>2. SubSeq(s \o t, 1, Len(s)) = s
  <2>1. CASE Len(s) = 0
    BY <2>1, SubSeqEmpty, EmptySeq
  <2>2. CASE Len(s) # 0
    <3>1. 1 \in 1..Len(s) /\ Len(s) \in 1..Len(s)
      BY <1>1, <2>2
    <3>2. SubSeq(s \o t, 1, Len(s)) = SubSeq(s, 1, Len(s))
      BY <1>1, <3>1, SubSeqOfConcat1
    <3> QED BY <3>2, SubSeqFull
  <2> QED BY <2>1, <2>2
<1>3. Len(s) \in 0..Len(s \o t)
  BY <1>1
<1> QED BY <1>2, <1>3 DEF Intake!Prefix

(* Messages are taken in by Enqueue and answered by RunSucceeds only.      *)
LEMMA IntakeSteps ==
    ASSUME TypeOK, [Next]_vars
    PROVE  \/ UNCHANGED <<accepted, recent, ran>>
           \/ \E m \in Msgs : /\ m \notin recent /\ recent' = recent \cup {m}
                              /\ accepted' = Append(accepted, m) /\ UNCHANGED ran
           \/ \E s \in Seq(Msgs) : ran' = ran \o s /\ UNCHANGED <<accepted, recent>>
<1> DEFINE Goal ==
      \/ UNCHANGED <<accepted, recent, ran>>
      \/ \E m \in Msgs : /\ m \notin recent /\ recent' = recent \cup {m}
                         /\ accepted' = Append(accepted, m) /\ UNCHANGED ran
      \/ \E s \in Seq(Msgs) : ran' = ran \o s /\ UNCHANGED <<accepted, recent>>
<1> SUFFICES Goal
  OBVIOUS
<1>1. ASSUME NEW m \in Msgs, NEW md \in Modes, NEW pol \in Policies,
             NEW active \in BOOLEAN, NEW restart \in BOOLEAN,
             Enqueue(m, md, pol, active, restart)
      PROVE  Goal
  BY <1>1 DEF Enqueue, Duplicate
<1>2. CASE PrimaryStarts \/ CommandRun \/ PrimaryEnds \/ Clear \/ UNCHANGED vars
  BY <1>2 DEF PrimaryStarts, CommandRun, PrimaryEnds, Clear, vars, logVars
<1>3. ASSUME NEW q \in Objects, DrainWakes(q) \/ DrainCollects(q) \/ RunFails(q)
      PROVE  Goal
  BY <1>3 DEF DrainWakes, DrainCollects, RunFails, logVars
<1>4. ASSUME NEW q \in Objects, RunSucceeds(q) PROVE Goal
  <2>1. drain[q].msgs \in Seq(Msgs)
    BY DEF TypeOK
  <2> QED BY <1>4, <2>1 DEF RunSucceeds
<1> QED BY <1>1, <1>2, <1>3, <1>4 DEF Next, DrainStep

LEMMA IntakeInit == Init => IntakeInv /\ Intake!Init
<1>1. Init => IntakeInv
  BY EmptyPrompt DEF Init, IntakeInv
<1>2. Init => Undisturbed
  BY DEF Init, Undisturbed
<1> QED BY <1>1, <1>2 DEF Init, Intake!Init

LEMMA IntakeNext == TypeOK /\ IntakeInv /\ [Next]_vars => IntakeInv'
<1> SUFFICES ASSUME TypeOK, IntakeInv, [Next]_vars PROVE IntakeInv'
  OBVIOUS
<1>1. CASE UNCHANGED <<accepted, recent>>
  BY <1>1 DEF IntakeInv
<1>2. ASSUME NEW m \in Msgs, recent' = recent \cup {m}, accepted' = Append(accepted, m)
      PROVE  IntakeInv'
  BY <1>2, AppendMembers DEF IntakeInv, TypeOK
<1> QED BY <1>1, <1>2, IntakeSteps

LEMMA IntakeStep ==
    TypeOK /\ TypeOK' /\ TakenInv' /\ FifoInv' /\ IntakeInv /\ [Next]_vars
        => [Intake!Next]_Intake!vars
<1> SUFFICES ASSUME TypeOK, TypeOK', TakenInv', FifoInv', IntakeInv, [Next]_vars
             PROVE  [Intake!Next]_Intake!vars
  OBVIOUS
<1>0. /\ (~Undisturbed)' \in {~Undisturbed, TRUE}
      /\ (~Undisturbed)' # ~Undisturbed => (~Undisturbed)' = TRUE
  BY UndisturbedBefore DEF Undisturbed
<1>1. CASE UNCHANGED <<accepted, ran>>
  BY <1>0, <1>1 DEF Intake!vars, Intake!Next, Intake!Disturb
<1>2. ASSUME NEW m \in Msgs, m \notin recent, accepted' = Append(accepted, m), UNCHANGED ran
      PROVE  [Intake!Next]_Intake!vars
  <2>1. m \notin Intake!Elements(accepted)
    BY <1>2 DEF IntakeInv, Members, Intake!Elements
  <2>2. Intake!Take(m)
    BY <1>0, <1>2, <2>1 DEF Intake!Take
  <2> QED BY <2>2 DEF Intake!Next
<1>3. ASSUME NEW s \in Seq(Msgs), ran' = ran \o s, UNCHANGED <<accepted, recent>>
      PROVE  [Intake!Next]_Intake!vars
  <2>1. Intake!Prefix(ran, ran')
    BY <1>3, ConcatPrefix DEF TypeOK
  <2>2. Intake!Once(ran') /\ Members(ran') \subseteq recent'
    BY DEF TakenInv, Distinct, Intake!Once
  <2>3. Intake!Elements(ran') \subseteq Intake!Elements(accepted)
    BY <1>3, <2>2 DEF IntakeInv, Members, Intake!Elements
  <2>4. ASSUME Undisturbed' PROVE Intake!Prefix(ran', accepted)
    <3>1. accepted' = ran' \o Backlog'
      BY <2>4 DEF FifoInv, Fifo
    <3>2. ran' \in Seq(Msgs) /\ Backlog' \in Seq(Msgs)
      BY ConstantsAssumption, EmptySeq DEF TypeOK, Backlog, Objects
    <3> QED BY <1>3, <3>1, <3>2, ConcatPrefix
  <2>5. Intake!Answer
    BY <1>0, <1>3, <2>1, <2>2, <2>3, <2>4 DEF Intake!Answer
  <2> QED BY <2>5 DEF Intake!Next
<1> QED BY <1>1, <1>2, <1>3, IntakeSteps

(* The follow-up queue implements Inbox: a message is taken in once and    *)
(* answered at most once, and until something is dropped or cleared the    *)
(* messages answered are the first ones taken in, in that order, whatever  *)
(* runs fail and whatever callers do while a loop awaits its run.          *)
THEOREM IntakeRefined == Spec => KeepsPromise
<1>1. Spec => []IntakeInv
  BY IntakeInit, IntakeNext, TypeCorrect, PTL DEF Spec
<1> QED
  BY IntakeInit, IntakeStep, HeldInvariant, FifoInvariant, <1>1, PTL
     DEF Spec, KeepsPromise, Intake!Spec
=============================================================================
