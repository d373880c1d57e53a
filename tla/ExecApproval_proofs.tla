------------------------- MODULE ExecApproval_proofs -------------------------
(***************************************************************************)
(* Proofs about exec approvals, for any number of ids, requests and waits: *)
(* type correctness, that an open approval stays in the map, that the      *)
(* decision a person was told is recorded stands, that runs are let        *)
(* through only as it says, and that the approvals implement Permits.      *)
(*                                                                         *)
(* The invariant has three parts: what a record looks like in each of its  *)
(* phases (RecordInv), that the map and the records agree on ids (MapInv), *)
(* and what a call may have heard of the promise it awaits (CallInv).      *)
(***************************************************************************)
EXTENDS ExecApproval, TLAPS

RecordOK(r) ==
  /\ ~Registered(r) => Undecided(r) /\ r \notin timers /\ r \notin graces
  /\ r \in timers => Undecided(r)
  /\ Undecided(r) => /\ promise[r] = None /\ decision[r] = None
                     /\ accepted[r] = None /\ uses[r] = 0
  /\ closed[r] = "person" => accepted[r] \in Decisions /\ promise[r] = accepted[r]
  /\ closed[r] \in {"null", "no-approval-route"} => accepted[r] = None /\ decision[r] = None
  /\ closed[r] = "no-approval-route" => uses[r] = 0
  /\ accepted[r] # None =>
       \/ decision[r] = accepted[r]
       \/ accepted[r] = "allow-once" /\ decision[r] = None /\ uses[r] = 1
  /\ decision[r] = "allow-once" => uses[r] = 0
  /\ accepted[r] = "deny" => uses[r] = 0

RecordInv == \A r \in Requests : RecordOK(r)

MapInv == \A i \in Ids : pending[i] # None => idOf[pending[i]] = i

CallInv ==
  \A c \in Callers : awaits[c] # None =>
    /\ Registered(awaits[c])
    /\ heard[c] = None \/ heard[c] = promise[awaits[c]]
    /\ c \in Requests => awaits[c] = c

ApprovalInv == RecordInv /\ MapInv /\ CallInv /\ UndecidedIsListed

-----------------------------------------------------------------------------
(* Type correctness.                                                       *)

LEMMA TypeInit == Init => TypeOK
<1> SUFFICES ASSUME Init PROVE TypeOK
  OBVIOUS
<1>1. uses \in [Requests -> 0..MaxUses]
  BY ApprovalAssumption DEF Init
<1> QED BY <1>1 DEF Init, TypeOK

(* What closing an approval leaves has the right type.                     *)
LEMMA CloseType ==
  ASSUME TypeOK, NEW r \in Requests, NEW d \in Decisions \cup {"null"},
         NEW by \in {"person", "null", "no-approval-route"}, Close(r, d, by)
  PROVE  /\ closed' \in [Requests -> {"open", "person", "null", "no-approval-route"}]
         /\ decision' \in [Requests -> Decisions \cup {None}]
         /\ promise' \in [Requests -> Decisions \cup {"null", None}]
         /\ graces' \in SUBSET Requests
         /\ \A q \in Requests \ {r} :
               closed'[q] = closed[q] /\ decision'[q] = decision[q] /\ promise'[q] = promise[q]
         /\ closed'[r] = by
         /\ decision'[r] = IF d = "null" THEN None ELSE d
         /\ promise'[r] = IF promise[r] = None THEN d ELSE promise[r]
         /\ graces' = graces \cup {r}
BY DEF TypeOK, Close, Settled

LEMMA TypeNext == TypeOK /\ RecordInv /\ [Next]_vars => TypeOK'
<1> SUFFICES ASSUME TypeOK, RecordInv, [Next]_vars PROVE TypeOK'
  OBVIOUS
<1> USE ApprovalAssumption
<1>1. ASSUME NEW r \in Requests, NEW i \in Ids, Refuse(r, i) PROVE TypeOK'
  BY <1>1 DEF Refuse, TypeOK, manager, Callers
<1>2. ASSUME NEW r \in Requests, NEW i \in Ids, Register(r, i) PROVE TypeOK'
  BY <1>2 DEF Register, TypeOK, Callers
<1>3. ASSUME NEW r \in Requests, NEW i \in Ids, RegisterUnrouted(r, i) PROVE TypeOK'
  <2>1. /\ closed' \in [Requests -> {"open", "person", "null", "no-approval-route"}]
        /\ decision' \in [Requests -> Decisions \cup {None}]
        /\ promise' \in [Requests -> Decisions \cup {"null", None}]
        /\ graces' \in SUBSET Requests
    BY <1>3, CloseType DEF RegisterUnrouted
  <2> QED BY <1>3, <2>1 DEF RegisterUnrouted, TypeOK, Callers
<1>4. ASSUME NEW i \in Ids, NEW d \in Decisions, Resolve(i, d) PROVE TypeOK'
  <2>1. PICK j \in LookupPendingId(i) :
          /\ Close(pending[j], d, Resolver) /\ Undecided(pending[j])
          /\ timers' = timers \ {pending[j]}
          /\ accepted' = [accepted EXCEPT ![pending[j]] = d]
          /\ UNCHANGED <<pending, idOf, clock, awaits, heard, uses>>
    BY <1>4 DEF Resolve
  <2>2. j \in Ids /\ pending[j] # None
    BY <2>1 DEF LookupPendingId
  <2>3. pending[j] \in Requests
    BY <2>2 DEF TypeOK
  <2>4. /\ closed' \in [Requests -> {"open", "person", "null", "no-approval-route"}]
        /\ decision' \in [Requests -> Decisions \cup {None}]
        /\ promise' \in [Requests -> Decisions \cup {"null", None}]
        /\ graces' \in SUBSET Requests
    BY <2>1, <2>3, CloseType DEF Resolver
  <2> QED BY <2>1, <2>3, <2>4 DEF TypeOK
<1>5. ASSUME NEW r \in Requests, Expire(r) PROVE TypeOK'
  <2> DEFINE e == pending[idOf[r]]
  <2>1. CASE e # None /\ Undecided(e)
    <3>1. /\ Close(e, "null", "null") /\ timers' = timers \ {r, e}
          /\ UNCHANGED <<pending, idOf, clock, awaits, heard, accepted, uses>>
      BY <1>5, <2>1 DEF Expire
    <3>2. e \in Requests
      <4>1. idOf[r] \in Ids
        <5>1. r \in timers
          BY <1>5 DEF Expire
        <5>2. Registered(r)
          BY <5>1 DEF RecordInv, RecordOK
        <5> QED BY <5>2 DEF Registered, TypeOK
      <4> QED BY <2>1, <4>1 DEF TypeOK
    <3>3. /\ closed' \in [Requests -> {"open", "person", "null", "no-approval-route"}]
          /\ decision' \in [Requests -> Decisions \cup {None}]
          /\ promise' \in [Requests -> Decisions \cup {"null", None}]
          /\ graces' \in SUBSET Requests
      BY <3>1, <3>2, CloseType
    <3> QED BY <3>1, <3>2, <3>3 DEF TypeOK
  <2>2. CASE ~(e # None /\ Undecided(e))
    BY <1>5, <2>2 DEF Expire, TypeOK
  <2> QED BY <2>1, <2>2
<1>6. ASSUME NEW r \in Requests, Forget(r) PROVE TypeOK'
  BY <1>6 DEF Forget, TypeOK
<1>7. ASSUME NEW r \in Requests, Elapse(r) PROVE TypeOK'
  BY <1>7 DEF Elapse, TypeOK, manager
<1>8. ASSUME NEW w \in Waits, NEW i \in Ids, WaitDecision(w, i) PROVE TypeOK'
  BY <1>8 DEF WaitDecision, TypeOK, manager, Callers
<1>9. ASSUME NEW c \in Callers, Answer(c) PROVE TypeOK'
  BY <1>9 DEF Answer, TypeOK, manager
<1>10. ASSUME NEW i \in Ids, SystemRun(i) PROVE TypeOK'
  <2> DEFINE r == pending[i]
  <2>1. r \in Requests
    BY <1>10 DEF SystemRun, TypeOK
  <2>2. uses' \in [Requests -> 0..MaxUses]
    <3>1. uses' = [uses EXCEPT ![r] = @ + 1] /\ uses[r] < MaxUses
      BY <1>10 DEF SystemRun
    <3> HIDE DEF r
    <3>2. uses[r] \in 0..MaxUses
      BY <2>1 DEF TypeOK
    <3>3. MaxUses \in Nat
      OBVIOUS
    <3>4. uses[r] + 1 \in 0..MaxUses
      BY <3>1, <3>2, <3>3
    <3> QED BY <3>1, <3>4 DEF TypeOK
  <2>3. decision' \in [Requests -> Decisions \cup {None}]
    BY <1>10, <2>1 DEF SystemRun, Consumed, TypeOK
  <2> QED BY <1>10, <2>2, <2>3 DEF SystemRun, TypeOK
<1>11. CASE UNCHANGED vars
  BY <1>11 DEF vars, manager, TypeOK
<1> QED BY <1>1, <1>2, <1>3, <1>4, <1>5, <1>6, <1>7, <1>8, <1>9, <1>10, <1>11 DEF Next

-----------------------------------------------------------------------------
(* The invariant.                                                          *)

LEMMA ApprovalInit == Init => ApprovalInv
<1> SUFFICES ASSUME Init PROVE ApprovalInv
  OBVIOUS
<1>1. RecordInv
  BY DEF Init, RecordInv, RecordOK, Registered, Undecided, Decisions
<1>2. MapInv /\ CallInv /\ UndecidedIsListed
  BY DEF Init, MapInv, CallInv, UndecidedIsListed, Registered
<1> QED BY <1>1, <1>2 DEF ApprovalInv

(* An entry of the map is a registered request, under its id.              *)
LEMMA EntryIs ==
  ASSUME TypeOK, ApprovalInv, NEW i \in Ids, pending[i] # None
  PROVE  pending[i] \in Requests /\ idOf[pending[i]] = i /\ Registered(pending[i])
<1>1. pending[i] \in Requests
  BY DEF TypeOK
<1>2. idOf[pending[i]] = i /\ i # None
  BY ApprovalAssumption DEF ApprovalInv, MapInv
<1> QED BY <1>1, <1>2 DEF Registered

LEMMA IdIs ==
  ASSUME TypeOK, NEW r \in Requests, Registered(r) PROVE idOf[r] \in Ids
BY DEF TypeOK, Registered

(* A record none of whose fields changes stays as it should be.            *)
LEMMA RecordKept ==
  ASSUME NEW r \in Requests, RecordOK(r), idOf'[r] = idOf[r], closed'[r] = closed[r],
         decision'[r] = decision[r], promise'[r] = promise[r], accepted'[r] = accepted[r],
         uses'[r] = uses[r], r \in timers' => r \in timers, r \in graces' => r \in graces
  PROVE  RecordOK(r)'
BY DEF RecordOK, Registered, Undecided

LEMMA RegisterKeeps ==
  ASSUME TypeOK, ApprovalInv, NEW r \in Requests, NEW i \in Ids, Register(r, i)
  PROVE  ApprovalInv'
<1> USE ApprovalAssumption
<1>1. /\ ~Registered(r) /\ heard[r] = None /\ pending[i] = None
      /\ pending' = [pending EXCEPT ![i] = r] /\ idOf' = [idOf EXCEPT ![r] = i]
      /\ timers' = timers \cup {r} /\ awaits' = [awaits EXCEPT ![r] = r]
      /\ UNCHANGED <<decision, closed, promise, graces, heard, accepted, uses>>
  BY DEF Register, Taken
<1>2. /\ i # None /\ r # None /\ idOf'[r] = i /\ pending'[i] = r
      /\ \A q \in Requests \ {r} : idOf'[q] = idOf[q]
      /\ \A j \in Ids \ {i} : pending'[j] = pending[j]
  BY <1>1 DEF TypeOK
<1>3. RecordInv'
  <2>1. RecordOK(r)'
    BY <1>1, <1>2 DEF ApprovalInv, RecordInv, RecordOK, Registered, Undecided
  <2>2. ASSUME NEW q \in Requests, q # r PROVE RecordOK(q)'
    BY <1>1, <1>2, <2>2, RecordKept DEF ApprovalInv, RecordInv
  <2> QED BY <2>1, <2>2 DEF RecordInv
<1>4. MapInv'
  <2>1. ASSUME NEW j \in Ids, j # i, pending[j] # None
        PROVE  idOf'[pending[j]] = j
    <3>1. idOf[pending[j]] = j /\ pending[j] \in Requests /\ j # None
      BY <2>1 DEF ApprovalInv, MapInv, TypeOK
    <3>2. pending[j] # r
      BY <1>1, <3>1 DEF Registered
    <3> QED BY <1>2, <3>1, <3>2
  <2>2. ASSUME NEW j \in Ids, pending'[j] # None PROVE idOf'[pending'[j]] = j
    <3>1. CASE j = i
      BY <1>2, <3>1
    <3>2. CASE j # i
      <4>1. pending'[j] = pending[j]
        BY <1>2, <3>2
      <4> QED BY <2>1, <2>2, <3>2, <4>1
    <3> QED BY <3>1, <3>2
  <2> QED BY <2>2 DEF MapInv
<1>5. CallInv'
  <2>1. /\ r \in Callers /\ awaits'[r] = r
        /\ \A c \in Callers \ {r} : awaits'[c] = awaits[c]
    BY <1>1 DEF TypeOK, Callers
  <2>2. Registered(r)'
    BY <1>2 DEF Registered
  <2>3. ASSUME NEW c \in Callers, c # r, awaits[c] # None
        PROVE  /\ Registered(awaits[c])'
               /\ heard[c] = None \/ heard[c] = promise[awaits[c]]
               /\ c \in Requests => awaits[c] = c
    <3>1. /\ Registered(awaits[c]) /\ awaits[c] \in Requests
          /\ heard[c] = None \/ heard[c] = promise[awaits[c]]
          /\ c \in Requests => awaits[c] = c
      BY <2>3 DEF ApprovalInv, CallInv, TypeOK
    <3>2. awaits'[c] = awaits[c] /\ idOf'[awaits[c]] = idOf[awaits[c]]
      BY <1>1, <1>2, <2>1, <2>3, <3>1
    <3> QED BY <3>1, <3>2 DEF Registered
  <2> QED BY <1>1, <2>1, <2>2, <2>3 DEF CallInv, Registered
<1>6. UndecidedIsListed'
  <2>1. r \notin graces
    BY <1>1 DEF ApprovalInv, RecordInv, RecordOK
  <2>2. ASSUME NEW q \in Requests, q # r, Registered(q)', Undecided(q)'
        PROVE  pending'[idOf'[q]] = q /\ q \in timers' /\ q \notin graces'
    <3>0. idOf'[q] = idOf[q] /\ closed'[q] = closed[q]
      BY <1>1, <1>2, <2>2
    <3>1. Registered(q) /\ Undecided(q) /\ idOf[q] \in Ids
      BY <2>2, <3>0, IdIs DEF Registered, Undecided
    <3>2. pending[idOf[q]] = q /\ q \in timers /\ q \notin graces
      BY <3>1 DEF ApprovalInv, UndecidedIsListed
    <3>3. idOf[q] # i
      BY <1>1, <3>2
    <3> QED BY <1>1, <1>2, <2>2, <3>1, <3>2, <3>3
  <2> QED BY <1>1, <1>2, <2>1, <2>2 DEF UndecidedIsListed
<1> QED BY <1>3, <1>4, <1>5, <1>6 DEF ApprovalInv

(* What closing a registered, open approval does to the invariant.         *)
LEMMA CloseKeeps ==
  ASSUME TypeOK, ApprovalInv, NEW r \in Requests, Registered(r), Undecided(r),
         NEW d \in Decisions \cup {"null"}, NEW by \in {"person", "null"},
         by = "person" => d \in Decisions /\ accepted' = [accepted EXCEPT ![r] = d],
         by # "person" => d = "null" /\ accepted' = accepted,
         Close(r, d, by), timers' = timers \ {r},
         UNCHANGED <<pending, idOf, awaits, heard, uses>>
  PROVE  ApprovalInv'
<1> USE ApprovalAssumption
<1>1. /\ closed'[r] = by /\ promise'[r] = d /\ graces' = graces \cup {r}
      /\ decision'[r] = IF d = "null" THEN None ELSE d
      /\ uses[r] = 0 /\ accepted[r] = None
      /\ \A q \in Requests \ {r} :
            closed'[q] = closed[q] /\ decision'[q] = decision[q] /\ promise'[q] = promise[q]
  BY CloseType DEF ApprovalInv, RecordInv, RecordOK
<1>2. /\ accepted'[r] = IF by = "person" THEN d ELSE None
      /\ \A q \in Requests \ {r} : accepted'[q] = accepted[q]
  <2>1. CASE by = "person"
    BY <2>1 DEF TypeOK
  <2>2. CASE by = "null"
    BY <1>1, <2>2
  <2> QED BY <2>1, <2>2
<1>3. RecordInv'
  <2>1. RecordOK(r)'
    BY <1>1, <1>2 DEF RecordOK, Registered, Undecided, Decisions
  <2>2. ASSUME NEW q \in Requests, q # r PROVE RecordOK(q)'
    BY <1>1, <1>2, <2>2, RecordKept DEF ApprovalInv, RecordInv
  <2> QED BY <2>1, <2>2 DEF RecordInv
<1>4. MapInv'
  BY DEF ApprovalInv, MapInv
<1>5. CallInv'
  <2>1. \A c \in Callers : awaits[c] # None => awaits[c] \in Requests
    BY DEF TypeOK
  <2>2. promise[r] = None
    BY DEF ApprovalInv, RecordInv, RecordOK
  <2> QED BY <1>1, <2>1, <2>2 DEF ApprovalInv, CallInv, Registered
<1>6. UndecidedIsListed'
  BY <1>1 DEF ApprovalInv, UndecidedIsListed, Registered, Undecided
<1> QED BY <1>3, <1>4, <1>5, <1>6 DEF ApprovalInv
(* A request that nobody can decide is registered and closed at once.      *)
LEMMA UnroutedKeeps ==
  ASSUME TypeOK, ApprovalInv, NEW r \in Requests, NEW i \in Ids, RegisterUnrouted(r, i)
  PROVE  ApprovalInv'
<1> USE ApprovalAssumption
<1>1. /\ ~Registered(r) /\ heard[r] = None /\ pending[i] = None
      /\ pending' = [pending EXCEPT ![i] = r] /\ idOf' = [idOf EXCEPT ![r] = i]
      /\ heard' = [heard EXCEPT ![r] = "null"]
      /\ UNCHANGED <<timers, awaits, accepted, uses>>
  BY DEF RegisterUnrouted, Taken
<1>2. /\ closed'[r] = "no-approval-route" /\ graces' = graces \cup {r}
      /\ decision'[r] = None
      /\ \A q \in Requests \ {r} :
            closed'[q] = closed[q] /\ decision'[q] = decision[q] /\ promise'[q] = promise[q]
  BY CloseType DEF RegisterUnrouted
<1>3. /\ i # None /\ r # None /\ idOf'[r] = i /\ pending'[i] = r /\ heard'[r] = "null"
      /\ \A q \in Requests \ {r} : idOf'[q] = idOf[q]
      /\ \A j \in Ids \ {i} : pending'[j] = pending[j]
      /\ \A c \in Callers \ {r} : heard'[c] = heard[c]
  BY <1>1 DEF TypeOK, Callers
<1>4. RecordInv'
  <2>1. RecordOK(r)'
    BY <1>1, <1>2, <1>3 DEF ApprovalInv, RecordInv, RecordOK, Registered, Undecided
  <2>2. ASSUME NEW q \in Requests, q # r PROVE RecordOK(q)'
    BY <1>1, <1>2, <1>3, <2>2, RecordKept DEF ApprovalInv, RecordInv
  <2> QED BY <2>1, <2>2 DEF RecordInv
<1>5. MapInv'
  <2>1. ASSUME NEW j \in Ids, pending'[j] # None PROVE idOf'[pending'[j]] = j
    <3>1. CASE j = i
      BY <1>3, <3>1
    <3>2. CASE j # i
      <4>0. pending'[j] = pending[j]
        BY <1>3, <3>2
      <4>1. pending'[j] = pending[j] /\ pending[j] \in Requests
        BY <2>1, <4>0 DEF TypeOK
      <4>2. idOf[pending[j]] = j /\ j # None
        BY <2>1, <4>1 DEF ApprovalInv, MapInv
      <4>3. pending[j] # r
        BY <1>1, <4>2 DEF Registered
      <4> QED BY <1>3, <4>1, <4>2, <4>3
    <3> QED BY <3>1, <3>2
  <2> QED BY <2>1 DEF MapInv
<1>6. CallInv'
  <2>1. ASSUME NEW c \in Callers, awaits[c] # None
        PROVE  /\ Registered(awaits[c])'
               /\ heard'[c] = None \/ heard'[c] = promise'[awaits[c]]
               /\ c \in Requests => awaits[c] = c
    <3>1. /\ Registered(awaits[c]) /\ awaits[c] \in Requests
          /\ heard[c] = None \/ heard[c] = promise[awaits[c]]
          /\ c \in Requests => awaits[c] = c
      BY <2>1 DEF ApprovalInv, CallInv, TypeOK
    <3>2. awaits[c] # r
      BY <1>1, <3>1
    <3>3. c # r
      BY <3>1, <3>2
    <3>4. /\ idOf'[awaits[c]] = idOf[awaits[c]] /\ heard'[c] = heard[c]
          /\ promise'[awaits[c]] = promise[awaits[c]]
      BY <1>2, <1>3, <3>1, <3>2, <3>3
    <3> QED BY <1>1, <3>1, <3>4 DEF Registered
  <2> QED BY <1>1, <2>1 DEF CallInv
<1>7. UndecidedIsListed'
  <2>1. ASSUME NEW q \in Requests, Registered(q)', Undecided(q)'
        PROVE  pending'[idOf'[q]] = q /\ q \in timers' /\ q \notin graces'
    <3>1. q # r
      BY <1>2, <2>1 DEF Undecided
    <3>2. Registered(q) /\ Undecided(q) /\ idOf[q] \in Ids
      <4>1. idOf'[q] = idOf[q] /\ closed'[q] = closed[q]
        BY <1>2, <1>3, <3>1
      <4>2. Registered(q) /\ Undecided(q)
        BY <2>1, <4>1 DEF Registered, Undecided
      <4> QED BY <4>2, IdIs
    <3>3. pending[idOf[q]] = q /\ q \in timers /\ q \notin graces
      BY <3>2 DEF ApprovalInv, UndecidedIsListed
    <3>4. idOf[q] # i /\ q # None
      BY <1>1, <3>3
    <3> QED BY <1>1, <1>2, <1>3, <3>1, <3>2, <3>3, <3>4
  <2> QED BY <2>1 DEF UndecidedIsListed
<1> QED BY <1>4, <1>5, <1>6, <1>7 DEF ApprovalInv

LEMMA ResolveKeeps ==
  ASSUME TypeOK, ApprovalInv, NEW text \in Ids, NEW d \in Decisions, Resolve(text, d)
  PROVE  ApprovalInv'
<1> USE ApprovalAssumption
<1>1. PICK j \in LookupPendingId(text) :
        /\ Close(pending[j], d, Resolver) /\ Undecided(pending[j])
        /\ timers' = timers \ {pending[j]}
        /\ accepted' = [accepted EXCEPT ![pending[j]] = d]
        /\ UNCHANGED <<pending, idOf, clock, awaits, heard, uses>>
  BY DEF Resolve
<1>2. j \in Ids /\ pending[j] # None
  BY <1>1 DEF LookupPendingId
<1>3. pending[j] \in Requests /\ Registered(pending[j])
  BY <1>2, EntryIs
<1> QED BY <1>1, <1>3, CloseKeeps DEF Resolver

LEMMA ExpireKeeps ==
  ASSUME TypeOK, ApprovalInv, NEW r \in Requests, Expire(r)
  PROVE  ApprovalInv'
<1> USE ApprovalAssumption
<1> DEFINE e == pending[idOf[r]]
<1>1. r \in timers /\ UNCHANGED <<pending, idOf, clock, awaits, heard, accepted, uses>>
  BY DEF Expire
<1>2. Registered(r) /\ idOf[r] \in Ids
  <2>1. Registered(r)
    BY <1>1 DEF ApprovalInv, RecordInv, RecordOK
  <2> QED BY <2>1 DEF Registered, TypeOK
<1>3. Undecided(r) => e = r
  BY <1>2 DEF ApprovalInv, UndecidedIsListed
<1>4. CASE e # None /\ Undecided(e)
  <2>1. Close(e, "null", "null") /\ timers' = timers \ {r, e}
    BY <1>4 DEF Expire
  <2>2. e \in Requests /\ idOf[e] = idOf[r]
    BY <1>2, <1>4 DEF TypeOK, ApprovalInv, MapInv
  <2>3. Registered(e)
    BY <1>2, <2>2 DEF Registered
  <2>4. e = r
    <3>1. CASE Undecided(r)
      BY <1>3, <3>1
    <3>2. CASE ~Undecided(r)
      <4>1. r \notin timers
        BY <3>2 DEF ApprovalInv, RecordInv, RecordOK
      <4> QED BY <1>1, <4>1
    <3> QED BY <3>1, <3>2
  <2> QED BY <1>1, <1>4, <2>1, <2>2, <2>3, <2>4, CloseKeeps
<1>5. CASE ~(e # None /\ Undecided(e))
  <2>1. timers' = timers \ {r} /\ UNCHANGED <<decision, closed, promise, graces>>
    BY <1>5 DEF Expire
  <2>2. ~Undecided(r)
    BY <1>2, <1>3, <1>5
  <2>3. RecordInv' /\ MapInv' /\ CallInv'
    BY <1>1, <2>1 DEF ApprovalInv, RecordInv, RecordOK, MapInv, CallInv, Registered, Undecided
  <2>4. UndecidedIsListed'
    BY <1>1, <2>1, <2>2 DEF ApprovalInv, UndecidedIsListed, Registered, Undecided
  <2> QED BY <2>3, <2>4 DEF ApprovalInv
<1> QED BY <1>4, <1>5

LEMMA ForgetKeeps ==
  ASSUME TypeOK, ApprovalInv, NEW r \in Requests, Forget(r)
  PROVE  ApprovalInv'
<1> USE ApprovalAssumption
<1>1. /\ r \in graces /\ graces' = graces \ {r}
      /\ \A i \in Ids : pending'[i] = IF i = idOf[r] /\ pending[i] = r THEN None ELSE pending[i]
      /\ UNCHANGED <<idOf, decision, closed, promise, timers, clock, awaits, heard, accepted, uses>>
  BY DEF Forget
<1>2. RecordInv' /\ MapInv' /\ CallInv'
  <2>1. RecordInv'
    BY <1>1 DEF ApprovalInv, RecordInv, RecordOK, Registered, Undecided
  <2>2. MapInv'
    BY <1>1 DEF ApprovalInv, MapInv
  <2>3. CallInv'
    BY <1>1 DEF ApprovalInv, CallInv, Registered
  <2> QED BY <2>1, <2>2, <2>3
<1>3. UndecidedIsListed'
  <2>1. ASSUME NEW q \in Requests, Registered(q), Undecided(q)
        PROVE  pending'[idOf[q]] = q /\ q \in timers /\ q \notin graces'
    <3>1. pending[idOf[q]] = q /\ q \in timers /\ q \notin graces /\ idOf[q] \in Ids
      BY <2>1, IdIs DEF ApprovalInv, UndecidedIsListed
    <3>2. q # r
      BY <1>1, <3>1
    <3> QED BY <1>1, <3>1, <3>2
  <2> QED BY <1>1, <2>1 DEF UndecidedIsListed, Registered, Undecided
<1> QED BY <1>2, <1>3 DEF ApprovalInv

LEMMA SystemRunKeeps ==
  ASSUME TypeOK, ApprovalInv, NEW i \in Ids, SystemRun(i)
  PROVE  ApprovalInv'
<1> USE ApprovalAssumption
<1>2. PICK r \in Requests : r = pending[i]
  BY EntryIs DEF SystemRun
<1>1. /\ decision[r] \in Allowing \/ TimedOut(r)
      /\ uses' = [uses EXCEPT ![r] = @ + 1] /\ decision' = Consumed(r)
      /\ UNCHANGED <<pending, idOf, closed, promise, timers, graces, clock, awaits, heard, accepted>>
  BY <1>2 DEF SystemRun
<1>3. /\ uses'[r] = uses[r] + 1 /\ uses[r] \in Nat
      /\ \A q \in Requests \ {r} : uses'[q] = uses[q] /\ decision'[q] = decision[q]
      /\ decision'[r] = IF decision[r] = "allow-once" THEN None ELSE decision[r]
  <2>1. uses \in [Requests -> 0..MaxUses] /\ decision \in [Requests -> Decisions \cup {None}]
    BY DEF TypeOK
  <2>2. uses'[r] = uses[r] + 1 /\ uses[r] \in 0..MaxUses
        /\ \A q \in Requests \ {r} : uses'[q] = uses[q]
    BY <1>1, <1>2, <2>1
  <2>3. uses[r] \in Nat
    BY <2>2
  <2>4. /\ \A q \in Requests \ {r} : decision'[q] = decision[q]
        /\ decision'[r] = IF decision[r] = "allow-once" THEN None ELSE decision[r]
    BY <1>1, <1>2, <2>1 DEF Consumed
  <2> QED BY <2>2, <2>3, <2>4
<1>4. RecordInv'
  <2>1. RecordOK(r)'
    <3>1. RecordOK(r) /\ closed[r] \in {"open", "person", "null", "no-approval-route"}
      BY <1>2 DEF ApprovalInv, RecordInv, TypeOK
    <3>2. CASE closed[r] = "person"
      BY <1>1, <1>3, <3>1, <3>2
         DEF RecordOK, Registered, Undecided, TimedOut, Allowing, Decisions
    <3>3. CASE closed[r] # "person"
      BY <1>1, <1>3, <3>1, <3>3
         DEF RecordOK, Registered, Undecided, TimedOut, Allowing, Decisions
    <3> QED BY <3>2, <3>3
  <2>2. ASSUME NEW q \in Requests, q # r PROVE RecordOK(q)'
    BY <1>1, <1>3, <2>2, RecordKept DEF ApprovalInv, RecordInv
  <2> QED BY <2>1, <2>2 DEF RecordInv
<1>5. MapInv' /\ CallInv' /\ UndecidedIsListed'
  BY <1>1 DEF ApprovalInv, MapInv, CallInv, UndecidedIsListed, Registered, Undecided
<1> QED BY <1>4, <1>5 DEF ApprovalInv
LEMMA ApprovalNext == TypeOK /\ ApprovalInv /\ [Next]_vars => ApprovalInv'
<1> SUFFICES ASSUME TypeOK, ApprovalInv, [Next]_vars PROVE ApprovalInv'
  OBVIOUS
<1> USE ApprovalAssumption
<1>0. ASSUME UNCHANGED <<pending, idOf, decision, closed, promise, timers, graces, accepted, uses>>
      PROVE  RecordInv' /\ MapInv' /\ UndecidedIsListed'
  BY <1>0 DEF ApprovalInv, RecordInv, RecordOK, MapInv, UndecidedIsListed, Registered, Undecided
<1>1. ASSUME NEW r \in Requests, NEW i \in Ids, Refuse(r, i) PROVE ApprovalInv'
  <2>1. awaits[r] = None /\ r \in Callers
    BY <1>1 DEF Refuse, ApprovalInv, CallInv, Callers
  <2>2. CallInv'
    BY <1>1, <2>1 DEF Refuse, ApprovalInv, CallInv, manager, Registered, TypeOK
  <2> QED BY <1>0, <1>1, <2>2 DEF Refuse, manager, ApprovalInv
<1>2. ASSUME NEW r \in Requests, Elapse(r) PROVE ApprovalInv'
  <2>1. CallInv'
    BY <1>2 DEF Elapse, ApprovalInv, CallInv, manager, Registered
  <2> QED BY <1>0, <1>2, <2>1 DEF Elapse, manager, ApprovalInv
<1>3. ASSUME NEW w \in Waits, NEW i \in Ids, WaitDecision(w, i) PROVE ApprovalInv'
  <2>1. /\ awaits[w] = None /\ heard[w] = None /\ w \in Callers /\ w \notin Requests
        /\ UNCHANGED <<idOf, promise>>
    BY <1>3 DEF WaitDecision, Callers, manager
  <2>2. \/ pending[i] = None /\ awaits' = awaits /\ \A c \in Callers \ {w} : heard'[c] = heard[c]
        \/ /\ pending[i] # None /\ heard' = heard /\ awaits'[w] = pending[i]
           /\ \A c \in Callers \ {w} : awaits'[c] = awaits[c]
    BY <1>3, <2>1 DEF WaitDecision, TypeOK
  <2>3. pending[i] # None => Registered(pending[i])
    BY DEF ApprovalInv, MapInv, Registered
  <2>4. CallInv'
    BY <2>1, <2>2, <2>3 DEF ApprovalInv, CallInv, Registered
  <2> QED BY <1>0, <1>3, <2>4 DEF WaitDecision, manager, ApprovalInv
<1>4. ASSUME NEW c \in Callers, Answer(c) PROVE ApprovalInv'
  <2>1. /\ heard'[c] = promise[awaits[c]] /\ \A b \in Callers \ {c} : heard'[b] = heard[b]
        /\ UNCHANGED <<awaits, promise, idOf>>
    BY <1>4 DEF Answer, TypeOK, manager
  <2>2. CallInv'
    BY <2>1 DEF ApprovalInv, CallInv, Registered
  <2> QED BY <1>0, <1>4, <2>2 DEF Answer, manager, ApprovalInv
<1>5. CASE UNCHANGED vars
  BY <1>0, <1>5 DEF vars, manager, ApprovalInv, CallInv, Registered
<1> QED
  BY <1>1, <1>2, <1>3, <1>4, <1>5, RegisterKeeps, UnroutedKeeps, ResolveKeeps, ExpireKeeps,
     ForgetKeeps, SystemRunKeeps DEF Next

LEMMA ApprovalInvariant == Spec => [](TypeOK /\ ApprovalInv)
<1>1. Init => TypeOK /\ ApprovalInv
  BY TypeInit, ApprovalInit
<1>2. TypeOK /\ ApprovalInv /\ [Next]_vars => (TypeOK /\ ApprovalInv)'
  BY TypeNext, ApprovalNext DEF ApprovalInv
<1> QED BY <1>1, <1>2, PTL DEF Spec

-----------------------------------------------------------------------------
(* The variables of the approvals keep their types.                        *)
THEOREM TypeCorrect == Spec => []TypeOK
<1>1. TypeOK /\ ApprovalInv => TypeOK
  OBVIOUS
<1> QED BY <1>1, ApprovalInvariant, PTL

(* An approval nobody has decided is in the map under its id, with its     *)
(* expiry timer set and no deletion timer, however ids are used again.     *)
THEOREM UndecidedIsListedHolds == Spec => []UndecidedIsListed
<1>1. TypeOK /\ ApprovalInv => UndecidedIsListed
  BY DEF ApprovalInv
<1> QED BY <1>1, ApprovalInvariant, PTL

(* The decision a person was told is recorded stands, against the expiry,  *)
(* a second decision and the deletion; all that wait for it hear it.       *)
THEOREM DecisionStandsHolds == Spec => []DecisionStands
<1>1. TypeOK /\ ApprovalInv => DecisionStands
  <2> SUFFICES ASSUME TypeOK, ApprovalInv, NEW r \in Requests, accepted[r] # None
               PROVE  /\ promise[r] = accepted[r]
                      /\ \/ decision[r] = accepted[r]
                         \/ accepted[r] = "allow-once" /\ decision[r] = None /\ uses[r] = 1
                      /\ \A c \in Callers : awaits[c] = r => heard[c] \in {None, accepted[r]}
    BY DEF DecisionStands
  <2>1. RecordOK(r) /\ closed[r] \in {"open", "person", "null", "no-approval-route"}
    BY DEF ApprovalInv, RecordInv, TypeOK
  <2>2. closed[r] = "person"
    BY <2>1 DEF RecordOK, Undecided
  <2>3. r # None
    BY ApprovalAssumption
  <2> QED BY <2>1, <2>2, <2>3 DEF RecordOK, ApprovalInv, CallInv
<1> QED BY <1>1, ApprovalInvariant, PTL

(* allow-once lets one run through, deny none, and without a decision runs *)
(* are let through only of an approval that timed out.                     *)
THEOREM RunsAsDecidedHolds == Spec => []RunsAsDecided
<1>1. TypeOK /\ ApprovalInv => RunsAsDecided
  <2> SUFFICES ASSUME TypeOK, ApprovalInv, NEW r \in Requests, uses[r] > 0
               PROVE  \/ accepted[r] = "allow-always"
                      \/ accepted[r] = "allow-once" /\ uses[r] = 1
                      \/ accepted[r] = None /\ closed[r] = "null"
    BY DEF RunsAsDecided
  <2>1. RecordOK(r) /\ closed[r] \in {"open", "person", "null", "no-approval-route"}
    BY DEF ApprovalInv, RecordInv, TypeOK
  <2>2. uses[r] # 0
    OBVIOUS
  <2>3. accepted[r] \in Decisions => accepted[r] # None
    BY ApprovalAssumption DEF Decisions
  <2> QED BY <2>1, <2>2, <2>3 DEF RecordOK, Undecided, Decisions
<1> QED BY <1>1, ApprovalInvariant, PTL

-----------------------------------------------------------------------------
(* The promise of Permits.  What is new is that the promise of an approval *)
(* that was closed without a decision carries null (NullInv), so that what *)
(* a call is told is the ruling.                                           *)
NullInv ==
  \A r \in Requests : closed[r] \in {"null", "no-approval-route"} => promise[r] = "null"

LEMMA NullFrame == ASSUME NullInv, UNCHANGED <<closed, promise>> PROVE NullInv'
BY DEF NullInv

LEMMA NullClose ==
  ASSUME TypeOK, RecordInv, NullInv, NEW r \in Requests, Undecided(r),
         NEW d \in Decisions \cup {"null"}, NEW by \in {"person", "null", "no-approval-route"},
         d # "null" => by = "person", Close(r, d, by)
  PROVE  NullInv' /\ promise'[r] = d /\ closed'[r] = by
         /\ \A q \in Requests \ {r} : closed'[q] = closed[q] /\ promise'[q] = promise[q]
<1>1. promise[r] = None
  BY DEF RecordInv, RecordOK
<1>2. closed' = [closed EXCEPT ![r] = by] /\ promise' = [promise EXCEPT ![r] = d]
  BY <1>1 DEF Close, Settled
<1>3. /\ promise'[r] = d /\ closed'[r] = by
      /\ \A q \in Requests \ {r} : closed'[q] = closed[q] /\ promise'[q] = promise[q]
  BY <1>2 DEF TypeOK
<1> QED BY <1>3 DEF NullInv

(* A step of one approval, and one that concerns none.                     *)
RulingOf == [r \in Requests |-> Ruling(r)]

LEMMA RulingSame == ASSUME UNCHANGED <<idOf, closed, promise>> PROVE RulingOf' = RulingOf
BY DEF RulingOf, Ruling, Registered

LEMMA RulingChange ==
  ASSUME NEW r \in Requests,
         \A q \in Requests \ {r} :
           idOf'[q] = idOf[q] /\ closed'[q] = closed[q] /\ promise'[q] = promise[q]
  PROVE  RulingOf' = [RulingOf EXCEPT ![r] = Ruling(r)']
<1>1. \A q \in Requests \ {r} : Ruling(q)' = Ruling(q)
  BY DEF Ruling, Registered
<1> QED BY <1>1 DEF RulingOf

(* What the ruling is in each phase of a record.                           *)
LEMMA RulingCases ==
  ASSUME TypeOK, RecordInv, NullInv, NEW r \in Requests
  PROVE  /\ ~Registered(r) => Ruling(r) = "unasked"
         /\ Registered(r) /\ Undecided(r) => Ruling(r) = "open"
         /\ ~Undecided(r) => /\ Registered(r)
                             /\ Ruling(r) \notin {"unasked", "open"}
                             /\ promise[r] = Ledger!Answer(Ruling(r))
         /\ closed[r] = "null" => Ruling(r) = "lapsed"
         /\ accepted[r] # None => Ruling(r) = accepted[r]
<1>1. RecordOK(r) /\ closed[r] \in {"open", "person", "null", "no-approval-route"}
  BY DEF RecordInv, TypeOK
<1>2. \A d \in Decisions : d # None /\ d \notin {"unasked", "open", "lapsed", "unrouted"}
  BY ApprovalAssumption DEF Decisions
<1>3. "lapsed" \notin Decisions /\ "unrouted" \notin Decisions
  BY DEF Decisions
<1>4. CASE closed[r] = "open"
  BY <1>1, <1>4 DEF RecordOK, Undecided, Ruling
<1>5. CASE closed[r] = "person"
  BY <1>1, <1>2, <1>5 DEF RecordOK, Undecided, Ruling, Ledger!Answer
<1>6. CASE closed[r] = "null"
  BY <1>1, <1>3, <1>6 DEF RecordOK, Undecided, Ruling, Ledger!Answer, NullInv
<1>7. CASE closed[r] = "no-approval-route"
  BY <1>1, <1>3, <1>7 DEF RecordOK, Undecided, Ruling, Ledger!Answer, NullInv
<1> QED BY <1>1, <1>4, <1>5, <1>6, <1>7

-----------------------------------------------------------------------------
(* Each step as the ledger sees it.                                        *)
Kept == NullInv' /\ [Ledger!Next]_Ledger!vars

LEMMA LedgerStutters ==
  ASSUME NullInv, UNCHANGED <<idOf, closed, promise, uses, awaits, heard>>
  PROVE  Kept
BY RulingSame, NullFrame DEF Kept, Ledger!vars, RulingOf

LEMMA LedgerRefuse ==
  ASSUME TypeOK, ApprovalInv, NullInv, NEW r \in Requests, NEW i \in Ids, Refuse(r, i)
  PROVE  Kept
<1>1. /\ heard[r] = None /\ heard' = [heard EXCEPT ![r] = "refused"]
      /\ ~Registered(r) /\ UNCHANGED <<idOf, closed, promise, uses, awaits>>
  BY DEF Refuse, manager
<1>2. awaits[r] = None /\ r \in Callers
  BY <1>1 DEF ApprovalInv, CallInv, Callers
<1>3. Ledger!TurnDown(r)
  BY <1>1, <1>2, RulingSame DEF Ledger!TurnDown, RulingOf
<1> QED BY <1>1, <1>2, <1>3, NullFrame DEF Kept, Ledger!Next

LEMMA LedgerRegister ==
  ASSUME TypeOK, ApprovalInv, NullInv, NEW r \in Requests, NEW i \in Ids, Register(r, i)
  PROVE  Kept
<1>1. /\ heard[r] = None /\ ~Registered(r) /\ idOf' = [idOf EXCEPT ![r] = i]
      /\ awaits' = [awaits EXCEPT ![r] = r]
      /\ UNCHANGED <<closed, promise, uses, heard>>
  BY DEF Register
<1>2. awaits[r] = None /\ r \in Callers /\ Undecided(r)
  BY <1>1 DEF ApprovalInv, CallInv, Callers, RecordInv, RecordOK
<1>3. idOf'[r] # None /\ \A q \in Requests \ {r} : idOf'[q] = idOf[q]
  BY <1>1, ApprovalAssumption DEF TypeOK
<1>4. Ruling(r) = "unasked" /\ Ruling(r)' = "open"
  BY <1>1, <1>2, <1>3 DEF Ruling, Registered, Undecided
<1>5. RulingOf' = [RulingOf EXCEPT ![r] = "open"] /\ RulingOf[r] = "unasked"
  BY <1>1, <1>3, <1>4, RulingChange DEF RulingOf
<1>6. Ledger!Ask(r)
  BY <1>1, <1>2, <1>5 DEF Ledger!Ask, Ledger!Rule, RulingOf
<1> QED BY <1>1, <1>6, NullFrame DEF Kept, Ledger!Next

LEMMA LedgerUnrouted ==
  ASSUME TypeOK, ApprovalInv, NullInv, NEW r \in Requests, NEW i \in Ids, RegisterUnrouted(r, i)
  PROVE  Kept
<1>1. /\ heard[r] = None /\ ~Registered(r) /\ idOf' = [idOf EXCEPT ![r] = i]
      /\ heard' = [heard EXCEPT ![r] = "null"] /\ Close(r, "null", "no-approval-route")
      /\ UNCHANGED <<uses, awaits>>
  BY DEF RegisterUnrouted
<1>2. awaits[r] = None /\ r \in Callers /\ Undecided(r) /\ RecordInv
  BY <1>1 DEF ApprovalInv, CallInv, Callers, RecordInv, RecordOK
<1>3. idOf'[r] # None /\ \A q \in Requests \ {r} : idOf'[q] = idOf[q]
  BY <1>1, ApprovalAssumption DEF TypeOK
<1>4. /\ NullInv' /\ closed'[r] = "no-approval-route"
      /\ \A q \in Requests \ {r} : closed'[q] = closed[q] /\ promise'[q] = promise[q]
  BY <1>1, <1>2, NullClose
<1>5. Ruling(r) = "unasked" /\ Ruling(r)' = "unrouted"
  BY <1>1, <1>3, <1>4 DEF Ruling, Registered
<1>6. RulingOf' = [RulingOf EXCEPT ![r] = "unrouted"] /\ RulingOf[r] = "unasked"
  BY <1>3, <1>4, <1>5, RulingChange DEF RulingOf
<1>7. Ledger!AskNobody(r)
  BY <1>1, <1>2, <1>6 DEF Ledger!AskNobody, Ledger!Rule, RulingOf
<1> QED BY <1>4, <1>7 DEF Kept, Ledger!Next

(* An open approval is closed, by a person or by its timer.                *)
LEMMA LedgerClose ==
  ASSUME TypeOK, ApprovalInv, NullInv, NEW r \in Requests, Registered(r), Undecided(r),
         NEW d \in Decisions \cup {"null"}, NEW by,
         by = IF d = "null" THEN "null" ELSE "person",
         Close(r, d, by), UNCHANGED <<idOf, uses, awaits, heard>>
  PROVE  Kept
<1>0. "null" \notin Decisions
  BY DEF Decisions
<1>1. /\ NullInv' /\ promise'[r] = d /\ closed'[r] = by
      /\ \A q \in Requests \ {r} : closed'[q] = closed[q] /\ promise'[q] = promise[q]
  BY NullClose DEF ApprovalInv
<1>2. RulingOf[r] = "open" /\ Registered(r)'
  BY RulingCases DEF ApprovalInv, RulingOf, Registered
<1>3. RulingOf' = [RulingOf EXCEPT ![r] = Ruling(r)']
  BY <1>1, RulingChange
<1>4. CASE d = "null"
  <2>1. Ruling(r)' = "lapsed"
    BY <1>1, <1>2, <1>4 DEF Ruling
  <2>2. Ledger!Lapse(r)
    BY <1>2, <1>3, <2>1 DEF Ledger!Lapse, Ledger!Rule, RulingOf
  <2> QED BY <1>1, <2>2 DEF Kept, Ledger!Next
<1>5. CASE d # "null"
  <2>1. Ruling(r)' = d /\ d \in Decisions
    BY <1>1, <1>2, <1>5 DEF Ruling
  <2>2. Ledger!Decide(r)
    BY <1>2, <1>3, <2>1 DEF Ledger!Decide, Ledger!Rule, RulingOf
  <2> QED BY <1>1, <2>2 DEF Kept, Ledger!Next
<1> QED BY <1>4, <1>5

LEMMA LedgerResolve ==
  ASSUME TypeOK, ApprovalInv, NullInv, NEW text \in Ids, NEW d \in Decisions, Resolve(text, d)
  PROVE  Kept
<1>1. PICK i \in LookupPendingId(text) :
        /\ Undecided(pending[i]) /\ Close(pending[i], d, Resolver)
        /\ UNCHANGED <<idOf, awaits, heard, uses>>
  BY DEF Resolve
<1>2. i \in Ids /\ pending[i] # None
  BY <1>1, ApprovalAssumption DEF LookupPendingId
<1>3. pending[i] \in Requests /\ Registered(pending[i])
  BY <1>2, EntryIs
<1>4. d # "null"
  BY DEF Decisions
<1> QED BY <1>1, <1>3, <1>4, LedgerClose DEF Resolver

LEMMA LedgerExpire ==
  ASSUME TypeOK, ApprovalInv, NullInv, NEW r \in Requests, Expire(r)
  PROVE  Kept
<1> DEFINE e == pending[idOf[r]]
<1>1. UNCHANGED <<idOf, uses, awaits, heard>> /\ r \in timers
  BY DEF Expire
<1>2. CASE e # None /\ Undecided(e)
  <2>1. Close(e, "null", "null")
    BY <1>2 DEF Expire
  <2>2. Registered(r)
    BY <1>1 DEF ApprovalInv, RecordInv, RecordOK
  <2>3. e \in Requests /\ Registered(e)
    BY <1>2, <2>2, IdIs, EntryIs
  <2> QED BY <1>1, <1>2, <2>1, <2>3, LedgerClose
<1>3. CASE ~(e # None /\ Undecided(e))
  BY <1>1, <1>3, LedgerStutters DEF Expire
<1> QED BY <1>2, <1>3

LEMMA LedgerWait ==
  ASSUME TypeOK, ApprovalInv, NullInv, NEW w \in Waits, NEW i \in Ids, WaitDecision(w, i)
  PROVE  Kept
<1>1. /\ awaits[w] = None /\ heard[w] = None /\ w \in Callers
      /\ UNCHANGED <<idOf, closed, promise, uses>>
  BY DEF WaitDecision, manager, Callers
<1>2. RulingOf' = RulingOf /\ NullInv'
  BY <1>1, RulingSame, NullFrame
<1>3. CASE pending[i] = None
  <2>1. Ledger!TurnDown(w)
    BY <1>1, <1>2, <1>3 DEF Ledger!TurnDown, RulingOf, WaitDecision
  <2> QED BY <1>1, <1>2, <2>1 DEF Kept, Ledger!Next
<1>4. CASE pending[i] # None
  <2>1. pending[i] \in Requests /\ Registered(pending[i])
    BY <1>4, EntryIs
  <2>2. Ruling(pending[i]) # "unasked"
    BY <2>1, RulingCases DEF ApprovalInv
  <2>3. Ledger!Attend(w, pending[i])
    BY <1>1, <1>2, <1>4, <2>1, <2>2 DEF Ledger!Attend, RulingOf, WaitDecision
  <2> QED BY <1>1, <1>2, <2>1, <2>3 DEF Kept, Ledger!Next
<1> QED BY <1>3, <1>4

LEMMA LedgerAnswer ==
  ASSUME TypeOK, ApprovalInv, NullInv, NEW c \in Callers, Answer(c)
  PROVE  Kept
<1> DEFINE r == awaits[c]
<1>1. /\ r # None /\ heard[c] = None /\ promise[r] # None
      /\ heard' = [heard EXCEPT ![c] = promise[r]]
      /\ UNCHANGED <<idOf, closed, promise, uses, awaits>>
  BY DEF Answer, manager
<1>2. r \in Requests
  BY <1>1 DEF TypeOK
<1>3. ~Undecided(r)
  BY <1>1, <1>2 DEF ApprovalInv, RecordInv, RecordOK
<1>4. Ruling(r) \notin {"unasked", "open"} /\ promise[r] = Ledger!Answer(Ruling(r))
  BY <1>2, <1>3, RulingCases DEF ApprovalInv
<1>5. RulingOf[r] = Ruling(r) /\ RulingOf' = RulingOf
  BY <1>1, <1>2, RulingSame DEF RulingOf
<1>6. Ledger!Tell(c)
  BY <1>1, <1>4, <1>5 DEF Ledger!Tell, RulingOf
<1> QED BY <1>1, <1>6, NullFrame DEF Kept, Ledger!Next

LEMMA LedgerRun ==
  ASSUME TypeOK, ApprovalInv, NullInv, NEW i \in Ids, SystemRun(i)
  PROVE  Kept
<1> DEFINE r == pending[i]
<1>1. /\ r # None
      /\ decision[r] \in Allowing \/ TimedOut(r)
      /\ uses' = [uses EXCEPT ![r] = @ + 1]
      /\ UNCHANGED <<idOf, closed, promise, awaits, heard>>
  BY DEF SystemRun
<1>2. r \in Requests /\ RecordOK(r)
  BY <1>1 DEF TypeOK, ApprovalInv, RecordInv
<1> HIDE DEF r
<1>3. RulingOf[r] = Ruling(r) /\ RulingOf' = RulingOf
  BY <1>1, <1>2, RulingSame DEF RulingOf
<1>4. \/ Ruling(r) \in {"allow-always", "lapsed"}
      \/ Ruling(r) = "allow-once" /\ uses[r] = 0
  <2>1. CASE TimedOut(r)
    BY <1>2, <2>1, RulingCases DEF TimedOut, ApprovalInv
  <2>2. CASE decision[r] \in Allowing
    <3>1. closed[r] = "person" /\ accepted[r] \in Decisions /\ decision[r] # None
      BY <1>2, <2>2, ApprovalAssumption DEF RecordOK, Undecided, Allowing, TypeOK
    <3>2. accepted[r] # None
      BY <3>1, ApprovalAssumption DEF Decisions
    <3>3. Ruling(r) = decision[r]
      BY <1>2, <3>1, <3>2, RulingCases DEF RecordOK, ApprovalInv
    <3> QED BY <1>2, <2>2, <3>3 DEF RecordOK, Allowing
  <2> QED BY <1>1, <2>1, <2>2
<1>5. Ledger!Run(r)
  BY <1>1, <1>3, <1>4 DEF Ledger!Run, RulingOf
<1> QED BY <1>1, <1>2, <1>5, NullFrame DEF Kept, Ledger!Next

-----------------------------------------------------------------------------
LEMMA LedgerInit == Init => NullInv /\ Ledger!Init
<1> SUFFICES ASSUME Init PROVE NullInv /\ Ledger!Init
  OBVIOUS
<1>1. \A r \in Requests : Ruling(r) = "unasked"
  BY DEF Init, Ruling, Registered
<1> QED BY <1>1 DEF Init, NullInv, Ledger!Init

LEMMA LedgerNext == TypeOK /\ ApprovalInv /\ NullInv /\ [Next]_vars => Kept
<1> SUFFICES ASSUME TypeOK, ApprovalInv, NullInv, [Next]_vars PROVE Kept
  OBVIOUS
<1>1. ASSUME NEW r \in Requests, Forget(r) \/ Elapse(r) PROVE Kept
  BY <1>1, LedgerStutters DEF Forget, Elapse, manager
<1>2. CASE UNCHANGED vars
  BY <1>2, LedgerStutters DEF vars, manager
<1> QED
  BY <1>1, <1>2, LedgerRefuse, LedgerRegister, LedgerUnrouted, LedgerResolve, LedgerExpire,
     LedgerWait, LedgerAnswer, LedgerRun DEF Next

(* The approvals implement Permits: however ids are used again and timers, *)
(* decisions, waits and runs race, a request is ruled on once, all that    *)
(* wait for it are told that ruling, and runs are let through as it says.  *)
THEOREM LedgerRefined == Spec => KeepsPromise
<1>1. TypeOK /\ ApprovalInv /\ NullInv /\ [Next]_vars => NullInv'
  BY LedgerNext DEF Kept
<1>2. TypeOK /\ ApprovalInv /\ NullInv /\ [Next]_vars => [Ledger!Next]_Ledger!vars
  BY LedgerNext DEF Kept
<1>3. Spec => []NullInv
  BY LedgerInit, <1>1, ApprovalInvariant, PTL DEF Spec
<1> QED
  BY LedgerInit, <1>2, <1>3, ApprovalInvariant, PTL DEF Spec, KeepsPromise, Ledger!Spec
=============================================================================
