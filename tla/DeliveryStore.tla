----------------------------- MODULE DeliveryStore ----------------------------
(***************************************************************************)
(* What the write-ahead queue promises of its strict deliveries, without   *)
(* the files, the processes, the awaits and the crashes it keeps the       *)
(* promise under: nothing is forgotten that is not delivered or given up,  *)
(* and what has left the store stays out unless it was in two hands.       *)
(* DeliveryQueue implements this specification.                            *)
(***************************************************************************)

CONSTANT Deliveries

VARIABLES
    accepted, \* deliveries that were stored
    queued,   \* in the store, to be sent
    failed,   \* in the store, put aside for good
    received, \* the recipient has all of it
    givenUp,  \* its caller or its channel broke off the sending
    disputed  \* two senders have had it at the same time

vars == <<accepted, queued, failed, received, givenUp, disputed>>

Init ==
    /\ accepted = {} /\ queued = {} /\ failed = {}
    /\ received = {} /\ givenUp = {} /\ disputed = {}

(* A delivery is stored once.                                              *)
Accept(d) ==
    /\ d \notin accepted
    /\ accepted' = accepted \cup {d}
    /\ queued' = queued \cup {d}
    /\ UNCHANGED <<failed, received, givenUp, disputed>>

(* The last part that was missing has reached the recipient, also of a     *)
(* delivery that could not be stored.                                      *)
Receive(d) ==
    /\ received' = received \cup {d}
    /\ UNCHANGED <<accepted, queued, failed, givenUp, disputed>>

(* The sending is broken off, by a request of the channel perhaps only     *)
(* when the last part has reached the recipient.                           *)
GiveUp(d) ==
    /\ givenUp' = givenUp \cup {d}
    /\ received' \in {received, received \cup {d}}
    /\ UNCHANGED <<accepted, queued, failed, disputed>>

(* A delivery leaves the store only when nothing is left to do for it.     *)
Remove(d) ==
    /\ d \in queued \cap (received \cup givenUp)
    /\ queued' = queued \ {d}
    /\ UNCHANGED <<accepted, failed, received, givenUp, disputed>>

PutAside(d) ==
    /\ d \in queued
    /\ queued' = queued \ {d}
    /\ failed' = failed \cup {d}
    /\ UNCHANGED <<accepted, received, givenUp, disputed>>

(* Second senders take up deliveries of the queue; one of the two may      *)
(* return to the queue what the other has removed or put aside.            *)
Dispute(ds) ==
    /\ ds \subseteq queued
    /\ disputed' = disputed \cup ds
    /\ UNCHANGED <<accepted, queued, failed, received, givenUp>>

Return(d) ==
    /\ d \in disputed
    /\ queued' = queued \cup {d}
    /\ UNCHANGED <<accepted, failed, received, givenUp, disputed>>

Next ==
    \/ \E d \in Deliveries :
         Accept(d) \/ Receive(d) \/ GiveUp(d) \/ Remove(d) \/ PutAside(d) \/ Return(d)
    \/ \E ds \in SUBSET Deliveries : Dispute(ds)

Spec == Init /\ [][Next]_vars
=============================================================================
