--------------------------------- MODULE Inbox --------------------------------
(***************************************************************************)
(* What the follow-up queue of a session promises to those who write to    *)
(* it, without queue objects, modes, routes, drain loops and the awaits    *)
(* they sit in: a message is taken in once and answered at most once, and  *)
(* as long as nothing has disturbed the queue (a drop, a clear) the        *)
(* messages answered are the first ones taken in, in that order.           *)
(* FollowupQueue implements this specification.                            *)
(***************************************************************************)
EXTENDS Naturals, Sequences

CONSTANT Messages

VARIABLES
    taken,    \* messages taken in, in order
    answered, \* messages that had their run, in order
    disturbed \* something was dropped or cleared, now or before

vars == <<taken, answered, disturbed>>

Elements(s) == {s[i] : i \in DOMAIN s}
Prefix(s, t) == \E n \in 0..Len(t) : s = SubSeq(t, 1, n)
Once(s) == \A i, j \in DOMAIN s : s[i] = s[j] => i = j

Init == taken = <<>> /\ answered = <<>> /\ disturbed = FALSE

(* Taking in a message may push out others.                                *)
Take(m) ==
    /\ m \notin Elements(taken)
    /\ taken' = Append(taken, m)
    /\ disturbed' \in {disturbed, TRUE}
    /\ UNCHANGED answered

(* One run answers a batch of messages.                                    *)
Answer ==
    /\ Prefix(answered, answered')
    /\ Once(answered') /\ Elements(answered') \subseteq Elements(taken)
    /\ ~disturbed' => Prefix(answered', taken)
    /\ disturbed' \in {disturbed, TRUE}
    /\ UNCHANGED taken

Disturb ==
    /\ disturbed' = TRUE
    /\ UNCHANGED <<taken, answered>>

Next == (\E m \in Messages : Take(m)) \/ Answer \/ Disturb

Spec == Init /\ [][Next]_vars
=============================================================================
