-------------------------------- MODULE Permits -------------------------------
(***************************************************************************)
(* What exec approvals promise to those who ask for them, decide on them   *)
(* and run commands by them, without the map of ids that are used again,   *)
(* the timers, the promises and the way an allow-once is consumed: a       *)
(* permit is ruled on once, everybody who waits for it hears that ruling,  *)
(* and commands run as it says.  ExecApproval implements this              *)
(* specification.                                                          *)
(***************************************************************************)
EXTENDS Naturals

CONSTANTS
  Permits,  \* one per request; the request itself waits for the ruling
  Calls,    \* all that wait, requests among them
  Rulings,  \* what a person may decide
  None      \* nothing awaited, nothing said yet

VARIABLES
  ruling,   \* per permit: "unasked", "open", "lapsed", "unrouted" or a ruling
  spent,    \* per permit: commands run by it
  asks,     \* per call: the permit it waits for
  told      \* per call: what it was told

vars == <<ruling, spent, asks, told>>

Init ==
  /\ ruling = [p \in Permits |-> "unasked"]
  /\ spent = [p \in Permits |-> 0]
  /\ asks = [c \in Calls |-> None]
  /\ told = [c \in Calls |-> None]

Rule(p, from, to) == ruling[p] = from /\ ruling' = [ruling EXCEPT ![p] = to]

Ask(p) ==
  /\ asks[p] = None /\ told[p] = None
  /\ Rule(p, "unasked", "open")
  /\ asks' = [asks EXCEPT ![p] = p]
  /\ UNCHANGED <<spent, told>>

\* There is nobody who could decide.
AskNobody(p) ==
  /\ asks[p] = None /\ told[p] = None
  /\ Rule(p, "unasked", "unrouted")
  /\ told' = [told EXCEPT ![p] = "null"]
  /\ UNCHANGED <<spent, asks>>

\* Only an open permit is decided on, and only an open one lapses.
Decide(p) ==
  /\ \E d \in Rulings : Rule(p, "open", d)
  /\ UNCHANGED <<spent, asks, told>>

Lapse(p) ==
  /\ Rule(p, "open", "lapsed")
  /\ UNCHANGED <<spent, asks, told>>

\* A call waits for a permit that somebody has asked for.
Attend(c, p) ==
  /\ asks[c] = None /\ told[c] = None
  /\ ruling[p] # "unasked"
  /\ asks' = [asks EXCEPT ![c] = p]
  /\ UNCHANGED <<ruling, spent, told>>

TurnDown(c) ==
  /\ asks[c] = None /\ told[c] = None
  /\ \E why \in {"refused", "not found"} : told' = [told EXCEPT ![c] = why]
  /\ UNCHANGED <<ruling, spent, asks>>

\* A call is told the ruling, once there is one.
Answer(r) == IF r \in Rulings THEN r ELSE "null"
Tell(c) ==
  /\ asks[c] # None /\ told[c] = None
  /\ ruling[asks[c]] \notin {"unasked", "open"}
  /\ told' = [told EXCEPT ![c] = Answer(ruling[asks[c]])]
  /\ UNCHANGED <<ruling, spent, asks>>

\* allow-once is good for one command; a permit that has lapsed leaves the
\* command to the policy of whoever runs it.
Run(p) ==
  /\ \/ ruling[p] \in {"allow-always", "lapsed"}
     \/ ruling[p] = "allow-once" /\ spent[p] = 0
  /\ spent' = [spent EXCEPT ![p] = @ + 1]
  /\ UNCHANGED <<ruling, asks, told>>

Next ==
  \/ \E p \in Permits : Ask(p) \/ AskNobody(p) \/ Decide(p) \/ Lapse(p) \/ Run(p)
  \/ \E c \in Calls : TurnDown(c) \/ Tell(c) \/ \E p \in Permits : Attend(c, p)

Spec == Init /\ [][Next]_vars
=============================================================================
