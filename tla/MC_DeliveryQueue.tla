-------------------------- MODULE MC_DeliveryQueue -------------------------
(* Model-checking instances of DeliveryQueue: one strict delivery and one  *)
(* that is best effort, or one delivery alone.                             *)
EXTENDS DeliveryQueue, TLC

CONSTANTS m1, m2, r1, r2

MC_Two    == {m1, m2}
MC_Mixed  == [m \in MC_Two |-> IF m = m1 THEN "strict" ELSE "reported"]
MC_One    == {m1}
MC_Strict == [m \in MC_One |-> "strict"]
MC_Best   == [m \in MC_One |-> "reported"]

(* Two recoveries at once, which are alike; the deliveries are not.        *)
MC_Recoveries == {r1, r2}
MC_Symmetry   == Permutations(MC_Recoveries)

(* What a step or an invariant can still read of a state: not the fields   *)
(* of a job that were for its earlier steps, the entry of a file that is   *)
(* gone, markers (which nothing tests), nor what was observed of a         *)
(* delivery that a later observation has made irrelevant.                  *)
MC_Job(p) ==
    CASE job[p].pc = "sending" -> job[p]
      [] job[p].pc = "rewrite" -> [Idle EXCEPT !.pc = "rewrite", !.retries = job[p].retries]
      [] OTHER -> [Idle EXCEPT !.pc = job[p].pc]
MC_Loading == {r \in Recoveries : todo[r] # {}}
MC_Gone    == parked \cup GivenUp
MC_View ==
    <<onDisk, [m \in onDisk |-> entry[m]], parked, up, [p \in Procs |-> MC_Job(p)],
      names, todo, current, slow \cap MC_Loading, deferring \cap MC_Loading,
      enqueued, acked \ shared, shared, MC_Gone \cap Strict,
      [m \in Strict \ MC_Gone |-> got[m]], {m \in aborted : job[m].pc = "sending"},
      [m \in Msgs \ shared |-> attempts[m] - unrecorded[m]], countVars>>
=============================================================================
