-------------------------- MODULE MC_FollowupQueue -------------------------
(* Model-checking instances of FollowupQueue.  The first two messages have *)
(* one route and the third another, so batches of both kinds come up.      *)
EXTENDS FollowupQueue

CONSTANTS m1, m2, m3, here, there

MC_Msgs   == {m1, m2, m3}
MC_Routes == {here, there}
MC_Route  == [m \in MC_Msgs |-> IF m = m3 THEN there ELSE here]
=============================================================================
