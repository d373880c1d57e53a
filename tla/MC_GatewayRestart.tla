-------------------------- MODULE MC_GatewayRestart -------------------------
(* Model-checking instance of GatewayRestart: a run for a message and one  *)
(* of a cron job run by hand, which has the same session as its target.    *)
EXTENDS GatewayRestart

CONSTANTS main, cron, nested, session, r1, c1

MC_Lanes   == {main, cron, nested, session}
MC_Runs    == {r1, c1}
MC_Session == [r \in MC_Runs |-> session]
MC_Tasks   == ({"session", "global"} \X MC_Runs) \cup {<<"manual", c1>>}
=============================================================================
