-------------------------- MODULE MC_HeartbeatWake -------------------------
(* Model-checking instance of HeartbeatWake.                               *)
EXTENDS HeartbeatWake
=============================================================================
