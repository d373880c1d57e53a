------------------------- MODULE MC_CronScheduler -------------------------
(* Two jobs; the cfg says of which kinds, and which of them exist at first. *)
EXTENDS CronScheduler, TLC
CONSTANTS j1, j2, s1, s2, none, m1
CronAndAt == j1 :> "cron" @@ j2 :> "at"
=============================================================================
