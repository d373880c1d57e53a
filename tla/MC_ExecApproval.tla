--------------------------- MODULE MC_ExecApproval ---------------------------
(***************************************************************************)
(* The instance of ExecApproval that TLC checks: two ids that share a      *)
(* prefix, so that a text may stand for one, for both or for none.         *)
(***************************************************************************)
EXTENDS ExecApproval

MCMatches == [i \in Ids |-> IF i = "a" THEN {"a", "ab"} ELSE {i}]
=============================================================================
