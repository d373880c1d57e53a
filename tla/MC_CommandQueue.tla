-------------------------- MODULE MC_CommandQueue --------------------------
(* Model-checking instance of CommandQueue: the configured lane "main" and *)
(* a session lane.  Tasks are interchangeable, lanes are not.              *)
EXTENDS CommandQueue, TLC

CONSTANTS main, session

MC_Lanes      == {main, session}
MC_Configured == {main}
MC_Limits     == {0, 2}
Symmetry      == Permutations(Tasks)
=============================================================================
