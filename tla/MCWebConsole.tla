------------------------------ MODULE MCWebConsole ------------------------------
(* Values for model-checking WebConsole.                                   *)
EXTENDS WebConsole, TLC

CONSTANTS r1, r2, r3

MCRequests == {r1, r2, r3}
MCKinds == AllKinds
ThreadSymmetry == Permutations(MCRequests)
=============================================================================
