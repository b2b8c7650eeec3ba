------------------------------ MODULE MCClient ------------------------------
(***************************************************************************)
(* Small instances of Client.                                              *)
(***************************************************************************)
EXTENDS Client, TLC

CONSTANTS a1, a2

ActorSymmetry == Permutations(Actors)

AllVals == 0..MaxCalls
=============================================================================
