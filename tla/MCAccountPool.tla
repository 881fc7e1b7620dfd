---------------------------- MODULE MCAccountPool ----------------------------
(* Values of the constants of AccountPool for TLC. *)
EXTENDS AccountPool, TLC

RequestSymmetry == Permutations(Request)
=============================================================================
