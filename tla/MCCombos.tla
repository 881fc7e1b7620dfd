------------------------------ MODULE MCCombos ------------------------------
(* Values of the constants of Combos for TLC. *)
EXTENDS Combos, TLC

RequestSymmetry == Permutations(Request)
OneAdapterModel == <<4>>
=============================================================================
