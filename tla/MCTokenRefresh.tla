--------------------------- MODULE MCTokenRefresh ---------------------------
(* Values of the constants of TokenRefresh for TLC. *)
EXTENDS TokenRefresh, TLC

RequestSymmetry == Permutations(Request)
=============================================================================
