------------------------- MODULE MCAntigravityQuota -------------------------
(* Values of the constants of AntigravityQuota for TLC. *)
EXTENDS AntigravityQuota, TLC

RequestSymmetry == Permutations(Request)
=============================================================================
