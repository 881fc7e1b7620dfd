------------------------- MODULE MCStreamLifecycle -------------------------
(* StreamLifecycle for TLC: two requests on any of two accounts.           *)
EXTENDS StreamLifecycle

CONSTANTS r1, r2, a1, a2

TwoRequests == {r1, r2}
TwoAccounts == {a1, a2}
=============================================================================
