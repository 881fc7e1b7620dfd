------------------------------ MODULE MCKiroTurn ----------------------------
(* KiroTurn for TLC: three URLs, two in-place retries for one status and one for
   another, so that they mix; Kiro's own statuses that lead to the next URL. *)
EXTENDS KiroTurn

MCStatuses == {200, 400, 401, 429, 502, 503}
MCAttempts == [s \in MCStatuses |-> CASE s = 502 -> 2 [] s = 503 -> 1 [] OTHER -> 0]
=============================================================================
