---------------------------- MODULE MCConnections ---------------------------
(* Connections for TLC: accounts that share an email, told apart by user or
   workspace, and one that has neither. *)
EXTENDS Connections

MCAccounts == {[email |-> 1, user |-> 0, ws |-> 0], [email |-> 1, user |-> 1, ws |-> 0],
               [email |-> 1, user |-> 0, ws |-> 1]}
=============================================================================
