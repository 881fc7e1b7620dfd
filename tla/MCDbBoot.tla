------------------------------ MODULE MCDbBoot ------------------------------
(* DbBoot for TLC: the constants that a .cfg cannot write.                 *)
EXTENDS DbBoot

BothDrivers == {"native", "sqljs"}
=============================================================================
