---- MODULE MCConnection ----
(* Lengths of two bytes; messages that are empty, of the largest size, and   *)
(* too big.                                                                  *)
EXTENDS Connection

MCSizes == {0, 2, 3}
====
