------------------------------- MODULE MCStp -------------------------------
(***************************************************************************)
(* An instance of Stp: two bridges that two LANs connect.                  *)
(***************************************************************************)
EXTENDS Stp

PairIds == [b \in Bridge |-> IF b = "a" THEN 1 ELSE 2]
PairLan == [b \in Bridge |-> <<"l", "m">>]
=============================================================================
