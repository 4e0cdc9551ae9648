----------------------------- MODULE MCPayouts ------------------------------
(* A refill of gas, a vendor whose cap two instalments do not divide, and a   *)
(* bucket in dry run.                                                         *)
EXTENDS Payouts, TLC
CONSTANT hosting
EnabledOrder == <<Gas, hosting>>
Caps == [v \in Vendors |-> 3]
=============================================================================
