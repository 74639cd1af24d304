---------------------------- MODULE MCFlashSale ----------------------------
(* FlashSale for TLC: users 1..NumUsers, one bit of the filter for each.   *)
EXTENDS FlashSale

CONSTANT NumUsers

MCUsers == 1..NumUsers
MCHash == [u \in Users |-> {u}]
=============================================================================
