---------------------------- MODULE MCCouponGrab ----------------------------
(* CouponGrab for TLC: coupon ids 1..NumCoupons, one bit for each user.    *)
EXTENDS CouponGrab, TLC

CONSTANT NumCoupons

MCCoupons == 1..NumCoupons
MCHash == [u \in Users |-> {u}]

\* Users and handlers are interchangeable.
Symmetry == Permutations(Users) \cup Permutations(Requests)
=============================================================================
