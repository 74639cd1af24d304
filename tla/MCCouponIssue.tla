---------------------------- MODULE MCCouponIssue ----------------------------
(***************************************************************************)
(* CouponIssue for TLC.  The row ids are 1..NumReservations; the sizes are *)
(* scaled down so that a listing spans two batches and a full table spans  *)
(* two listings, as 10000 and 3000 do.                                     *)
(***************************************************************************)
EXTENDS CouponIssue, TLC

CONSTANT NumReservations

MCReservations == 1..NumReservations
AllPoints == Points
AllFailing == Calls
AllLosing == Calls \ {"list", "code"}

\* Server processes are interchangeable (for safety runs only).
Symmetry == Permutations(Instances)
=============================================================================
