------------------------- MODULE MCReserveAdmission -------------------------
(* ReserveAdmission for TLC, with two filters.                             *)
EXTENDS ReserveAdmission, TLC

\* Three users share three positions: each is a false positive of the others.
SharedBits == Users
SharedHash == [u \in Users |-> Users \ {u}]

\* Positions of their own for each user.
OwnBits == Users \X {1, 2}
OwnHash == [u \in Users |-> {u} \X {1, 2}]

\* Handlers are interchangeable.
Symmetry == Permutations(Requests)
=============================================================================
