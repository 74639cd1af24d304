----------------------------- MODULE IssueLedger -----------------------------
(***************************************************************************)
(* What the reservation listener promises, without batches, statements or  *)
(* cycles: a reservation that was made is open until it is settled, once   *)
(* and for good, with a coupon or without one.                             *)
(***************************************************************************)
EXTENDS Naturals

CONSTANT Reservations
VARIABLE outcome

Init == outcome = [r \in Reservations |-> "absent"]

\* The outcome of all reservations of S turns from one value into another.
Turn(S, from, to) ==
    /\ \A r \in S : outcome[r] = from
    /\ outcome' = [r \in Reservations |-> IF r \in S THEN to ELSE outcome[r]]

Enter(r) == Turn({r}, "absent", "open")
Award(S) == Turn(S, "open", "coupon")
PassOver(S) == Turn(S, "open", "none")
Settle(r) == \E S \in SUBSET Reservations : r \in S /\ (Award(S) \/ PassOver(S))

Next ==
    \/ \E r \in Reservations : Enter(r)
    \/ \E S \in SUBSET Reservations : Award(S) \/ PassOver(S)

Spec == Init /\ [][Next]_outcome
FairSpec == Spec /\ \A r \in Reservations : WF_outcome(Settle(r))
=============================================================================
