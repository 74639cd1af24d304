-------------------------------- MODULE Sale --------------------------------
(***************************************************************************)
(* What the whole service promises about its rows: users reserve, some     *)
(* reservations are issued a coupon, once, and a coupon that was issued is *)
(* sold, once and for good, to a user who reserved and has none yet.       *)
(* (A coupon is named by the reservation it was issued for.)               *)
(***************************************************************************)
EXTENDS FiniteSets

CONSTANTS Users, Nobody
VARIABLES
    reserved,   \* who has reserved
    issued,     \* the reservations a coupon was issued for
    buyer       \* who owns each coupon

Init ==
    /\ reserved = {} /\ issued = {}
    /\ buyer = [c \in Users |-> Nobody]

Reserve(u) ==
    /\ u \notin reserved
    /\ reserved' = reserved \cup {u}
    /\ UNCHANGED <<issued, buyer>>

Issue(S) ==
    /\ S \subseteq reserved \ issued
    /\ issued' = issued \cup S
    /\ UNCHANGED <<reserved, buyer>>

Buyers == {buyer[c] : c \in {d \in Users : buyer[d] # Nobody}}

\* The coupons of S are sold, each to another user.
Sell(S) ==
    /\ \A c \in S : c \in issued /\ buyer[c] = Nobody
    /\ \E to \in [S -> reserved \ Buyers] :
          /\ \A c, d \in S : to[c] = to[d] => c = d
          /\ buyer' = [c \in Users |-> IF c \in S THEN to[c] ELSE buyer[c]]
    /\ UNCHANGED <<reserved, issued>>

Next ==
    \/ \E u \in Users : Reserve(u)
    \/ \E S \in SUBSET Users : Issue(S) \/ Sell(S)

Spec == Init /\ [][Next]_<<reserved, issued, buyer>>
=============================================================================
