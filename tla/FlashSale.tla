------------------------------ MODULE FlashSale ------------------------------
(***************************************************************************)
(* The service as one process runs it: the reservation listener            *)
(* (CouponIssue) and the grab (CouponGrab) over the same rows, the same    *)
(* clock and the same process, so that a crash takes the local state of    *)
(* both (Start in src/api/server.go).                                      *)
(*                                                                         *)
(* A user is named by the id of his reservation, of which ReserveAdmission *)
(* shows there is one, and a coupon by the reservation it was minted for.  *)
(* A signal is left to CouponGrab and TimeWindows.                         *)
(***************************************************************************)
EXTENDS Integers, Sequences, FiniteSets

CONSTANTS
    Users, NoUser, Servers, Requests,
    WinnerRatio, BatchSize, MaxPerCycle,        \* of CouponIssue
    ChanCap, NumWorkers, Bits, Hash,            \* of CouponGrab
    IssueFailing, IssueLosing, CrashPoints, GrabFailing, GrabLosing, Disruptions,
    MaxFaults

VARIABLES
    reserved, owner, faultsLeft,                                   \* shared
    processed, coupons, cycles, job, passedOver, uncounted,        \* of CouponIssue
    expired,                                                       \* coupons past their expiry date
    bloom, chan, req, accepted, asked, forgotten, grabber, worker, tokens, ctx, phase  \* of CouponGrab

issueVars == <<processed, coupons, cycles, job, passedOver, uncounted>>
grabVars == <<expired, owner, bloom, chan, req, accepted, asked, forgotten, grabber,
              worker, tokens, ctx, phase>>
vars == <<reserved, faultsLeft, issueVars, grabVars>>

\* reservationListener works in the reserve window.
Window == IF phase = "reserve" THEN "open" ELSE "closed"

\* The rows of coupons as ListAvailableCoupons finds them.
Status == [c \in Users |->
             IF \A x \in coupons : x[1] # c THEN "unissued"
             ELSE IF c \in expired THEN "expired" ELSE "live"]

Issue == INSTANCE CouponIssue WITH
    Reservations <- Users, Instances <- Servers, window <- Window,
    Failing <- IssueFailing, Losing <- IssueLosing

Grab == INSTANCE CouponGrab WITH
    Coupons <- Users, status <- Status, Failing <- GrabFailing, Losing <- GrabLosing

ASSUME UsersAssumption ==
    /\ Users \subseteq Nat /\ IsFiniteSet(Users) /\ NoUser \notin Users
    /\ Hash \in [Users -> (SUBSET Bits) \ {{}}]

ASSUME SizesAssumption ==
    /\ {WinnerRatio, BatchSize, MaxPerCycle, ChanCap, NumWorkers} \subseteq Nat \ {0}
    /\ IsFiniteSet(Requests) /\ Servers # {}

ASSUME FaultsAssumption ==
    /\ IssueFailing \subseteq Issue!Calls /\ IssueLosing \subseteq Issue!Calls \ {"list", "code"}
    /\ CrashPoints \subseteq Issue!Points
    /\ GrabFailing \subseteq {"lookup", "assign", "update"}
    /\ GrabLosing \subseteq {"assign", "update"}
    /\ Disruptions \subseteq {"crash", "signal", "reset"}
    /\ MaxFaults \in Nat

-----------------------------------------------------------------------------
Init ==
    /\ reserved = {} /\ processed = {} /\ coupons = {} /\ cycles = 0
    /\ job = [i \in Servers |-> Issue!NoJob]
    /\ faultsLeft = MaxFaults
    /\ passedOver = {} /\ uncounted = {} /\ expired = {}
    /\ phase = "day"
    /\ Grab!Init

Reserve(u) ==
    /\ UNCHANGED grabVars
    /\ Issue!Reserve(u)
    /\ Grab!Reserve(u)

\* A step of the listener.  Coupons it inserts are for sale at once.
IssueStep(s) ==
    /\ UNCHANGED grabVars
    /\ Issue!List(s) \/ Issue!Step(s)

\* A coupon expires seven days after it was issued.
Expire(c) ==
    /\ UNCHANGED issueVars
    /\ expired' = expired \cup {c}
    /\ Grab!Expire(c)

\* A step of the grab, or of the clock.
GrabStep ==
    /\ UNCHANGED <<issueVars, expired>>
    /\ \/ Grab!ClockTick
       \/ \E q \in Requests : \/ Grab!Handle(q)
                              \/ \E s \in Servers, u \in Users : Grab!TestBloom(q, s, u)
       \/ \E s \in Servers : \/ Grab!ListCoupons(s) \/ Grab!Round(s) \/ Grab!ResetBloom(s)
                             \/ \E c \in Users : Grab!Work(s, c)

\* The process dies with whatever both were doing.
Crash(s) ==
    /\ UNCHANGED <<expired, phase>>
    /\ Issue!Crash(s)
    /\ Grab!Crash(s)

Next ==
    \/ \E u \in Users : Reserve(u) \/ Expire(u)
    \/ \E s \in Servers : IssueStep(s) \/ Crash(s)
    \/ GrabStep

Spec == Init /\ [][Next]_vars

-----------------------------------------------------------------------------
(* Properties.                                                             *)

Sold == {c \in Users : owner[c] # NoUser}

\* Without a fault the coupons that were sold are at most the share of the
\* reservations that were made, though reservations, cycles and rounds of
\* several days overlap (README, "20% of the number of reserved users").
SoldWithinShare ==
    faultsLeft = MaxFaults => Cardinality(Sold) * WinnerRatio <= Cardinality(reserved)

Promise == INSTANCE Sale WITH
    Nobody <- NoUser, buyer <- owner, issued <- {c[1] : c \in coupons}

\* The service implements the sale, across failing statements and crashes: a
\* coupon is sold only after it was issued, only to a user who reserved, who
\* gets no second one, and it never changes hands.
ImplementsSale == Promise!Spec
=============================================================================
