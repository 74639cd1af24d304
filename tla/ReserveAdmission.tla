-------------------------- MODULE ReserveAdmission --------------------------
(***************************************************************************)
(* POST /reserve: concurrent handlers test a Bloom filter, insert a row    *)
(* whose user_id is UNIQUE, and add the user to the filter                 *)
(* (createCouponReservation in src/api/coupon_reservation.go), while the   *)
(* filter is cleared every day and lost with the process.                  *)
(* (Definitions nothing uses are plausible mistakes: see CouponIssue.)     *)
(***************************************************************************)
EXTENDS Integers, FiniteSets, BloomFilter

CONSTANTS
    Requests,     \* the handlers that may be at work at a time
    Failing,      \* {"insert"} if the insert may fail without effect
    Losing,       \* {"insert"} if its reply may be lost
    Disruptions,  \* what else may happen: "crash", "reset", "skip"
    MaxFaults,    \* bound on failures, lost replies and crashes
    MaxDay        \* bound on the days

ASSUME UsersAssumption == Users # {}

ASSUME BoundsAssumption ==
    /\ Failing \subseteq {"insert"} /\ Losing \subseteq {"insert"}
    /\ Disruptions \subseteq {"crash", "reset", "skip"}
    /\ MaxFaults \in Nat /\ MaxDay \in Nat \ {0}

VARIABLES
    registered,  \* the rows of users
    reservedOn,  \* the day a user's row in coupon_reservations is of, or 0
    bloom,       \* bloomFilterForReserve
    req,         \* the local state of createCouponReservation, per handler
    day,         \* the number of the day
    granted,     \* history: the answers 200 a user got (saturating at 2)
    refused,     \* history: answers "user already reserved", <<user, day>>
    faultsLeft   \* faults still allowed by MaxFaults

vars == <<registered, reservedOn, bloom, req, day, granted, refused, faultsLeft>>

-----------------------------------------------------------------------------
NoRequest == [pc |-> "idle", user |-> CHOOSE u \in Users : TRUE]

HasRow(u) == reservedOn[u] # 0

\* A call succeeds, fails without effect, or takes effect but returns an error.
Outcomes == {"ok", "fail", "lost"}

UseFault == faultsLeft > 0 /\ faultsLeft' = faultsLeft - 1

Returns(call, out) ==
    \/ out = "ok" /\ UNCHANGED faultsLeft
    \/ out = "fail" /\ call \in Failing /\ UseFault
    \/ out = "lost" /\ call \in Losing /\ UseFault

Init ==
    /\ registered = {}
    /\ reservedOn = [u \in Users |-> 0]
    /\ bloom = Cleared
    /\ req = [q \in Requests |-> NoRequest]
    /\ day = 1
    /\ granted = [u \in Users |-> 0]
    /\ refused = {}
    /\ faultsLeft = MaxFaults

-----------------------------------------------------------------------------
\* POST /user: createUser inserts a row of its own.  When the insert fails
\* nothing happens, and a lost reply leaves the row there.
CreateUser(u) ==
    /\ u \notin registered
    /\ registered' = registered \cup {u}
    /\ UNCHANGED <<reservedOn, bloom, req, day, granted, refused, faultsLeft>>

(* createCouponReservation.                                                *)

\* The quick rejection: a user in the filter is refused without a query.  (No
\* property depends on the time of day, so specialTimeMiddleware is left out.)
TestBloom(q, u) ==
    /\ req[q].pc = "idle"
    /\ IF Test(bloom, u)
       THEN refused' = refused \cup {<<u, day>>} /\ UNCHANGED req
       ELSE /\ req' = [req EXCEPT ![q] = [pc |-> "insert", user |-> u]]
            /\ UNCHANGED refused
    /\ UNCHANGED <<registered, reservedOn, bloom, day, granted, faultsLeft>>

\* The next step of the handler, by the result of the insert: it adds the user
\* to the filter when the row is there, and leaves it alone on other errors.
AfterInsertRetry(out, duplicate) ==
    IF out # "ok" THEN "retry" ELSE IF duplicate THEN "duplicate" ELSE "created"
AfterInsertAlways(out, duplicate) == IF duplicate THEN "duplicate" ELSE "created"
AfterInsert(out, duplicate) ==
    IF out # "ok" THEN "idle" ELSE IF duplicate THEN "duplicate" ELSE "created"

\* UNIQUE (user_id)
DuplicateIgnored(u) == FALSE
Duplicate(u) == HasRow(u)

\* The statement fails on its own: FOREIGN KEY (user_id) REFERENCES users
Dangling(u) == u \notin registered

\* CreateCouponReservation
Insert(q) ==
    /\ req[q].pc = "insert"
    /\ LET u == req[q].user IN
       \E out \in Outcomes :
          /\ IF Dangling(u) THEN out = "fail" /\ UNCHANGED faultsLeft
                            ELSE Returns("insert", out)
          /\ reservedOn' = IF out = "fail" \/ Duplicate(u) THEN reservedOn
                                                         ELSE [reservedOn EXCEPT ![u] = day]
          /\ req' = [req EXCEPT ![q].pc = AfterInsert(out, Duplicate(u))]
    /\ UNCHANGED <<registered, bloom, day, granted, refused>>

\* The filter learns of the row, and the handler answers.
AddBloom(q) ==
    /\ req[q].pc \in {"created", "duplicate"}
    /\ LET u == req[q].user IN
       /\ bloom' = Add(bloom, u)
       /\ IF req[q].pc = "created"
          THEN /\ granted' = [granted EXCEPT ![u] = IF @ < 2 THEN @ + 1 ELSE @]
               /\ UNCHANGED refused
          ELSE /\ refused' = refused \cup {<<u, day>>}
               /\ UNCHANGED granted
    /\ req' = [req EXCEPT ![q] = NoRequest]
    /\ UNCHANGED <<registered, reservedOn, day, faultsLeft>>

-----------------------------------------------------------------------------
\* The next day's window: requests of the last one have long been answered, and
\* resetBloomFilterDaily has cleared the filter at 23:10, unless the server was
\* started on the last day before 23:10 and skips that reset (see TimeWindows).
NextDay ==
    /\ day < MaxDay
    /\ \A q \in Requests : req[q].pc = "idle"
    /\ day' = day + 1
    /\ bloom' = Cleared \/ ("skip" \in Disruptions /\ UNCHANGED bloom)
    /\ UNCHANGED <<registered, reservedOn, req, granted, refused, faultsLeft>>

\* resetBloomFilterDaily, which a handler may find anywhere on its path.
ResetBloom ==
    /\ "reset" \in Disruptions
    /\ bloom' = Cleared
    /\ UNCHANGED <<registered, reservedOn, req, day, granted, refused, faultsLeft>>

\* The process dies and is started again: the rows stay, the filter does not.
Crash ==
    /\ "crash" \in Disruptions
    /\ UseFault
    /\ bloom' = Cleared
    /\ req' = [q \in Requests |-> NoRequest]
    /\ UNCHANGED <<registered, reservedOn, day, granted, refused>>

Handle(q) == Insert(q) \/ AddBloom(q)

Next ==
    \/ \E u \in Users : CreateUser(u)
    \/ \E q \in Requests, u \in Users : TestBloom(q, u)
    \/ \E q \in Requests : Handle(q)
    \/ NextDay \/ ResetBloom \/ Crash

Spec == Init /\ [][Next]_vars

-----------------------------------------------------------------------------
(* Properties.                                                             *)

Handlers == [pc : {"idle", "insert", "created", "duplicate"}, user : Users]

\* Every variable has its type.
TypeOK ==
    /\ registered \subseteq Users
    /\ reservedOn \in [Users -> 0..MaxDay]
    /\ bloom \subseteq Bits
    /\ req \in [Requests -> Handlers]
    /\ day \in 1..MaxDay
    /\ granted \in [Users -> 0..2]
    /\ refused \subseteq Users \X (1..MaxDay)
    /\ faultsLeft \in Nat

\* A user is told at most once that a reservation was made, and then there is
\* one, whatever the filter has forgotten and however requests race (the
\* "unique constraint prevents duplicates" of createCouponReservation).
ReservedOnce ==
    \A u \in Users : granted[u] <= 1 /\ (granted[u] = 1 => HasRow(u))

\* The bits of the users with a row.
RowHashes == UNION {Hash[u] : u \in {v \in Users : HasRow(v)}}

\* "user already reserved" is said to users with a reservation and, by a false
\* positive, to those all of whose bits belong to users with one: a failed
\* insert, also one that came before the user's own row was there, locks nobody
\* out, neither its user nor others ("This ensures user can retry if DB fails").
RefusedByRows == \A x \in refused : HasRow(x[1]) \/ Hash[x[1]] \subseteq RowHashes

\* Who is refused today has reserved for the coupons of today (README, "Coupons
\* are issued daily", each time for those who reserved in advance).
RefusedReservedToday == \A u \in Users : <<u, day>> \in refused => reservedOn[u] = day
=============================================================================
