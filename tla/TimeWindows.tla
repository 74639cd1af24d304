----------------------------- MODULE TimeWindows -----------------------------
(***************************************************************************)
(* The time of day as one server process sees it: couponClockTimer stores  *)
(* the two windows in four atomics, specialTimeMiddleware,                 *)
(* reservationListener and handleGrabbing compare the clock with them      *)
(* atomic by atomic, and resetBloomFilterDaily clears the filters          *)
(* (src/api/server.go, middleware.go, src/util/time.go).                   *)
(*                                                                         *)
(* now counts units of UTC from the midnight of date 0; a day has DayLen   *)
(* of them.  The server's own calendar is zone units ahead.  The process   *)
(* keeps none of this when it dies: a restart is another initial state.    *)
(* (Definitions nothing uses are plausible mistakes: see CouponIssue.)     *)
(***************************************************************************)
EXTENDS Integers, Sequences

CONSTANTS
    DayLen,    \* 24 hours
    Zones,     \* the offsets from UTC a server may be configured with
    Begin,     \* the time of day, in UTC, each window begins at
    Length,    \* the length of each window
    ResetAt,   \* 23:10, in local time
    Refresh,   \* the period of couponClockTimer
    Lag,       \* bound on the time one check of the windows takes
    MaxDay     \* bound on the date

Windows == {"reserve", "grab"}

ASSUME CalendarAssumption ==
    /\ {DayLen, Refresh, MaxDay} \subseteq Nat \ {0} /\ Lag \in Nat
    /\ Begin \in [Windows -> 0..DayLen] /\ Length \in [Windows -> Nat]
    /\ \A w \in Windows : Begin[w] + Length[w] <= DayLen
    /\ ResetAt \in 0..(DayLen - 1) /\ Zones \subseteq (-DayLen)..DayLen

\* A window at the instant t, on whatever date.
InWindow(w, t) == t % DayLen \in Begin[w]..(Begin[w] + Length[w] - 1)

\* 23:10 lies in no window, whatever the time zone.
ASSUME ResetAssumption ==
    \A z \in Zones, w \in Windows : ~ InWindow(w, ResetAt - z)

\* The windows lie further from midnight UTC than a refresh and a check take.
ASSUME MidnightAssumption ==
    \A w \in Windows : Refresh <= Begin[w] /\ Begin[w] + Length[w] + Lag <= DayLen

VARIABLES
    now,        \* the clock
    zone,       \* the server's offset from UTC
    startedAt,  \* when the process was started
    ctx,        \* the context of the background loops: "live" or "done"
    opens,      \* startReserveTime and startGrabTime
    closes,     \* endReserveTime and endGrabTime
    refreshAt,  \* the next tick of couponClockTimer
    storing,    \* the atomics this tick has still to store, in order
    resetAt,    \* when the timer of resetBloomFilterDaily fires
    filter,     \* the users in bloomFilterForGrab, by the date they were let in
                \* and whether the window had moved under that check
    check       \* a comparison of the clock with the windows

vars == <<now, zone, startedAt, ctx, opens, closes, refreshAt, storing,
          resetAt, filter, check>>

timers == <<refreshAt, storing, resetAt>>
atomics == <<opens, closes>>

-----------------------------------------------------------------------------
(* Dates.                                                                  *)

UTCDate(t) == t \div DayLen
LocalDate(t) == (t + zone) \div DayLen

\* GetSpecificTime(Begin[w]): that hour in UTC of the date it is locally.
SpecificTimeUpcoming(w, t) ==
    LET today == LocalDate(t) * DayLen + Begin[w] IN IF t < today THEN today ELSE today + DayLen
SpecificTime(w, t) == LocalDate(t) * DayLen + Begin[w]

\* now.Add(24h), and of that date 23:10 local time
NextResetIn48(t) == (LocalDate(t) + 2) * DayLen + ResetAt - zone
NextReset(t) == (LocalDate(t) + 1) * DayLen + ResetAt - zone

\* What a tick of couponClockTimer stores, and in which order.
EndsFirst == <<<<"reserve", "end">>, <<"reserve", "start">>,
               <<"grab", "end">>, <<"grab", "start">>>>
Stores == <<<<"reserve", "start">>, <<"reserve", "end">>,
            <<"grab", "start">>, <<"grab", "end">>>>

\* The windows each kind of check looks at, in order.
Looks == [request  |-> <<"reserve", "grab">>,   \* specialTimeMiddleware
          listener |-> <<"reserve">>,           \* reservationListener
          grabber  |-> <<"grab">>]              \* isWithinGrabWindow

NoCheck == [pc |-> "idle", left |-> <<>>, kind |-> "request", at |-> 0, moved |-> "no"]

-----------------------------------------------------------------------------
Init ==
    /\ now \in DayLen..(2 * DayLen - 1)
    /\ zone \in Zones
    /\ startedAt = now
    /\ ctx = "live"
    /\ opens = [w \in Windows |-> 0] /\ closes = [w \in Windows |-> 0]
    /\ refreshAt = now + Refresh
    /\ storing = <<>>
    /\ resetAt = NextReset(now)
    /\ filter = {}
    /\ check = NoCheck

(* couponClockTimer                                                        *)

ClockTimerTick ==
    /\ ctx = "live" /\ storing = <<>> /\ now = refreshAt
    /\ storing' = Stores
    /\ refreshAt' = refreshAt + Refresh
    /\ UNCHANGED <<now, zone, startedAt, ctx, atomics, resetAt, filter, check>>

\* A check that has read the start of w when it changes, but not the end.
MovedUnder(w, c) == c.pc = "end" /\ Head(c.left) = w

StoreStart(w) ==
    /\ storing # <<>> /\ Head(storing) = <<w, "start">>
    /\ opens' = [opens EXCEPT ![w] = SpecificTime(w, now)]
    /\ check' = IF opens' # opens /\ MovedUnder(w, check)
                THEN [check EXCEPT !.moved = "yes"] ELSE check
    /\ storing' = Tail(storing)
    /\ UNCHANGED <<now, zone, startedAt, ctx, closes, refreshAt, resetAt, filter>>

StoreEnd(w) ==
    /\ storing # <<>> /\ Head(storing) = <<w, "end">>
    /\ closes' = [closes EXCEPT ![w] = SpecificTime(w, now) + Length[w]]
    /\ storing' = Tail(storing)
    /\ UNCHANGED <<now, zone, startedAt, ctx, opens, refreshAt, resetAt, filter, check>>

(* specialTimeMiddleware, and the checks of the two loops                  *)

\* time.Now() is read first, the atomics after it.  A loop whose context is
\* done makes no more checks.
BeginCheck(kind) ==
    /\ check.pc \in {"idle", "passed", "refused"}
    /\ kind = "request" \/ ctx = "live"
    /\ check' = [pc |-> "start", left |-> Looks[kind], kind |-> kind, at |-> now, moved |-> "no"]
    /\ UNCHANGED <<now, zone, startedAt, ctx, atomics, timers, filter>>

\* The check is not within the window it looked at.
NotThisWindowOffByOne(c) ==
    IF c.left = <<>> THEN [c EXCEPT !.pc = "refused"]
    ELSE [c EXCEPT !.pc = "start", !.left = Tail(@), !.moved = "no"]
NotThisWindow(c) ==
    IF Len(c.left) = 1 THEN [c EXCEPT !.pc = "refused"]
    ELSE [c EXCEPT !.pc = "start", !.left = Tail(@), !.moved = "no"]

LoadStart ==
    /\ check.pc = "start"
    /\ check' = IF check.at >= opens[Head(check.left)]
                THEN [check EXCEPT !.pc = "end"] ELSE NotThisWindow(check)
    /\ UNCHANGED <<now, zone, startedAt, ctx, atomics, timers, filter>>

\* A request that passes may be a grab, and its user then enters the filter.
LoadEnd ==
    /\ check.pc = "end"
    /\ IF check.at < closes[Head(check.left)]
       THEN /\ check' = [check EXCEPT !.pc = "passed"]
            /\ filter' = IF check.kind = "request"
                         THEN filter \cup {<<UTCDate(check.at), check.moved>>}
                         ELSE filter
       ELSE check' = NotThisWindow(check) /\ UNCHANGED filter
    /\ UNCHANGED <<now, zone, startedAt, ctx, atomics, timers>>

(* resetBloomFilterDaily                                                   *)

ResetBloomFilter ==
    /\ ctx = "live" /\ now >= resetAt
    /\ filter' = {}
    /\ resetAt' = NextReset(now)
    /\ UNCHANGED <<now, zone, startedAt, ctx, atomics, refreshAt, storing, check>>

\* SIGINT or SIGTERM: the loops end, the HTTP server goes on.  A tick that has
\* begun is finished.
Signal ==
    /\ ctx = "live"
    /\ ctx' = "done"
    /\ UNCHANGED <<now, zone, startedAt, atomics, timers, filter, check>>

\* Timers that are due run within a unit of time, and a check within Lag: the
\* clock waits for them.  A check that has ended is forgotten.
Tick ==
    /\ UTCDate(now) < MaxDay
    /\ storing = <<>>
    /\ ctx = "live" => now < refreshAt /\ now < resetAt
    /\ check.pc \in {"start", "end"} => now < check.at + Lag
    /\ now' = now + 1
    /\ check' = IF check.pc \in {"start", "end"} THEN check ELSE NoCheck
    /\ UNCHANGED <<zone, startedAt, ctx, atomics, timers, filter>>

Next ==
    \/ ClockTimerTick \/ ResetBloomFilter \/ Signal \/ Tick
    \/ \E w \in Windows : StoreStart(w) \/ StoreEnd(w)
    \/ \E kind \in DOMAIN Looks : BeginCheck(kind)
    \/ LoadStart \/ LoadEnd

Spec == Init /\ [][Next]_vars

-----------------------------------------------------------------------------
(* Properties.                                                             *)

Checks == [pc : {"idle", "start", "end", "passed", "refused"},
           left : {<<>>, <<"reserve">>, <<"grab">>, <<"reserve", "grab">>},
           kind : DOMAIN Looks, at : Nat, moved : {"no", "yes"}]

\* Every variable has its type, and a check that runs has a window to look at.
TypeOK ==
    /\ now \in Nat /\ zone \in Zones /\ startedAt \in Nat
    /\ ctx \in {"live", "done"}
    /\ opens \in [Windows -> Int] /\ closes \in [Windows -> Int]
    /\ refreshAt \in Nat
    /\ \E k \in 0..Len(Stores) : storing = SubSeq(Stores, k + 1, Len(Stores))
    /\ resetAt \in Int
    /\ filter \subseteq (0..MaxDay) \X {"no", "yes"}
    /\ check \in Checks /\ (check.left = <<>> <=> check.pc = "idle")

\* Nothing passes outside the window it was compared with, in whatever order
\* the reads of a check and the stores of a refresh interleave, unless the start
\* changed between its two reads; and that lets something pass at the first
\* refresh after a start, or where the local date changes around the check, and
\* at no other refresh (specialTimeMiddleware, "within the specified time
\* windows").
PassedInWindow ==
    check.pc = "passed" =>
        \/ InWindow(Head(check.left), check.at)
        \/ /\ check.moved = "yes"
           /\ \/ check.at <= startedAt + Refresh
              \/ LocalDate(check.at - Refresh) # LocalDate(now)

\* A window that is due is open: once its loop has ticked, a server refuses
\* nothing within a window of its kind, if its date is that of UTC then and
\* was at the last tick (couponClockTimer, GetSpecificTime).
OpenWhenDue ==
    check.pc = "refused" /\ ctx = "live" /\ check.at > startedAt + Refresh =>
        \/ \A k \in 1..Len(Looks[check.kind]) : ~ InWindow(Looks[check.kind][k], check.at)
        \/ \E t \in (check.at - Refresh)..now : LocalDate(t) # UTCDate(t)

\* In a window the filter holds users of that day only, so that nobody is
\* refused for a grab of an earlier day (resetBloomFilterDaily, "resets the
\* Bloom filters for grab and reserve requests daily").  Users let in while a
\* window moved, at midnight after the reset, are left out.
FilterOfToday ==
    (\E w \in Windows : InWindow(w, now)) /\ ctx = "live" =>
        \A e \in filter : e[2] = "no" => e[1] = UTCDate(now)

\* The timer fires when window v has begun and some window has not ended.
ResetAfter(v) ==
    \E w \in Windows :
        (ResetAt - zone) % DayLen \in Begin[v]..(Begin[w] + Length[w] - 1 + Lag)

\* So it is from the second day on after a start, except in a window that
\* begins before the timer fires while windows are not over: there the filter
\* may also hold users of the day before, and of no earlier one.
FilterOfTodayOnceSettled ==
    now >= startedAt + 2 * DayLen /\ ctx = "live" =>
        \A v \in Windows : InWindow(v, now) =>
            \A e \in filter : e[2] = "no" =>
                \/ e[1] = UTCDate(now)
                \/ ResetAfter(v) /\ e[1] = UTCDate(now) - 1
=============================================================================
