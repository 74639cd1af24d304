---------------------------- MODULE RateLimiter ----------------------------
(***************************************************************************)
(* The rate limiter in front of every route: one counter per address, and  *)
(* a goroutine that deletes the stale ones (src/api/middleware.go).  Both  *)
(* hold the mutex for their whole work, so each is one step.  Time is      *)
(* counted in units of which the code's minute is Window.                  *)
(* (Definitions nothing uses are plausible mistakes: see CouponIssue.)     *)
(***************************************************************************)
EXTENDS Integers, Sequences

CONSTANTS
    IPs,       \* the client addresses
    Rate,      \* rate: the requests a counter allows
    Window,    \* window
    MaxTime    \* bound on the clock

ASSUME LimiterAssumption == {Rate, Window, MaxTime} \subseteq Nat \ {0}

VARIABLES
    now,        \* the monotonic clock of time.Now
    visitors,   \* the map from addresses to counters
    ticked,     \* a tick waits in the channel of cleanupVisitors' ticker
    cleaner,    \* the goroutine cleanupVisitors: "live", "told" to end, "ended"
    served,     \* history: when requests of an address were let in
    refusedAt   \* history: when one was last refused, or 0

vars == <<now, visitors, ticked, cleaner, served, refusedAt>>

-----------------------------------------------------------------------------
\* An address without an entry; an entry counts at least one request.
NoVisitor == [count |-> 0, lastSeen |-> 0]
Exists(v) == v.count > 0

\* A request of the address was let in at time t.
FirstSeen(t) == [count |-> 1, lastSeen |-> t]

\* time.Since(v.lastSeen) > rl.window, in cleanupVisitors
StaleLate(v, t) == t - v.lastSeen > 2 * Window
Stale(v, t) == t - v.lastSeen > Window

\* now.Sub(v.lastSeen) > rl.window, in isAllowed
WindowPassed(v, t) == t - v.lastSeen > Window

\* v.count++; v.lastSeen = now
CountedFixedWindow(v, t) == [v EXCEPT !.count = @ + 1]
Counted(v, t) == [v EXCEPT !.count = @ + 1, !.lastSeen = t]

\* isAllowed: may a request at time t pass, and the entry it leaves.
Fresh(v, t) == ~ Exists(v) \/ WindowPassed(v, t)
AllowedOneMore(v, t) == Fresh(v, t) \/ v.count <= Rate
Allowed(v, t) == Fresh(v, t) \/ v.count < Rate
Entry(v, t) == IF Fresh(v, t) THEN FirstSeen(t) ELSE Counted(v, t)

-----------------------------------------------------------------------------
Start == 1

Init ==
    /\ now = Start
    /\ visitors = [ip \in IPs |-> NoVisitor]
    /\ ticked = "no"
    /\ cleaner = "live"
    /\ served = [ip \in IPs |-> <<>>]
    /\ refusedAt = [ip \in IPs |-> 0]

\* isAllowed lets the request in.
Allow(ip) ==
    /\ Allowed(visitors[ip], now)
    /\ visitors' = [visitors EXCEPT ![ip] = Entry(@, now)]
    /\ served' = [served EXCEPT ![ip] = Append(@, now)]
    /\ UNCHANGED <<now, ticked, cleaner, refusedAt>>

\* The entry of an address that isAllowed refuses.
RefusedSeen(v, t) == [v EXCEPT !.lastSeen = t]
Refused(v, t) == v

\* "rate limit exceeded".  A refused request is not counted.
Refuse(ip) ==
    /\ ~ Allowed(visitors[ip], now)
    /\ visitors' = [visitors EXCEPT ![ip] = Refused(@, now)]
    /\ refusedAt' = [refusedAt EXCEPT ![ip] = now]
    /\ UNCHANGED <<now, ticked, cleaner, served>>

\* A round of cleanupVisitors.  The select takes a tick that waits although
\* the context is done, or ends.
CleanupVisitors ==
    /\ ticked = "yes" /\ cleaner # "ended"
    /\ ticked' = "no"
    /\ visitors' = [ip \in IPs |-> IF Stale(visitors[ip], now) THEN NoVisitor ELSE visitors[ip]]
    /\ UNCHANGED <<now, cleaner, served, refusedAt>>

\* SIGINT or SIGTERM, after which the HTTP server goes on.
Signal ==
    /\ cleaner = "live"
    /\ cleaner' = "told"
    /\ UNCHANGED <<now, visitors, ticked, served, refusedAt>>

EndCleanup ==
    /\ cleaner = "told"
    /\ cleaner' = "ended"
    /\ ticked' = "no"
    /\ UNCHANGED <<now, visitors, served, refusedAt>>

\* The ticker fires every Window.  The goroutine is taken to be scheduled
\* within a unit of time: the clock waits for it.
Tick ==
    /\ now < MaxTime
    /\ ticked = "no" /\ cleaner # "told"
    /\ now' = now + 1
    /\ ticked' = IF cleaner = "live" /\ (now + 1 - Start) % Window = 0 THEN "yes" ELSE "no"
    /\ UNCHANGED <<visitors, cleaner, served, refusedAt>>

Next ==
    \/ \E ip \in IPs : Allow(ip) \/ Refuse(ip)
    \/ CleanupVisitors \/ Signal \/ EndCleanup \/ Tick

Spec == Init /\ [][Next]_vars

-----------------------------------------------------------------------------
(* Properties.                                                             *)

\* Every variable has its type, and no counter exceeds the rate.
TypeOK ==
    /\ now \in Nat
    /\ visitors \in [IPs -> [count : 0..Rate, lastSeen : Nat]]
    /\ ticked \in {"no", "yes"}
    /\ cleaner \in {"live", "told", "ended"}
    /\ served \in [IPs -> Seq(Nat)]
    /\ refusedAt \in [IPs -> Nat]

\* In no interval of length Window, wherever it starts, are more than Rate
\* requests of an address let in: one that is Rate later in the order of their
\* admission comes more than Window later, also when the entry was deleted or
\* started anew in between (isAllowed, "requests per window").
RateBound ==
    \A ip \in IPs : \A k \in 1..(Len(served[ip]) - Rate) :
        served[ip][k + Rate] - served[ip][k] > Window

\* While the cleanup runs an entry is gone two windows after its last request
\* (cleanupVisitors, "removes stale visitor entries").
EntriesExpire ==
    cleaner = "live" =>
        \A ip \in IPs : Exists(visitors[ip]) => now - visitors[ip].lastSeen <= 2 * Window

\* A request is refused only when Rate others of its address were let in
\* during the last Window ("fixed window counter", "60 requests per minute").
RefusedWithinRate ==
    \A ip \in IPs : refusedAt[ip] # 0 =>
        \E k \in 1..Len(served[ip]) :
            /\ k + Rate - 1 <= Len(served[ip])
            /\ served[ip][k] >= refusedAt[ip] - Window

Runs == INSTANCE RunLimit

\* The limiter implements RunLimit: counters, deletions and signals change no
\* answer, and a refused request delays no later one.
ImplementsRunLimit == Runs!Spec
=============================================================================
