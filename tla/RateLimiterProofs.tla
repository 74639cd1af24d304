-------------------------- MODULE RateLimiterProofs --------------------------
(***************************************************************************)
(* What holds of RateLimiter for every rate, window and set of addresses:  *)
(* the bound on the requests of a window, the life of an entry, and that   *)
(* the limiter implements RunLimit.                                        *)
(***************************************************************************)
EXTENDS RateLimiter, TLAPS

\* The sizes are positive numbers.
LEMMA Sizes == Rate \in Nat /\ Rate > 0 /\ Window \in Nat /\ Window > 0
  BY LimiterAssumption

-----------------------------------------------------------------------------
(* Type correctness.                                                       *)

\* The entries isAllowed leaves count between one request and the rate.
LEMMA EntryType ==
    ASSUME NEW v \in [count : 0..Rate, lastSeen : Nat], NEW t \in Nat, Allowed(v, t)
    PROVE  Entry(v, t) \in [count : 0..Rate, lastSeen : Nat] /\ Exists(Entry(v, t))
  <1>1. FirstSeen(t) \in [count : 0..Rate, lastSeen : Nat] /\ Exists(FirstSeen(t))
    BY Sizes DEF FirstSeen, Exists
  <1>2. CASE ~ Fresh(v, t)
    <2>1. v.count + 1 \in 0..Rate
      BY <1>2, Sizes DEF Allowed
    <2>2. /\ Counted(v, t) \in [count : 0..Rate, lastSeen : Nat]
          /\ Counted(v, t).count = v.count + 1
      BY <2>1 DEF Counted
    <2>3. v.count + 1 > 0
      OBVIOUS
    <2> QED
      BY <1>2, <2>2, <2>3 DEF Entry, Exists
  <1> QED
    BY <1>1, <1>2 DEF Entry

LEMMA TypeInit == Init => TypeOK
  BY Sizes DEF Init, TypeOK, Start, NoVisitor

LEMMA TypeStep == TypeOK /\ [Next]_vars => TypeOK'
  <1> SUFFICES ASSUME TypeOK, [Next]_vars PROVE TypeOK'
    OBVIOUS
  <1> USE DEF TypeOK
  <1>1. ASSUME NEW ip \in IPs, Allow(ip) PROVE TypeOK'
    <2>1. Entry(visitors[ip], now) \in [count : 0..Rate, lastSeen : Nat]
      BY <1>1, EntryType DEF Allow
    <2> QED
      BY <1>1, <2>1 DEF Allow
  <1>2. ASSUME NEW ip \in IPs, Refuse(ip) PROVE TypeOK'
    BY <1>2 DEF Refuse, Refused
  <1>3. CASE CleanupVisitors
    BY <1>3, Sizes DEF CleanupVisitors, NoVisitor
  <1>4. CASE Signal \/ EndCleanup \/ Tick
    BY <1>4 DEF Signal, EndCleanup, Tick
  <1>5. CASE UNCHANGED vars
    BY <1>5 DEF vars
  <1> QED
    BY <1>1, <1>2, <1>3, <1>4, <1>5 DEF Next

\* The variables keep their types, and no counter exceeds the rate (TypeOK).
THEOREM TypeCorrect == Spec => []TypeOK
  BY TypeInit, TypeStep, PTL DEF Spec

-----------------------------------------------------------------------------
(* What an entry knows of the requests that were let in.                   *)

\* The admissions of an address in their order, none in the future.
Ordered(times, t) ==
    /\ \A k \in 1..Len(times) : times[k] <= t
    /\ \A k, l \in 1..Len(times) : k <= l => times[k] <= times[l]

\* The last n admissions are a run: each came within a Window of the one
\* before, and the first of them did not.
IsRun(times, n) ==
    /\ n <= Len(times)
    /\ \A k \in (Len(times) - n + 1)..(Len(times) - 1) : times[k + 1] - times[k] <= Window
    /\ n < Len(times) => times[Len(times) - n + 1] - times[Len(times) - n] > Window

\* An entry counts the current run and has seen its last request; without an
\* entry the last run is over.
Knows(v, times, t) ==
    IF Exists(v) THEN IsRun(times, v.count) /\ v.lastSeen = times[Len(times)]
                 ELSE Len(times) > 0 => t - times[Len(times)] > Window

LimitInv ==
    \A ip \in IPs : /\ Ordered(served[ip], now)
                    /\ Knows(visitors[ip], served[ip], now)

\* While time passes, what an entry knows stays true.
LEMMA KnowsLater ==
    ASSUME NEW v \in [count : 0..Rate, lastSeen : Nat], NEW times \in Seq(Nat),
           NEW t \in Nat, NEW u \in Nat, t <= u, Ordered(times, t), Knows(v, times, t)
    PROVE  Ordered(times, u) /\ Knows(v, times, u)
  <1>1. Len(times) \in Nat /\ \A k \in 1..Len(times) : times[k] \in Nat
    OBVIOUS
  <1>2. Ordered(times, u)
    BY <1>1 DEF Ordered
  <1>3. CASE Exists(v)
    BY <1>2, <1>3 DEF Knows
  <1>4. CASE ~ Exists(v)
    BY <1>1, <1>2, <1>4, Sizes DEF Knows
  <1> QED
    BY <1>2, <1>3, <1>4

\* A request that is let in continues the run of its entry or starts one.
LEMMA KnowsAdmission ==
    ASSUME NEW v \in [count : 0..Rate, lastSeen : Nat], NEW times \in Seq(Nat),
           NEW t \in Nat, Ordered(times, t), Knows(v, times, t)
    PROVE  /\ Ordered(Append(times, t), t)
           /\ Knows(Entry(v, t), Append(times, t), t)
  <1> DEFINE more == Append(times, t)
  <1>1. /\ more \in Seq(Nat) /\ Len(more) = Len(times) + 1 /\ Len(times) \in Nat
        /\ more[Len(more)] = t
        /\ \A k \in 1..Len(times) : more[k] = times[k] /\ times[k] \in Nat
    OBVIOUS
  <1> HIDE DEF more
  <1>0. v.count \in Nat /\ v.lastSeen \in Nat
    OBVIOUS
  <1>2. Ordered(more, t)
    <2>1. ASSUME NEW k \in 1..Len(more) PROVE more[k] <= t
      <3>1. CASE k = Len(more)
        BY <1>1, <3>1
      <3>2. CASE k # Len(more)
        <4>1. k \in 1..Len(times)
          BY <1>1, <3>2
        <4> QED
          BY <1>1, <4>1 DEF Ordered
      <3> QED
        BY <3>1, <3>2
    <2>2. ASSUME NEW k \in 1..Len(more), NEW l \in 1..Len(more), k <= l
          PROVE  more[k] <= more[l]
      <3>1. CASE l = Len(more)
        BY <1>1, <2>1, <3>1
      <3>2. CASE l # Len(more)
        BY SMTT(30), <1>1, <2>2, <3>2, k \in 1..Len(times) /\ l \in 1..Len(times) DEF Ordered
      <3> QED
        BY <3>1, <3>2
    <2> QED
      BY <2>1, <2>2 DEF Ordered
  <1>3. CASE Fresh(v, t)
    <2>1. Entry(v, t) = FirstSeen(t) /\ Exists(FirstSeen(t))
      BY <1>3 DEF Entry, FirstSeen, Exists
    <2>2. Len(times) > 0 => t - times[Len(times)] > Window
      BY <1>3 DEF Fresh, WindowPassed, Knows
    <2>3. IsRun(more, 1)
      <3>1. ASSUME 1 < Len(more)
            PROVE  more[Len(more) - 1 + 1] - more[Len(more) - 1] > Window
        BY SMTT(30), <1>1, <2>2, <3>1, Len(more) - 1 = Len(times), Len(more) - 1 + 1 = Len(more)
      <3>2. (Len(more) - 1 + 1)..(Len(more) - 1) = {}
        BY <1>1
      <3> QED
        BY <1>1, <3>1, <3>2 DEF IsRun
    <2> QED
      BY <1>1, <1>2, <2>1, <2>3 DEF Knows, FirstSeen, more
  <1>4. CASE ~ Fresh(v, t)
    <2>1. /\ Exists(v) /\ v.lastSeen = times[Len(times)] /\ t - v.lastSeen <= Window
          /\ IsRun(times, v.count) /\ v.count \in Nat \ {0}
      BY <1>4, Sizes DEF Fresh, WindowPassed, Knows, Exists
    <2>2. Entry(v, t) = Counted(v, t) /\ Exists(Counted(v, t))
      BY <1>4, <2>1 DEF Entry, Counted, Exists
    <2> DEFINE n == Len(times)
               c == v.count
    <2>3. n \in Nat /\ c \in Nat \ {0} /\ c <= n /\ Len(more) = n + 1
      BY <1>1, <2>1 DEF IsRun
    <2>4. \A k \in (n - c + 1)..(n - 1) : times[k + 1] - times[k] <= Window
      BY <2>1 DEF IsRun
    <2>5. c < n => times[n - c + 1] - times[n - c] > Window
      BY <2>1 DEF IsRun
    <2>6. more[n + 1] = t /\ \A k \in 1..n : more[k] = times[k]
      BY <1>1
    <2>7. t - times[n] <= Window
      BY <2>1
    <2> HIDE DEF n, c
    <2>8. ASSUME NEW k \in (n - c + 1)..n PROVE more[k + 1] - more[k] <= Window
      <3>1. k \in 1..n
        BY <2>3
      <3>2. CASE k = n
        BY <2>3, <2>6, <2>7, <3>1, <3>2
      <3>3. CASE k # n
        <4>1. k \in (n - c + 1)..(n - 1) /\ k + 1 \in 1..n
          BY <2>3, <3>1, <3>3
        <4>2. more[k + 1] = times[k + 1] /\ more[k] = times[k]
          BY <2>6, <3>1, <4>1
        <4> QED
          BY <2>4, <4>1, <4>2
      <3> QED
        BY <3>2, <3>3
    <2>9. ASSUME c < n PROVE more[n - c + 1] - more[n - c] > Window
      <3>1. n - c + 1 \in 1..n /\ n - c \in 1..n
        BY <2>3, <2>9
      <3>2. more[n - c + 1] = times[n - c + 1] /\ more[n - c] = times[n - c]
        BY <2>6, <3>1
      <3> QED
        BY <2>5, <2>9, <3>2
    <2>10. IsRun(more, c + 1)
      <3>1. /\ Len(more) - (c + 1) + 1 = n - c + 1 /\ Len(more) - (c + 1) = n - c
            /\ Len(more) - 1 = n /\ c + 1 <= Len(more) /\ (c + 1 < Len(more) <=> c < n)
        BY <2>3
      <3> QED
        BY <2>8, <2>9, <3>1 DEF IsRun
    <2>11. IsRun(more, v.count + 1)
      BY <2>10 DEF c
    <2> QED
      BY <1>1, <1>2, <2>1, <2>2, <2>11 DEF Knows, Counted, more
  <1> QED
    BY <1>3, <1>4

LEMMA LimitInit == Init => LimitInv
  <1> SUFFICES ASSUME Init, NEW ip \in IPs
               PROVE  Ordered(served[ip], now) /\ Knows(visitors[ip], served[ip], now)
    BY DEF LimitInv
  <1>1. served[ip] = <<>> /\ Len(served[ip]) = 0 /\ visitors[ip] = NoVisitor
    BY DEF Init
  <1>2. ~ Exists(NoVisitor)
    BY DEF Exists, NoVisitor
  <1> QED
    BY <1>1, <1>2 DEF Ordered, Knows

LEMMA LimitStep == TypeOK /\ LimitInv /\ [Next]_vars => LimitInv'
  <1> SUFFICES ASSUME TypeOK, LimitInv, [Next]_vars PROVE LimitInv'
    OBVIOUS
  <1>0. ASSUME NEW ip \in IPs
        PROVE  /\ visitors[ip] \in [count : 0..Rate, lastSeen : Nat]
               /\ served[ip] \in Seq(Nat) /\ now \in Nat
               /\ Ordered(served[ip], now) /\ Knows(visitors[ip], served[ip], now)
    BY DEF TypeOK, LimitInv
  <1>1. ASSUME NEW ip \in IPs, Allow(ip) PROVE LimitInv'
    <2> SUFFICES ASSUME NEW a \in IPs
                 PROVE  Ordered(served'[a], now) /\ Knows(visitors'[a], served'[a], now)
      BY <1>1 DEF Allow, LimitInv
    <2>1. CASE a = ip
      BY <1>0, <1>1, <2>1, KnowsAdmission DEF Allow, TypeOK
    <2>2. CASE a # ip
      BY <1>0, <1>1, <2>2 DEF Allow, TypeOK
    <2> QED
      BY <2>1, <2>2
  <1>2. ASSUME NEW ip \in IPs, Refuse(ip) PROVE LimitInv'
    <2>1. visitors' = visitors
      BY <1>2 DEF Refuse, Refused, TypeOK
    <2> QED
      BY <1>2, <2>1 DEF Refuse, LimitInv
  <1>3. CASE CleanupVisitors
    <2> SUFFICES ASSUME NEW a \in IPs
                 PROVE  Ordered(served[a], now) /\ Knows(visitors'[a], served[a], now)
      BY <1>3 DEF CleanupVisitors, LimitInv
    <2>1. CASE Stale(visitors[a], now)
      BY <1>0, <1>3, <2>1 DEF CleanupVisitors, Stale, Knows, NoVisitor, Exists
    <2>2. CASE ~ Stale(visitors[a], now)
      BY <1>0, <1>3, <2>2 DEF CleanupVisitors
    <2> QED
      BY <2>1, <2>2
  <1>4. CASE Tick
    BY <1>0, <1>4, KnowsLater DEF Tick, LimitInv
  <1>5. CASE Signal \/ EndCleanup \/ UNCHANGED vars
    BY <1>5 DEF Signal, EndCleanup, vars, LimitInv
  <1> QED
    BY <1>1, <1>2, <1>3, <1>4, <1>5 DEF Next

LEMMA LimitCorrect == Spec => [](TypeOK /\ LimitInv)
  BY TypeInit, TypeStep, LimitInit, LimitStep, PTL DEF Spec

-----------------------------------------------------------------------------
(* The bound on the requests of a window.                                  *)

\* RateBound, of the admissions of one address.
Sparse(times) ==
    \A k \in 1..(Len(times) - Rate) : times[k + Rate] - times[k] > Window

\* A request that isAllowed lets in comes more than Window after the one that
\* was let in Rate requests earlier: a fresh run begins after a gap, and a run
\* that is continued counts fewer than Rate, behind a gap too.
LEMMA SparseAdmission ==
    ASSUME NEW v \in [count : 0..Rate, lastSeen : Nat], NEW times \in Seq(Nat),
           NEW t \in Nat, Ordered(times, t), Knows(v, times, t), Allowed(v, t),
           Sparse(times)
    PROVE  Sparse(Append(times, t))
  <1> DEFINE more == Append(times, t)
             n == Len(times)
             c == v.count
  <1>1. /\ n \in Nat /\ c \in Nat /\ Len(more) = n + 1 /\ more[n + 1] = t
        /\ \A k \in 1..n : more[k] = times[k] /\ times[k] \in Nat
    OBVIOUS
  <1>2. \A k, l \in 1..n : k <= l => times[k] <= times[l]
    BY DEF Ordered
  <1>3. \A k \in 1..n : times[k] <= t
    BY DEF Ordered
  <1>4. Fresh(v, t) /\ n > 0 => t - times[n] > Window
    BY DEF Fresh, WindowPassed, Knows
  <1>5. ~ Fresh(v, t) => c < Rate /\ (c < n => times[n - c + 1] - times[n - c] > Window)
    BY DEF Fresh, Allowed, Knows, IsRun
  <1>6. \A k \in 1..(n - Rate) : times[k + Rate] - times[k] > Window
    BY DEF Sparse
  <1>7. ~ Fresh(v, t) => c > 0
    BY DEF Fresh, Exists
  <1> HIDE DEF more, n, c
  <1>8. ASSUME NEW k \in 1..(n + 1 - Rate) PROVE more[k + Rate] - more[k] > Window
    <2>1. k \in 1..n /\ more[k] = times[k]
      BY <1>1, Sizes
    <2>2. CASE k # n + 1 - Rate
      <3>1. k \in 1..(n - Rate) /\ k + Rate \in 1..n
        BY <1>1, <2>2, Sizes
      <3> QED
        BY <1>1, <1>6, <2>1, <3>1
    <2>3. CASE k = n + 1 - Rate /\ Fresh(v, t)
      <3>1. k + Rate = n + 1 /\ n \in 1..n
        BY <1>1, <2>1, <2>3, Sizes
      <3>2. times[k] <= times[n] /\ times[n] \in Nat /\ times[k] \in Nat
        BY <1>1, <1>2, <2>1, <3>1
      <3> QED
        BY SMTT(30), <1>1, <1>4, <2>1, <2>3, <3>1, <3>2, Sizes
    <2>4. CASE k = n + 1 - Rate /\ ~ Fresh(v, t)
      <3>1. /\ k + Rate = n + 1 /\ k <= n - c /\ c < n
            /\ n - c \in 1..n /\ n - c + 1 \in 1..n
        BY <1>1, <1>5, <1>7, <2>1, <2>4, Sizes
      <3>2. times[n - c + 1] - times[n - c] > Window
        BY <1>5, <2>4, <3>1
      <3>3. times[k] <= times[n - c] /\ times[n - c + 1] <= t
        BY <1>2, <1>3, <2>1, <3>1
      <3>4. {times[k], times[n - c], times[n - c + 1]} \subseteq Nat
        BY <1>1, <2>1, <3>1
      <3>5. t - times[k] > Window
        BY SMTT(30), <3>2, <3>3, <3>4, Sizes
      <3>6. more[k + Rate] = t
        BY <1>1, <3>1
      <3> QED
        BY <2>1, <3>5, <3>6
    <2> QED
      BY <2>2, <2>3, <2>4
  <1>9. Sparse(more)
    <2>1. Len(more) - Rate = n + 1 - Rate
      BY <1>1, Sizes
    <2> QED
      BY <1>8, <2>1 DEF Sparse
  <1> QED
    BY <1>9 DEF more

LEMMA BoundStep == TypeOK /\ LimitInv /\ RateBound /\ [Next]_vars => RateBound'
  <1> SUFFICES ASSUME TypeOK, LimitInv, RateBound, [Next]_vars, NEW a \in IPs
               PROVE  Sparse(served'[a])
    BY DEF RateBound, Sparse
  <1>1. Sparse(served[a])
    BY DEF RateBound, Sparse
  <1>2. ASSUME NEW ip \in IPs, Allow(ip) PROVE Sparse(served'[a])
    <2>1. /\ visitors[a] \in [count : 0..Rate, lastSeen : Nat]
          /\ served[a] \in Seq(Nat) /\ now \in Nat
          /\ Ordered(served[a], now) /\ Knows(visitors[a], served[a], now)
      BY DEF TypeOK, LimitInv
    <2>2. CASE a = ip
      <3>1. Allowed(visitors[a], now) /\ served'[a] = Append(served[a], now)
        BY <1>2, <2>2 DEF Allow, TypeOK
      <3> QED
        BY <1>1, <2>1, <3>1, SparseAdmission
    <2>3. CASE a # ip
      BY <1>1, <1>2, <2>3 DEF Allow, TypeOK
    <2> QED
      BY <2>2, <2>3
  <1>3. CASE UNCHANGED served
    BY <1>1, <1>3
  <1> QED
    BY <1>2, <1>3 DEF Next, Refuse, CleanupVisitors, Signal, EndCleanup, Tick, vars

\* In no interval of length Window are more than Rate requests of an address
\* let in, for every rate and window, also across deleted entries (isAllowed
\* and cleanupVisitors; RateBound).
THEOREM RateBounded == Spec => []RateBound
  <1>1. Init => RateBound
    BY Sizes DEF Init, RateBound
  <1> QED
    BY <1>1, BoundStep, LimitCorrect, PTL DEF Spec

-----------------------------------------------------------------------------
(* The limiter implements RunLimit.                                        *)

\* What isAllowed decides from the counter is what RunLimit decides from the
\* admissions.
LEMMA AllowedIffRunNotFull ==
    ASSUME NEW v \in [count : 0..Rate, lastSeen : Nat], NEW times \in Seq(Nat),
           NEW t \in Nat, Knows(v, times, t)
    PROVE  Allowed(v, t) <=> ~ Runs!RunIsFull(times, t)
  <1> DEFINE n == Len(times)
             c == v.count
  <1>1. n \in Nat /\ c \in 0..Rate /\ (\A k \in 1..n : times[k] \in Nat)
    OBVIOUS
  <1>2. Runs!RunIsFull(times, t) <=>
           /\ n >= Rate
           /\ t - times[n] <= Window
           /\ \A k \in (n - Rate + 1)..(n - 1) : times[k + 1] - times[k] <= Window
    BY DEF Runs!RunIsFull
  <1>3. CASE ~ Exists(v)
    <2>1. n > 0 => t - times[n] > Window
      BY <1>3 DEF Knows
    <2> HIDE DEF n, c
    <2>2. n > 0 => ~ (t - times[n] <= Window)
      <3>1. ASSUME n > 0 PROVE times[n] \in Nat
        BY <1>1, <3>1
      <3> QED
        BY <2>1, <3>1, Sizes
    <2>3. Allowed(v, t)
      BY <1>3 DEF Allowed, Fresh
    <2> QED
      BY <1>1, <1>2, <2>2, <2>3, Sizes
  <1>4. CASE Exists(v)
    <2>1. /\ c > 0 /\ c <= n /\ v.lastSeen = times[n]
          /\ \A k \in (n - c + 1)..(n - 1) : times[k + 1] - times[k] <= Window
          /\ c < n => times[n - c + 1] - times[n - c] > Window
      BY <1>4 DEF Knows, IsRun, Exists
    <2>2. Allowed(v, t) <=> t - times[n] > Window \/ c < Rate
      BY <1>4, <2>1 DEF Allowed, Fresh, WindowPassed
    <2> HIDE DEF n, c
    <2>3. times[n] \in Nat
      BY <1>1, <2>1
    <2>4. CASE c = Rate
      BY <1>1, <1>2, <2>1, <2>2, <2>3, <2>4, Sizes
    <2>5. CASE c < Rate
      <3>1. ASSUME n >= Rate
            PROVE  \E k \in (n - Rate + 1)..(n - 1) : ~ (times[k + 1] - times[k] <= Window)
        <4>1. /\ c < n /\ n - c \in (n - Rate + 1)..(n - 1)
              /\ n - c \in 1..n /\ n - c + 1 \in 1..n
          BY <1>1, <2>1, <2>5, <3>1, Sizes
        <4>2. times[n - c] \in Nat /\ times[n - c + 1] \in Nat
          BY <1>1, <4>1
        <4>3. ~ (times[n - c + 1] - times[n - c] <= Window)
          BY SMTT(30), <2>1, <4>1, <4>2, Sizes
        <4> QED
          BY <4>1, <4>3
      <3>2. ~ Runs!RunIsFull(times, t)
        BY <1>2, <3>1
      <3> QED
        BY <2>2, <2>5, <3>2
    <2> QED
      BY <1>1, <2>4, <2>5, Sizes
  <1> QED
    BY <1>3, <1>4

LEMMA RunsStep ==
    TypeOK /\ LimitInv /\ [Next]_vars => [Runs!Next]_<<now, served, refusedAt>>
  <1> SUFFICES ASSUME TypeOK, LimitInv, [Next]_vars
               PROVE  Runs!Next \/ UNCHANGED <<now, served, refusedAt>>
    OBVIOUS
  <1>0. ASSUME NEW ip \in IPs
        PROVE  Allowed(visitors[ip], now) <=> ~ Runs!RunIsFull(served[ip], now)
    BY AllowedIffRunNotFull DEF TypeOK, LimitInv
  <1>1. ASSUME NEW ip \in IPs, Allow(ip) PROVE Runs!Next
    BY <1>0, <1>1 DEF Allow, Runs!Serve, Runs!Next
  <1>2. ASSUME NEW ip \in IPs, Refuse(ip) PROVE Runs!Next
    BY <1>0, <1>2 DEF Refuse, Runs!Refuse, Runs!Next
  <1>3. CASE Tick
    BY <1>3 DEF Tick, Runs!Tick, Runs!Next
  <1>4. CASE CleanupVisitors \/ Signal \/ EndCleanup \/ UNCHANGED vars
    BY <1>4 DEF CleanupVisitors, Signal, EndCleanup, vars
  <1> QED
    BY <1>1, <1>2, <1>3, <1>4 DEF Next

\* The limiter with its counters, its deletions and its shutdown implements
\* RunLimit, whose decisions depend on the admissions alone
\* (ImplementsRunLimit).
THEOREM Refinement == Spec => ImplementsRunLimit
  <1>1. Init => Runs!Init
    BY DEF Init, Runs!Init
  <1> QED
    BY <1>1, RunsStep, LimitCorrect, PTL DEF Spec, Runs!Spec, ImplementsRunLimit

-----------------------------------------------------------------------------
(* How long an entry stays.                                                *)

\* The phase of the ticker advances by one or starts anew.
LEMMA NextPhaseOfTicker ==
    ASSUME NEW x \in Nat
    PROVE  /\ x % Window \in 0..(Window - 1)
           /\ \/ (x + 1) % Window = 0 /\ x % Window = Window - 1
              \/ (x + 1) % Window = (x % Window) + 1
  <1> DEFINE q == x \div Window
             r == x % Window
  <1>1. q \in Int /\ r \in 0..(Window - 1) /\ x = Window * q + r
    BY Sizes
  <1> HIDE DEF q, r
  <1>2. CASE r = Window - 1
    <2>1. x + 1 = Window * (q + 1) + 0
      BY <1>1, <1>2, Sizes
    <2>2. 0 \in 0..(Window - 1) /\ q + 1 \in Int
      BY <1>1, Sizes
    <2>3. (Window * (q + 1) + 0) % Window = 0
      BY <2>2, Sizes
    <2> QED
      BY <1>1, <1>2, <2>1, <2>3 DEF r
  <1>3. CASE r # Window - 1
    <2>1. x + 1 = Window * q + (r + 1) /\ r + 1 \in 0..(Window - 1)
      BY <1>1, <1>3, Sizes
    <2>2. (Window * q + (r + 1)) % Window = r + 1
      BY <1>1, <2>1, Sizes
    <2> QED
      BY <1>1, <2>1, <2>2 DEF r
  <1> QED
    BY <1>2, <1>3

\* An entry at the time t: between two rounds of the cleanup it is no older than
\* a Window and the time since the last round.
Kept(v, t, tick) ==
    Exists(v) =>
        /\ tick = "no" => t - v.lastSeen <= Window + ((t - Start) % Window)
        /\ tick = "yes" => t - v.lastSeen <= 2 * Window

\* A tick that calls for a round waits only at its own moment.
KeptInv ==
    /\ Start <= now
    /\ cleaner = "live" => \A ip \in IPs : Kept(visitors[ip], now, ticked)
    /\ cleaner = "live" /\ ticked = "yes" => (now - Start) % Window = 0

LEMMA KeptStep == TypeOK /\ KeptInv /\ [Next]_vars => KeptInv'
  <1> SUFFICES ASSUME TypeOK, KeptInv, [Next]_vars PROVE KeptInv'
    OBVIOUS
  <1> DEFINE x == now - Start
  <1>0. /\ x \in Nat /\ now \in Nat /\ x % Window \in 0..(Window - 1)
        /\ \A ip \in IPs : visitors[ip] \in [count : 0..Rate, lastSeen : Nat]
    BY NextPhaseOfTicker DEF TypeOK, KeptInv, Start
  <1>1. ASSUME NEW ip \in IPs, Allow(ip) PROVE KeptInv'
    <2>1. /\ Entry(visitors[ip], now) \in [count : 0..Rate, lastSeen : Nat]
          /\ Entry(visitors[ip], now).lastSeen = now
      <3>1. Entry(visitors[ip], now) \in [count : 0..Rate, lastSeen : Nat]
        BY <1>0, <1>1, EntryType DEF Allow
      <3>2. Entry(visitors[ip], now).lastSeen = now
        BY <1>0 DEF Entry, FirstSeen, Counted
      <3> QED
        BY <3>1, <3>2
    <2>2. cleaner = "live" => Kept(Entry(visitors[ip], now), now, ticked)
      BY <1>0, <2>1, Sizes DEF Kept, KeptInv
    <2>3. \A a \in IPs : visitors'[a] = IF a = ip THEN Entry(visitors[ip], now)
                                                  ELSE visitors[a]
      BY <1>1 DEF Allow, TypeOK
    <2>4. cleaner = "live" => \A a \in IPs : Kept(visitors'[a], now, ticked)
      BY <2>2, <2>3 DEF KeptInv
    <2> QED
      BY <1>1, <2>4 DEF Allow, KeptInv
  <1>2. ASSUME NEW ip \in IPs, Refuse(ip) PROVE KeptInv'
    <2>1. visitors' = visitors
      BY <1>2 DEF Refuse, Refused, TypeOK
    <2> QED
      BY <1>2, <2>1 DEF Refuse, KeptInv
  <1>3. CASE CleanupVisitors
    <2>1. ASSUME cleaner = "live", NEW a \in IPs PROVE Kept(visitors'[a], now, "no")
      <3>1. CASE Stale(visitors[a], now)
        BY <1>3, <3>1 DEF CleanupVisitors, NoVisitor, Kept, Exists
      <3>2. CASE ~ Stale(visitors[a], now)
        <4>1. now - visitors[a].lastSeen <= Window
          BY <1>0, <3>2, Sizes DEF Stale
        <4>2. visitors'[a] = visitors[a]
          BY <1>3, <3>2 DEF CleanupVisitors
        <4> QED
          BY <1>0, <4>1, <4>2, Sizes DEF Kept
      <3> QED
        BY <3>1, <3>2
    <2> QED
      BY <1>3, <2>1 DEF CleanupVisitors, KeptInv
  <1>4. CASE Tick
    <2>1. now' = now + 1 /\ now' - Start = x + 1 /\ Start <= now'
      BY <1>0, <1>4 DEF Tick, KeptInv, Start
    <2>2. CASE cleaner = "live"
      <3>1. /\ ticked = "no" /\ visitors' = visitors
            /\ ticked' = IF (x + 1) % Window = 0 THEN "yes" ELSE "no"
        BY <1>0, <1>4, <2>2 DEF Tick, Start
      <3>2. ASSUME NEW a \in IPs PROVE Kept(visitors[a], now + 1, ticked')
        <4>1. Exists(visitors[a]) => now - visitors[a].lastSeen <= Window + (x % Window)
          BY <2>2, <3>1 DEF KeptInv, Kept
        <4>2. CASE (x + 1) % Window = 0
          <5>1. x % Window <= Window - 1
            BY <1>0, Sizes
          <5>2. Exists(visitors[a]) => (now + 1) - visitors[a].lastSeen <= 2 * Window
            BY <1>0, <4>1, <5>1, Sizes
          <5>3. Kept(visitors[a], now + 1, "yes")
            BY <5>2 DEF Kept
          <5> QED
            BY <3>1, <4>2, <5>3
        <4>3. CASE (x + 1) % Window # 0
          <5>1. (x + 1) % Window = (x % Window) + 1
            BY <1>0, <4>3, NextPhaseOfTicker
          <5>2. Exists(visitors[a]) =>
                    (now + 1) - visitors[a].lastSeen <= Window + ((x + 1) % Window)
            BY <1>0, <4>1, <5>1, Sizes
          <5>3. (now + 1) - Start = x + 1
            BY <1>0 DEF Start
          <5>4. Kept(visitors[a], now + 1, "no")
            BY <5>2, <5>3, Zenon DEF Kept
          <5> QED
            BY <3>1, <4>3, <5>4
        <4> QED
          BY <4>2, <4>3
      <3> QED
        BY <1>4, <2>1, <3>1, <3>2 DEF KeptInv, Tick
    <2>3. CASE cleaner # "live"
      BY <1>4, <2>1, <2>3 DEF Tick, KeptInv
    <2> QED
      BY <2>2, <2>3
  <1>5. CASE Signal \/ EndCleanup
    BY <1>5 DEF Signal, EndCleanup, KeptInv
  <1>6. CASE UNCHANGED vars
    BY <1>6 DEF vars, KeptInv
  <1> QED
    BY <1>1, <1>2, <1>3, <1>4, <1>5, <1>6 DEF Next

\* While the cleanup runs an entry is gone two windows after its last request,
\* for every window and however the requests fall between the ticks
\* (cleanupVisitors; EntriesExpire).
THEOREM EntriesGo == Spec => []EntriesExpire
  <1>1. Init => KeptInv
    BY DEF Init, KeptInv, Kept, NoVisitor, Exists, Start
  <1>2. TypeOK /\ KeptInv => EntriesExpire
    <2> SUFFICES ASSUME TypeOK, KeptInv, cleaner = "live", NEW ip \in IPs,
                        Exists(visitors[ip])
                 PROVE  now - visitors[ip].lastSeen <= 2 * Window
      BY DEF EntriesExpire
    <2>1. /\ now - Start \in Nat /\ now \in Nat
          /\ visitors[ip] \in [count : 0..Rate, lastSeen : Nat]
      BY DEF TypeOK, KeptInv, Start
    <2>3. (now - Start) % Window \in 0..(Window - 1)
      BY <2>1, NextPhaseOfTicker
    <2>2. \/ now - visitors[ip].lastSeen <= Window + ((now - Start) % Window)
          \/ now - visitors[ip].lastSeen <= 2 * Window
      BY DEF KeptInv, Kept, TypeOK
    <2> QED
      BY <2>1, <2>2, <2>3, Sizes
  <1> QED
    BY <1>1, <1>2, TypeCorrect, KeptStep, PTL DEF Spec
=============================================================================
