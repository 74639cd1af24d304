-------------------------- MODULE TimeWindowsProofs --------------------------
(***************************************************************************)
(* What holds of TimeWindows for every day length, time zone, window,      *)
(* refresh period and lag.                                                 *)
(***************************************************************************)
EXTENDS TimeWindows, TLAPS

\* A day is not empty, and the windows lie within it.
LEMMA Calendar ==
    /\ DayLen \in Nat /\ DayLen > 0 /\ Refresh \in Nat /\ MaxDay \in Nat /\ MaxDay > 0
    /\ Begin \in [Windows -> 0..DayLen] /\ Length \in [Windows -> Nat]
    /\ \A w \in Windows : /\ Begin[w] \in Nat /\ Length[w] \in Nat
                          /\ Begin[w] + Length[w] <= DayLen
    /\ Zones \subseteq Int
  BY CalendarAssumption

-----------------------------------------------------------------------------
(* Dates.                                                                  *)

\* Each instant lies on its date.
LEMMA DateOf ==
    ASSUME NEW x \in Int
    PROVE  /\ x \div DayLen \in Int
           /\ (x \div DayLen) * DayLen <= x /\ x < (x \div DayLen) * DayLen + DayLen
  BY Calendar

\* A date before another ends before that begins.
LEMMA DateBefore ==
    ASSUME NEW d \in Int, NEW e \in Int, d < e
    PROVE  d * DayLen + DayLen <= e * DayLen
  BY Calendar

\* An instant lies on one date only.
LEMMA DateUnique ==
    ASSUME NEW x \in Int, NEW d \in Int,
           d * DayLen <= x, x < d * DayLen + DayLen
    PROVE  x \div DayLen = d
  <1> DEFINE q == x \div DayLen
             D == DayLen
  <1>1. q \in Int /\ q * D <= x /\ x < q * D + D
    BY DateOf
  <1>2. D \in Nat /\ q * D \in Int /\ d * D \in Int
    BY <1>1, Calendar
  <1> HIDE DEF q
  <1>3. ~ (q < d)
    BY <1>1, <1>2, DateBefore
  <1>4. ~ (d < q)
    BY <1>1, <1>2, DateBefore
  <1> QED
    BY <1>1, <1>3, <1>4 DEF q

\* Dates do not go back.
LEMMA DateMonotone ==
    ASSUME NEW x \in Int, NEW y \in Int, x <= y
    PROVE  x \div DayLen <= y \div DayLen
  <1> DEFINE q == x \div DayLen
             p == y \div DayLen
             D == DayLen
  <1>1. q \in Int /\ p \in Int /\ q * D <= x /\ y < p * D + D
    BY DateOf
  <1>2. D \in Nat /\ q * D \in Int /\ p * D \in Int
    BY <1>1, Calendar
  <1> HIDE DEF q, p
  <1>3. ~ (p < q)
    BY <1>1, <1>2, DateBefore
  <1> QED
    BY <1>1, <1>3 DEF q, p

\* The time of day of an instant that is so much after midnight.
LEMMA TimeOfDay ==
    ASSUME NEW D \in Nat, D > 0, NEW d \in Int, NEW r \in 0..(D - 1)
    PROVE  ((D * d) + r) % D = r
  OBVIOUS

\* An instant between the begin and the end of a window of some date is in it.
LEMMA InsideWindow ==
    ASSUME NEW w \in Windows, NEW d \in Int, NEW t \in Int,
           d * DayLen + Begin[w] <= t, t < d * DayLen + Begin[w] + Length[w]
    PROVE  InWindow(w, t)
  <1> DEFINE r == t - d * DayLen
  <1>1. /\ DayLen \in Nat /\ DayLen > 0 /\ d * DayLen \in Int
        /\ Begin[w] \in Nat /\ Length[w] \in Nat /\ Begin[w] + Length[w] <= DayLen
    BY Calendar
  <1>2. r \in 0..(DayLen - 1) /\ r \in Begin[w]..(Begin[w] + Length[w] - 1)
    BY <1>1
  <1>3. t = (DayLen * d) + r
    BY <1>1
  <1> HIDE DEF r
  <1>4. ((DayLen * d) + r) % DayLen = r
    BY <1>1, <1>2, TimeOfDay
  <1> QED
    BY <1>2, <1>3, <1>4 DEF InWindow

-----------------------------------------------------------------------------
(* The order of the stores.                                                *)

\* A suffix of a sequence loses its head to the next suffix.
LEMMA SuffixTail ==
    ASSUME NEW T, NEW S \in Seq(T), NEW k \in 0..(Len(S) - 1)
    PROVE  /\ SubSeq(S, k + 1, Len(S)) # <<>>
           /\ Head(SubSeq(S, k + 1, Len(S))) = S[k + 1]
           /\ Tail(SubSeq(S, k + 1, Len(S))) = SubSeq(S, k + 2, Len(S))
  <1> DEFINE n == Len(S)
             R == SubSeq(S, k + 1, n)
             Q == SubSeq(S, k + 2, n)
  <1>1. n \in Nat /\ k \in Nat /\ k < n
    OBVIOUS
  <1>2. R \in Seq(T) /\ Len(R) = n - k /\ \A i \in 1..(n - k) : R[i] = S[k + i]
    BY <1>1
  <1>3. Q \in Seq(T) /\ Len(Q) = n - k - 1 /\ \A i \in 1..(n - k - 1) : Q[i] = S[k + 1 + i]
    BY <1>1
  <1> HIDE DEF R, Q, n
  <1>4. R # <<>> /\ Head(R) = S[k + 1]
    BY <1>1, <1>2
  <1>5. /\ Tail(R) \in Seq(T) /\ Len(Tail(R)) = n - k - 1
        /\ \A i \in 1..(n - k - 1) : Tail(R)[i] = R[i + 1]
    BY <1>1, <1>2, <1>4
  <1>6. \A i \in 1..(n - k - 1) : Tail(R)[i] = Q[i]
    BY <1>1, <1>2, <1>3, <1>5
  <1>7. Tail(R) = Q
    BY <1>1, <1>3, <1>5, <1>6
  <1> QED
    BY <1>4, <1>7 DEF R, Q, n

\* The stores of a tick of couponClockTimer, one by one.
LEMMA StoresType ==
    /\ Stores \in Seq(Windows \X {"start", "end"}) /\ Len(Stores) = 4
    /\ Stores[1] = <<"reserve", "start">> /\ Stores[2] = <<"reserve", "end">>
    /\ Stores[3] = <<"grab", "start">> /\ Stores[4] = <<"grab", "end">>
  BY DEF Stores, Windows

\* What is left of them after k.
Left(k) == SubSeq(Stores, k + 1, Len(Stores))

LEMMA LeftStep ==
    /\ Left(4) = <<>> /\ Left(0) = Stores
    /\ \A k \in 0..3 : /\ Left(k) # <<>> /\ Head(Left(k)) = Stores[k + 1]
                       /\ Tail(Left(k)) = Left(k + 1)
  <1>1. Left(4) = <<>> /\ Left(0) = Stores
    BY StoresType DEF Left
  <1>2. ASSUME NEW k \in 0..3
        PROVE  /\ Left(k) # <<>> /\ Head(Left(k)) = Stores[k + 1]
               /\ Tail(Left(k)) = Left(k + 1)
    <2>1. k \in 0..(Len(Stores) - 1) /\ (k + 1) + 1 = k + 2
      BY StoresType
    <2> QED
      BY <2>1, StoresType, SuffixTail DEF Left
  <1> QED
    BY <1>1, <1>2

-----------------------------------------------------------------------------
(* The local state of a check.                                             *)

\* The windows a check has still to look at.
Lefts == {<<"reserve">>, <<"grab">>, <<"reserve", "grab">>}

LEMMA LeftsType ==
    ASSUME NEW l \in Lefts
    PROVE  /\ l # <<>> /\ Head(l) \in Windows
           /\ Len(l) # 1 => Tail(l) \in Lefts
  <1>1. CASE l = <<"reserve">> \/ l = <<"grab">>
    <2>1. Len(l) = 1 /\ l # <<>> /\ Head(l) \in Windows
      BY <1>1 DEF Windows
    <2> QED
      BY <2>1
  <1>2. CASE l = <<"reserve", "grab">>
    <2>1. l # <<>> /\ Head(l) \in Windows
      BY <1>2 DEF Windows
    <2>2. Tail(l) = <<"grab">>
      <3> DEFINE m == Tail(l)
                 g == <<"grab">>
      <3>1. m \in Seq({"reserve", "grab"}) /\ Len(m) = 1 /\ m[1] = "grab"
        BY <1>2
      <3>2. g \in Seq({"reserve", "grab"}) /\ Len(g) = 1 /\ g[1] = "grab"
        OBVIOUS
      <3> HIDE DEF m, g
      <3>3. \A i \in 1..Len(m) : m[i] = g[i]
        BY <3>1, <3>2
      <3>4. m = g
        BY <3>1, <3>2, <3>3
      <3> QED
        BY <3>4 DEF m, g
    <2> QED
      BY <2>1, <2>2 DEF Lefts
  <1> QED
    BY <1>1, <1>2 DEF Lefts

LEMMA LooksType ==
    /\ DOMAIN Looks = {"request", "listener", "grabber"}
    /\ \A kind \in DOMAIN Looks : Looks[kind] \in Lefts
  BY DEF Looks, Lefts

\* A check that runs or has ended.
Looking == [pc : {"start", "end", "passed", "refused"}, left : Lefts,
            kind : DOMAIN Looks, at : Nat, moved : {"no", "yes"}]

LEMMA LookingType ==
    /\ Looking \subseteq Checks
    /\ \A c \in Checks : c.left # <<>> => c.left \in Lefts
    /\ \A c \in Checks : (c.left = <<>> <=> c.pc = "idle") /\ c.pc # "idle" => c \in Looking
    /\ \A c \in Looking : /\ c.left # <<>> /\ c.pc # "idle" /\ Head(c.left) \in Windows
                          /\ c.at \in Nat /\ c.kind \in DOMAIN Looks
                          /\ c.moved \in {"no", "yes"}
    /\ NoCheck \in Checks /\ NoCheck.left = <<>> /\ NoCheck.pc = "idle" /\ NoCheck.at = 0
  <1>1. Looking \subseteq Checks /\ \A c \in Checks : c.left # <<>> => c.left \in Lefts
    BY DEF Looking, Checks, Lefts
  <1>2. \A c \in Checks : (c.left = <<>> <=> c.pc = "idle") /\ c.pc # "idle" => c \in Looking
    BY <1>1 DEF Looking, Checks
  <1>3. \A c \in Looking : /\ c.left # <<>> /\ c.pc # "idle" /\ Head(c.left) \in Windows
                           /\ c.at \in Nat /\ c.kind \in DOMAIN Looks
                           /\ c.moved \in {"no", "yes"}
    BY LeftsType DEF Looking
  <1>4. NoCheck \in Checks /\ NoCheck.left = <<>> /\ NoCheck.pc = "idle" /\ NoCheck.at = 0
    BY LooksType DEF NoCheck, Checks
  <1> QED
    BY <1>1, <1>2, <1>3, <1>4

\* What a step makes of a check: it goes on, or over to the next window.
GoesTo(c, p) == [c EXCEPT !.pc = p]

LEMMA GoesToType ==
    ASSUME NEW c \in Looking, NEW p \in {"start", "end", "passed", "refused"}
    PROVE  /\ GoesTo(c, p) \in Looking /\ GoesTo(c, p).pc = p
           /\ GoesTo(c, p).left = c.left /\ GoesTo(c, p).at = c.at
           /\ GoesTo(c, p).moved = c.moved /\ GoesTo(c, p).kind = c.kind
  BY DEF GoesTo, Looking

LEMMA NotThisWindowType ==
    ASSUME NEW c \in Looking
    PROVE  /\ NotThisWindow(c) \in Looking /\ NotThisWindow(c).at = c.at
           /\ NotThisWindow(c).kind = c.kind
           /\ NotThisWindow(c).pc \in {"start", "refused"}
           /\ NotThisWindow(c).moved = "yes" => c.moved = "yes"
  <1>1. CASE Len(c.left) = 1
    BY <1>1, GoesToType DEF NotThisWindow, GoesTo
  <1>2. CASE Len(c.left) # 1
    <2>1. Tail(c.left) \in Lefts
      BY <1>2, LeftsType DEF Looking
    <2>2. NotThisWindow(c) = [pc |-> "start", left |-> Tail(c.left), kind |-> c.kind,
                              at |-> c.at, moved |-> "no"]
      BY <1>2 DEF NotThisWindow, Looking
    <2> QED
      BY <2>1, <2>2 DEF Looking
  <1> QED
    BY <1>1, <1>2

\* The start of a window moved under a check.
MovedCheck(c) == [c EXCEPT !.moved = "yes"]

LEMMA MovedCheckType ==
    ASSUME NEW c \in Looking
    PROVE  /\ MovedCheck(c) \in Looking /\ MovedCheck(c).pc = c.pc
           /\ MovedCheck(c).left = c.left /\ MovedCheck(c).at = c.at
           /\ MovedCheck(c).moved = "yes"
  BY DEF MovedCheck, Looking

-----------------------------------------------------------------------------
(* The times of the windows.                                               *)

\* A stored end is the initial one, or that of a date up to today.
Written(c, w, today) ==
    \/ c <= 0
    \/ \E d \in Int : d <= today /\ c = d * DayLen + Begin[w] + Length[w]

\* Start and end of a window are of one date, or no instant is between them.
Aligned(o, c, w) ==
    \/ c <= 0 \/ c <= o
    \/ \E d \in Int : /\ o = d * DayLen + Begin[w]
                      /\ c = d * DayLen + Begin[w] + Length[w]

\* A check that goes on has read a start that still stands, and one that has
\* passed was in the window.
CheckOK(c, o) ==
    /\ c.pc = "end" /\ c.moved = "no" => c.at >= o[Head(c.left)]
    /\ c.pc = "passed" /\ c.moved = "no" => InWindow(Head(c.left), c.at)

\* Between the two stores of a window its start is that of today.
TimesInv ==
    /\ check.at <= now /\ UTCDate(now) <= MaxDay
    /\ \A w \in Windows : Written(closes[w], w, LocalDate(now))
    /\ \A w \in Windows : Aligned(opens[w], closes[w], w)
    /\ \A w \in Windows : storing # <<>> /\ Head(storing) = <<w, "end">> =>
                              opens[w] = SpecificTime(w, now)
    /\ CheckOK(check, opens)

\* The dates are numbers, and the stores that are left those of TypeOK.
LEMMA Numbers ==
    ASSUME TypeOK
    PROVE  /\ now \in Nat /\ zone \in Int /\ LocalDate(now) \in Int
           /\ LocalDate(now) * DayLen \in Int
           /\ \A w \in Windows : /\ SpecificTime(w, now) \in Int
                                 /\ SpecificTime(w, now) = LocalDate(now) * DayLen + Begin[w]
           /\ \E k \in 0..4 : storing = Left(k)
           /\ \A k \in 0..4 : storing' = Left(k) =>
                  \E j \in 0..Len(Stores) : storing' = SubSeq(Stores, j + 1, Len(Stores))
  <1>1. now \in Nat /\ zone \in Int
    BY Calendar DEF TypeOK
  <1>2. LocalDate(now) \in Int
    BY <1>1, DateOf DEF LocalDate
  <1>3. LocalDate(now) * DayLen \in Int
    BY <1>2, Calendar
  <1>4. \A w \in Windows : /\ SpecificTime(w, now) \in Int
                           /\ SpecificTime(w, now) = LocalDate(now) * DayLen + Begin[w]
    BY <1>3, Calendar DEF SpecificTime
  <1>5. \E k \in 0..4 : storing = Left(k)
    BY StoresType DEF TypeOK, Left
  <1>6. \A k \in 0..4 : storing' = Left(k) =>
            \E j \in 0..Len(Stores) : storing' = SubSeq(Stores, j + 1, Len(Stores))
    BY StoresType DEF Left
  <1> QED
    BY <1>1, <1>2, <1>3, <1>4, <1>5, <1>6

\* The check of a step has its type.
LEMMA CheckNow ==
    ASSUME TypeOK, check.pc # "idle"
    PROVE  check \in Looking /\ Head(check.left) \in Windows /\ check.at \in Nat
  BY LookingType DEF TypeOK

LEMMA TimesInit == Init => TypeOK /\ TimesInv
  <1> SUFFICES ASSUME Init PROVE TypeOK /\ TimesInv
    OBVIOUS
  <1>1. now \in Nat /\ zone \in Int /\ now < 2 * DayLen /\ now >= DayLen
    BY Calendar DEF Init
  <1>2. (now + zone) \div DayLen \in Int /\ now \div DayLen = 1
    <2>1. 1 * DayLen <= now /\ now < 1 * DayLen + DayLen
      BY <1>1, Calendar
    <2> QED
      BY <1>1, <2>1, DateOf, DateUnique
  <1>3. resetAt \in Int
    BY <1>1, <1>2, CalendarAssumption DEF Init, NextReset, LocalDate
  <1>4. \E j \in 0..Len(Stores) : storing = SubSeq(Stores, j + 1, Len(Stores))
    <2>1. storing = Left(4) /\ 4 \in 0..Len(Stores)
      BY LeftStep, StoresType DEF Init
    <2> QED
      BY <2>1 DEF Left
  <1>5. check \in Checks /\ (check.left = <<>> <=> check.pc = "idle") /\ check.at = 0
    BY LookingType DEF Init
  <1>6. TypeOK
    BY <1>1, <1>3, <1>4, <1>5, Calendar DEF Init, TypeOK
  <1>7. TimesInv
    BY <1>1, <1>2, <1>5, Calendar, LookingType
       DEF Init, TimesInv, Written, Aligned, CheckOK, UTCDate
  <1> QED
    BY <1>6, <1>7

LEMMA TimesClockTimerTick ==
    ASSUME TypeOK, TimesInv, ClockTimerTick
    PROVE  TypeOK' /\ TimesInv'
  <1>1. storing' = Left(0) /\ storing' # <<>> /\ Head(storing') = <<"reserve", "start">>
    BY LeftStep, StoresType DEF ClockTimerTick
  <1>2. refreshAt' \in Nat
    BY Calendar DEF ClockTimerTick, TypeOK
  <1>3. TypeOK'
    BY SMTT(30), <1>1, <1>2, Numbers DEF ClockTimerTick, TypeOK, atomics
  <1>4. TimesInv'
    BY <1>1 DEF ClockTimerTick, TimesInv, atomics, LocalDate, SpecificTime, UTCDate
  <1> QED
    BY <1>3, <1>4

LEMMA TimesStoreStart ==
    ASSUME TypeOK, TimesInv, NEW w \in Windows, StoreStart(w)
    PROVE  TypeOK' /\ TimesInv'
  <1> DEFINE o == SpecificTime(w, now)
             today == LocalDate(now)
  <1>0. /\ now \in Nat /\ today \in Int /\ today * DayLen \in Int /\ o \in Int
        /\ o = today * DayLen + Begin[w]
        /\ opens \in [Windows -> Int] /\ closes \in [Windows -> Int]
    BY Numbers DEF TypeOK
  <1>1. PICK k \in 0..4 : storing = Left(k)
    BY Numbers
  <1>2. k \in 0..3 /\ Stores[k + 1] = <<w, "start">> /\ storing' = Left(k + 1)
    BY SMTT(30), <1>1, LeftStep DEF StoreStart
  <1>3. (k = 0 /\ w = "reserve") \/ (k = 2 /\ w = "grab")
    BY <1>2, StoresType
  <1>4. /\ k + 1 \in 0..4 /\ storing' # <<>> /\ Head(storing') = <<w, "end">>
    BY <1>2, <1>3, LeftStep, StoresType
  <1>5. opens' = [opens EXCEPT ![w] = o]
    BY DEF StoreStart
  <1> HIDE DEF o, today
  <1>6. PICK c \in {check, MovedCheck(check)} :
          /\ check' = c
          /\ (opens' # opens /\ MovedUnder(w, check)) => c = MovedCheck(check)
          /\ c # check => check.pc # "idle"
    BY DEF StoreStart, MovedCheck, MovedUnder
  <1>7. check' \in Checks /\ (check'.left = <<>> <=> check'.pc = "idle") /\ check'.at = check.at
    BY <1>6, CheckNow, MovedCheckType, LookingType DEF TypeOK
  <1>8. TypeOK'
    BY <1>0, <1>2, <1>4, <1>5, <1>7, Numbers DEF StoreStart, TypeOK
  <1>9. Aligned(o, closes[w], w)
    <2>0. Begin[w] \in Nat /\ Length[w] \in Nat /\ Begin[w] + Length[w] <= DayLen /\ DayLen \in Nat
      BY Calendar
    <2>1. CASE closes[w] <= 0
      BY <2>1 DEF Aligned
    <2>2. ASSUME NEW d \in Int, d <= today,
                 closes[w] = d * DayLen + Begin[w] + Length[w]
          PROVE  Aligned(o, closes[w], w)
      <3>1. CASE d = today
        BY <1>0, <2>2, <3>1 DEF Aligned
      <3>2. CASE d # today
        <4>1. d * DayLen + DayLen <= today * DayLen /\ d * DayLen \in Int
          BY <1>0, <2>0, <2>2, <3>2, DateBefore
        <4>2. closes[w] <= o
          BY <1>0, <2>0, <2>2, <4>1
        <4> QED
          BY <4>2 DEF Aligned
      <3> QED
        BY <3>1, <3>2
    <2> QED
      BY <2>1, <2>2 DEF TimesInv, Written, today
  <1>10. CheckOK(check', opens')
    <2>1. CASE check' = check
      <3>1. check.pc = "end" => Head(check.left) \in Windows
        BY CheckNow
      <3>2. check.pc = "end" /\ check.moved = "no" => opens'[Head(check.left)] = opens[Head(check.left)]
        <4>1. CASE opens' = opens
          BY <4>1
        <4>2. CASE opens' # opens /\ ~ MovedUnder(w, check)
          BY <1>0, <1>5, <3>1, <4>2 DEF MovedUnder
        <4>3. CASE opens' # opens /\ MovedUnder(w, check)
          BY <1>6, <2>1, <4>3, CheckNow, MovedCheckType DEF MovedUnder
        <4> QED
          BY <4>1, <4>2, <4>3
      <3> QED
        BY <2>1, <3>2 DEF TimesInv, CheckOK
    <2>2. CASE check' = MovedCheck(check) /\ check' # check
      <3>1. check'.moved = "yes"
        BY <1>6, <2>2, CheckNow, MovedCheckType
      <3> QED
        BY <3>1 DEF CheckOK
    <2> QED
      BY <1>6, <2>1, <2>2
  <1>11. TimesInv'
    <2>1. now' = now /\ zone' = zone /\ closes' = closes /\ opens'[w] = SpecificTime(w, now)
      BY <1>0, <1>5 DEF StoreStart, o
    <2>2. \A v \in Windows : Aligned(opens'[v], closes[v], v)
      BY <1>0, <1>5, <1>9 DEF TimesInv
    <2>3. \A v \in Windows : Head(storing') = <<v, "end">> => opens'[v] = SpecificTime(v, now)
      BY <1>4, <2>1
    <2> QED
      BY <1>7, <1>10, <2>1, <2>2, <2>3 DEF TimesInv, LocalDate, SpecificTime, UTCDate
  <1> QED
    BY <1>8, <1>11

LEMMA TimesStoreEnd ==
    ASSUME TypeOK, TimesInv, NEW w \in Windows, StoreEnd(w)
    PROVE  TypeOK' /\ TimesInv'
  <1> DEFINE o == SpecificTime(w, now)
             today == LocalDate(now)
  <1>0. /\ now \in Nat /\ today \in Int /\ today * DayLen \in Int /\ o \in Int
        /\ o = today * DayLen + Begin[w]
        /\ opens \in [Windows -> Int] /\ closes \in [Windows -> Int]
        /\ Begin[w] \in Nat /\ Length[w] \in Nat
    BY Numbers, Calendar DEF TypeOK
  <1>1. PICK k \in 0..4 : storing = Left(k)
    BY Numbers
  <1>2. k \in 0..3 /\ Stores[k + 1] = <<w, "end">> /\ storing' = Left(k + 1)
    <2>1. storing # <<>> /\ Head(storing) = <<w, "end">> /\ storing' = Tail(storing)
      BY DEF StoreEnd
    <2>2. k # 4
      BY <1>1, <2>1, LeftStep
    <2>3. k \in 0..3
      BY <2>2
    <2>4. Head(Left(k)) = Stores[k + 1] /\ Tail(Left(k)) = Left(k + 1)
      BY <2>3, LeftStep
    <2> QED
      BY <1>1, <2>1, <2>3, <2>4
  <1>3. k = 1 \/ k = 3
    BY <1>2, StoresType
  <1>4. /\ k + 1 \in 0..4
        /\ storing' # <<>> => Head(storing') = <<"grab", "start">>
    BY <1>2, <1>3, LeftStep, StoresType
  <1>5. closes' = [closes EXCEPT ![w] = o + Length[w]] /\ opens[w] = o
    BY <1>1, <1>2, LeftStep DEF StoreEnd, TimesInv
  <1> HIDE DEF o, today
  <1>6. TypeOK'
    <2>1. closes' \in [Windows -> Int]
      BY <1>0, <1>5
    <2>2. \E j \in 0..Len(Stores) : storing' = SubSeq(Stores, j + 1, Len(Stores))
      BY <1>2, <1>4, Numbers
    <2>3. UNCHANGED <<now, zone, startedAt, ctx, opens, refreshAt, resetAt, filter, check>>
      BY DEF StoreEnd
    <2> QED
      BY <2>1, <2>2, <2>3 DEF TypeOK
  <1>7. Written(o + Length[w], w, today)
    BY <1>0 DEF Written
  <1>8. Aligned(o, o + Length[w], w)
    BY <1>0 DEF Aligned
  <1>9. TimesInv'
    <2>1. now' = now /\ zone' = zone /\ opens' = opens /\ check' = check
      BY DEF StoreEnd
    <2>2. \A v \in Windows : Written(closes'[v], v, today)
      BY <1>0, <1>5, <1>7 DEF TimesInv, today
    <2>3. \A v \in Windows : Aligned(opens[v], closes'[v], v)
      BY <1>0, <1>5, <1>8 DEF TimesInv
    <2> QED
      BY <1>4, <2>1, <2>2, <2>3 DEF TimesInv, LocalDate, SpecificTime, UTCDate, today
  <1> QED
    BY <1>6, <1>9

LEMMA TimesBeginCheck ==
    ASSUME TypeOK, TimesInv, NEW kind \in DOMAIN Looks, BeginCheck(kind)
    PROVE  TypeOK' /\ TimesInv'
  <1>1. check' \in Looking /\ check'.pc = "start" /\ check'.at = now
    BY LooksType DEF BeginCheck, Looking, TypeOK
  <1>2. TypeOK'
    BY <1>1, LookingType DEF BeginCheck, TypeOK, atomics, timers
  <1>3. TimesInv'
    BY <1>1, Numbers DEF BeginCheck, TimesInv, CheckOK, atomics, timers, LocalDate, SpecificTime,
                         UTCDate
  <1> QED
    BY <1>2, <1>3

LEMMA TimesLoadStart ==
    ASSUME TypeOK, TimesInv, LoadStart
    PROVE  TypeOK' /\ TimesInv'
  <1>0. check \in Looking /\ Head(check.left) \in Windows /\ check.at \in Nat
    BY CheckNow DEF LoadStart
  <1>1. /\ check' \in Looking /\ check'.at = check.at /\ CheckOK(check', opens)
    <2>1. CASE check.at >= opens[Head(check.left)]
      <3>1. check' = GoesTo(check, "end")
        BY <2>1 DEF LoadStart, GoesTo
      <3> QED
        BY <1>0, <2>1, <3>1, GoesToType DEF CheckOK
    <2>2. CASE ~ (check.at >= opens[Head(check.left)])
      <3>1. check' = NotThisWindow(check)
        BY <2>2 DEF LoadStart
      <3> QED
        BY <1>0, <3>1, NotThisWindowType DEF CheckOK
    <2> QED
      BY <2>1, <2>2
  <1>2. TypeOK'
    BY <1>1, LookingType DEF LoadStart, TypeOK, atomics, timers
  <1>3. TimesInv'
    BY <1>1 DEF LoadStart, TimesInv, atomics, timers, LocalDate, SpecificTime, UTCDate
  <1> QED
    BY <1>2, <1>3

LEMMA TimesLoadEnd ==
    ASSUME TypeOK, TimesInv, LoadEnd
    PROVE  TypeOK' /\ TimesInv'
  <1> DEFINE w == Head(check.left)
  <1>0. check \in Looking /\ w \in Windows /\ check.at \in Nat /\ check.moved \in {"no", "yes"}
    BY CheckNow, LookingType DEF LoadEnd
  <1>1. CASE check.at < closes[w]
    <2>1. check' = GoesTo(check, "passed")
      BY <1>1 DEF LoadEnd, GoesTo
    <2>2. /\ check' \in Looking /\ check'.pc = "passed" /\ check'.at = check.at
          /\ check'.left = check.left /\ check'.moved = check.moved
      BY <1>0, <2>1, GoesToType
    <2>3. check.moved = "no" => InWindow(w, check.at)
      <3> SUFFICES ASSUME check.moved = "no" PROVE InWindow(w, check.at)
        OBVIOUS
      <3>1. check.at >= opens[w] /\ Aligned(opens[w], closes[w], w)
        BY <1>0 DEF TimesInv, CheckOK, LoadEnd
      <3>2. opens[w] \in Int /\ closes[w] \in Int /\ check.at \in Int
        BY <1>0 DEF TypeOK
      <3> HIDE DEF w
      <3>3. PICK d \in Int : /\ opens[w] = d * DayLen + Begin[w]
                             /\ closes[w] = d * DayLen + Begin[w] + Length[w]
        BY <1>0, <1>1, <3>1, <3>2 DEF Aligned
      <3> QED
        BY <1>0, <1>1, <3>1, <3>2, <3>3, InsideWindow
    <2>4. UTCDate(check.at) \in 0..MaxDay
      <3>1. check.at <= now /\ UTCDate(now) <= MaxDay /\ now \in Nat /\ 0 <= check.at
        BY <1>0 DEF TimesInv, TypeOK
      <3>2. 0 \div DayLen = 0
        BY DateUnique, Calendar
      <3>3. /\ UTCDate(check.at) \in Int /\ UTCDate(now) \in Int
            /\ 0 <= UTCDate(check.at) /\ UTCDate(check.at) <= UTCDate(now)
        BY <1>0, <3>1, <3>2, DateOf, DateMonotone DEF UTCDate
      <3> QED
        BY <3>1, <3>3, Calendar
    <2>5. filter' \subseteq (0..MaxDay) \X {"no", "yes"}
      BY <1>0, <1>1, <2>4 DEF LoadEnd, TypeOK
    <2>6. TypeOK'
      BY <2>2, <2>5, LookingType DEF LoadEnd, TypeOK, atomics, timers
    <2>7. CheckOK(check', opens)
      BY <2>2, <2>3 DEF CheckOK
    <2>8. TimesInv'
      BY <2>2, <2>7 DEF LoadEnd, TimesInv, atomics, timers, LocalDate, SpecificTime, UTCDate
    <2> QED
      BY <2>6, <2>8
  <1>2. CASE ~ (check.at < closes[w])
    <2>1. check' = NotThisWindow(check) /\ filter' = filter
      BY <1>2 DEF LoadEnd
    <2>2. check' \in Looking /\ check'.at = check.at /\ CheckOK(check', opens)
      BY <1>0, <2>1, NotThisWindowType DEF CheckOK
    <2>3. TypeOK'
      BY <2>1, <2>2, LookingType DEF LoadEnd, TypeOK, atomics, timers
    <2>4. TimesInv'
      BY <2>2 DEF LoadEnd, TimesInv, atomics, timers, LocalDate, SpecificTime, UTCDate
    <2> QED
      BY <2>3, <2>4
  <1> QED
    BY <1>1, <1>2

LEMMA TimesTick ==
    ASSUME TypeOK, TimesInv, Tick
    PROVE  TypeOK' /\ TimesInv'
  <1>0. now \in Nat /\ zone \in Int /\ now' = now + 1 /\ zone' = zone /\ storing = <<>>
    BY Numbers DEF Tick
  <1>1. check' \in Checks /\ (check'.left = <<>> <=> check'.pc = "idle")
        /\ check'.at <= now' /\ CheckOK(check', opens)
    BY <1>0, LookingType DEF Tick, TypeOK, TimesInv, CheckOK
  <1>2. TypeOK'
    BY SMTT(30), <1>0, <1>1 DEF Tick, TypeOK, atomics, timers
  <1>3. UTCDate(now + 1) <= MaxDay
    <2> DEFINE d == now \div DayLen
               e == (now + 1) \div DayLen
    <2>1. /\ d \in Int /\ e \in Int /\ d < MaxDay
          /\ now < d * DayLen + DayLen /\ e * DayLen <= now + 1
      BY <1>0, DateOf DEF Tick, UTCDate
    <2>2. d * DayLen \in Int /\ e * DayLen \in Int /\ DayLen \in Nat /\ DayLen > 0
      BY <2>1, Calendar
    <2> HIDE DEF d, e
    <2>3. ~ (d + 1 < e)
      <3> SUFFICES ASSUME d + 1 < e PROVE FALSE
        OBVIOUS
      <3>1. (d + 1) * DayLen + DayLen <= e * DayLen
        BY <2>1, DateBefore
      <3>2. (d + 1) * DayLen = d * DayLen + DayLen
        BY <2>1, <2>2
      <3> QED
        BY <1>0, <2>1, <2>2, <3>1, <3>2
    <2> QED
      BY <2>1, <2>3, Calendar DEF UTCDate, e
  <1>4. LocalDate(now) \in Int /\ LocalDate(now)' \in Int /\ LocalDate(now) <= LocalDate(now)'
    <2>1. (now + zone) \div DayLen <= (now + 1 + zone) \div DayLen
      BY <1>0, DateMonotone
    <2>2. (now + zone) \div DayLen \in Int /\ (now + 1 + zone) \div DayLen \in Int
      BY <1>0, DateOf
    <2> QED
      BY <1>0, <2>1, <2>2 DEF LocalDate
  <1>5. \A w \in Windows : Written(closes[w], w, LocalDate(now)')
    BY <1>4 DEF TimesInv, Written
  <1>6. TimesInv'
    BY <1>0, <1>1, <1>3, <1>5 DEF Tick, TimesInv, UTCDate, atomics, timers
  <1> QED
    BY <1>2, <1>6

LEMMA TimesOther ==
    ASSUME TypeOK, TimesInv, ResetBloomFilter \/ Signal \/ UNCHANGED vars
    PROVE  TypeOK' /\ TimesInv'
  <1>1. CASE ResetBloomFilter
    <2>1. resetAt' \in Int
      BY <1>1, Numbers, CalendarAssumption DEF ResetBloomFilter, NextReset
    <2>2. TypeOK'
      BY <1>1, <2>1 DEF ResetBloomFilter, TypeOK, atomics
    <2>3. TimesInv'
      BY <1>1 DEF ResetBloomFilter, TimesInv, atomics, LocalDate, SpecificTime, UTCDate
    <2> QED
      BY <2>2, <2>3
  <1>2. CASE Signal \/ UNCHANGED vars
    <2>1. TypeOK'
      BY <1>2 DEF Signal, vars, TypeOK, atomics, timers
    <2>2. TimesInv'
      BY <1>2 DEF Signal, vars, TimesInv, atomics, timers, LocalDate, SpecificTime, UTCDate
    <2> QED
      BY <2>1, <2>2
  <1> QED
    BY <1>1, <1>2

LEMMA TimesStep == TypeOK /\ TimesInv /\ [Next]_vars => TypeOK' /\ TimesInv'
  BY TimesClockTimerTick, TimesStoreStart, TimesStoreEnd, TimesBeginCheck, TimesLoadStart,
     TimesLoadEnd, TimesTick, TimesOther DEF Next

LEMMA TimesCorrect == Spec => [](TypeOK /\ TimesInv)
  BY TimesInit, TimesStep, PTL DEF Spec

\* The variables keep their types, and a check that runs has a window to look
\* at (TypeOK).
THEOREM TypeCorrect == Spec => []TypeOK
  BY TimesCorrect, PTL
-----------------------------------------------------------------------------
(* The daily reset.                                                        *)

\* A user in the filter was let in within a window of that date, and since
\* the last reset, which a check may have overlapped.
Entry(e) ==
    e[2] = "no" =>
        \E at \in Nat, w \in Windows :
            /\ e[1] = UTCDate(at) /\ InWindow(w, at) /\ at <= now
            /\ resetAt >= startedAt + 2 * DayLen => resetAt - DayLen <= at + Lag

\* The timer fires once a day at the same time, the first time within two days.
ResetInv ==
    /\ \E q \in Int : resetAt = q * DayLen + (ResetAt - zone)
    /\ ctx = "live" => now <= resetAt
    /\ resetAt >= startedAt + 2 * DayLen => resetAt - DayLen <= now
    /\ check.pc # "idle" => now <= check.at + Lag
    /\ \A e \in filter : Entry(e)

\* From some instant of a date the next reset is on the date after.
LEMMA NextResetIs ==
    ASSUME NEW t \in Int, zone \in Int, NEW q \in Int, LocalDate(t) = q
    PROVE  /\ NextReset(t) = q * DayLen + DayLen + (ResetAt - zone)
           /\ NextReset(t) = (q + 1) * DayLen + (ResetAt - zone)
           /\ t <= NextReset(t) /\ NextReset(t) < t + 2 * DayLen
  <1> DEFINE m == q * DayLen
  <1>1. m \in Int /\ DayLen \in Nat /\ DayLen > 0 /\ ResetAt \in 0..(DayLen - 1)
    BY Calendar, CalendarAssumption
  <1>2. (q + 1) * DayLen = m + DayLen
    BY <1>1
  <1>3. m <= t + zone /\ t + zone < m + DayLen
    BY DateOf DEF LocalDate
  <1>4. NextReset(t) = (q + 1) * DayLen + (ResetAt - zone)
    BY DEF NextReset
  <1> HIDE DEF m
  <1>5. NextReset(t) = m + DayLen + (ResetAt - zone)
    BY <1>1, <1>2, <1>4
  <1>6. t <= NextReset(t) /\ NextReset(t) < t + 2 * DayLen
    BY <1>1, <1>3, <1>5
  <1> QED
    BY <1>4, <1>5, <1>6 DEF m

LEMMA ResetInit == Init => ResetInv
  <1> SUFFICES ASSUME Init PROVE ResetInv
    OBVIOUS
  <1>1. TypeOK
    BY TimesInit
  <1>2. now \in Nat /\ zone \in Int /\ LocalDate(now) \in Int /\ DayLen \in Nat
    BY <1>1, Numbers, Calendar
  <1>3. resetAt = NextReset(now) /\ startedAt = now /\ filter = {} /\ check.pc = "idle"
    BY LookingType DEF Init
  <1>4. /\ resetAt = (LocalDate(now) + 1) * DayLen + (ResetAt - zone)
        /\ now <= resetAt /\ resetAt < startedAt + 2 * DayLen
    BY <1>2, <1>3, NextResetIs
  <1>5. resetAt \in Int /\ startedAt \in Int
    BY <1>1 DEF TypeOK
  <1>6. \E q \in Int : resetAt = q * DayLen + (ResetAt - zone)
    BY <1>2, <1>4
  <1>7. ~ (resetAt >= startedAt + 2 * DayLen)
    BY <1>2, <1>4, <1>5
  <1> QED
    BY <1>3, <1>4, <1>6, <1>7 DEF ResetInv

\* A step that leaves the timer, the clock and the filter alone.
LEMMA ResetFrame ==
    ASSUME ResetInv, UNCHANGED <<now, zone, startedAt, resetAt, filter>>,
           ctx' \in {ctx, "done"}, check'.pc # "idle" => now <= check'.at + Lag
    PROVE  ResetInv'
  <1>1. \A e \in filter' : Entry(e)'
    BY DEF ResetInv, Entry
  <1> QED
    BY <1>1 DEF ResetInv

LEMMA ResetLoadEnd ==
    ASSUME TypeOK, TimesInv, ResetInv, LoadEnd
    PROVE  ResetInv'
  <1> DEFINE w == Head(check.left)
             x == <<UTCDate(check.at), check.moved>>
  <1>0. check \in Looking /\ w \in Windows /\ check.at \in Nat /\ check.pc # "idle"
    BY CheckNow DEF LoadEnd
  <1>1. CASE check.at < closes[w]
    <2>1. check' = GoesTo(check, "passed")
      BY <1>1 DEF LoadEnd, GoesTo
    <2>2. /\ check'.pc = "passed" /\ check'.at = check.at
          /\ check'.left = check.left /\ check'.moved = check.moved
      BY <1>0, <2>1, GoesToType
    <2>3. CheckOK(check', opens')
      BY TimesLoadEnd DEF TimesInv
    <2>4. check.moved = "no" => InWindow(w, check.at)
      BY <2>2, <2>3 DEF CheckOK
    <2>5. check.at <= now /\ now <= check.at + Lag
      BY <1>0 DEF TimesInv, ResetInv
    <2>6. now \in Int /\ resetAt \in Int /\ DayLen \in Int /\ Lag \in Nat
      BY CalendarAssumption DEF TypeOK
    <2>7. resetAt >= startedAt + 2 * DayLen => resetAt - DayLen <= check.at + Lag
      BY <1>0, <2>5, <2>6 DEF ResetInv
    <2>8. x[1] = UTCDate(check.at) /\ x[2] = check.moved
      OBVIOUS
    <2>9. Entry(x)
      BY <1>0, <2>4, <2>5, <2>7, <2>8 DEF Entry
    <2>10. filter' \subseteq filter \cup {x} /\ UNCHANGED <<now, zone, startedAt, resetAt, ctx>>
      BY <1>1 DEF LoadEnd, timers, atomics
    <2> HIDE DEF x
    <2>11. \A e \in filter' : Entry(e)
      BY <2>9, <2>10 DEF ResetInv
    <2>12. \A e \in filter' : Entry(e)'
      BY <2>10, <2>11 DEF Entry
    <2> QED
      BY <2>2, <2>5, <2>10, <2>12 DEF ResetInv
  <1>2. CASE ~ (check.at < closes[w])
    <2>1. check' = NotThisWindow(check) /\ filter' = filter
      BY <1>2 DEF LoadEnd
    <2>2. check'.at = check.at
      BY <1>0, <2>1, NotThisWindowType
    <2> QED
      BY <1>0, <2>1, <2>2, ResetFrame DEF LoadEnd, timers, ResetInv
  <1> QED
    BY <1>1, <1>2

LEMMA ResetReset ==
    ASSUME TypeOK, ResetInv, ResetBloomFilter
    PROVE  ResetInv'
  <1>1. PICK q \in Int : resetAt = q * DayLen + (ResetAt - zone)
    BY DEF ResetInv
  <1>2. now = resetAt
    BY DEF ResetInv, ResetBloomFilter, TypeOK
  <1>3. zone \in Int /\ now \in Int /\ DayLen \in Nat /\ ResetAt \in 0..(DayLen - 1)
    BY Calendar, CalendarAssumption DEF TypeOK
  <1>4. LocalDate(now) = q
    <2>1. q * DayLen \in Int
      BY <1>3
    <2>2. q * DayLen <= now + zone /\ now + zone < q * DayLen + DayLen
      BY <1>1, <1>2, <1>3, <2>1
    <2> QED
      BY <1>3, <2>2, DateUnique DEF LocalDate
  <1>5. resetAt' = NextReset(now)
    BY DEF ResetBloomFilter
  <1>6. /\ resetAt' = (q + 1) * DayLen + (ResetAt - zone) /\ now <= resetAt'
        /\ resetAt' = q * DayLen + DayLen + (ResetAt - zone)
    BY <1>3, <1>4, <1>5, NextResetIs
  <1>7. resetAt' - DayLen <= now
    BY <1>1, <1>2, <1>3, <1>6
  <1>8. q + 1 \in Int /\ filter' = {} /\ UNCHANGED <<now, zone, startedAt, ctx, check>>
    BY DEF ResetBloomFilter
  <1> QED
    BY <1>6, <1>7, <1>8 DEF ResetInv

LEMMA ResetTick ==
    ASSUME TypeOK, ResetInv, Tick
    PROVE  ResetInv'
  <1>1. /\ now' = now + 1 /\ now \in Nat /\ resetAt \in Int /\ DayLen \in Nat /\ Lag \in Nat
        /\ startedAt \in Nat /\ UNCHANGED <<zone, startedAt, ctx, resetAt, filter>>
    BY Calendar, CalendarAssumption DEF Tick, TypeOK, timers
  <1>2. \A e \in filter : Entry(e)'
    <2> SUFFICES ASSUME NEW e \in filter, e[2] = "no" PROVE Entry(e)'
      BY DEF Entry
    <2>1. Entry(e)
      BY DEF ResetInv
    <2>2. PICK at \in Nat : \E w \in Windows :
            /\ e[1] = UTCDate(at) /\ InWindow(w, at) /\ at <= now
            /\ resetAt >= startedAt + 2 * DayLen => resetAt - DayLen <= at + Lag
      BY <2>1 DEF Entry
    <2>3. at <= now'
      BY <1>1, <2>2
    <2> QED
      BY <1>1, <2>2, <2>3 DEF Entry
  <1>3. ctx = "live" => now' <= resetAt
    BY <1>1 DEF Tick
  <1>4. check'.pc # "idle" => now' <= check'.at + Lag
    <2>1. CASE check.pc \in {"start", "end"}
      <3>1. check' = check /\ now < check.at + Lag /\ check.at \in Nat
        BY <2>1, CheckNow DEF Tick
      <3> QED
        BY <1>1, <3>1
    <2>2. CASE check.pc \notin {"start", "end"}
      BY <2>2, LookingType DEF Tick
    <2> QED
      BY <2>1, <2>2
  <1> QED
    BY <1>1, <1>2, <1>3, <1>4 DEF ResetInv

LEMMA ResetStep == TypeOK /\ TimesInv /\ ResetInv /\ [Next]_vars => ResetInv'
  <1> SUFFICES ASSUME TypeOK, TimesInv, ResetInv, [Next]_vars PROVE ResetInv'
    OBVIOUS
  <1>1. CASE ClockTimerTick \/ Signal \/ UNCHANGED vars \/ \E w \in Windows : StoreEnd(w)
    BY <1>1, ResetFrame DEF ClockTimerTick, Signal, vars, StoreEnd, ResetInv, timers, atomics
  <1>2. ASSUME NEW w \in Windows, StoreStart(w) PROVE ResetInv'
    <2>1. check' = check \/ (check' = MovedCheck(check) /\ check.pc # "idle")
      BY <1>2 DEF StoreStart, MovedCheck, MovedUnder
    <2>2. check'.pc # "idle" => now <= check'.at + Lag
      BY <2>1, CheckNow, MovedCheckType DEF ResetInv
    <2> QED
      BY <1>2, <2>2, ResetFrame DEF StoreStart
  <1>3. ASSUME NEW kind \in DOMAIN Looks, BeginCheck(kind) PROVE ResetInv'
    <2>1. check'.at = now
      BY <1>3 DEF BeginCheck
    <2>2. now \in Nat /\ Lag \in Nat
      BY CalendarAssumption DEF TypeOK
    <2> QED
      BY <1>3, <2>1, <2>2, ResetFrame DEF BeginCheck, timers
  <1>4. CASE LoadStart
    <2>1. check \in Looking /\ check.pc # "idle"
      BY <1>4, CheckNow DEF LoadStart
    <2>2. check' = GoesTo(check, "end") \/ check' = NotThisWindow(check)
      BY <1>4 DEF LoadStart, GoesTo
    <2>3. check'.at = check.at
      BY <2>1, <2>2, GoesToType, NotThisWindowType
    <2> QED
      BY <1>4, <2>1, <2>3, ResetFrame DEF LoadStart, timers, ResetInv
  <1> QED
    BY <1>1, <1>2, <1>3, <1>4, ResetLoadEnd, ResetReset, ResetTick DEF Next

LEMMA ResetCorrect == Spec => []ResetInv
  BY TimesCorrect, ResetInit, ResetStep, PTL DEF Spec
\* Every instant is at a time of day.
LEMMA AtTimeOfDay ==
    ASSUME NEW x \in Int
    PROVE  \E d \in Int : /\ x = d * DayLen + (x % DayLen) /\ d = x \div DayLen
                          /\ x % DayLen \in 0..(DayLen - 1) /\ d * DayLen \in Int
  <1>1. DayLen \in Nat /\ DayLen > 0
    BY Calendar
  <1> QED
    BY <1>1

\* If the timer does not fire after a window has begun, it fires once between
\* that window and any of an earlier date.
LEMMA ResetBetweenDates ==
    ASSUME TypeOK,
           NEW v \in Windows, ~ ResetAfter(v), NEW w \in Windows, NEW at \in Nat, at <= now,
           InWindow(w, at), InWindow(v, now), now <= resetAt,
           resetAt - DayLen <= at + Lag,
           NEW q \in Int, resetAt = q * DayLen + (ResetAt - zone)
    PROVE  UTCDate(at) = UTCDate(now)
  <1> DEFINE r == (ResetAt - zone) % DayLen
             a == at % DayLen
             n == now % DayLen
  <1>0. /\ DayLen \in Nat /\ DayLen > 0 /\ ResetAt - zone \in Int /\ now \in Nat
        /\ Lag \in Nat /\ Begin[v] \in Nat /\ Begin[w] \in Nat /\ Length[w] \in Nat
        /\ Begin[w] + Length[w] + Lag <= DayLen
    BY Calendar, CalendarAssumption, MidnightAssumption DEF TypeOK
  <1>1. PICK k \in Int : /\ ResetAt - zone = k * DayLen + r /\ k * DayLen \in Int
                         /\ r \in 0..(DayLen - 1)
    BY <1>0, AtTimeOfDay
  <1>2. PICK d \in Int : /\ at = d * DayLen + a /\ d * DayLen \in Int
                         /\ d = UTCDate(at) /\ a \in 0..(DayLen - 1)
    BY <1>0, AtTimeOfDay DEF UTCDate
  <1>3. PICK e \in Int : /\ now = e * DayLen + n /\ e * DayLen \in Int
                         /\ e = UTCDate(now) /\ n \in 0..(DayLen - 1)
    BY <1>0, AtTimeOfDay DEF UTCDate
  <1> DEFINE p == q + k
             P == p * DayLen
             A == d * DayLen
             E == e * DayLen
  <1>4. p \in Int /\ P \in Int /\ resetAt = P + r
    <2>1. q * DayLen \in Int /\ (q + k) * DayLen = q * DayLen + k * DayLen
      BY <1>0
    <2> QED
      BY <1>0, <1>1, <2>1
  <1>5. a \in Begin[w]..(Begin[w] + Length[w] - 1) /\ n >= Begin[v]
    BY <1>0 DEF InWindow
  <1>6. r < Begin[v] \/ r > Begin[w] + Length[w] - 1 + Lag
    <2>1. ~ (r \in Begin[v]..(Begin[w] + Length[w] - 1 + Lag))
      BY DEF ResetAfter
    <2> HIDE DEF r
    <2> QED
      BY <1>0, <1>1, <2>1
  <1>7. d <= e
    BY <1>0, <1>2, <1>3, DateMonotone DEF UTCDate
  <1>8. p < d => P + DayLen <= A
    BY <1>4, DateBefore
  <1>9. p < e => P + DayLen <= E
    BY <1>4, DateBefore
  <1>10. d < p => A + DayLen <= P
    BY <1>4, DateBefore
  <1>11. d < e => A + DayLen <= E
    BY DateBefore
  <1>12. e < p => E + DayLen <= P
    BY <1>4, DateBefore
  <1> HIDE DEF r, a, n, p, P
  <1>13. SUFFICES ASSUME d < e PROVE FALSE
    <2>1. d = UTCDate(at) /\ e = UTCDate(now) /\ d \in Int /\ e \in Int
      BY <1>2, <1>3
    <2>2. d = e => UTCDate(at) = UTCDate(now)
      BY Zenon, <2>1
    <2> QED
      BY <1>7, <2>2
  <1>14. /\ A \in Int /\ E \in Int /\ at = A + a /\ now = E + n /\ A + DayLen <= E
    BY <1>2, <1>3, <1>11, <1>13
  <1> HIDE DEF A, E
  <1>15. CASE r < Begin[v]
    <2>1. E < P
      BY <1>0, <1>1, <1>3, <1>4, <1>5, <1>14, <1>15
    <2>2. e < p
      <3>1. e # p
        <4>1. e = p => E = P
          BY DEF E, P
        <4> QED
          BY <1>4, <1>14, <2>1, <4>1
      <3>2. ~ (p < e)
        BY <1>0, <1>4, <1>9, <1>14, <2>1
      <3> QED
        BY <1>4, <3>1, <3>2
    <2>3. E + DayLen <= P
      BY <2>2, <1>12
    <2> QED
      BY <1>0, <1>1, <1>4, <1>5, <1>14, <2>3
  <1>16. CASE r > Begin[w] + Length[w] - 1 + Lag
    <2>1. P - DayLen < A
      BY <1>0, <1>1, <1>2, <1>4, <1>5, <1>14, <1>16
    <2>2. ~ (d < p)
      BY <1>0, <1>4, <1>10, <1>14, <2>1
    <2>3. p < e
      BY <1>4, <1>13, <2>2
    <2> QED
      BY <1>0, <1>1, <1>3, <1>4, <1>9, <1>14, <2>3
  <1> QED
    BY <1>6, <1>15, <1>16

\* Whenever it fires, it fires between any two windows two dates apart.
LEMMA ResetWithinTwoDates ==
    ASSUME TypeOK, NEW w \in Windows, NEW at \in Nat, at <= now, InWindow(w, at),
           now <= resetAt, resetAt - DayLen <= at + Lag
    PROVE  UTCDate(at) = UTCDate(now) \/ UTCDate(at) = UTCDate(now) - 1
  <1> DEFINE a == at % DayLen
             n == now % DayLen
  <1>0. /\ DayLen \in Nat /\ DayLen > 0 /\ now \in Nat /\ resetAt \in Int
        /\ Lag \in Nat /\ Begin[w] \in Nat /\ Length[w] \in Nat
        /\ Begin[w] + Length[w] + Lag <= DayLen
    BY Calendar, CalendarAssumption, MidnightAssumption DEF TypeOK
  <1>1. PICK d \in Int : /\ at = d * DayLen + a /\ d * DayLen \in Int
                         /\ d = UTCDate(at) /\ a \in 0..(DayLen - 1)
    BY <1>0, AtTimeOfDay DEF UTCDate
  <1>2. PICK e \in Int : /\ now = e * DayLen + n /\ e * DayLen \in Int
                         /\ e = UTCDate(now) /\ n \in 0..(DayLen - 1)
    BY <1>0, AtTimeOfDay DEF UTCDate
  <1> DEFINE A == d * DayLen
             E == e * DayLen
  <1>3. a <= Begin[w] + Length[w] - 1
    BY <1>0 DEF InWindow
  <1>4. d <= e
    BY <1>0, <1>1, <1>2, DateMonotone DEF UTCDate
  <1>5. d + 1 < e => A + DayLen + DayLen <= E
    <2> SUFFICES ASSUME d + 1 < e PROVE A + DayLen + DayLen <= E
      OBVIOUS
    <2>1. (d + 1) * DayLen + DayLen <= E
      BY DateBefore
    <2>2. (d + 1) * DayLen = A + DayLen
      BY <1>0
    <2> QED
      BY <2>1, <2>2
  <1>6. A \in Int /\ E \in Int /\ at = A + a /\ now = E + n
    BY <1>1, <1>2
  <1> HIDE DEF a, n, A, E
  <1>7. ~ (d + 1 < e)
    BY <1>0, <1>1, <1>2, <1>3, <1>5, <1>6
  <1>8. d = e \/ d = e - 1
    BY <1>4, <1>7
  <1> QED
    BY <1>1, <1>2, <1>8

\* From the second day on after a start, the filter holds in a window users of
\* that day only, and where the timer fires after the window has begun of the
\* day before too (resetBloomFilterDaily; FilterOfTodayOnceSettled).
THEOREM FilterSettles == Spec => []FilterOfTodayOnceSettled
  <1>1. TypeOK /\ ResetInv => FilterOfTodayOnceSettled
    <2> SUFFICES ASSUME TypeOK, ResetInv, now >= startedAt + 2 * DayLen, ctx = "live",
                        NEW v \in Windows, InWindow(v, now), NEW e \in filter, e[2] = "no"
                 PROVE  \/ e[1] = UTCDate(now)
                        \/ ResetAfter(v) /\ e[1] = UTCDate(now) - 1
      BY DEF FilterOfTodayOnceSettled
    <2>1. now <= resetAt /\ Entry(e)
      BY DEF ResetInv
    <2>2. resetAt >= startedAt + 2 * DayLen
      BY <2>1, Calendar DEF TypeOK
    <2>3. PICK q \in Int : resetAt = q * DayLen + (ResetAt - zone)
      BY DEF ResetInv
    <2>4. PICK at \in Nat : \E w \in Windows :
            /\ e[1] = UTCDate(at) /\ InWindow(w, at) /\ at <= now
            /\ resetAt >= startedAt + 2 * DayLen => resetAt - DayLen <= at + Lag
      BY <2>1 DEF Entry
    <2>5. CASE ~ ResetAfter(v)
      BY <2>1, <2>2, <2>3, <2>4, <2>5, ResetBetweenDates
    <2>6. CASE ResetAfter(v)
      BY <2>1, <2>2, <2>4, <2>6, ResetWithinTwoDates
    <2> QED
      BY <2>5, <2>6
  <1> QED
    BY <1>1, TimesCorrect, ResetCorrect, PTL
-----------------------------------------------------------------------------
(* The ticks of couponClockTimer.                                          *)

\* The atomics in the order they are stored, and what the tick at t stores.
Atomic(i) == <<opens["reserve"], closes["reserve"], opens["grab"], closes["grab"]>>[i]
Value(i, t) ==
    <<SpecificTime("reserve", t), SpecificTime("reserve", t) + Length["reserve"],
      SpecificTime("grab", t), SpecificTime("grab", t) + Length["grab"]>>[i]

\* The last tick, if there was one.
LastTick == refreshAt - Refresh

\* An atomic is of the last tick, or before its store of the one before.
Current(i) ==
    LET t == IF i + Len(storing) <= 4 THEN LastTick ELSE LastTick - Refresh
    IN t > startedAt => Atomic(i) = Value(i, t)

\* The last tick is no longer ago than a refresh.
ClockInv ==
    /\ LastTick <= now
    /\ ctx = "live" => now <= refreshAt
    /\ storing # <<>> => now = LastTick
    /\ refreshAt >= startedAt + Refresh
    /\ \A i \in 1..4 : Current(i)

LEMMA LeftLen ==
    ASSUME NEW k \in 0..4
    PROVE  Len(Left(k)) = 4 - k /\ (Left(k) = <<>> <=> k = 4)
  <1>1. Len(Left(k)) = 4 - k
    BY StoresType DEF Left
  <1> QED
    BY <1>1, LeftStep

LEMMA Atomics ==
    /\ Atomic(1) = opens["reserve"] /\ Atomic(2) = closes["reserve"]
    /\ Atomic(3) = opens["grab"] /\ Atomic(4) = closes["grab"]
    /\ \A t : /\ Value(1, t) = SpecificTime("reserve", t)
              /\ Value(2, t) = SpecificTime("reserve", t) + Length["reserve"]
              /\ Value(3, t) = SpecificTime("grab", t)
              /\ Value(4, t) = SpecificTime("grab", t) + Length["grab"]
  BY DEF Atomic, Value

LEMMA ClockInit == Init => ClockInv
  <1> SUFFICES ASSUME Init PROVE ClockInv
    OBVIOUS
  <1>1. /\ now \in Nat /\ startedAt = now /\ refreshAt = now + Refresh /\ Refresh \in Nat
        /\ storing = <<>> /\ Len(storing) = 0
    BY Calendar DEF Init
  <1>2. LastTick = now
    BY <1>1 DEF LastTick
  <1> QED
    BY <1>1, <1>2 DEF ClockInv, Current

\* A step that leaves the clock, the timer and the atomics alone.
LEMMA ClockFrame ==
    ASSUME ClockInv, UNCHANGED <<now, zone, startedAt, refreshAt, storing, opens, closes>>,
           ctx' \in {ctx, "done"}
    PROVE  ClockInv'
  BY DEF ClockInv, Current, LastTick, Atomic, Value, SpecificTime, LocalDate

LEMMA ClockTick ==
    ASSUME TypeOK, ClockInv, Tick
    PROVE  ClockInv'
  <1>1. /\ now' = now + 1 /\ now \in Nat /\ storing = <<>> /\ (ctx = "live" => now < refreshAt)
        /\ UNCHANGED <<zone, startedAt, refreshAt, storing, opens, closes, ctx>>
    BY DEF Tick, TypeOK, timers, atomics
  <1>2. refreshAt \in Nat /\ Refresh \in Nat
    BY Calendar DEF TypeOK
  <1>3. \A i \in 1..4 : Current(i)'
    BY <1>1 DEF ClockInv, Current, LastTick, Atomic, Value, SpecificTime, LocalDate
  <1> QED
    BY <1>1, <1>2, <1>3 DEF ClockInv, LastTick

LEMMA ClockTimer ==
    ASSUME TypeOK, ClockInv, ClockTimerTick
    PROVE  ClockInv'
  <1>1. /\ now = refreshAt /\ storing = <<>> /\ storing' = Left(0)
        /\ refreshAt' = refreshAt + Refresh
        /\ UNCHANGED <<now, zone, startedAt, opens, closes, ctx>>
    BY LeftStep DEF ClockTimerTick, atomics
  <1>2. refreshAt \in Nat /\ Refresh \in Nat /\ startedAt \in Nat
    BY Calendar DEF TypeOK
  <1>3. Len(storing') = 4 /\ Len(storing) = 0
    BY <1>1, LeftLen
  <1>4. LastTick' = now /\ LastTick' - Refresh = LastTick
    BY <1>1, <1>2 DEF LastTick
  <1>5. \A i \in 1..4 : Current(i)'
    <2> SUFFICES ASSUME NEW i \in 1..4 PROVE Current(i)'
      OBVIOUS
    <2>1. Atomic(i)' = Atomic(i) /\ \A t : Value(i, t)' = Value(i, t)
      BY <1>1 DEF Atomic, Value, SpecificTime, LocalDate
    <2>2. ~ (i + Len(storing') <= 4) /\ i + Len(storing) <= 4
      BY <1>3
    <2>3. Current(i)
      BY DEF ClockInv
    <2> QED
      BY <1>1, <1>4, <2>1, <2>2, <2>3 DEF Current
  <1> QED
    BY <1>1, <1>2, <1>4, <1>5 DEF ClockInv

\* One more atomic is of the last tick.
LEMMA ClockStore ==
    ASSUME TypeOK, ClockInv, NEW k \in 0..3, storing = Left(k), storing' = Left(k + 1),
           UNCHANGED <<now, zone, startedAt, refreshAt, ctx>>,
           Atomic(k + 1)' = Value(k + 1, now),
           \A i \in 1..4 : i # k + 1 => Atomic(i)' = Atomic(i)
    PROVE  ClockInv'
  <1>1. /\ Len(storing) = 4 - k /\ Len(storing') = 4 - (k + 1) /\ storing # <<>>
    <2>1. k \in 0..4 /\ k + 1 \in 0..4 /\ k # 4
      OBVIOUS
    <2> QED
      BY <2>1, LeftLen
  <1>2. now = LastTick /\ LastTick' = LastTick
    BY <1>1 DEF ClockInv, LastTick
  <1>3. \A i \in 1..4 : Current(i)'
    <2> SUFFICES ASSUME NEW i \in 1..4 PROVE Current(i)'
      OBVIOUS
    <2>1. \A t : Value(i, t)' = Value(i, t)
      BY DEF Value, SpecificTime, LocalDate
    <2>2. CASE i = k + 1
      <3>1. i + Len(storing') <= 4
        BY <1>1, <2>2
      <3>2. Atomic(i)' = Value(i, LastTick)
        BY <1>2, <2>2
      <3> QED
        BY <1>2, <2>1, <3>1, <3>2 DEF Current
    <2>3. CASE i # k + 1
      <3>1. i + Len(storing') <= 4 <=> i + Len(storing) <= 4
        BY <1>1, <2>3
      <3>2. Current(i) /\ Atomic(i)' = Atomic(i)
        BY <2>3 DEF ClockInv
      <3> QED
        BY <1>2, <2>1, <3>1, <3>2 DEF Current
    <2> QED
      BY <2>2, <2>3
  <1> QED
    BY <1>1, <1>2, <1>3 DEF ClockInv

LEMMA ClockStores ==
    ASSUME TypeOK, ClockInv, NEW w \in Windows, StoreStart(w) \/ StoreEnd(w)
    PROVE  ClockInv'
  <1>1. PICK k \in 0..4 : storing = Left(k)
    BY Numbers
  <1>2. storing # <<>> /\ storing' = Tail(storing)
    BY DEF StoreStart, StoreEnd
  <1>3. k \in 0..3
    <2>1. k # 4
      BY <1>1, <1>2, LeftStep
    <2> QED
      BY <2>1
  <1>4. Head(storing) = Stores[k + 1] /\ storing' = Left(k + 1)
    BY <1>1, <1>2, <1>3, LeftStep
  <1>5. UNCHANGED <<now, zone, startedAt, refreshAt, ctx>>
    BY DEF StoreStart, StoreEnd
  <1>6. opens \in [Windows -> Int] /\ closes \in [Windows -> Int] /\ {"reserve", "grab"} = Windows
    BY DEF TypeOK, Windows
  <1>7. /\ Atomic(1)' = opens'["reserve"] /\ Atomic(2)' = closes'["reserve"]
        /\ Atomic(3)' = opens'["grab"] /\ Atomic(4)' = closes'["grab"]
    BY DEF Atomic
  <1>8. CASE StoreStart(w)
    <2>1. /\ Head(storing) = <<w, "start">> /\ closes' = closes
          /\ opens' = [opens EXCEPT ![w] = SpecificTime(w, now)]
      BY <1>8 DEF StoreStart
    <2>2. (k = 0 /\ w = "reserve") \/ (k = 2 /\ w = "grab")
      BY <1>3, <1>4, <2>1, StoresType
    <2>3. Atomic(k + 1)' = Value(k + 1, now)
      BY <1>6, <1>7, <2>1, <2>2, Atomics
    <2>4. \A i \in 1..4 : i # k + 1 => Atomic(i)' = Atomic(i)
      BY <1>6, <1>7, <2>1, <2>2, Atomics
    <2> QED
      BY <1>1, <1>3, <1>4, <1>5, <2>3, <2>4, ClockStore
  <1>9. CASE StoreEnd(w)
    <2>1. /\ Head(storing) = <<w, "end">> /\ opens' = opens
          /\ closes' = [closes EXCEPT ![w] = SpecificTime(w, now) + Length[w]]
      BY <1>9 DEF StoreEnd
    <2>2. (k = 1 /\ w = "reserve") \/ (k = 3 /\ w = "grab")
      BY <1>3, <1>4, <2>1, StoresType
    <2>3. Atomic(k + 1)' = Value(k + 1, now)
      BY <1>6, <1>7, <2>1, <2>2, Atomics
    <2>4. \A i \in 1..4 : i # k + 1 => Atomic(i)' = Atomic(i)
      BY <1>6, <1>7, <2>1, <2>2, Atomics
    <2> QED
      BY <1>1, <1>3, <1>4, <1>5, <2>3, <2>4, ClockStore
  <1> QED
    BY <1>8, <1>9

LEMMA ClockStep == TypeOK /\ ClockInv /\ [Next]_vars => ClockInv'
  <1> SUFFICES ASSUME TypeOK, ClockInv, [Next]_vars PROVE ClockInv'
    OBVIOUS
  <1>1. CASE ResetBloomFilter \/ Signal \/ LoadStart \/ LoadEnd \/ UNCHANGED vars
    BY <1>1, ClockFrame DEF ResetBloomFilter, Signal, LoadStart, LoadEnd, vars, timers, atomics
  <1>2. ASSUME NEW kind \in DOMAIN Looks, BeginCheck(kind) PROVE ClockInv'
    BY <1>2, ClockFrame DEF BeginCheck, timers, atomics
  <1> QED
    BY <1>1, <1>2, ClockTick, ClockTimer, ClockStores DEF Next

LEMMA ClockCorrect == Spec => []ClockInv
  BY TimesCorrect, ClockInit, ClockStep, PTL DEF Spec

-----------------------------------------------------------------------------
(* Checks under which a window moved.                                      *)

\* The start of a window moves at the first tick, and where the local date does.
MovedInv ==
    check.moved = "yes" =>
        check.at <= startedAt + Refresh \/ LocalDate(check.at - Refresh) # LocalDate(now)

\* The local date does not go back while a check runs.
LEMMA LocalMonotone ==
    ASSUME zone \in Int, NEW x \in Int, NEW y \in Int, x <= y
    PROVE  LocalDate(x) \in Int /\ LocalDate(y) \in Int /\ LocalDate(x) <= LocalDate(y)
  BY DateOf, DateMonotone DEF LocalDate

\* A step under which no window moves.
LEMMA MovedFrame ==
    ASSUME TypeOK, TimesInv, MovedInv, UNCHANGED <<zone, startedAt>>, now' \in {now, now + 1},
           check'.moved = "yes" => check.moved = "yes" /\ check'.at = check.at
    PROVE  MovedInv'
  <1> SUFFICES ASSUME check'.moved = "yes", check.at > startedAt + Refresh
               PROVE  LocalDate(check.at - Refresh) # LocalDate(now')
    BY Calendar DEF MovedInv, LocalDate, TypeOK, Checks
  <1>1. /\ check.at \in Nat /\ now \in Nat /\ zone \in Int /\ Refresh \in Nat /\ startedAt \in Nat
        /\ check.at - Refresh <= now /\ now <= now' /\ now' \in Nat
    BY Calendar DEF TypeOK, TimesInv, Checks
  <1>2. LocalDate(check.at - Refresh) # LocalDate(now)
    BY <1>1 DEF MovedInv
  <1>3. /\ LocalDate(check.at - Refresh) \in Int /\ LocalDate(now) \in Int
        /\ LocalDate(now') \in Int /\ LocalDate(check.at - Refresh) <= LocalDate(now)
        /\ LocalDate(now) <= LocalDate(now')
    BY <1>1, LocalMonotone
  <1> QED
    BY <1>2, <1>3

\* The start that a tick changes is of the tick before, on another local date.
LEMMA MovedStore ==
    ASSUME TypeOK, TimesInv, ClockInv, MovedInv, NEW w \in Windows, StoreStart(w)
    PROVE  MovedInv'
  <1>0. UNCHANGED <<now, zone, startedAt>>
    BY DEF StoreStart
  <1>1. CASE check' = check
    BY <1>0, <1>1, MovedFrame
  <1>2. CASE check' # check
    <2>1. opens' # opens /\ check' = MovedCheck(check) /\ check.pc # "idle"
      BY <1>2 DEF StoreStart, MovedCheck, MovedUnder
    <2>2. check'.at = check.at /\ check.at \in Nat /\ check.at <= now
      BY <2>1, CheckNow, MovedCheckType DEF TimesInv
    <2>3. /\ now \in Nat /\ zone \in Int /\ startedAt \in Nat /\ Refresh \in Nat
          /\ refreshAt \in Nat /\ opens \in [Windows -> Int]
      BY Calendar DEF TypeOK
    <2>4. storing # <<>> /\ Head(storing) = <<w, "start">>
          /\ opens' = [opens EXCEPT ![w] = SpecificTime(w, now)]
      BY DEF StoreStart
    <2>5. opens[w] # SpecificTime(w, now)
      BY <2>1, <2>3, <2>4
    <2>6. now = LastTick
      BY <2>4 DEF ClockInv
    <2>7. CASE ~ (LastTick - Refresh > startedAt)
      BY <1>0, <2>2, <2>3, <2>6, <2>7 DEF MovedInv
    <2>8. CASE LastTick - Refresh > startedAt
      <3>1. opens[w] = SpecificTime(w, now - Refresh)
        <4>1. PICK k \in 0..4 : storing = Left(k)
          BY Numbers
        <4>2. k \in 0..3 /\ Stores[k + 1] = <<w, "start">> /\ Len(storing) = 4 - k
          BY <2>4, <4>1, LeftStep, LeftLen
        <4>3. (k = 0 /\ w = "reserve") \/ (k = 2 /\ w = "grab")
          BY <4>2, StoresType
        <4>4. k + 1 \in 1..4 /\ ~ (k + 1 + Len(storing) <= 4)
          BY <4>2
        <4>5. Atomic(k + 1) = Value(k + 1, now - Refresh)
          BY <2>6, <2>8, <4>4 DEF ClockInv, Current
        <4> QED
          BY <4>3, <4>5, Atomics
      <3>2. LocalDate(now - Refresh) # LocalDate(now)
        BY <2>5, <3>1 DEF SpecificTime
      <3>3. /\ LocalDate(now - Refresh) \in Int /\ LocalDate(now) \in Int
            /\ LocalDate(check.at - Refresh) \in Int
            /\ LocalDate(check.at - Refresh) <= LocalDate(now - Refresh)
            /\ LocalDate(now - Refresh) <= LocalDate(now)
        BY <2>2, <2>3, LocalMonotone
      <3>4. LocalDate(check.at - Refresh) # LocalDate(now)
        BY <3>2, <3>3
      <3> QED
        BY <1>0, <2>2, <3>4 DEF MovedInv, LocalDate
    <2> QED
      BY <2>7, <2>8
  <1> QED
    BY <1>1, <1>2

LEMMA MovedStep == TypeOK /\ TimesInv /\ ClockInv /\ MovedInv /\ [Next]_vars => MovedInv'
  <1> SUFFICES ASSUME TypeOK, TimesInv, ClockInv, MovedInv, [Next]_vars PROVE MovedInv'
    OBVIOUS
  <1>1. CASE ClockTimerTick \/ ResetBloomFilter \/ Signal \/ UNCHANGED vars
             \/ \E w \in Windows : StoreEnd(w)
    BY <1>1, MovedFrame DEF ClockTimerTick, ResetBloomFilter, Signal, vars, StoreEnd
  <1>2. ASSUME NEW kind \in DOMAIN Looks, BeginCheck(kind) PROVE MovedInv'
    BY <1>2 DEF BeginCheck, MovedInv
  <1>3. CASE LoadStart \/ LoadEnd
    <2>1. check \in Looking
      BY <1>3, CheckNow DEF LoadStart, LoadEnd
    <2>2. /\ UNCHANGED <<now, zone, startedAt>>
          /\ \/ check' = GoesTo(check, "end") \/ check' = GoesTo(check, "passed")
             \/ check' = NotThisWindow(check)
      BY <1>3 DEF LoadStart, LoadEnd, GoesTo
    <2>3. check'.moved = "yes" => check.moved = "yes" /\ check'.at = check.at
      BY <2>1, <2>2, GoesToType, NotThisWindowType
    <2> QED
      BY <2>2, <2>3, MovedFrame
  <1>4. CASE Tick
    <2>1. check' = check \/ (check'.moved = "no")
      BY <1>4 DEF Tick, NoCheck
    <2> QED
      BY <1>4, <2>1, MovedFrame DEF Tick
  <1> QED
    BY <1>1, <1>2, <1>3, <1>4, MovedStore DEF Next

\* Whatever the day, the zone, the windows and the moment the atomics are read,
\* a request or a loop passes only in the window it was compared with, or where
\* the first tick or a new local date moved the window between its two reads
\* (specialTimeMiddleware, isWithinGrabWindow; PassedInWindow).
THEOREM PassedOnlyInWindow == Spec => []PassedInWindow
  <1>1. Init => MovedInv
    BY DEF Init, MovedInv, NoCheck
  <1>2. TypeOK /\ TimesInv /\ MovedInv => PassedInWindow
    <2> SUFFICES ASSUME TypeOK, TimesInv, MovedInv, check.pc = "passed", check.moved # "yes"
                 PROVE  InWindow(Head(check.left), check.at)
      BY DEF PassedInWindow, MovedInv
    <2>1. check.moved = "no"
      BY CheckNow, LookingType
    <2> QED
      BY <2>1 DEF TimesInv, CheckOK
  <1> QED
    BY <1>1, <1>2, TimesCorrect, ClockCorrect, MovedStep, PTL DEF Spec

-----------------------------------------------------------------------------
(* Windows that are due.                                                   *)

\* A check long enough after the start, at a time when the local date is that
\* of UTC and was so at the ticks it depends on.
Ordinary(c) ==
    /\ ctx = "live" /\ c.at > startedAt + Refresh
    /\ \A t \in (c.at - Refresh)..now : LocalDate(t) = UTCDate(t)

\* An atomic such a check may read is of a tick of these.
LEMMA AtomicOfTick ==
    ASSUME TypeOK, ClockInv, ctx = "live", NEW at \in Nat, at <= now,
           at > startedAt + Refresh, NEW i \in 1..4
    PROVE  \E t \in (at - Refresh)..now : Atomic(i) = Value(i, t)
  <1>1. /\ now \in Nat /\ refreshAt \in Nat /\ startedAt \in Nat /\ Refresh \in Nat
        /\ now <= refreshAt /\ LastTick <= now /\ LastTick = refreshAt - Refresh /\ LastTick \in Int
    BY Calendar DEF TypeOK, ClockInv, LastTick
  <1>2. PICK k \in 0..4 : storing = Left(k)
    BY Numbers
  <1>3. Len(storing) = 4 - k /\ (storing = <<>> <=> k = 4) /\ Current(i)
    BY <1>2, LeftLen DEF ClockInv
  <1>4. CASE i + Len(storing) <= 4
    <2>1. LastTick \in (at - Refresh)..now /\ LastTick > startedAt
      BY <1>1
    <2> QED
      BY <1>3, <1>4, <2>1 DEF Current
  <1>5. CASE ~ (i + Len(storing) <= 4)
    <2>1. now = LastTick
      BY <1>3, <1>5 DEF ClockInv
    <2>2. LastTick - Refresh \in (at - Refresh)..now /\ LastTick - Refresh > startedAt
      BY <1>1, <2>1
    <2> QED
      BY <1>3, <1>5, <2>2 DEF Current
  <1> QED
    BY <1>4, <1>5

\* A window that is due for such a check is open.
LEMMA DueIsOpen ==
    ASSUME TypeOK, ClockInv, NEW c \in Looking, Ordinary(c), c.at <= now, now <= c.at + Lag,
           NEW w \in Windows, InWindow(w, c.at)
    PROVE  opens[w] <= c.at /\ c.at < closes[w]
  <1> DEFINE at == c.at
             a == at % DayLen
  <1>0. /\ at \in Nat /\ now \in Nat /\ DayLen \in Nat /\ DayLen > 0 /\ Lag \in Nat
        /\ Refresh \in Nat /\ Begin[w] \in Nat /\ Length[w] \in Nat
        /\ Refresh <= Begin[w] /\ Begin[w] + Length[w] + Lag <= DayLen
    BY LookingType, Calendar, CalendarAssumption, MidnightAssumption DEF TypeOK
  <1> HIDE DEF at
  <1>1. PICK d \in Int : /\ at = d * DayLen + a /\ d * DayLen \in Int
                         /\ d = UTCDate(at) /\ a \in 0..(DayLen - 1)
    BY <1>0, AtTimeOfDay DEF UTCDate
  <1>2. a \in Begin[w]..(Begin[w] + Length[w] - 1)
    BY DEF InWindow, at
  <1> HIDE DEF a
  <1>3. \A t \in (at - Refresh)..now : SpecificTime(w, t) = d * DayLen + Begin[w]
    <2> SUFFICES ASSUME NEW t \in (at - Refresh)..now
                 PROVE  SpecificTime(w, t) = d * DayLen + Begin[w]
      OBVIOUS
    <2> DEFINE A == d * DayLen
    <2>1. A \in Int /\ at = A + a /\ t \in Int /\ at - Refresh <= t /\ t <= at + Lag
      BY <1>0, <1>1 DEF at
    <2> HIDE DEF A
    <2>2. A <= t /\ t < A + DayLen
      BY <1>0, <1>2, <2>1
    <2>3. UTCDate(t) = d
      BY <2>1, <2>2, DateUnique DEF UTCDate, A
    <2>4. LocalDate(t) = d
      BY <2>3 DEF Ordinary, at
    <2> QED
      BY <2>4 DEF SpecificTime
  <1>4. \A i \in 1..4 : \E t \in (at - Refresh)..now : Atomic(i) = Value(i, t)
    BY <1>0, AtomicOfTick DEF Ordinary, at
  <1>5. opens[w] = d * DayLen + Begin[w] /\ closes[w] = d * DayLen + Begin[w] + Length[w]
    <2>1. CASE w = "reserve"
      <3>1. \E t \in (at - Refresh)..now : Atomic(1) = Value(1, t)
        BY <1>4
      <3>2. \E t \in (at - Refresh)..now : Atomic(2) = Value(2, t)
        BY <1>4
      <3> QED
        BY <1>3, <2>1, <3>1, <3>2, Atomics
    <2>2. CASE w = "grab"
      <3>1. \E t \in (at - Refresh)..now : Atomic(3) = Value(3, t)
        BY <1>4
      <3>2. \E t \in (at - Refresh)..now : Atomic(4) = Value(4, t)
        BY <1>4
      <3> QED
        BY <1>3, <2>2, <3>1, <3>2, Atomics
    <2> QED
      BY <2>1, <2>2 DEF Windows
  <1> QED
    BY <1>0, <1>1, <1>2, <1>5 DEF at

-----------------------------------------------------------------------------
(* The windows a check has looked at.                                      *)

Among(w, l) == \E j \in 1..Len(l) : l[j] = w

\* The windows that are due are still to be looked at.
DueLeft(c) ==
    c.pc \in {"start", "end", "refused"} =>
        \A w \in Windows : Among(w, Looks[c.kind]) /\ InWindow(w, c.at) =>
            c.pc # "refused" /\ Among(w, c.left)

LookInv == Ordinary(check) => DueLeft(check)

LEMMA LeftsSeq == \A l \in Lefts : l \in Seq(Windows) /\ l # <<>>
  <1>1. <<"reserve">> \in Seq(Windows) /\ <<"reserve">> # <<>>
    BY DEF Windows
  <1>2. <<"grab">> \in Seq(Windows) /\ <<"grab">> # <<>>
    BY DEF Windows
  <1>3. <<"reserve", "grab">> \in Seq(Windows) /\ <<"reserve", "grab">> # <<>>
    BY DEF Windows
  <1> QED
    BY Zenon, <1>1, <1>2, <1>3 DEF Lefts

LEMMA AmongTail ==
    ASSUME NEW l \in Lefts, NEW w \in Windows, Among(w, l)
    PROVE  w = Head(l) \/ (Len(l) # 1 /\ Among(w, Tail(l)))
  <1>1. l \in Seq(Windows) /\ l # <<>>
    BY LeftsSeq
  <1>2. PICK j \in 1..Len(l) : l[j] = w
    BY DEF Among
  <1>3. CASE j = 1
    BY <1>1, <1>2, <1>3
  <1>4. CASE j # 1
    <2>1. /\ Len(l) \in Nat /\ Len(l) # 1 /\ j - 1 \in 1..Len(Tail(l))
          /\ Tail(l)[j - 1] = l[j]
      BY <1>1, <1>2, <1>4
    <2> QED
      BY <1>2, <2>1 DEF Among
  <1> QED
    BY <1>3, <1>4

\* A check that goes on to the next window leaves none behind that is due.
LEMMA DueStays ==
    ASSUME NEW c \in Looking, c.pc # "refused", c.pc # "passed", DueLeft(c),
           ~ InWindow(Head(c.left), c.at)
    PROVE  DueLeft(NotThisWindow(c))
  <1> DEFINE n == NotThisWindow(c)
  <1>1. n \in Looking /\ n.at = c.at /\ n.kind = c.kind /\ c.left \in Lefts
    BY NotThisWindowType DEF Looking
  <1>2. Len(c.left) # 1 => n.pc = "start" /\ n.left = Tail(c.left)
    BY DEF NotThisWindow, Looking
  <1> HIDE DEF n
  <1>3. SUFFICES ASSUME NEW w \in Windows, Among(w, Looks[c.kind]), InWindow(w, c.at)
                 PROVE  n.pc # "refused" /\ Among(w, n.left)
    BY <1>1 DEF DueLeft, n
  <1>4. Among(w, c.left) /\ w # Head(c.left)
    BY <1>3 DEF DueLeft, Looking
  <1>5. Len(c.left) # 1 /\ Among(w, Tail(c.left))
    BY <1>1, <1>4, AmongTail
  <1> QED
    BY <1>2, <1>5

\* A step that does not move the check, or only marks it as moved.
LEMMA LookFrame ==
    ASSUME LookInv, check' = check \/ (check \in Looking /\ check' = MovedCheck(check)),
           UNCHANGED <<zone, startedAt>>, ctx' \in {ctx, "done"},
           now \in Nat, now' \in {now, now + 1}
    PROVE  LookInv'
  <1> SUFFICES ASSUME Ordinary(check)' PROVE DueLeft(check)'
    BY DEF LookInv
  <1>1. /\ check'.at = check.at /\ check'.pc = check.pc /\ check'.left = check.left
        /\ check'.kind = check.kind
    BY MovedCheckType DEF MovedCheck, Looking
  <1>2. /\ ctx = "live" /\ check.at > startedAt + Refresh
        /\ \A t \in (check.at - Refresh)..now' : LocalDate(t) = UTCDate(t)
    BY <1>1 DEF Ordinary, LocalDate, UTCDate
  <1>3. Ordinary(check)
    <2>1. \A t \in (check.at - Refresh)..now : t \in (check.at - Refresh)..now'
      OBVIOUS
    <2> QED
      BY <1>2, <2>1 DEF Ordinary
  <1> QED
    BY <1>1, <1>3 DEF LookInv, DueLeft

LEMMA LookLoads ==
    ASSUME TypeOK, TimesInv, ResetInv, ClockInv, LookInv, LoadStart \/ LoadEnd
    PROVE  LookInv'
  <1> DEFINE w == Head(check.left)
  <1>0. /\ check \in Looking /\ w \in Windows /\ check.at \in Nat /\ check.pc \in {"start", "end"}
        /\ UNCHANGED <<now, zone, startedAt, ctx, opens, closes>>
    BY CheckNow DEF LoadStart, LoadEnd, atomics
  <1>1. check.at <= now /\ now <= check.at + Lag
    BY <1>0 DEF TimesInv, ResetInv
  <1>2. check' \in {GoesTo(check, "end"), GoesTo(check, "passed")}
        \/ (check' = NotThisWindow(check) /\ ~ (opens[w] <= check.at /\ check.at < closes[w]))
    <2>1. CASE LoadStart
      BY <1>0, <2>1 DEF LoadStart, GoesTo, TypeOK
    <2>2. CASE LoadEnd
      BY <1>0, <2>2 DEF LoadEnd, GoesTo, TypeOK
    <2> QED
      BY <2>1, <2>2
  <1> SUFFICES ASSUME Ordinary(check)' PROVE DueLeft(check)'
    BY DEF LookInv
  <1>3. check'.at = check.at /\ check'.kind = check.kind
    BY <1>0, <1>2, GoesToType, NotThisWindowType
  <1>4. Ordinary(check)
    BY <1>0, <1>3 DEF Ordinary, LocalDate, UTCDate
  <1>5. DueLeft(check)
    BY <1>4 DEF LookInv
  <1>6. CASE check' = GoesTo(check, "end") \/ check' = GoesTo(check, "passed")
    <2>1. check'.left = check.left /\ check'.pc \in {"end", "passed"}
      BY <1>0, <1>6, GoesToType
    <2> QED
      BY <1>0, <1>3, <1>5, <2>1 DEF DueLeft
  <1>7. CASE check' = NotThisWindow(check) /\ ~ (opens[w] <= check.at /\ check.at < closes[w])
    <2>1. ~ InWindow(w, check.at)
      BY <1>0, <1>1, <1>4, <1>7, DueIsOpen
    <2>2. DueLeft(NotThisWindow(check))
      BY <1>0, <1>5, <2>1, DueStays
    <2> QED
      BY <1>7, <2>2 DEF DueLeft
  <1> QED
    BY <1>2, <1>6, <1>7

LEMMA LookStep ==
    TypeOK /\ TimesInv /\ ResetInv /\ ClockInv /\ LookInv /\ [Next]_vars => LookInv'
  <1> SUFFICES ASSUME TypeOK, TimesInv, ResetInv, ClockInv, LookInv, [Next]_vars
               PROVE  LookInv'
    OBVIOUS
  <1>0. now \in Nat
    BY DEF TypeOK
  <1>1. CASE ClockTimerTick \/ ResetBloomFilter \/ Signal \/ UNCHANGED vars
             \/ \E w \in Windows : StoreEnd(w)
    BY <1>0, <1>1, LookFrame DEF ClockTimerTick, ResetBloomFilter, Signal, vars, StoreEnd
  <1>2. ASSUME NEW w \in Windows, StoreStart(w) PROVE LookInv'
    <2>1. check' = check \/ (check' = MovedCheck(check) /\ check.pc # "idle")
      BY <1>2 DEF StoreStart, MovedCheck, MovedUnder
    <2> QED
      BY <1>0, <1>2, <2>1, CheckNow, LookFrame DEF StoreStart
  <1>3. ASSUME NEW kind \in DOMAIN Looks, BeginCheck(kind) PROVE LookInv'
    <2>1. check'.pc = "start" /\ check'.left = Looks[check'.kind]
      BY <1>3 DEF BeginCheck
    <2> QED
      BY <2>1 DEF LookInv, DueLeft
  <1>4. CASE Tick
    <2>1. CASE check' = check
      BY <1>0, <1>4, <2>1, LookFrame DEF Tick
    <2>2. CASE check' = NoCheck
      BY <2>2, LookingType DEF LookInv, DueLeft
    <2> QED
      BY <1>4, <2>1, <2>2 DEF Tick
  <1> QED
    BY <1>1, <1>2, <1>3, <1>4, LookLoads DEF Next

LEMMA LookCorrect == Spec => []LookInv
  <1>1. Init => LookInv
    BY LookingType DEF Init, LookInv, DueLeft
  <1> QED
    BY <1>1, LookStep, TimesCorrect, ResetCorrect, ClockCorrect, PTL DEF Spec

\* Once its loop has ticked a server refuses nothing in a window of its kind,
\* while the local date is that of UTC (couponClockTimer; OpenWhenDue).
THEOREM DueWindowsAreOpen == Spec => []OpenWhenDue
  <1>1. TypeOK /\ LookInv => OpenWhenDue
    <2> SUFFICES ASSUME TypeOK, LookInv, check.pc = "refused", Ordinary(check),
                        NEW k \in 1..Len(Looks[check.kind]),
                        InWindow(Looks[check.kind][k], check.at)
                 PROVE  FALSE
      BY DEF OpenWhenDue, Ordinary
    <2> DEFINE w == Looks[check.kind][k]
    <2>1. check \in Looking /\ DueLeft(check)
      BY CheckNow DEF LookInv
    <2>2. Looks[check.kind] \in Seq(Windows)
      BY <2>1, LookingType, LooksType, LeftsSeq
    <2>3. w \in Windows /\ Among(w, Looks[check.kind])
      BY <2>2 DEF Among
    <2> QED
      BY <2>1, <2>3 DEF DueLeft
  <1> QED
    BY <1>1, TimesCorrect, LookCorrect, PTL

=============================================================================
