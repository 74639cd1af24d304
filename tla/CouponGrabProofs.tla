-------------------------- MODULE CouponGrabProofs --------------------------
(***************************************************************************)
(* What holds of CouponGrab for any number of servers, handlers, users,    *)
(* coupons and faults, and what holds for a single server.                 *)
(***************************************************************************)
EXTENDS CouponGrab, FiniteSetTheorems, TLAPS

-----------------------------------------------------------------------------
(* The way of a user: reserved, accepted, received, paired with a coupon.  *)

\* What a server holds comes from the users in R, and its goroutines are those
\* of the pairs of its round.
Clean(ch, g, w, R) ==
    /\ \A k \in 1..Len(ch) : ch[k] \in R
    /\ g.received \subseteq R
    /\ \A c \in Coupons : g.pairs[c] # NoUser => g.pairs[c] \in R
    /\ \A c \in Coupons : w[c] # "none" => g.pc = "fallback" /\ g.pairs[c] # NoUser

\* The users who have reserved and of whom a request was accepted.
Known == asked \cap reserved

\* A handler at work has a user, and it sends none without a reservation.
ReqOK(r, R) ==
    /\ r.pc # "idle" => r.user \in Users
    /\ r.pc = "send" => r.user \in R

FlowInv ==
    /\ \A s \in Servers : Clean(chan[s], grabber[s], worker[s], Known)
    /\ \A q \in Requests : ReqOK(req[q], reserved)
    /\ \A c \in Coupons : owner[c] # NoUser => owner[c] \in Known

Workers == [Coupons -> {"none", "waiting", "running"}]

\* What is clean stays so while more users reserve and are accepted.
LEMMA CleanLater ==
    ASSUME NEW ch, NEW g, NEW w, NEW R, NEW S, R \subseteq S, Clean(ch, g, w, R)
    PROVE  Clean(ch, g, w, S)
  BY DEF Clean

\* The user ids and the NULL differ, and an idle handler has its type.
LEMMA NoRequestType ==
    NoUser \notin Users /\ NoRequest \in Handlers /\ NoRequest.pc = "idle"
  <1>1. (CHOOSE s \in Servers : TRUE) \in Servers
    BY SizesAssumption
  <1> QED
    BY <1>1, RowsAssumption DEF NoRequest, Handlers

\* A server between two rounds.
LEMMA NoRoundType ==
    /\ NoRound \in Rounds
    /\ NoRound.pc = "idle" /\ NoRound.coupons = {} /\ NoRound.received = {}
    /\ \A c \in Coupons : NoRound.pairs[c] = NoUser
  BY DEF NoRound, NoPairs, Rounds

\* A step of handleGrabRequest leaves a local state of it.
LEMMA HandlerType ==
    ASSUME NEW r \in Handlers, NEW p \in {"idle", "lookup", "send", "add"}
    PROVE  /\ [r EXCEPT !.pc = p] \in Handlers
           /\ [r EXCEPT !.pc = p].pc = p
           /\ [r EXCEPT !.pc = p].user = r.user
           /\ [r EXCEPT !.pc = p].server = r.server
  BY DEF Handlers

\* The local states of handleGrabbing after its steps.
Listed(S) == [NoRound EXCEPT !.pc = "receive", !.coupons = S]
Received(g, u, p) == [pc |-> p, coupons |-> g.coupons, count |-> g.count + 1,
                      received |-> g.received \cup {u}, pairs |-> g.pairs]
Assigning(g) == [g EXCEPT !.pc = "assign"]
Failed(g, p) == [g EXCEPT !.pc = "fallback", !.pairs = p]

\* The round of a server that has listed its coupons.
LEMMA ListedType ==
    ASSUME NEW S \in SUBSET Coupons
    PROVE  /\ Listed(S) \in Rounds
           /\ Listed(S).pc = "receive" /\ Listed(S).coupons = S /\ Listed(S).received = {}
           /\ \A c \in Coupons : Listed(S).pairs[c] = NoUser
  BY DEF Listed, NoRound, NoPairs, Rounds

\* The round of a server that has received one more request.
LEMMA ReceivedType ==
    ASSUME NEW g \in Rounds, NEW u \in Users, NEW p \in {"receive", "assign"}
    PROVE  /\ Received(g, u, p) \in Rounds
           /\ Received(g, u, p).pc = p /\ Received(g, u, p).coupons = g.coupons
           /\ Received(g, u, p).received = g.received \cup {u}
           /\ Received(g, u, p).pairs = g.pairs
  <1>1. /\ g.count + 1 \in Nat /\ g.received \cup {u} \in SUBSET Users
        /\ g.coupons \in SUBSET Coupons /\ g.pairs \in [Coupons -> Users \cup {NoUser}]
    BY DEF Rounds
  <1> QED
    BY <1>1 DEF Rounds, Received

\* The round of a server that goes over to the assignment.
LEMMA AssigningType ==
    ASSUME NEW g \in Rounds
    PROVE  /\ Assigning(g) \in Rounds
           /\ Assigning(g).pc = "assign" /\ Assigning(g).coupons = g.coupons
           /\ Assigning(g).received = g.received /\ Assigning(g).pairs = g.pairs
  BY DEF Assigning, Rounds

\* The round of a server whose batch statement returned an error.
LEMMA FailedType ==
    ASSUME NEW g \in Rounds, NEW p \in [Coupons -> Users \cup {NoUser}]
    PROVE  /\ Failed(g, p) \in Rounds
           /\ Failed(g, p).pc = "fallback" /\ Failed(g, p).coupons = g.coupons
           /\ Failed(g, p).received = g.received /\ Failed(g, p).pairs = p
  BY DEF Failed, Rounds

\* A pairing gives coupons of the list to users received.
LEMMA PairingsType ==
    ASSUME NEW S, NEW W, NEW p \in Pairings(S, W)
    PROVE  p \in [Coupons -> W \cup {NoUser}]
  BY DEF Pairings

LEMMA PairingsWithin ==
    ASSUME NEW S, NEW W, NEW p \in Pairings(S, W), NEW c \in Coupons, p[c] # NoUser
    PROVE  c \in S /\ p[c] \in W
  <1>1. {d \in Coupons : p[d] # NoUser} \subseteq S
    BY DEF Pairings
  <1>2. p \in [Coupons -> W \cup {NoUser}]
    BY PairingsType
  <1> QED
    BY <1>1, <1>2

\* Every user received is paired with a coupon.
LEMMA PairingsServeAll ==
    ASSUME NEW S, NEW W, NEW p \in Pairings(S, W), NEW u \in W
    PROVE  \E c \in Coupons : p[c] = u
  <1>1. \E c \in {d \in Coupons : p[d] # NoUser} : p[c] = u
    BY DEF Pairings
  <1> QED
    BY <1>1

\* The budget of faults never becomes negative.
LEMMA FaultType ==
    ASSUME faultsLeft \in Nat,
           UseFault \/ \E c, call, out : Returns(c, call, out)
    PROVE  faultsLeft' \in Nat
  BY DEF UseFault, Returns

\* No step raises the budget.
LEMMA FaultsFall ==
    ASSUME faultsLeft \in Nat, [Next]_vars
    PROVE  faultsLeft' <= faultsLeft
  <1>1. faultsLeft' = faultsLeft
          \/ UseFault \/ \E c, call, out : Returns(c, call, out)
    <2>1. CASE UNCHANGED faultsLeft
      BY <2>1
    <2>2. ASSUME NEW q \in Requests, Lookup(q) PROVE \E c, call, out : Returns(c, call, out)
      BY <2>2, Zenon DEF Lookup
    <2>3. ASSUME NEW s \in Servers, BatchAssign(s)
          PROVE  \E c, call, out : Returns(c, call, out)
      BY <2>3, Zenon DEF BatchAssign
    <2>4. ASSUME NEW s \in Servers, NEW c \in Coupons, UpdateCoupon(s, c)
          PROVE  \E d, call, out : Returns(d, call, out)
      BY <2>4, Zenon DEF UpdateCoupon
    <2>5. ASSUME NEW s \in Servers, Crash(s) PROVE UseFault
      BY <2>5 DEF Crash
    <2>6. \/ UNCHANGED faultsLeft
          \/ \E q \in Requests : Lookup(q)
          \/ \E s \in Servers : BatchAssign(s) \/ Crash(s) \/ \E c \in Coupons : UpdateCoupon(s, c)
      BY DEF Next, vars, Reserve, IssueCoupons, Expire, ClockTick, TestBloom,
             Handle, Send, AddBloom, Round, ListCoupons, Receive, ReceiveTimeout,
             EndFallback, Work, TakeToken, ResetBloom, Signal
    <2> QED
      BY <2>1, <2>2, <2>3, <2>4, <2>5, <2>6
  <1>2. faultsLeft' = faultsLeft \/ faultsLeft' = faultsLeft - 1
    BY <1>1 DEF UseFault, Returns
  <1> QED
    BY <1>2

LEMMA FlowInit == Init => TypeOK /\ FlowInv
  <1> SUFFICES ASSUME Init PROVE TypeOK /\ FlowInv
    OBVIOUS
  <1>1. TypeOK
    BY NoRequestType, NoRoundType, SizesAssumption, FaultsAssumption
       DEF Init, TypeOK, Cleared, NothingAccepted, Phases
  <1>2. \A s \in Servers : Clean(chan[s], grabber[s], worker[s], Known)
    BY NoRoundType DEF Init, Clean
  <1>3. FlowInv
    BY <1>2, NoRequestType DEF Init, FlowInv, ReqOK
  <1> QED
    BY <1>1, <1>3

-----------------------------------------------------------------------------
(* The steps of the handlers.                                              *)

LEMMA FlowTestBloom ==
    ASSUME TypeOK, FlowInv, NEW q \in Requests, NEW s \in Servers, NEW u \in Users,
           TestBloom(q, s, u)
    PROVE  TypeOK' /\ FlowInv'
  <1> DEFINE r == [pc |-> "lookup", server |-> s, user |-> u]
  <1>1. r \in Handlers /\ ReqOK(r, reserved)
    BY DEF Handlers, ReqOK
  <1> HIDE DEF r
  <1>2. req' = [req EXCEPT ![q] = r]
    BY DEF TestBloom, r
  <1>3. req' \in [Requests -> Handlers]
    BY <1>1, <1>2 DEF TypeOK
  <1>4. \A p \in Requests : ReqOK(req'[p], reserved)
    BY <1>1, <1>2 DEF TypeOK, FlowInv
  <1>5. TypeOK'
    BY <1>3 DEF TestBloom, TypeOK, rows, history, pool, world
  <1>6. FlowInv'
    BY <1>4 DEF TestBloom, FlowInv, Known, rows, history, pool, world
  <1> QED
    BY <1>5, <1>6

LEMMA FlowLookup ==
    ASSUME TypeOK, FlowInv, NEW q \in Requests, Lookup(q)
    PROVE  TypeOK' /\ FlowInv'
  <1>1. req[q] \in Handlers /\ req[q].user \in Users
    BY DEF TypeOK, FlowInv, ReqOK, Lookup
  <1> DEFINE sending == [req[q] EXCEPT !.pc = "send"]
  <1>2. sending \in Handlers /\ (MayGrab(req[q].user) => ReqOK(sending, reserved))
    BY <1>1, HandlerType DEF ReqOK, MayGrab
  <1>3. NoRequest \in Handlers /\ ReqOK(NoRequest, reserved)
    BY NoRequestType DEF ReqOK
  <1> HIDE DEF sending
  <1>4. PICK r : /\ r = NoRequest \/ (r = sending /\ MayGrab(req[q].user))
                 /\ req' = [req EXCEPT ![q] = r]
                 /\ \E out : Returns("live", "lookup", out)
    BY DEF Lookup, sending, TypeOK
  <1>5. r \in Handlers /\ ReqOK(r, reserved)
    BY <1>2, <1>3, <1>4
  <1>6. req' \in [Requests -> Handlers]
    BY <1>4, <1>5 DEF TypeOK
  <1>7. \A p \in Requests : ReqOK(req'[p], reserved)
    BY <1>4, <1>5 DEF TypeOK, FlowInv
  <1>8. faultsLeft' \in Nat
    BY <1>4, FaultType DEF TypeOK
  <1>9. TypeOK'
    BY <1>6, <1>8 DEF Lookup, TypeOK, rows, history, pool, world
  <1>10. FlowInv'
    BY <1>7 DEF Lookup, FlowInv, Known, rows, history, pool, world
  <1> QED
    BY <1>9, <1>10

LEMMA FlowSend ==
    ASSUME TypeOK, FlowInv, NEW q \in Requests, Send(q)
    PROVE  TypeOK' /\ FlowInv'
  <1> DEFINE s == req[q].server
             u == req[q].user
             adding == [req[q] EXCEPT !.pc = "add"]
  <1>1. /\ req[q] \in Handlers /\ s \in Servers /\ u \in Users /\ u \in reserved
        /\ adding \in Handlers /\ ReqOK(adding, reserved)
    <2>1. req[q] \in Handlers /\ req[q].pc = "send" /\ ReqOK(req[q], reserved)
      BY DEF TypeOK, FlowInv, Send
    <2>2. s \in Servers /\ u \in Users /\ u \in reserved
      BY <2>1 DEF Handlers, ReqOK
    <2>3. adding \in Handlers /\ adding.pc = "add" /\ adding.user = u
      BY <2>1, HandlerType
    <2> QED
      BY <2>1, <2>2, <2>3 DEF ReqOK
  <1>2. NoRequest \in Handlers /\ ReqOK(NoRequest, reserved)
    BY NoRequestType DEF ReqOK
  <1> HIDE DEF s, u, adding
  <1>3. PICK r : /\ r \in {NoRequest, adding}
                 /\ req' = [req EXCEPT ![q] = r]
    BY DEF Send, adding, s, u
  <1>4. req' \in [Requests -> Handlers] /\ \A p \in Requests : ReqOK(req'[p], reserved)
    BY <1>1, <1>2, <1>3 DEF TypeOK, FlowInv
  <1>5. CASE Room(s)
    <2>1. /\ chan' = [chan EXCEPT ![s] = Append(chan[s], u)]
          /\ accepted' = [accepted EXCEPT ![s][u] = IF @ > Cardinality(Requests) THEN @ ELSE @ + 1]
          /\ asked' = asked \cup {u} /\ forgotten' = forgotten \ {u}
      BY <1>1, <1>5 DEF Send, s, u, TypeOK
    <2>2. chan[s] \in Seq(Users) /\ ChanCap \in Nat /\ Len(chan[s]) < ChanCap
      BY <1>1, <1>5, SizesAssumption DEF TypeOK, Room
    <2>3. Append(chan[s], u) \in Seq(Users) /\ Len(Append(chan[s], u)) <= ChanCap
      BY <1>1, <2>2
    <2>4. chan' \in [Servers -> Seq(Users)] /\ \A t \in Servers : Len(chan'[t]) <= ChanCap
      BY <2>1, <2>3 DEF TypeOK
    <2>5. accepted' \in [Servers -> [Users -> Nat]]
      <3> DEFINE n == IF accepted[s][u] > Cardinality(Requests) THEN accepted[s][u]
                      ELSE accepted[s][u] + 1
      <3>1. accepted \in [Servers -> [Users -> Nat]] /\ n \in Nat
        BY <1>1 DEF TypeOK
      <3>2. accepted' = [accepted EXCEPT ![s] = [accepted[s] EXCEPT ![u] = n]]
        BY <1>1, <2>1, <3>1
      <3>3. [accepted[s] EXCEPT ![u] = n] \in [Users -> Nat]
        BY <1>1, <3>1
      <3> QED
        BY <3>1, <3>2, <3>3
    <2>6. forgotten' \subseteq asked' /\ asked' \subseteq Users
      BY <1>1, <2>1 DEF TypeOK
    <2>7. TypeOK'
      BY <1>4, <2>4, <2>5, <2>6 DEF Send, TypeOK, rows, pool, world
    <2>8. Known \subseteq Known' /\ u \in Known'
      BY <1>1, <2>1 DEF Known, Send, rows
    <2>9. \A t \in Servers : Clean(chan'[t], grabber[t], worker[t], Known')
      <3>1. ASSUME NEW t \in Servers PROVE Clean(chan[t], grabber[t], worker[t], Known')
        BY <2>8, CleanLater DEF FlowInv
      <3>2. Clean(Append(chan[s], u), grabber[s], worker[s], Known')
        <4>1. Clean(chan[s], grabber[s], worker[s], Known')
          BY <1>1, <3>1
        <4>2. \A k \in 1..Len(Append(chan[s], u)) : Append(chan[s], u)[k] \in Known'
          BY <1>1, <2>2, <2>8, <4>1 DEF Clean
        <4> QED
          BY <4>1, <4>2 DEF Clean
      <3> QED
        BY <2>1, <3>1, <3>2 DEF TypeOK
    <2>10. \A c \in Coupons : owner[c] # NoUser => owner[c] \in Known'
      BY <2>8 DEF FlowInv
    <2>11. FlowInv'
      BY <1>4, <2>9, <2>10 DEF Send, FlowInv, rows, pool, world
    <2> QED
      BY <2>7, <2>11
  <1>6. CASE ~ Room(s)
    <2>1. UNCHANGED <<chan, history>>
      BY <1>6 DEF Send, s
    <2>2. TypeOK'
      BY <1>4, <2>1 DEF Send, TypeOK, rows, pool, world, history
    <2>3. FlowInv'
      BY <1>4, <2>1 DEF Send, FlowInv, Known, rows, pool, world, history
    <2> QED
      BY <2>2, <2>3
  <1> QED
    BY <1>5, <1>6

LEMMA FlowAddBloom ==
    ASSUME TypeOK, FlowInv, NEW q \in Requests, AddBloom(q)
    PROVE  TypeOK' /\ FlowInv'
  <1>1. req[q] \in Handlers /\ req[q].user \in Users
    BY DEF TypeOK, FlowInv, ReqOK, AddBloom
  <1>2. \A f \in SUBSET Bits : FilterAfterSend(f, req[q].user) \in SUBSET Bits
    BY <1>1, HashAssumption DEF FilterAfterSend, Add
  <1>3. bloom' \in [Servers -> SUBSET Bits]
    BY <1>2 DEF AddBloom, TypeOK
  <1>4. ReqOK(NoRequest, reserved)
    BY NoRequestType DEF ReqOK
  <1>5. req' \in [Requests -> Handlers] /\ \A p \in Requests : ReqOK(req'[p], reserved)
    BY <1>4, NoRequestType DEF AddBloom, TypeOK, FlowInv
  <1>6. TypeOK'
    BY <1>3, <1>5 DEF AddBloom, TypeOK, rows, history, pool, world
  <1>7. FlowInv'
    BY <1>5 DEF AddBloom, FlowInv, Known, rows, history, pool, world
  <1> QED
    BY <1>6, <1>7

-----------------------------------------------------------------------------
(* The steps of the rounds.                                                *)

\* What the local states of a server must be for the invariant.
HeldOK(ch, g, w, R) ==
    /\ ch \in Seq(Users) /\ Len(ch) <= ChanCap
    /\ g \in Rounds /\ w \in Workers
    /\ Clean(ch, g, w, R)

\* A step that leaves one server in such states, and the rest alone.
LEMMA FlowHeld ==
    ASSUME TypeOK, FlowInv, NEW s \in Servers, NEW ch, NEW g, NEW w,
           HeldOK(ch, g, w, Known),
           chan' = [chan EXCEPT ![s] = ch],
           grabber' = [grabber EXCEPT ![s] = g],
           worker' = [worker EXCEPT ![s] = w]
    PROVE  /\ chan' \in [Servers -> Seq(Users)] /\ \A t \in Servers : Len(chan'[t]) <= ChanCap
           /\ grabber' \in [Servers -> Rounds]
           /\ worker' \in [Servers -> Workers]
           /\ \A t \in Servers : Clean(chan'[t], grabber'[t], worker'[t], Known)
  BY DEF TypeOK, FlowInv, HeldOK, Workers

\* The states a server is in.
LEMMA HeldNow ==
    ASSUME TypeOK, FlowInv, NEW s \in Servers
    PROVE  HeldOK(chan[s], grabber[s], worker[s], Known)
  BY DEF TypeOK, FlowInv, HeldOK, Workers

LEMMA FlowListCoupons ==
    ASSUME TypeOK, FlowInv, NEW s \in Servers, ListCoupons(s)
    PROVE  TypeOK' /\ FlowInv'
  <1>1. PICK S \in SUBSET Coupons : grabber' = [grabber EXCEPT ![s] = Listed(S)]
    <2>1. Available \in SUBSET Coupons /\ grabber[s].coupons \in SUBSET Coupons
      BY DEF Available, TypeOK, Rounds
    <2> QED
      BY <2>1 DEF ListCoupons, Listed
  <1>2. /\ Listed(S) \in Rounds /\ Listed(S).received = {}
        /\ \A c \in Coupons : Listed(S).pairs[c] = NoUser
    BY <1>1, ListedType
  <1>4. HeldOK(chan[s], Listed(S), worker[s], Known)
    <2>1. HeldOK(chan[s], grabber[s], worker[s], Known) /\ grabber[s].pc = "idle"
      BY HeldNow DEF ListCoupons
    <2> QED
      BY <1>2, <2>1 DEF HeldOK, Clean
  <1>5. chan' = [chan EXCEPT ![s] = chan[s]] /\ worker' = [worker EXCEPT ![s] = worker[s]]
    BY DEF ListCoupons, pool, TypeOK
  <1>6. /\ grabber' \in [Servers -> Rounds]
        /\ \A t \in Servers : Clean(chan'[t], grabber'[t], worker'[t], Known)
    BY <1>1, <1>4, <1>5, FlowHeld
  <1>7. TypeOK'
    BY <1>6 DEF ListCoupons, TypeOK, rows, history, pool, world
  <1>8. FlowInv'
    BY <1>6 DEF ListCoupons, FlowInv, Known, rows, history, pool, world
  <1> QED
    BY <1>7, <1>8

LEMMA FlowReceive ==
    ASSUME TypeOK, FlowInv, NEW s \in Servers, Receive(s)
    PROVE  TypeOK' /\ FlowInv'
  <1> DEFINE ch == chan[s]
             u == Head(ch)
             p == IF grabber[s].count + 1 = Cardinality(grabber[s].coupons)
                  THEN "assign" ELSE "receive"
             g == grabber'[s]
  <1>0. HeldOK(ch, grabber[s], worker[s], Known) /\ ch # <<>>
    BY HeldNow DEF Receive
  <1>1. /\ u \in Users /\ u = ch[1] /\ 1 \in 1..Len(ch) /\ Tail(ch) \in Seq(Users)
        /\ Len(Tail(ch)) = Len(ch) - 1 /\ Len(ch) \in Nat
        /\ \A k \in 1..Len(Tail(ch)) : Tail(ch)[k] = ch[k + 1] /\ k + 1 \in 1..Len(ch)
    BY <1>0 DEF HeldOK
  <1>2. /\ g = [grabber[s] EXCEPT !.count = grabber[s].count + 1,
                                   !.received = grabber[s].received \cup {u}, !.pc = p]
        /\ grabber' = [grabber EXCEPT ![s] = g]
    BY DEF Receive, TypeOK
  <1>3. g = Received(grabber[s], u, p) /\ p \in {"receive", "assign"}
    BY <1>0, <1>2 DEF HeldOK, Rounds, Received
  <1> HIDE DEF ch, u, g, p
  <1>5. /\ g \in Rounds /\ g.pc = p
        /\ g.received = grabber[s].received \cup {u} /\ g.pairs = grabber[s].pairs
    <2>1. grabber[s] \in Rounds
      BY <1>0 DEF HeldOK
    <2> QED
      BY SMTT(30), <2>1, <1>1, <1>3, ReceivedType
  <1>6. HeldOK(Tail(ch), g, worker[s], Known)
    <2>1. grabber[s].pc = "receive"
      BY DEF Receive
    <2>2. Len(Tail(ch)) <= ChanCap
      BY <1>0, <1>1, SizesAssumption DEF HeldOK
    <2>3. Clean(Tail(ch), g, worker[s], Known)
      BY <1>0, <1>1, <1>5, <2>1 DEF HeldOK, Clean
    <2> QED
      BY <1>0, <1>1, <1>5, <2>2, <2>3 DEF HeldOK
  <1>7. /\ chan' = [chan EXCEPT ![s] = Tail(ch)]
        /\ worker' = [worker EXCEPT ![s] = worker[s]]
    BY DEF Receive, pool, TypeOK, ch
  <1>8. /\ chan' \in [Servers -> Seq(Users)] /\ \A t \in Servers : Len(chan'[t]) <= ChanCap
        /\ grabber' \in [Servers -> Rounds]
        /\ \A t \in Servers : Clean(chan'[t], grabber'[t], worker'[t], Known)
    BY <1>2, <1>6, <1>7, FlowHeld
  <1>9. TypeOK'
    BY <1>8 DEF Receive, TypeOK, rows, history, pool, world
  <1>10. FlowInv'
    BY <1>8 DEF Receive, FlowInv, Known, rows, history, pool, world
  <1> QED
    BY <1>9, <1>10

LEMMA FlowReceiveTimeout ==
    ASSUME TypeOK, FlowInv, NEW s \in Servers, ReceiveTimeout(s)
    PROVE  TypeOK' /\ FlowInv'
  <1> DEFINE assigning == Assigning(grabber[s])
  <1>0. HeldOK(chan[s], grabber[s], worker[s], Known) /\ grabber[s].pc = "receive"
    BY HeldNow DEF ReceiveTimeout
  <1>1. /\ assigning \in Rounds /\ assigning.received = grabber[s].received
        /\ assigning.pairs = grabber[s].pairs
    BY <1>0, AssigningType DEF HeldOK
  <1> HIDE DEF assigning
  <1>2. PICK g \in {NoRound, assigning} : grabber' = [grabber EXCEPT ![s] = g]
    BY DEF ReceiveTimeout, AfterRound, Assigning, TypeOK, assigning
  <1>3. HeldOK(chan[s], g, worker[s], Known)
    BY <1>0, <1>1, <1>2, NoRoundType DEF HeldOK, Clean
  <1>4. chan' = [chan EXCEPT ![s] = chan[s]] /\ worker' = [worker EXCEPT ![s] = worker[s]]
    BY DEF ReceiveTimeout, pool, TypeOK
  <1>5. /\ grabber' \in [Servers -> Rounds]
        /\ \A t \in Servers : Clean(chan'[t], grabber'[t], worker'[t], Known)
    BY <1>2, <1>3, <1>4, FlowHeld
  <1>6. TypeOK'
    BY <1>5 DEF ReceiveTimeout, TypeOK, rows, history, pool, world
  <1>7. FlowInv'
    BY <1>5 DEF ReceiveTimeout, FlowInv, Known, rows, history, pool, world
  <1> QED
    BY <1>6, <1>7

LEMMA FlowBatchAssign ==
    ASSUME TypeOK, FlowInv, NEW s \in Servers, BatchAssign(s)
    PROVE  TypeOK' /\ FlowInv'
  <1>0. HeldOK(chan[s], grabber[s], worker[s], Known) /\ grabber[s].pc = "assign"
    BY HeldNow DEF BatchAssign
  <1>1. grabber[s].coupons \in SUBSET Coupons /\ grabber[s].received \in SUBSET Users
    BY <1>0 DEF HeldOK, Rounds
  <1>2. PICK p \in Pairings(grabber[s].coupons, grabber[s].received) : \E out \in Outcomes :
          /\ Returns(ctx[s], "assign", out)
          /\ owner' = owner \/ owner' = [c \in Coupons |-> IF c \in Updated(p) THEN p[c]
                                                                              ELSE owner[c]]
          /\ \/ /\ grabber' = [grabber EXCEPT ![s] = AfterRound(@)]
                /\ UNCHANGED worker
             \/ /\ grabber' = [grabber EXCEPT ![s] = Failed(@, p)]
                /\ worker' = [worker EXCEPT ![s] = [c \in Coupons |->
                                IF p[c] # NoUser THEN "waiting" ELSE "none"]]
    BY Zenon DEF BatchAssign, Failed
  <1>3. /\ p \in [Coupons -> Users \cup {NoUser}]
        /\ \A c \in Coupons : p[c] # NoUser => p[c] \in grabber[s].received
    <2>1. p \in Pairings(grabber[s].coupons, grabber[s].received)
      BY <1>2
    <2>2. p \in [Coupons -> grabber[s].received \cup {NoUser}]
      BY <2>1, PairingsType
    <2>3. \A c \in Coupons : p[c] # NoUser => p[c] \in grabber[s].received
      BY <2>1, PairingsWithin
    <2> QED
      BY <1>1, <2>2, <2>3
  <1>4. \A c \in Coupons : p[c] # NoUser => p[c] \in Known
    BY <1>0, <1>3 DEF HeldOK, Clean
  <1>5. /\ owner' \in [Coupons -> Users \cup {NoUser}]
        /\ \A c \in Coupons : owner'[c] # NoUser => owner'[c] \in Known
    BY <1>2, <1>3, <1>4 DEF TypeOK, FlowInv
  <1>6. chan' = [chan EXCEPT ![s] = chan[s]]
    BY DEF BatchAssign, TypeOK
  <1>7. /\ grabber' \in [Servers -> Rounds] /\ worker' \in [Servers -> Workers]
        /\ \A t \in Servers : Clean(chan'[t], grabber'[t], worker'[t], Known)
    <2>1. CASE grabber' = [grabber EXCEPT ![s] = AfterRound(@)] /\ UNCHANGED worker
      <3>1. HeldOK(chan[s], NoRound, worker[s], Known)
        BY <1>0, NoRoundType DEF HeldOK, Clean
      <3>2. /\ grabber' = [grabber EXCEPT ![s] = NoRound]
            /\ worker' = [worker EXCEPT ![s] = worker[s]]
        BY <2>1 DEF TypeOK, AfterRound
      <3> QED
        BY <1>6, <3>1, <3>2, FlowHeld
    <2>2. CASE /\ grabber' = [grabber EXCEPT ![s] = Failed(@, p)]
               /\ worker' = [worker EXCEPT ![s] = [c \in Coupons |->
                                IF p[c] # NoUser THEN "waiting" ELSE "none"]]
      <3> DEFINE g == Failed(grabber[s], p)
                 w == [c \in Coupons |-> IF p[c] # NoUser THEN "waiting" ELSE "none"]
      <3>1. /\ g \in Rounds /\ g.pc = "fallback" /\ g.pairs = p
            /\ g.received = grabber[s].received
        BY <1>0, <1>3, FailedType DEF HeldOK
      <3>2. w \in Workers /\ \A c \in Coupons : w[c] # "none" => p[c] # NoUser
        BY DEF Workers
      <3>3. grabber' = [grabber EXCEPT ![s] = g] /\ worker' = [worker EXCEPT ![s] = w]
        BY <2>2 DEF TypeOK
      <3> HIDE DEF g, w
      <3>4. HeldOK(chan[s], g, w, Known)
        BY <1>0, <1>4, <3>1, <3>2 DEF HeldOK, Clean
      <3> QED
        BY <1>6, <3>3, <3>4, FlowHeld
    <2> QED
      BY <1>2, <2>1, <2>2
  <1>8. faultsLeft' \in Nat
    BY <1>2, FaultType DEF TypeOK
  <1>9. TypeOK'
    BY <1>5, <1>7, <1>8 DEF BatchAssign, TypeOK, Workers, history, world
  <1>10. FlowInv'
    BY <1>5, <1>7 DEF BatchAssign, FlowInv, Known, history, world
  <1> QED
    BY <1>9, <1>10

LEMMA FlowEndFallback ==
    ASSUME TypeOK, FlowInv, NEW s \in Servers, EndFallback(s)
    PROVE  TypeOK' /\ FlowInv'
  <1>1. HeldOK(chan[s], NoRound, worker[s], Known)
    <2>1. HeldOK(chan[s], grabber[s], worker[s], Known)
      BY HeldNow
    <2> QED
      BY <2>1, NoRoundType DEF EndFallback, HeldOK, Clean
  <1>2. /\ grabber' = [grabber EXCEPT ![s] = NoRound]
        /\ chan' = [chan EXCEPT ![s] = chan[s]] /\ worker' = [worker EXCEPT ![s] = worker[s]]
    BY DEF EndFallback, AfterRound, pool, TypeOK
  <1>3. /\ grabber' \in [Servers -> Rounds]
        /\ \A t \in Servers : Clean(chan'[t], grabber'[t], worker'[t], Known)
    BY <1>1, <1>2, FlowHeld
  <1>4. TypeOK'
    BY <1>3 DEF EndFallback, TypeOK, rows, history, pool, world
  <1>5. FlowInv'
    BY <1>3 DEF EndFallback, FlowInv, Known, rows, history, pool, world
  <1> QED
    BY <1>4, <1>5

-----------------------------------------------------------------------------
(* The steps of the update goroutines.                                     *)

\* A goroutine of the fallback goes over to another state.
LEMMA FlowWorker ==
    ASSUME TypeOK, FlowInv, NEW s \in Servers, NEW c \in Coupons,
           worker[s][c] # "none",
           NEW state \in {"none", "running"},
           worker' = [worker EXCEPT ![s][c] = state]
    PROVE  /\ worker' \in [Servers -> Workers]
           /\ \A t \in Servers : Clean(chan[t], grabber[t], worker'[t], Known)
           /\ grabber[s].pairs[c] \in Known
  <1>1. worker[s] \in Workers /\ Clean(chan[s], grabber[s], worker[s], Known)
    BY DEF TypeOK, FlowInv, Workers
  <1> DEFINE w == [worker[s] EXCEPT ![c] = state]
  <1>2. w \in Workers /\ \A d \in Coupons : w[d] # "none" => worker[s][d] # "none"
    BY <1>1 DEF Workers
  <1>3. worker' = [worker EXCEPT ![s] = w]
    BY DEF TypeOK
  <1> HIDE DEF w
  <1>4. Clean(chan[s], grabber[s], w, Known)
    BY <1>1, <1>2 DEF Clean
  <1> QED
    BY <1>1, <1>2, <1>3, <1>4 DEF TypeOK, FlowInv, Clean, Workers

LEMMA FlowTakeToken ==
    ASSUME TypeOK, FlowInv, NEW s \in Servers, NEW c \in Coupons, TakeToken(s, c)
    PROVE  TypeOK' /\ FlowInv'
  <1>1. PICK state \in {"none", "running"} : worker' = [worker EXCEPT ![s][c] = state]
    BY DEF TakeToken
  <1>2. /\ worker' \in [Servers -> Workers]
        /\ \A t \in Servers : Clean(chan[t], grabber[t], worker'[t], Known)
        /\ grabber[s].pairs[c] \in Known
    BY <1>1, FlowWorker DEF TakeToken
  <1>3. tokens' \in [Servers -> Nat]
    BY DEF TakeToken, TypeOK
  <1>4. forgotten' \subseteq asked
    BY <1>2 DEF TakeToken, TypeOK, Known
  <1>5. TypeOK'
    BY <1>2, <1>3, <1>4 DEF TakeToken, TypeOK, Workers, rows, world
  <1>6. FlowInv'
    BY <1>2 DEF TakeToken, FlowInv, Known, rows, world
  <1> QED
    BY <1>5, <1>6

LEMMA FlowUpdateCoupon ==
    ASSUME TypeOK, FlowInv, NEW s \in Servers, NEW c \in Coupons, UpdateCoupon(s, c)
    PROVE  TypeOK' /\ FlowInv'
  <1> DEFINE u == grabber[s].pairs[c]
  <1>1. worker[s][c] # "none" /\ worker' = [worker EXCEPT ![s][c] = "none"]
    BY DEF UpdateCoupon
  <1>2. /\ worker' \in [Servers -> Workers]
        /\ \A t \in Servers : Clean(chan[t], grabber[t], worker'[t], Known)
        /\ u \in Known
    BY <1>1, FlowWorker
  <1> HIDE DEF u
  <1>3. PICK out \in Outcomes :
          /\ Returns(ctx[s], "update", out)
          /\ owner' = owner \/ owner' = [owner EXCEPT ![c] = u]
          /\ \E ok \in BOOLEAN : tokens' = [tokens EXCEPT ![s] = TokensAfter(@, ok)]
          /\ forgotten' = forgotten \/ forgotten' = forgotten \cup {u}
    BY DEF UpdateCoupon, u
  <1>4. u \in Users
    BY <1>2 DEF Known, TypeOK
  <1>5. /\ owner' \in [Coupons -> Users \cup {NoUser}]
        /\ \A d \in Coupons : owner'[d] # NoUser => owner'[d] \in Known
    <2>1. /\ owner \in [Coupons -> Users \cup {NoUser}]
          /\ \A d \in Coupons : owner[d] # NoUser => owner[d] \in Known
      BY DEF TypeOK, FlowInv
    <2>2. owner' = owner \/ owner' = [owner EXCEPT ![c] = u]
      BY <1>3
    <2> QED
      BY <1>2, <1>4, <2>1, <2>2
  <1>6. tokens' \in [Servers -> Nat]
    BY <1>3 DEF TypeOK, TokensAfter
  <1>7. forgotten' \subseteq asked
    BY <1>2, <1>3 DEF TypeOK, Known
  <1>8. faultsLeft' \in Nat
    BY <1>3, FaultType DEF TypeOK
  <1>9. TypeOK'
    BY <1>2, <1>5, <1>6, <1>7, <1>8 DEF UpdateCoupon, TypeOK, Workers, world
  <1>10. FlowInv'
    BY <1>2, <1>5 DEF UpdateCoupon, FlowInv, Known, world
  <1> QED
    BY <1>9, <1>10

-----------------------------------------------------------------------------
(* The rows of other components, and what happens to a server.             *)

LEMMA FlowReserve ==
    ASSUME TypeOK, FlowInv, NEW u \in Users, Reserve(u)
    PROVE  TypeOK' /\ FlowInv'
  <1>1. TypeOK'
    BY DEF Reserve, TypeOK, history, pool, world
  <1>2. Known \subseteq Known' /\ reserved \subseteq reserved'
    BY DEF Reserve, Known, history
  <1>3. \A s \in Servers : Clean(chan[s], grabber[s], worker[s], Known')
    BY <1>2, CleanLater DEF FlowInv
  <1>4. \A q \in Requests : ReqOK(req[q], reserved')
    BY <1>2 DEF FlowInv, ReqOK
  <1>5. FlowInv'
    BY <1>2, <1>3, <1>4 DEF Reserve, FlowInv, history, pool, world
  <1> QED
    BY <1>1, <1>5

LEMMA FlowCrash ==
    ASSUME TypeOK, FlowInv, NEW s \in Servers, Crash(s)
    PROVE  TypeOK' /\ FlowInv'
  <1> DEFINE w == [c \in Coupons |-> "none"]
  <1>1. HeldOK(<<>>, NoRound, w, Known)
    BY NoRoundType, SizesAssumption DEF HeldOK, Clean, Workers
  <1>2. /\ chan' = [chan EXCEPT ![s] = <<>>] /\ grabber' = [grabber EXCEPT ![s] = NoRound]
        /\ worker' = [worker EXCEPT ![s] = w]
    BY DEF Crash
  <1> HIDE DEF w
  <1>3. /\ chan' \in [Servers -> Seq(Users)] /\ \A t \in Servers : Len(chan'[t]) <= ChanCap
        /\ grabber' \in [Servers -> Rounds] /\ worker' \in [Servers -> Workers]
        /\ \A t \in Servers : Clean(chan'[t], grabber'[t], worker'[t], Known)
    BY <1>1, <1>2, FlowHeld
  <1>4. ReqOK(NoRequest, reserved)
    BY NoRequestType DEF ReqOK
  <1>5. req' \in [Requests -> Handlers] /\ \A q \in Requests : ReqOK(req'[q], reserved)
    BY <1>4, NoRequestType DEF Crash, TypeOK, FlowInv
  <1>6. \A u \in Users : QueuedAt(s, u) \/ InRoundOf(s, u) => u \in Known
    BY DEF FlowInv, Clean, QueuedAt, InRoundOf, TypeOK
  <1>7. forgotten' \subseteq asked
    BY <1>6 DEF Crash, TypeOK, Known
  <1>8. faultsLeft' \in Nat
    BY FaultType DEF Crash, TypeOK
  <1>9. /\ bloom' \in [Servers -> SUBSET Bits] /\ accepted' \in [Servers -> [Users -> Nat]]
        /\ tokens' \in [Servers -> Nat] /\ ctx' \in [Servers -> {"live", "done"}]
    BY SizesAssumption DEF Crash, TypeOK, Cleared, NothingAccepted
  <1>10. TypeOK'
    BY <1>3, <1>5, <1>7, <1>8, <1>9 DEF Crash, TypeOK, Workers, rows
  <1>11. FlowInv'
    BY <1>3, <1>5 DEF Crash, FlowInv, Known, rows
  <1> QED
    BY <1>10, <1>11

LEMMA FlowOther ==
    ASSUME TypeOK, FlowInv,
           \/ \E S \in SUBSET Coupons : IssueCoupons(S)
           \/ \E c \in Coupons : Expire(c)
           \/ ClockTick
           \/ \E s \in Servers : ResetBloom(s) \/ Signal(s)
           \/ UNCHANGED vars
    PROVE  TypeOK' /\ FlowInv'
  <1>1. CASE (\E S \in SUBSET Coupons : IssueCoupons(S)) \/ (\E c \in Coupons : Expire(c))
    <2>1. TypeOK'
      BY <1>1 DEF IssueCoupons, Expire, TypeOK, history, pool, world
    <2>2. FlowInv'
      BY <1>1 DEF IssueCoupons, Expire, FlowInv, Known, history, pool, world
    <2> QED
      BY <2>1, <2>2
  <1>2. CASE ClockTick
    <2>1. TypeOK'
      BY <1>2 DEF ClockTick, NextPhase, Phases, TypeOK, rows, history, pool
    <2>2. FlowInv'
      BY <1>2 DEF ClockTick, FlowInv, Known, rows, history, pool
    <2> QED
      BY <2>1, <2>2
  <1>3. CASE \E s \in Servers : ResetBloom(s) \/ Signal(s)
    <2>1. TypeOK'
      <3>1. ASSUME NEW s \in Servers, ResetBloom(s) PROVE TypeOK'
        <4>1. bloom' \in [Servers -> SUBSET Bits] /\ accepted' \in [Servers -> [Users -> Nat]]
          BY <3>1 DEF ResetBloom, Cleared, NothingAccepted, TypeOK
        <4> QED
          BY <3>1, <4>1 DEF ResetBloom, TypeOK, rows, pool, world
      <3>2. ASSUME NEW s \in Servers, Signal(s) PROVE TypeOK'
        BY <3>2 DEF Signal, TypeOK, rows, history, pool
      <3> QED
        BY <1>3, <3>1, <3>2
    <2>2. FlowInv'
      BY <1>3 DEF ResetBloom, Signal, FlowInv, Known, rows, history, pool, world
    <2> QED
      BY <2>1, <2>2
  <1>4. CASE UNCHANGED vars
    <2>1. TypeOK'
      BY <1>4 DEF vars, TypeOK, rows, history, pool, world
    <2>2. FlowInv'
      BY <1>4 DEF vars, FlowInv, Known, rows, history, pool, world
    <2> QED
      BY <2>1, <2>2
  <1> QED
    BY <1>1, <1>2, <1>3, <1>4

LEMMA FlowStep == TypeOK /\ FlowInv /\ [Next]_vars => TypeOK' /\ FlowInv'
  BY FlowTestBloom, FlowLookup, FlowSend, FlowAddBloom, FlowListCoupons, FlowReceive,
     FlowReceiveTimeout, FlowBatchAssign, FlowEndFallback, FlowTakeToken,
     FlowUpdateCoupon, FlowReserve, FlowCrash, FlowOther
     DEF Next, Handle, Work, Round

LEMMA FlowCorrect == Spec => [](TypeOK /\ FlowInv)
  BY FlowInit, FlowStep, PTL DEF Spec

\* The variables keep their types, the channels their capacity, and only
\* accepted users are forgotten (TypeOK).
THEOREM TypeCorrect == Spec => []TypeOK
  BY FlowCorrect, PTL

\* On whatever way a user got a coupon, with the batch statement, the fallback
\* or a lost reply, he had reserved and a server had accepted a request of his
\* (handleGrabRequest, BatchAssignCouponsToUsers, UpdateCoupon; OwnersReserved).
THEOREM OwnersHaveReserved == Spec => []OwnersReserved
  <1>1. FlowInv => OwnersReserved
    BY RowsAssumption DEF FlowInv, OwnersReserved, Owns, Known
  <1> QED
    BY <1>1, FlowCorrect, PTL

-----------------------------------------------------------------------------
(* The tokens of the work pool.                                            *)

\* The goroutines that hold a token.
RunningIn(w) == {c \in Coupons : w[c] = "running"}

\* A coupon's goroutine that begins or ends to run is one more or one less.
LEMMA RunningCount ==
    ASSUME NEW w, NEW c \in Coupons
    PROVE  /\ Cardinality(RunningIn(w)) \in Nat
           /\ \A v : RunningIn(v) = RunningIn(w) \cup {c} /\ c \notin RunningIn(w) =>
                        Cardinality(RunningIn(v)) = Cardinality(RunningIn(w)) + 1
           /\ \A v : RunningIn(v) = RunningIn(w) \ {c} /\ c \in RunningIn(w) =>
                        Cardinality(RunningIn(v)) = Cardinality(RunningIn(w)) - 1
  <1>1. IsFiniteSet(RunningIn(w))
    BY FS_Subset, SizesAssumption DEF RunningIn
  <1> QED
    BY <1>1, FS_CardinalityType, FS_AddElement, FS_RemoveElement

LEMMA NobodyRunning ==
    ASSUME NEW w, \A c \in Coupons : w[c] # "running"
    PROVE  Cardinality(RunningIn(w)) = 0
  <1>1. RunningIn(w) = {}
    BY DEF RunningIn
  <1> QED
    BY <1>1, FS_EmptySet

\* The conservation at one server.
PoolOK(n, w) == n + Cardinality(RunningIn(w)) = NumWorkers

LEMMA WorkersStep ==
    TypeOK /\ FlowInv /\ WorkersConserved /\ [Next]_vars => WorkersConserved'
  <1> SUFFICES ASSUME TypeOK, FlowInv, WorkersConserved, [Next]_vars, NEW t \in Servers
               PROVE  PoolOK(tokens'[t], worker'[t])
    BY DEF WorkersConserved, PoolOK, RunningIn
  <1>0. /\ PoolOK(tokens[t], worker[t]) /\ tokens[t] \in Nat /\ NumWorkers \in Nat
        /\ worker \in [Servers -> Workers] /\ tokens \in [Servers -> Nat]
    BY SizesAssumption DEF WorkersConserved, PoolOK, RunningIn, TypeOK, Workers
  <1>1. ASSUME NEW s \in Servers, NEW c \in Coupons, TakeToken(s, c)
        PROVE  PoolOK(tokens'[t], worker'[t])
    <2>1. CASE t # s
      BY <1>0, <1>1, <2>1 DEF TakeToken
    <2>2. CASE t = s /\ worker' = [worker EXCEPT ![s][c] = "running"]
                     /\ tokens' = [tokens EXCEPT ![s] = @ - 1]
      <3>1. /\ RunningIn(worker'[t]) = RunningIn(worker[t]) \cup {c}
            /\ c \notin RunningIn(worker[t])
        BY <1>0, <1>1, <2>2 DEF TakeToken, RunningIn, Workers
      <3>2. tokens'[t] = tokens[t] - 1
        BY <1>0, <2>2
      <3>3. /\ Cardinality(RunningIn(worker[t])) \in Nat
            /\ Cardinality(RunningIn(worker'[t])) = Cardinality(RunningIn(worker[t])) + 1
        BY <3>1, RunningCount
      <3> QED
        BY <1>0, <3>2, <3>3 DEF PoolOK
    <2>3. CASE t = s /\ worker' = [worker EXCEPT ![s][c] = "none"] /\ UNCHANGED tokens
      <3>1. RunningIn(worker'[t]) = RunningIn(worker[t])
        BY <1>0, <1>1, <2>3 DEF TakeToken, RunningIn, Workers
      <3> QED
        BY <1>0, <2>3, <3>1 DEF PoolOK
    <2> QED
      BY <1>1, <2>1, <2>2, <2>3 DEF TakeToken
  <1>2. ASSUME NEW s \in Servers, NEW c \in Coupons, UpdateCoupon(s, c)
        PROVE  PoolOK(tokens'[t], worker'[t])
    <2>0. /\ worker[s][c] = "running" /\ worker' = [worker EXCEPT ![s][c] = "none"]
          /\ tokens' = [tokens EXCEPT ![s] = @ + 1]
      BY <1>2 DEF UpdateCoupon, TokensAfter
    <2>1. CASE t # s
      BY <1>0, <2>0, <2>1
    <2>2. CASE t = s
      <3>1. /\ RunningIn(worker'[t]) = RunningIn(worker[t]) \ {c}
            /\ c \in RunningIn(worker[t])
        BY <1>0, <2>0, <2>2 DEF RunningIn, Workers
      <3>2. tokens'[t] = tokens[t] + 1
        BY <1>0, <2>0, <2>2
      <3>3. /\ Cardinality(RunningIn(worker[t])) \in Nat
            /\ Cardinality(RunningIn(worker'[t])) = Cardinality(RunningIn(worker[t])) - 1
        BY <3>1, RunningCount
      <3> QED
        BY <1>0, <3>2, <3>3 DEF PoolOK
    <2> QED
      BY <2>1, <2>2
  <1>3. ASSUME NEW s \in Servers, BatchAssign(s)
        PROVE  PoolOK(tokens'[t], worker'[t])
    <2>1. CASE worker' = worker \/ t # s
      BY <1>0, <1>3, <2>1 DEF BatchAssign
    <2>2. CASE worker' # worker /\ t = s
      <3>1. \A c \in Coupons : worker[t][c] # "running"
        BY <1>3, <2>2 DEF BatchAssign, FlowInv, Clean
      <3>2. \A c \in Coupons : worker'[t][c] # "running"
        <4>1. PICK p : worker' = [worker EXCEPT ![s] = [c \in Coupons |->
                                    IF p[c] # NoUser THEN "waiting" ELSE "none"]]
          BY <1>3, <2>2, Zenon DEF BatchAssign
        <4> QED
          BY <1>0, <2>2, <4>1
      <3>3. tokens' = tokens
        BY <1>3 DEF BatchAssign
      <3> QED
        BY <1>0, <3>1, <3>2, <3>3, NobodyRunning DEF PoolOK
    <2> QED
      BY <2>1, <2>2
  <1>4. ASSUME NEW s \in Servers, Crash(s) PROVE PoolOK(tokens'[t], worker'[t])
    <2>1. CASE t # s
      BY <1>0, <1>4, <2>1 DEF Crash
    <2>2. CASE t = s
      <3>1. tokens'[t] = NumWorkers /\ \A c \in Coupons : worker'[t][c] # "running"
        BY <1>0, <1>4, <2>2 DEF Crash
      <3>2. Cardinality(RunningIn(worker'[t])) = 0
        BY <3>1, NobodyRunning
      <3> QED
        BY <1>0, <3>1, <3>2 DEF PoolOK
    <2> QED
      BY <2>1, <2>2
  <1>5. CASE UNCHANGED pool
    BY <1>0, <1>5 DEF pool
  <1>6. \/ UNCHANGED pool
        \/ \E s \in Servers : BatchAssign(s) \/ Crash(s) \/ \E c \in Coupons : Work(s, c)
    BY DEF Next, vars, pool, Reserve, IssueCoupons, Expire, ClockTick, TestBloom, Handle,
           Lookup, Send, AddBloom, ListCoupons, Round, Receive, ReceiveTimeout,
           EndFallback, ResetBloom, Signal
  <1> QED
    BY <1>1, <1>2, <1>3, <1>4, <1>5, <1>6 DEF Work

\* No failed, abandoned or crashed update keeps a token of the pool, for every
\* size of the pool (fallbackUpdateCouponsForWinners; WorkersConserved).
THEOREM TokensConserved == Spec => []WorkersConserved
  <1>1. Init => WorkersConserved
    <2> SUFFICES ASSUME Init, NEW s \in Servers PROVE PoolOK(tokens[s], worker[s])
      BY DEF WorkersConserved, PoolOK, RunningIn
    <2>1. tokens[s] = NumWorkers /\ \A c \in Coupons : worker[s][c] # "running"
      BY DEF Init
    <2> QED
      BY <2>1, NobodyRunning, SizesAssumption DEF PoolOK
  <1> QED
    BY <1>1, WorkersStep, FlowCorrect, PTL DEF Spec

-----------------------------------------------------------------------------
(* How often a user is accepted while the filter is not cleared.           *)

\* The handlers that have passed the filter test for the user, and those of
\* them whose request was accepted and is not yet in the filter.
At(rs, s, u) == {q \in Requests : rs[q].server = s /\ rs[q].user = u}
Passing(rs, s, u) == {q \in At(rs, s, u) : rs[q].pc \in {"lookup", "send"}}
Adding(rs, s, u) == {q \in At(rs, s, u) : rs[q].pc = "add"}

NumPassing(rs, s, u) == Cardinality(Passing(rs, s, u))
NumAdding(rs, s, u) == Cardinality(Adding(rs, s, u))

\* While the user is not in the filter, only the handlers about to add him have
\* been accepted; afterwards only those on their way can be.
DupOK(filter, n, rs, s, u) ==
    IF Test(filter, u) THEN n + NumPassing(rs, s, u) <= Cardinality(Requests)
                       ELSE n <= NumAdding(rs, s, u)

DupInv ==
    \A s \in Servers, u \in Users : DupOK(bloom[s], accepted[s][u], req, s, u)

\* The handlers of a user are finitely many, in two disjoint sets.
LEMMA HandlerCount ==
    ASSUME NEW rs, NEW s, NEW u
    PROVE  /\ NumPassing(rs, s, u) \in Nat /\ NumAdding(rs, s, u) \in Nat
           /\ Cardinality(Requests) \in Nat
           /\ NumPassing(rs, s, u) + NumAdding(rs, s, u) <= Cardinality(Requests)
           /\ IsFiniteSet(Passing(rs, s, u)) /\ IsFiniteSet(Adding(rs, s, u))
  <1> DEFINE P == Passing(rs, s, u)
             A == Adding(rs, s, u)
  <1>1. P \cup A \in SUBSET Requests /\ P \cap A = {} /\ P \in SUBSET Requests /\ A \in SUBSET Requests
    BY DEF Passing, Adding, At
  <1> HIDE DEF P, A
  <1>2. IsFiniteSet(P) /\ IsFiniteSet(A)
    BY <1>1, FS_Subset, SizesAssumption
  <1>3. Cardinality(P \cup A) = Cardinality(P) + Cardinality(A) - 0
    BY <1>1, <1>2, FS_Union, FS_EmptySet
  <1>4. Cardinality(P \cup A) <= Cardinality(Requests)
    BY <1>1, FS_Subset, SizesAssumption
  <1>5. Cardinality(P) \in Nat /\ Cardinality(A) \in Nat /\ Cardinality(Requests) \in Nat
    BY <1>2, FS_CardinalityType, SizesAssumption
  <1> QED
    BY <1>2, <1>3, <1>4, <1>5 DEF P, A, NumPassing, NumAdding

\* A user whose handlers did not move, and a filter that may have grown.
LEMMA DupFrame ==
    ASSUME NEW f, NEW g, f \subseteq g, NEW n \in Nat, NEW rs, NEW qs, NEW s, NEW u,
           DupOK(f, n, rs, s, u),
           Passing(qs, s, u) \subseteq Passing(rs, s, u),
           Adding(qs, s, u) = Adding(rs, s, u)
    PROVE  DupOK(g, n, qs, s, u)
  <1>1. /\ NumPassing(qs, s, u) \in Nat /\ NumPassing(rs, s, u) \in Nat
        /\ NumPassing(qs, s, u) <= NumPassing(rs, s, u)
        /\ NumAdding(qs, s, u) = NumAdding(rs, s, u) /\ NumAdding(rs, s, u) \in Nat
        /\ NumPassing(rs, s, u) + NumAdding(rs, s, u) <= Cardinality(Requests)
        /\ Cardinality(Requests) \in Nat
    <2>1. Passing(qs, s, u) \in SUBSET Passing(rs, s, u)
      OBVIOUS
    <2>2. NumPassing(qs, s, u) <= NumPassing(rs, s, u)
      BY <2>1, HandlerCount, FS_Subset DEF NumPassing
    <2> QED
      BY <2>2, HandlerCount DEF NumAdding
  <1>2. Test(f, u) => Test(g, u)
    BY DEF Test
  <1>3. CASE Test(f, u)
    BY <1>1, <1>2, <1>3 DEF DupOK
  <1>4. CASE ~ Test(f, u) /\ Test(g, u)
    BY <1>1, <1>4 DEF DupOK
  <1>5. CASE ~ Test(g, u)
    BY <1>1, <1>2, <1>5 DEF DupOK
  <1> QED
    BY <1>3, <1>4, <1>5

LEMMA DupStep == TypeOK /\ FlowInv /\ DupInv /\ [Next]_vars => DupInv'
  <1> SUFFICES ASSUME TypeOK, FlowInv, DupInv, [Next]_vars,
                      NEW t \in Servers, NEW v \in Users
               PROVE  DupOK(bloom'[t], accepted'[t][v], req', t, v)
    BY DEF DupInv
  <1>0. /\ DupOK(bloom[t], accepted[t][v], req, t, v) /\ accepted[t][v] \in Nat
        /\ req \in [Requests -> Handlers]
        /\ accepted \in [Servers -> [Users -> Nat]] /\ bloom \in [Servers -> SUBSET Bits]
    BY DEF DupInv, TypeOK
  <1>1. ASSUME NEW q \in Requests, NEW s \in Servers, NEW u \in Users, TestBloom(q, s, u)
        PROVE  DupOK(bloom'[t], accepted'[t][v], req', t, v)
    <2>0. bloom' = bloom /\ accepted' = accepted
      BY <1>1 DEF TestBloom, history
    <2>1. req' = [req EXCEPT ![q] = [pc |-> "lookup", server |-> s, user |-> u]]
      BY <1>1 DEF TestBloom
    <2>2. Adding(req', t, v) = Adding(req, t, v)
      BY <1>0, <1>1, <2>1 DEF TestBloom, Adding, At
    <2>3. CASE t = s /\ v = u
      <3>1. ~ Test(bloom[t], v)
        BY <1>1, <2>3 DEF TestBloom
      <3> QED
        BY <1>0, <2>0, <2>2, <3>1 DEF DupOK, NumAdding
    <2>4. CASE ~ (t = s /\ v = u)
      <3>1. Passing(req', t, v) \subseteq Passing(req, t, v)
        BY <1>0, <2>1, <2>4 DEF Passing, At
      <3> QED
        BY <1>0, <2>0, <2>2, <3>1, DupFrame
    <2> QED
      BY <2>3, <2>4
  <1>2. ASSUME NEW q \in Requests, Lookup(q)
        PROVE  DupOK(bloom'[t], accepted'[t][v], req', t, v)
    <2>0. bloom' = bloom /\ accepted' = accepted
      BY <1>2 DEF Lookup, history
    <2>1. \/ req' = [req EXCEPT ![q] = [req[q] EXCEPT !.pc = "send"]]
          \/ req' = [req EXCEPT ![q] = NoRequest]
      BY <1>2 DEF Lookup
    <2>2. req[q] \in Handlers /\ req[q].pc = "lookup"
      BY <1>0, <1>2 DEF Lookup
    <2>3. /\ Passing(req', t, v) \subseteq Passing(req, t, v)
          /\ Adding(req', t, v) = Adding(req, t, v)
      <3> DEFINE sending == [req[q] EXCEPT !.pc = "send"]
      <3>1. /\ sending.pc = "send" /\ sending.server = req[q].server
            /\ sending.user = req[q].user
        BY <2>2, HandlerType
      <3> HIDE DEF sending
      <3>2. CASE req' = [req EXCEPT ![q] = sending]
        BY <1>0, <2>2, <3>1, <3>2 DEF Passing, Adding, At
      <3>3. CASE req' = [req EXCEPT ![q] = NoRequest]
        BY <1>0, <2>2, <3>3, NoRequestType DEF Passing, Adding, At
      <3> QED
        BY <2>1, <3>2, <3>3 DEF sending
    <2> QED
      BY <1>0, <2>0, <2>3, DupFrame
  <1>3. ASSUME NEW q \in Requests, Send(q)
        PROVE  DupOK(bloom'[t], accepted'[t][v], req', t, v)
    <2> DEFINE s == req[q].server
               u == req[q].user
               adding == [req[q] EXCEPT !.pc = "add"]
    <2>0. bloom' = bloom /\ req[q].pc = "send" /\ req[q] \in Handlers
      BY <1>0, <1>3 DEF Send
    <2>1. s \in Servers /\ u \in Users
      BY <2>0 DEF FlowInv, ReqOK, Handlers
    <2>2. adding.pc = "add" /\ adding.server = s /\ adding.user = u
      BY <2>0, HandlerType
    <2>3. CASE Room(s)
      <3>1. /\ accepted' = [accepted EXCEPT ![s][u] =
                              IF @ > Cardinality(Requests) THEN @ ELSE @ + 1]
            /\ req' = [req EXCEPT ![q] = adding]
        BY <1>3, <2>3 DEF Send
      <3> HIDE DEF s, u, adding
      <3>2. CASE t = s /\ v = u
        <4>1. accepted'[t][v] \in Nat /\ accepted'[t][v] <= accepted[t][v] + 1
          BY <1>0, <2>1, <3>1, <3>2, HandlerCount
        <4>2. /\ Passing(req', t, v) = Passing(req, t, v) \ {q}
              /\ Adding(req', t, v) = Adding(req, t, v) \cup {q}
              /\ q \in Passing(req, t, v) /\ q \notin Adding(req, t, v)
          BY <1>0, <2>0, <2>2, <3>1, <3>2 DEF Passing, Adding, At, s, u
        <4>3. /\ NumPassing(req', t, v) = NumPassing(req, t, v) - 1
              /\ NumAdding(req', t, v) = NumAdding(req, t, v) + 1
          <5>1. IsFiniteSet(Passing(req, t, v)) /\ IsFiniteSet(Adding(req, t, v))
            BY HandlerCount
          <5>2. Cardinality(Passing(req, t, v) \ {q}) = Cardinality(Passing(req, t, v)) - 1
            BY <4>2, <5>1, FS_RemoveElement
          <5>3. Cardinality(Adding(req, t, v) \cup {q}) = Cardinality(Adding(req, t, v)) + 1
            BY <4>2, <5>1, FS_AddElement
          <5> QED
            BY <4>2, <5>2, <5>3 DEF NumPassing, NumAdding
        <4>4. NumPassing(req, t, v) \in Nat /\ NumAdding(req, t, v) \in Nat
              /\ Cardinality(Requests) \in Nat
          BY HandlerCount
        <4> QED
          BY <1>0, <2>0, <4>1, <4>3, <4>4 DEF DupOK
      <3>3. CASE ~ (t = s /\ v = u)
        <4>1. accepted'[t][v] = accepted[t][v]
          BY <1>0, <2>1, <3>1, <3>3
        <4>2. /\ Passing(req', t, v) \subseteq Passing(req, t, v)
              /\ Adding(req', t, v) = Adding(req, t, v)
          BY <1>0, <2>0, <2>2, <3>1, <3>3 DEF Passing, Adding, At, s, u
        <4> QED
          BY <1>0, <2>0, <4>1, <4>2, DupFrame
      <3> QED
        BY <3>2, <3>3
    <2>4. CASE ~ Room(s)
      <3>1. accepted' = accepted /\ req' = [req EXCEPT ![q] = NoRequest]
        BY <1>3, <2>4 DEF Send, history
      <3>2. /\ Passing(req', t, v) \subseteq Passing(req, t, v)
            /\ Adding(req', t, v) = Adding(req, t, v)
        BY <1>0, <2>0, <3>1, NoRequestType DEF Passing, Adding, At
      <3> QED
        BY <1>0, <2>0, <3>1, <3>2, DupFrame
    <2> QED
      BY <2>3, <2>4
  <1>4. ASSUME NEW q \in Requests, AddBloom(q)
        PROVE  DupOK(bloom'[t], accepted'[t][v], req', t, v)
    <2> DEFINE s == req[q].server
               u == req[q].user
    <2>0. /\ accepted' = accepted /\ req[q].pc = "add" /\ req[q] \in Handlers
          /\ req' = [req EXCEPT ![q] = NoRequest]
      BY <1>0, <1>4 DEF AddBloom, history
    <2>1. bloom[t] \subseteq bloom'[t]
      BY <1>0, <1>4 DEF AddBloom, FilterAfterSend, Add
    <2>2. Passing(req', t, v) \subseteq Passing(req, t, v)
      BY <1>0, <2>0, NoRequestType DEF Passing, At
    <2>3. CASE t = s /\ v = u
      <3>1. Test(bloom'[t], v)
        BY <1>0, <1>4, <2>3 DEF AddBloom, FilterAfterSend, Add, Test
      <3>2. NumPassing(req', t, v) <= NumPassing(req, t, v)
        <4>1. Passing(req', t, v) \in SUBSET Passing(req, t, v)
          BY <2>2
        <4> QED
          BY <4>1, HandlerCount, FS_Subset DEF NumPassing
      <3>3. /\ NumPassing(req, t, v) \in Nat /\ NumAdding(req, t, v) \in Nat
            /\ NumPassing(req', t, v) \in Nat /\ Cardinality(Requests) \in Nat
            /\ NumPassing(req, t, v) + NumAdding(req, t, v) <= Cardinality(Requests)
        BY HandlerCount
      <3> QED
        BY <1>0, <2>0, <3>1, <3>2, <3>3 DEF DupOK
    <2>4. CASE ~ (t = s /\ v = u)
      <3>1. Adding(req', t, v) = Adding(req, t, v)
        BY <1>0, <2>0, <2>4, NoRequestType DEF Adding, At
      <3> QED
        BY <1>0, <2>0, <2>1, <2>2, <3>1, DupFrame
    <2> QED
      BY <2>3, <2>4
  <1>5. ASSUME NEW s \in Servers, ResetBloom(s) \/ Crash(s)
        PROVE  DupOK(bloom'[t], accepted'[t][v], req', t, v)
    <2>1. CASE t = s
      <3>1. accepted'[t][v] = 0 /\ bloom'[t] = {}
        BY <1>0, <1>5, <2>1 DEF ResetBloom, Crash, NothingAccepted, Cleared
      <3>2. ~ Test(bloom'[t], v)
        BY <3>1, HashAssumption DEF Test
      <3> QED
        BY <3>1, <3>2, HandlerCount DEF DupOK
    <2>2. CASE t # s
      <3>1. accepted'[t] = accepted[t] /\ bloom'[t] = bloom[t]
        BY <1>0, <1>5, <2>2 DEF ResetBloom, Crash
      <3>2. /\ Passing(req', t, v) \subseteq Passing(req, t, v)
            /\ Adding(req', t, v) = Adding(req, t, v)
        <4>1. \A q \in Requests :
                req'[q] = req[q] \/ (req[q].server # t /\ req'[q].pc = "idle")
          <5>1. CASE ResetBloom(s)
            BY <5>1 DEF ResetBloom
          <5>2. CASE Crash(s)
            BY <2>2, <5>2, NoRequestType DEF Crash
          <5> QED
            BY <1>5, <5>1, <5>2
        <4>2. \A q \in Requests : req'[q] # req[q] => req[q].server = s
          BY <1>0, <1>5 DEF ResetBloom, Crash
        <4> QED
          BY <2>2, <4>1, <4>2 DEF Passing, Adding, At
      <3> QED
        BY <1>0, <3>1, <3>2, DupFrame
    <2> QED
      BY <2>1, <2>2
  <1>6. CASE UNCHANGED <<req, bloom, accepted>>
    BY <1>0, <1>6
  <1>7. \/ UNCHANGED <<req, bloom, accepted>>
        \/ \E q \in Requests, s \in Servers, u \in Users : TestBloom(q, s, u)
        \/ \E q \in Requests : Handle(q)
        \/ \E s \in Servers : ResetBloom(s) \/ Crash(s)
    <2>1. ASSUME NEW s \in Servers, ListCoupons(s) \/ Round(s) \/ Signal(s)
          PROVE  UNCHANGED <<req, bloom, accepted>>
      BY <2>1 DEF history, ListCoupons, Round, Receive, ReceiveTimeout, BatchAssign,
             EndFallback, Signal
    <2>2. ASSUME NEW s \in Servers, NEW c \in Coupons, Work(s, c)
          PROVE  UNCHANGED <<req, bloom, accepted>>
      BY <2>2 DEF Work, TakeToken, UpdateCoupon
    <2>3. \/ \E u \in Users : Reserve(u)
          \/ \E S \in SUBSET Coupons : IssueCoupons(S)
          \/ \E c \in Coupons : Expire(c)
          \/ ClockTick \/ UNCHANGED vars
          => UNCHANGED <<req, bloom, accepted>>
      BY DEF Reserve, IssueCoupons, Expire, ClockTick, vars, history
    <2> QED
      BY <2>1, <2>2, <2>3, Zenon DEF Next
  <1> QED
    BY <1>1, <1>2, <1>3, <1>4, <1>5, <1>6, <1>7 DEF Handle

\* Between two clearings of its filter a server accepts no more requests of a
\* user than it has handlers, for any number of them and however the clearing
\* falls between their steps (handleGrabRequest; DuplicatesBounded).
THEOREM DuplicatesAreBounded == Spec => []DuplicatesBounded
  <1>1. Init => DupInv
    <2> SUFFICES ASSUME Init, NEW s \in Servers, NEW u \in Users
                 PROVE  DupOK(bloom[s], accepted[s][u], req, s, u)
      BY DEF DupInv
    <2>1. accepted[s][u] = 0 /\ ~ Test(bloom[s], u)
      BY HashAssumption DEF Init, NothingAccepted, Cleared, Test
    <2> QED
      BY <2>1, HandlerCount DEF DupOK
  <1>2. TypeOK /\ DupInv => DuplicatesBounded
    <2> SUFFICES ASSUME TypeOK, DupInv, NEW s \in Servers, NEW u \in Users
                 PROVE  accepted[s][u] <= Cardinality(Requests)
      BY DEF DuplicatesBounded
    <2>1. DupOK(bloom[s], accepted[s][u], req, s, u) /\ accepted[s][u] \in Nat
      BY DEF DupInv, TypeOK
    <2> QED
      BY <2>1, HandlerCount DEF DupOK
  <1> QED
    BY <1>1, <1>2, DupStep, FlowCorrect, PTL DEF Spec

-----------------------------------------------------------------------------
(* The coupons that are sold, listed or paired have been issued.           *)

\* The coupons of a round are issued.
RoundIssued(g, st) ==
    \A c \in Coupons : c \in g.coupons \/ g.pairs[c] # NoUser => st[c] # "unissued"

StockInv ==
    /\ \A c \in Coupons : owner[c] # NoUser => status[c] # "unissued"
    /\ \A s \in Servers : RoundIssued(grabber[s], status)

LEMMA StockInit == Init => StockInv
  BY NoRoundType DEF Init, StockInv, RoundIssued

\* A coupon that was issued stays so.
LEMMA StatusOnward ==
    ASSUME TypeOK, [Next]_vars, NEW c \in Coupons, status[c] # "unissued"
    PROVE  status'[c] # "unissued"
  <1>1. ASSUME NEW S \in SUBSET Coupons, IssueCoupons(S) PROVE status'[c] # "unissued"
    BY <1>1 DEF IssueCoupons
  <1>2. ASSUME NEW d \in Coupons, Expire(d) PROVE status'[c] # "unissued"
    BY <1>2 DEF Expire, TypeOK
  <1>3. CASE status' = status
    BY <1>3
  <1>4. \/ status' = status
        \/ \E S \in SUBSET Coupons : IssueCoupons(S)
        \/ \E d \in Coupons : Expire(d)
    <2>1. ASSUME NEW s \in Servers,
                 \/ ListCoupons(s) \/ Round(s) \/ ResetBloom(s) \/ Signal(s) \/ Crash(s)
          PROVE  status' = status
      BY <2>1 DEF rows, ListCoupons, Round, Receive, ReceiveTimeout, BatchAssign,
             EndFallback, ResetBloom, Signal, Crash
    <2>2. ASSUME NEW s \in Servers, NEW d \in Coupons, Work(s, d) PROVE status' = status
      BY <2>2 DEF Work, TakeToken, UpdateCoupon, rows
    <2>3. ASSUME NEW q \in Requests, Handle(q) PROVE status' = status
      BY <2>3 DEF Handle, Lookup, Send, AddBloom, rows
    <2>4. \/ \E u \in Users : Reserve(u)
          \/ \E q \in Requests, s \in Servers, u \in Users : TestBloom(q, s, u)
          \/ ClockTick \/ UNCHANGED vars
          => status' = status
      BY DEF Reserve, TestBloom, ClockTick, vars, rows
    <2> QED
      BY <2>1, <2>2, <2>3, <2>4, Zenon DEF Next
  <1> QED
    BY <1>1, <1>2, <1>3, <1>4

\* The round of one server changed, and so did the owners.
LEMMA StockMoves ==
    ASSUME TypeOK, StockInv, [Next]_vars, NEW s \in Servers,
           NEW g, grabber' = [grabber EXCEPT ![s] = g], RoundIssued(g, status),
           \A c \in Coupons : owner'[c] # NoUser => status[c] # "unissued"
    PROVE  StockInv'
  <1>1. \A c \in Coupons : status[c] # "unissued" => status'[c] # "unissued"
    BY StatusOnward
  <1>2. ASSUME NEW t \in Servers PROVE RoundIssued(grabber'[t], status)
    BY DEF StockInv, TypeOK
  <1>3. ASSUME NEW t \in Servers PROVE RoundIssued(grabber'[t], status')
    BY <1>1, <1>2 DEF RoundIssued
  <1> QED
    BY <1>1, <1>3 DEF StockInv

LEMMA StockStep == TypeOK /\ FlowInv /\ StockInv /\ [Next]_vars => StockInv'
  <1> SUFFICES ASSUME TypeOK, FlowInv, StockInv, [Next]_vars
               PROVE  StockInv'
    OBVIOUS
  <1>0. /\ \A s \in Servers : RoundIssued(grabber[s], status) /\ grabber[s] \in Rounds
        /\ \A c \in Coupons : owner[c] # NoUser => status[c] # "unissued"
        /\ owner \in [Coupons -> Users \cup {NoUser}]
    BY DEF StockInv, TypeOK
  <1>1. RoundIssued(NoRound, status)
    BY NoRoundType DEF RoundIssued
  <1>2. ASSUME NEW s \in Servers, ListCoupons(s) PROVE StockInv'
    <2> DEFINE S == IF grabber[s].coupons = {} THEN Available ELSE grabber[s].coupons
    <2>1. grabber' = [grabber EXCEPT ![s] = Listed(S)] /\ owner' = owner
      BY <1>2 DEF ListCoupons, Listed, rows
    <2>2. \A c \in Coupons : c \in S => status[c] # "unissued"
      BY <1>0 DEF Available, RoundIssued
    <2>3. S \in SUBSET Coupons
      BY <1>0 DEF Available, Rounds
    <2> HIDE DEF S
    <2>4. RoundIssued(Listed(S), status)
      BY <2>2, <2>3, ListedType DEF RoundIssued
    <2> QED
      BY <1>0, <2>1, <2>4, StockMoves
  <1>3. ASSUME NEW s \in Servers, Receive(s) PROVE StockInv'
    <2> DEFINE p == IF grabber[s].count + 1 = Cardinality(grabber[s].coupons)
                    THEN "assign" ELSE "receive"
               g == [grabber[s] EXCEPT !.count = grabber[s].count + 1,
                       !.received = grabber[s].received \cup {Head(chan[s])}, !.pc = p]
    <2>1. grabber' = [grabber EXCEPT ![s] = g] /\ owner' = owner
      BY <1>3 DEF Receive, rows
    <2>2. g.coupons = grabber[s].coupons /\ g.pairs = grabber[s].pairs
      BY <1>0 DEF Rounds
    <2> HIDE DEF g
    <2>3. RoundIssued(g, status)
      BY <1>0, <2>2 DEF RoundIssued
    <2> QED
      BY <1>0, <2>1, <2>3, StockMoves
  <1>4. ASSUME NEW s \in Servers, ReceiveTimeout(s) PROVE StockInv'
    <2>1. /\ grabber' = [grabber EXCEPT ![s] = NoRound]
                \/ grabber' = [grabber EXCEPT ![s] = Assigning(grabber[s])]
          /\ owner' = owner
      BY <1>4 DEF ReceiveTimeout, AfterRound, Assigning, rows
    <2>2. RoundIssued(Assigning(grabber[s]), status)
      BY <1>0, AssigningType DEF RoundIssued
    <2> QED
      BY <1>0, <1>1, <2>1, <2>2, StockMoves
  <1>5. ASSUME NEW s \in Servers, BatchAssign(s) PROVE StockInv'
    <2>1. PICK p \in Pairings(grabber[s].coupons, grabber[s].received) :
            /\ \/ owner' = owner
               \/ owner' = [c \in Coupons |-> IF c \in Updated(p) THEN p[c] ELSE owner[c]]
            /\ \/ grabber' = [grabber EXCEPT ![s] = AfterRound(@)]
               \/ grabber' = [grabber EXCEPT ![s] = Failed(@, p)]
      BY <1>5, Zenon DEF BatchAssign, Failed
    <2>2. /\ \A c \in Coupons : p[c] # NoUser => c \in grabber[s].coupons
          /\ p \in [Coupons -> Users \cup {NoUser}]
      <3>1. p \in Pairings(grabber[s].coupons, grabber[s].received)
        BY <2>1
      <3>2. \A c \in Coupons : p[c] # NoUser => c \in grabber[s].coupons
        BY <3>1, PairingsWithin
      <3>3. p \in [Coupons -> grabber[s].received \cup {NoUser}]
        BY <3>1, PairingsType
      <3>4. grabber[s].received \subseteq Users
        BY <1>0 DEF Rounds
      <3> QED
        BY <3>2, <3>3, <3>4
    <2>3. \A c \in Coupons : p[c] # NoUser => status[c] # "unissued"
      BY <1>0, <2>2 DEF RoundIssued
    <2>4. \A c \in Coupons : owner'[c] # NoUser => status[c] # "unissued"
      BY <1>0, <2>1, <2>3 DEF Updated
    <2>5. RoundIssued(Failed(grabber[s], p), status)
      BY <1>0, <2>2, <2>3, FailedType DEF RoundIssued
    <2>6. CASE grabber' = [grabber EXCEPT ![s] = NoRound]
      BY <1>1, <2>4, <2>6, StockMoves
    <2>7. CASE grabber' = [grabber EXCEPT ![s] = Failed(grabber[s], p)]
      BY <2>4, <2>5, <2>7, StockMoves
    <2> QED
      BY <2>1, <2>6, <2>7 DEF AfterRound
  <1>6. ASSUME NEW s \in Servers, EndFallback(s) \/ Crash(s) PROVE StockInv'
    <2>1. grabber' = [grabber EXCEPT ![s] = NoRound] /\ owner' = owner
      BY <1>6 DEF EndFallback, Crash, AfterRound, rows
    <2> QED
      BY <1>0, <1>1, <2>1, StockMoves
  <1>7. ASSUME NEW s \in Servers, NEW c \in Coupons, UpdateCoupon(s, c) PROVE StockInv'
    <2>1. worker[s][c] # "none" /\ grabber' = grabber
          /\ (owner' = owner \/ owner' = [owner EXCEPT ![c] = grabber[s].pairs[c]])
      BY <1>7 DEF UpdateCoupon
    <2>2. grabber[s].pairs[c] # NoUser
      BY <2>1 DEF FlowInv, Clean
    <2>3. status[c] # "unissued"
      BY <1>0, <2>2 DEF RoundIssued
    <2>4. \A d \in Coupons : owner'[d] # NoUser => status[d] # "unissued"
      BY <1>0, <2>1, <2>3
    <2>5. grabber' = [grabber EXCEPT ![s] = grabber[s]]
      BY <2>1 DEF TypeOK
    <2> QED
      BY <1>0, <2>4, <2>5, StockMoves
  <1>8. CASE UNCHANGED <<grabber, owner>>
    <2>1. \A c \in Coupons : status[c] # "unissued" => status'[c] # "unissued"
      BY StatusOnward
    <2> QED
      BY <1>0, <1>8, <2>1 DEF StockInv, RoundIssued
  <1>9. \/ UNCHANGED <<grabber, owner>>
        \/ \E s \in Servers :
              \/ ListCoupons(s) \/ Receive(s) \/ ReceiveTimeout(s) \/ BatchAssign(s)
              \/ EndFallback(s) \/ Crash(s)
              \/ \E c \in Coupons : UpdateCoupon(s, c)
    BY DEF Next, vars, rows, pool, Reserve, IssueCoupons, Expire, ClockTick, TestBloom,
           Handle, Lookup, Send, AddBloom, Round, Work, TakeToken, ResetBloom, Signal
  <1> QED
    BY <1>2, <1>3, <1>4, <1>5, <1>6, <1>7, <1>8, <1>9

-----------------------------------------------------------------------------
(* What holds of a single server.                                          *)

\* The process is the only one that writes the owners.
OneServer == \A s, t \in Servers : s = t

\* Until they are assigned the coupons of a round have no owner, and after that
\* none but the one they are paired with.
RoundFree(g, o) ==
    /\ g.pc = "idle" => g.coupons = {}
    /\ g.pc \in {"receive", "assign"} => \A c \in g.coupons : o[c] = NoUser
    /\ g.pc = "fallback" =>
          \A c \in Coupons : g.pairs[c] # NoUser => o[c] \in {NoUser, g.pairs[c]}

FreeInv == \A s \in Servers : RoundFree(grabber[s], owner)

LEMMA FreeNoRound == \A o : RoundFree(NoRound, o)
  BY NoRoundType DEF RoundFree

\* What the batch statement may do to the owners.
LEMMA BatchEffect ==
    ASSUME TypeOK, FlowInv, NEW s \in Servers, BatchAssign(s),
           RoundFree(grabber[s], owner)
    PROVE  \E p \in [Coupons -> Users \cup {NoUser}] :
              /\ \A c \in Coupons : p[c] # NoUser => owner[c] = NoUser
              /\ \A u \in grabber[s].received : \E c \in Coupons : p[c] = u
              /\ \/ owner' = owner
                 \/ owner' = [c \in Coupons |-> IF p[c] # NoUser THEN p[c] ELSE owner[c]]
              /\ \/ /\ grabber' = [grabber EXCEPT ![s] = NoRound]
                    /\ worker' = worker
                    /\ owner' = [c \in Coupons |-> IF p[c] # NoUser THEN p[c] ELSE owner[c]]
                 \/ /\ grabber' = [grabber EXCEPT ![s] = Failed(@, p)]
                    /\ worker' = [worker EXCEPT ![s] = [c \in Coupons |->
                                    IF p[c] # NoUser THEN "waiting" ELSE "none"]]
  <1>1. /\ grabber[s].pc = "assign"
        /\ grabber[s].coupons \in SUBSET Coupons /\ grabber[s].received \in SUBSET Users
    BY DEF BatchAssign, TypeOK, Rounds
  <1>2. PICK p \in Pairings(grabber[s].coupons, grabber[s].received) :
          /\ \/ owner' = owner
             \/ owner' = [c \in Coupons |-> IF c \in Updated(p) THEN p[c] ELSE owner[c]]
          /\ \/ /\ grabber' = [grabber EXCEPT ![s] = AfterRound(@)]
                /\ UNCHANGED worker
                /\ owner' = [c \in Coupons |-> IF c \in Updated(p) THEN p[c] ELSE owner[c]]
             \/ /\ grabber' = [grabber EXCEPT ![s] = Failed(@, p)]
                /\ worker' = [worker EXCEPT ![s] = [c \in Coupons |->
                                IF p[c] # NoUser THEN "waiting" ELSE "none"]]
    BY Zenon DEF BatchAssign, Failed
  <1>3. /\ p \in [Coupons -> Users \cup {NoUser}]
        /\ \A c \in Coupons : p[c] # NoUser => c \in grabber[s].coupons
        /\ \A u \in grabber[s].received : \E c \in Coupons : p[c] = u
    <2>1. p \in Pairings(grabber[s].coupons, grabber[s].received)
      BY <1>2
    <2>2. \A u \in grabber[s].received : \E c \in Coupons : p[c] = u
      BY <2>1, PairingsServeAll
    <2>3. \A c \in Coupons : p[c] # NoUser => c \in grabber[s].coupons
      BY <2>1, PairingsWithin
    <2>4. p \in [Coupons -> grabber[s].received \cup {NoUser}]
      BY <2>1, PairingsType
    <2>5. p \in [Coupons -> Users \cup {NoUser}]
      BY <1>1, <2>4
    <2> QED
      BY <2>2, <2>3, <2>5
  <1>4. \A c \in Coupons : p[c] # NoUser => owner[c] = NoUser
    BY <1>1, <1>3 DEF RoundFree
  <1>5. \A c \in Coupons : c \in Updated(p) <=> p[c] # NoUser
    BY <1>4 DEF Updated
  <1>6. [c \in Coupons |-> IF c \in Updated(p) THEN p[c] ELSE owner[c]]
            = [c \in Coupons |-> IF p[c] # NoUser THEN p[c] ELSE owner[c]]
    BY <1>5
  <1> QED
    BY <1>2, <1>3, <1>4, <1>6, Zenon DEF AfterRound

\* What a single update may do to the owners.
LEMMA UpdateEffect ==
    ASSUME TypeOK, FlowInv, NEW s \in Servers, NEW c \in Coupons, UpdateCoupon(s, c),
           RoundFree(grabber[s], owner)
    PROVE  /\ grabber[s].pc = "fallback" /\ grabber[s].pairs[c] \in Users
           /\ owner[c] \in {NoUser, grabber[s].pairs[c]}
           /\ owner' = owner \/ owner' = [owner EXCEPT ![c] = grabber[s].pairs[c]]
           /\ grabber' = grabber
  <1>1. worker[s][c] # "none"
    BY DEF UpdateCoupon
  <1>2. grabber[s].pc = "fallback" /\ grabber[s].pairs[c] # NoUser
    BY <1>1 DEF FlowInv, Clean
  <1>3. grabber[s].pairs[c] \in Users
    BY <1>2 DEF TypeOK, Rounds
  <1>4. owner' = owner \/ owner' = [owner EXCEPT ![c] = grabber[s].pairs[c]]
    BY DEF UpdateCoupon
  <1> QED
    BY <1>2, <1>3, <1>4 DEF RoundFree, UpdateCoupon

LEMMA FreeStep ==
    ASSUME OneServer
    PROVE  TypeOK /\ FlowInv /\ FreeInv /\ [Next]_vars => FreeInv'
  <1> SUFFICES ASSUME TypeOK, FlowInv, FreeInv, [Next]_vars, NEW t \in Servers
               PROVE  RoundFree(grabber'[t], owner')
    BY DEF FreeInv
  <1>0. /\ RoundFree(grabber[t], owner) /\ grabber[t] \in Rounds
        /\ grabber \in [Servers -> Rounds] /\ owner \in [Coupons -> Users \cup {NoUser}]
    BY DEF FreeInv, TypeOK
  <1>1. CASE ListCoupons(t)
    <2>1. grabber[t].coupons = {}
      BY <1>0, <1>1 DEF ListCoupons, RoundFree
    <2>2. grabber' = [grabber EXCEPT ![t] = Listed(Available)] /\ owner' = owner
      BY <1>1, <2>1 DEF ListCoupons, Listed, rows
    <2>3. Available \in SUBSET Coupons /\ \A c \in Available : owner[c] = NoUser
      BY DEF Available
    <2>4. Listed(Available).pc = "receive" /\ Listed(Available).coupons = Available
      BY <2>3, ListedType
    <2> QED
      BY <1>0, <2>2, <2>3, <2>4 DEF RoundFree
  <1>2. CASE Receive(t)
    <2> DEFINE p == IF grabber[t].count + 1 = Cardinality(grabber[t].coupons)
                    THEN "assign" ELSE "receive"
    <2>1. /\ grabber'[t] = [grabber[t] EXCEPT !.count = grabber[t].count + 1,
                              !.received = grabber[t].received \cup {Head(chan[t])}, !.pc = p]
          /\ owner' = owner /\ grabber[t].pc = "receive"
      BY <1>0, <1>2 DEF Receive, rows
    <2>2. grabber'[t].coupons = grabber[t].coupons /\ grabber'[t].pc \in {"receive", "assign"}
      BY <1>0, <2>1 DEF Rounds
    <2> QED
      BY <1>0, <2>1, <2>2 DEF RoundFree
  <1>3. CASE ReceiveTimeout(t)
    <2>1. /\ grabber' = [grabber EXCEPT ![t] = NoRound]
                \/ grabber' = [grabber EXCEPT ![t] = Assigning(@)]
          /\ owner' = owner /\ grabber[t].pc = "receive"
      BY <1>3 DEF ReceiveTimeout, AfterRound, Assigning, rows
    <2>2. Assigning(grabber[t]).pc = "assign" /\ Assigning(grabber[t]).coupons = grabber[t].coupons
      BY <1>0, AssigningType
    <2> QED
      BY <1>0, <2>1, <2>2, FreeNoRound DEF RoundFree
  <1>4. CASE BatchAssign(t)
    <2>1. PICK p \in [Coupons -> Users \cup {NoUser}] :
              /\ \A c \in Coupons : p[c] # NoUser => owner[c] = NoUser
              /\ \/ owner' = owner
                 \/ owner' = [c \in Coupons |-> IF p[c] # NoUser THEN p[c] ELSE owner[c]]
              /\ \/ grabber' = [grabber EXCEPT ![t] = NoRound]
                 \/ grabber' = [grabber EXCEPT ![t] = Failed(@, p)]
      BY <1>0, <1>4, BatchEffect, Zenon
    <2>2. \A c \in Coupons : p[c] # NoUser => owner'[c] \in {NoUser, p[c]}
      BY <2>1
    <2>3. Failed(grabber[t], p).pc = "fallback" /\ Failed(grabber[t], p).pairs = p
      BY <1>0, <2>1, FailedType
    <2>4. RoundFree(Failed(grabber[t], p), owner')
      BY <2>2, <2>3 DEF RoundFree
    <2> QED
      BY <1>0, <2>1, <2>4, FreeNoRound
  <1>5. ASSUME NEW c \in Coupons, UpdateCoupon(t, c)
        PROVE  RoundFree(grabber'[t], owner')
    BY <1>0, <1>5, UpdateEffect DEF RoundFree
  <1>6. CASE EndFallback(t) \/ Crash(t)
    <2>1. grabber' = [grabber EXCEPT ![t] = NoRound]
      BY <1>6 DEF EndFallback, Crash, AfterRound
    <2> QED
      BY <1>0, <2>1, FreeNoRound
  <1>7. CASE UNCHANGED <<grabber, owner>>
    BY <1>0, <1>7
  <1>8. \/ UNCHANGED <<grabber, owner>>
        \/ ListCoupons(t) \/ Receive(t) \/ ReceiveTimeout(t) \/ BatchAssign(t)
        \/ EndFallback(t) \/ Crash(t)
        \/ \E c \in Coupons : UpdateCoupon(t, c)
    <2>1. \A s \in Servers : s = t
      BY DEF OneServer
    <2> QED
      BY <2>1 DEF Next, vars, rows, pool, Reserve, IssueCoupons, Expire, ClockTick, TestBloom,
             Handle, Lookup, Send, AddBloom, Round, Work, TakeToken, ResetBloom, Signal
  <1> QED
    BY <1>1, <1>2, <1>3, <1>4, <1>5, <1>6, <1>7, <1>8

LEMMA FreeCorrect ==
    ASSUME OneServer
    PROVE  Spec => [](TypeOK /\ FlowInv /\ FreeInv)
  <1>1. Init => FreeInv
    BY FreeNoRound DEF Init, FreeInv
  <1>2. TypeOK /\ FlowInv /\ FreeInv /\ [Next]_vars => FreeInv'
    BY FreeStep
  <1> QED
    BY <1>1, <1>2, FlowInit, FlowStep, PTL DEF Spec

\* What a step does to the owners: some coupons that had none get users who have
\* reserved and own nothing yet, each another one.
SoldTo(S, to) ==
    /\ \A c \in S : owner[c] = NoUser
    /\ \A c, d \in S : to[c] = to[d] => c = d
    /\ \A c \in S, d \in Coupons : owner[d] # to[c]
    /\ owner' = [c \in Coupons |-> IF c \in S THEN to[c] ELSE owner[c]]

LEMMA SellStep ==
    ASSUME OneServer, TypeOK, FlowInv, FreeInv, [Next]_vars
    PROVE  \E S \in SUBSET Coupons : \E to \in [S -> reserved] : SoldTo(S, to)
  <1>0. /\ \A s \in Servers : RoundFree(grabber[s], owner)
        /\ owner \in [Coupons -> Users \cup {NoUser}]
    BY DEF FreeInv, TypeOK
  <1>1. ASSUME owner' = owner
        PROVE  \E S \in SUBSET Coupons : \E to \in [S -> reserved] : SoldTo(S, to)
    <2> DEFINE to == [c \in {} |-> NoUser]
    <2>1. to \in [{} -> reserved]
      OBVIOUS
    <2>2. owner' = [c \in Coupons |-> owner[c]]
      BY <1>0, <1>1
    <2>3. SoldTo({}, to)
      BY <2>2 DEF SoldTo
    <2> QED
      BY <2>1, <2>3, Zenon
  <1>2. ASSUME NEW s \in Servers, BatchAssign(s)
        PROVE  \E S \in SUBSET Coupons : \E to \in [S -> reserved] : SoldTo(S, to)
    <2>1. grabber[s].pc = "assign" /\ grabber[s].received \subseteq Known
      BY <1>2 DEF BatchAssign, FlowInv, Clean
    <2>2. PICK p \in Pairings(grabber[s].coupons, grabber[s].received) :
            \/ owner' = owner
            \/ /\ owner' = [c \in Coupons |-> IF c \in Updated(p) THEN p[c] ELSE owner[c]]
               /\ ~ Violates(p, Updated(p))
      BY <1>2, Zenon DEF BatchAssign
    <2>3. p \in Pairings(grabber[s].coupons, grabber[s].received)
      BY <2>2
    <2>4. \A c, d \in {e \in Coupons : p[e] # NoUser} : p[c] = p[d] => c = d
      BY <2>3 DEF Pairings
    <2>5. \A c \in Updated(p) : p[c] \in reserved
      <3>1. \A c \in Coupons : p[c] # NoUser => p[c] \in grabber[s].received
        BY <2>3, PairingsWithin
      <3> QED
        BY <2>1, <3>1 DEF Updated, Known
    <2> DEFINE S == Updated(p)
               to == [c \in S |-> p[c]]
    <2>6. CASE owner' = [c \in Coupons |-> IF c \in S THEN p[c] ELSE owner[c]]
               /\ ~ Violates(p, S)
      <3>1. S \in SUBSET Coupons /\ to \in [S -> reserved]
        BY <2>5 DEF Updated
      <3>2. \A c \in S : owner[c] = NoUser /\ p[c] # NoUser
        BY DEF Updated
      <3>3. \A c, d \in S : to[c] = to[d] => c = d
        BY <2>4 DEF Updated
      <3>4. \A c \in S, d \in Coupons : owner[d] # to[c]
        <4> SUFFICES ASSUME NEW c \in S, NEW d \in Coupons
                     PROVE  owner[d] # p[c]
          OBVIOUS
        <4>1. CASE d \in S
          BY <3>2, <4>1
        <4>2. CASE d \notin S
          BY <2>6, <4>2 DEF Violates
        <4> QED
          BY <4>1, <4>2
      <3>5. owner' = [c \in Coupons |-> IF c \in S THEN to[c] ELSE owner[c]]
        BY <2>6
      <3>6. SoldTo(S, to)
        BY <3>2, <3>3, <3>4, <3>5 DEF SoldTo
      <3> QED
        BY <3>1, <3>6, Zenon
    <2> QED
      BY <1>1, <2>2, <2>6
  <1>3. ASSUME NEW s \in Servers, NEW c \in Coupons, UpdateCoupon(s, c)
        PROVE  \E S \in SUBSET Coupons : \E to \in [S -> reserved] : SoldTo(S, to)
    <2> DEFINE u == grabber[s].pairs[c]
               S == {c}
               to == [d \in S |-> u]
    <2>1. /\ grabber[s].pc = "fallback" /\ u \in Users /\ owner[c] \in {NoUser, u}
      BY <1>0, <1>3, UpdateEffect
    <2>2. u \in reserved
      BY <2>1, RowsAssumption DEF FlowInv, Clean, Known
    <2>3. \/ owner' = owner
          \/ /\ owner' = [owner EXCEPT ![c] = u]
             /\ \A d \in Coupons \ {c} : owner[d] # u
      BY <1>3, Zenon DEF UpdateCoupon
    <2> HIDE DEF u
    <2>4. CASE owner[c] = u /\ owner' = [owner EXCEPT ![c] = u]
      <3>1. owner' = owner
        BY <1>0, <2>4
      <3> QED
        BY <1>1, <3>1
    <2>5. CASE /\ owner[c] = NoUser /\ owner' = [owner EXCEPT ![c] = u]
               /\ \A d \in Coupons \ {c} : owner[d] # u
      <3>1. S \in SUBSET Coupons /\ to \in [S -> reserved]
        BY <2>2
      <3>2. \A d \in Coupons : owner[d] # u
        BY <2>1, <2>5, RowsAssumption
      <3>3. owner' = [d \in Coupons |-> IF d \in S THEN to[d] ELSE owner[d]]
        BY <1>0, <2>5
      <3>4. SoldTo(S, to)
        BY <2>5, <3>2, <3>3 DEF SoldTo
      <3> QED
        BY <3>1, <3>4, Zenon
    <2> QED
      BY <1>1, <2>1, <2>3, <2>4, <2>5
  <1>4. \/ owner' = owner
        \/ \E s \in Servers : BatchAssign(s) \/ \E d \in Coupons : UpdateCoupon(s, d)
    BY DEF Next, vars, rows, Reserve, IssueCoupons, Expire, ClockTick, TestBloom,
           Handle, Lookup, Send, AddBloom, Round, ListCoupons, Receive, ReceiveTimeout,
           EndFallback, Work, TakeToken, ResetBloom, Signal, Crash
  <1> QED
    BY <1>1, <1>2, <1>3, <1>4

\* Of a single server, no step of the batch statement or of the updates by id
\* takes a coupon from its owner, however old the list of coupons is
\* (fallbackUpdateCouponsForWinners; OwnerStable).
THEOREM OwnersKeepCoupons ==
    ASSUME OneServer
    PROVE  Spec => OwnerStable
  <1> DEFINE Keeps == \A c \in Coupons : owner[c] # NoUser => owner'[c] = owner[c]
  <1>1. TypeOK /\ FlowInv /\ FreeInv /\ [Next]_vars => [Keeps]_vars
    <2> SUFFICES ASSUME TypeOK, FlowInv, FreeInv, [Next]_vars, NEW c \in Coupons,
                        owner[c] # NoUser
                 PROVE  owner'[c] = owner[c]
      OBVIOUS
    <2>0. /\ \A s \in Servers : RoundFree(grabber[s], owner)
          /\ owner \in [Coupons -> Users \cup {NoUser}]
      BY DEF FreeInv, TypeOK
    <2>1. ASSUME NEW s \in Servers, BatchAssign(s) PROVE owner'[c] = owner[c]
      <3>1. PICK p \in [Coupons -> Users \cup {NoUser}] :
              /\ \A d \in Coupons : p[d] # NoUser => owner[d] = NoUser
              /\ \/ owner' = owner
                 \/ owner' = [d \in Coupons |-> IF p[d] # NoUser THEN p[d] ELSE owner[d]]
        BY <2>0, <2>1, BatchEffect, Zenon
      <3> QED
        BY <3>1
    <2>2. ASSUME NEW s \in Servers, NEW d \in Coupons, UpdateCoupon(s, d)
          PROVE  owner'[c] = owner[c]
      BY <2>0, <2>2, UpdateEffect
    <2>3. CASE UNCHANGED owner
      BY <2>3
    <2>4. \/ UNCHANGED owner
          \/ \E s \in Servers : BatchAssign(s) \/ \E d \in Coupons : UpdateCoupon(s, d)
      BY DEF Next, vars, rows, Reserve, IssueCoupons, Expire, ClockTick, TestBloom,
             Handle, Lookup, Send, AddBloom, Round, ListCoupons, Receive, ReceiveTimeout,
             EndFallback, Work, TakeToken, ResetBloom, Signal, Crash
    <2> QED
      BY <2>1, <2>2, <2>3, <2>4
  <1>2. Spec => [](TypeOK /\ FlowInv /\ FreeInv)
    BY FreeCorrect
  <1>3. Spec => [][Next]_vars
    BY PTL DEF Spec
  <1> QED
    BY <1>1, <1>2, <1>3, PTL DEF OwnerStable

\* Where the accepted request of a user may be, from the states of one server.
InChan(ch, u) == \E k \in 1..Len(ch) : ch[k] = u
InWork(g, w, u) ==
    \/ g.pc \in {"receive", "assign"} /\ u \in g.received
    \/ \E c \in Coupons : w[c] # "none" /\ g.pairs[c] = u

\* AcceptedServed, of one user and one server.
ServedOK(ch, g, w, o, lost, u) ==
    \/ InChan(ch, u) \/ InWork(g, w, u)
    \/ \E c \in Coupons : o[c] = u
    \/ u \in lost

ServedInv ==
    \A s \in Servers, u \in asked :
        ServedOK(chan[s], grabber[s], worker[s], owner, forgotten, u)

LEMMA ServedStep ==
    ASSUME OneServer
    PROVE  TypeOK /\ FlowInv /\ FreeInv /\ ServedInv /\ [Next]_vars => ServedInv'
  <1> SUFFICES ASSUME TypeOK, FlowInv, FreeInv, ServedInv, [Next]_vars,
                      NEW t \in Servers, NEW v \in asked'
               PROVE  ServedOK(chan'[t], grabber'[t], worker'[t], owner', forgotten', v)
    BY DEF ServedInv
  <1> DEFINE Goal == ServedOK(chan'[t], grabber'[t], worker'[t], owner', forgotten', v)
  <1>0. /\ RoundFree(grabber[t], owner)
        /\ grabber[t] \in Rounds /\ worker[t] \in Workers /\ chan[t] \in Seq(Users)
        /\ grabber \in [Servers -> Rounds] /\ owner \in [Coupons -> Users \cup {NoUser}]
        /\ worker \in [Servers -> Workers] /\ chan \in [Servers -> Seq(Users)]
        /\ \A c \in Coupons : worker[t][c] # "none" => grabber[t].pc = "fallback"
        /\ asked \subseteq Users
    BY DEF FreeInv, TypeOK, FlowInv, Clean, Workers
  <1>00. v \in asked => ServedOK(chan[t], grabber[t], worker[t], owner, forgotten, v)
    BY DEF ServedInv
  <1> HIDE DEF Goal
  <1>1. ASSUME NEW q \in Requests, Send(q) PROVE Goal
    <2> DEFINE u == req[q].user
    <2>0. /\ grabber' = grabber /\ worker' = worker /\ owner' = owner
          /\ req[q].server = t /\ u \in Users
      BY <1>1 DEF Send, rows, pool, OneServer, TypeOK, FlowInv, ReqOK, Handlers
    <2>1. CASE Room(t)
      <3>1. /\ chan' = [chan EXCEPT ![t] = Append(@, u)]
            /\ asked' = asked \cup {u} /\ forgotten' = forgotten \ {u}
        BY <1>1, <2>0, <2>1 DEF Send
      <3> HIDE DEF u
      <3>2. chan'[t] = Append(chan[t], u)
        BY <1>0, <3>1
      <3>3. CASE v = u
        <4>1. InChan(chan'[t], v)
          BY <1>0, <2>0, <3>2, <3>3 DEF InChan
        <4> QED
          BY <4>1 DEF Goal, ServedOK
      <3>4. CASE v # u
        <4>1. InChan(chan[t], v) => InChan(chan'[t], v)
          BY <1>0, <2>0, <3>2 DEF InChan
        <4>2. v \in asked /\ (v \in forgotten => v \in forgotten')
          BY <3>1, <3>4
        <4> QED
          BY <1>00, <2>0, <4>1, <4>2 DEF Goal, ServedOK
      <3> QED
        BY <3>3, <3>4
    <2>2. CASE ~ Room(t)
      <3>1. UNCHANGED <<chan, history>>
        BY <1>1, <2>0, <2>2 DEF Send
      <3> QED
        BY <1>00, <2>0, <3>1 DEF Goal, history
    <2> QED
      BY <2>1, <2>2
  <1>2. CASE ListCoupons(t)
    <2>1. /\ chan' = chan /\ worker' = worker /\ owner' = owner
          /\ asked' = asked /\ forgotten' = forgotten /\ grabber[t].pc = "idle"
      BY <1>2 DEF ListCoupons, rows, history, pool
    <2>2. ~ InWork(grabber[t], worker[t], v)
      BY <1>0, <2>1 DEF InWork
    <2> QED
      BY <1>00, <2>1, <2>2 DEF Goal, ServedOK
  <1>3. CASE Receive(t)
    <2> DEFINE ch == chan[t]
               u == Head(ch)
               p == IF grabber[t].count + 1 = Cardinality(grabber[t].coupons)
                    THEN "assign" ELSE "receive"
    <2>1. /\ grabber'[t] = [grabber[t] EXCEPT !.count = grabber[t].count + 1,
                              !.received = grabber[t].received \cup {u}, !.pc = p]
          /\ chan'[t] = Tail(ch) /\ ch # <<>>
          /\ worker' = worker /\ owner' = owner /\ asked' = asked /\ forgotten' = forgotten
          /\ p \in {"receive", "assign"}
      BY <1>0, <1>3 DEF Receive, rows, history, pool
    <2> HIDE DEF p, u
    <2>2. /\ grabber'[t].received = grabber[t].received \cup {u}
          /\ grabber'[t].pc = p /\ grabber'[t].pairs = grabber[t].pairs
      BY <1>0, <2>1 DEF Rounds
    <2> HIDE DEF ch
    <2>3. InChan(ch, v) => v = u \/ InChan(Tail(ch), v)
      <3>1. ch \in Seq(Users) /\ u = Head(ch)
        BY <1>0 DEF ch, u
      <3> SUFFICES ASSUME NEW k \in 1..Len(ch), ch[k] = v, v # u
                   PROVE  InChan(Tail(ch), v)
        BY DEF InChan
      <3>2. k # 1 /\ k - 1 \in 1..Len(Tail(ch)) /\ Tail(ch)[k - 1] = ch[k]
        BY <2>1, <3>1
      <3> QED
        BY <3>2 DEF InChan
    <2>4. InWork(grabber[t], worker[t], v) \/ v = u => InWork(grabber'[t], worker[t], v)
      BY <2>1, <2>2 DEF InWork
    <2> QED
      BY <1>00, <2>1, <2>3, <2>4 DEF Goal, ServedOK, ch
  <1>4. CASE ReceiveTimeout(t)
    <2>1. /\ \/ grabber' = [grabber EXCEPT ![t] = NoRound] /\ grabber[t].received = {}
             \/ grabber' = [grabber EXCEPT ![t] = Assigning(@)]
          /\ chan' = chan /\ worker' = worker /\ owner' = owner
          /\ asked' = asked /\ forgotten' = forgotten /\ grabber[t].pc = "receive"
      BY <1>4 DEF ReceiveTimeout, AfterRound, Assigning, rows, history, pool
    <2>2. /\ Assigning(grabber[t]).pc = "assign"
          /\ Assigning(grabber[t]).received = grabber[t].received
          /\ Assigning(grabber[t]).pairs = grabber[t].pairs
      BY <1>0, AssigningType
    <2>3. InWork(grabber[t], worker[t], v) => InWork(grabber'[t], worker[t], v)
      BY <1>0, <2>1, <2>2 DEF InWork
    <2> QED
      BY <1>00, <2>1, <2>3 DEF Goal, ServedOK
  <1>5. CASE BatchAssign(t)
    <2>1. PICK p \in [Coupons -> Users \cup {NoUser}] :
              /\ \A c \in Coupons : p[c] # NoUser => owner[c] = NoUser
              /\ \A u \in grabber[t].received : \E c \in Coupons : p[c] = u
              /\ \/ owner' = owner
                 \/ owner' = [c \in Coupons |-> IF p[c] # NoUser THEN p[c] ELSE owner[c]]
              /\ \/ /\ grabber' = [grabber EXCEPT ![t] = NoRound]
                    /\ worker' = worker
                    /\ owner' = [c \in Coupons |-> IF p[c] # NoUser THEN p[c] ELSE owner[c]]
                 \/ /\ grabber' = [grabber EXCEPT ![t] = Failed(@, p)]
                    /\ worker' = [worker EXCEPT ![t] = [c \in Coupons |->
                                    IF p[c] # NoUser THEN "waiting" ELSE "none"]]
      BY <1>0, <1>5, BatchEffect, Zenon
    <2>2. /\ chan' = chan /\ asked' = asked /\ forgotten' = forgotten
          /\ grabber[t].pc = "assign" /\ grabber[t].received \subseteq Users
      BY <1>0, <1>5 DEF BatchAssign, history, Rounds
    <2>3. v \in Users /\ v # NoUser
      BY <1>0, <2>2, RowsAssumption
    <2>4. (\E c \in Coupons : owner[c] = v) => \E c \in Coupons : owner'[c] = v
      BY <2>1, <2>3
    <2>5. InWork(grabber[t], worker[t], v) => \E c \in Coupons : p[c] = v
      BY <1>0, <2>1, <2>2 DEF InWork
    <2>6. ASSUME NEW c \in Coupons, p[c] = v
          PROVE  owner'[c] = v \/ InWork(grabber'[t], worker'[t], v)
      <3>1. CASE owner' = [d \in Coupons |-> IF p[d] # NoUser THEN p[d] ELSE owner[d]]
        BY <2>3, <2>6, <3>1
      <3>2. CASE /\ grabber' = [grabber EXCEPT ![t] = Failed(@, p)]
                 /\ worker' = [worker EXCEPT ![t] = [d \in Coupons |->
                                    IF p[d] # NoUser THEN "waiting" ELSE "none"]]
        <4>1. grabber'[t].pairs = p
          BY <1>0, <2>1, <3>2, FailedType
        <4>2. worker'[t][c] = "waiting"
          BY <1>0, <2>3, <2>6, <3>2
        <4> QED
          BY <2>6, <4>1, <4>2 DEF InWork
      <3> QED
        BY <2>1, <3>1, <3>2
    <2> QED
      BY <1>00, <2>2, <2>4, <2>5, <2>6 DEF Goal, ServedOK
  <1>6. ASSUME NEW c \in Coupons, TakeToken(t, c) PROVE Goal
    <2>1. /\ chan' = chan /\ grabber' = grabber /\ owner' = owner /\ asked' = asked
          /\ worker[t][c] # "none"
          /\ \/ worker' = [worker EXCEPT ![t][c] = "running"] /\ forgotten' = forgotten
             \/ /\ worker' = [worker EXCEPT ![t][c] = "none"]
                /\ forgotten' = forgotten \cup {grabber[t].pairs[c]}
      BY <1>6 DEF TakeToken, rows
    <2>2. InWork(grabber[t], worker[t], v) =>
              InWork(grabber[t], worker'[t], v) \/ v \in forgotten'
      BY <1>0, <2>1 DEF InWork, Workers
    <2> QED
      BY <1>00, <2>1, <2>2 DEF Goal, ServedOK
  <1>7. ASSUME NEW c \in Coupons, UpdateCoupon(t, c) PROVE Goal
    <2> DEFINE u == grabber[t].pairs[c]
    <2>1. /\ owner[c] \in {NoUser, u} /\ u \in Users /\ grabber' = grabber
          /\ owner' = owner \/ owner' = [owner EXCEPT ![c] = u]
      BY <1>0, <1>7, UpdateEffect
    <2>2. /\ chan' = chan /\ asked' = asked
          /\ worker' = [worker EXCEPT ![t][c] = "none"]
          /\ \/ u \in forgotten'
             \/ owner' = [owner EXCEPT ![c] = u]
             \/ \E d \in Coupons : owner'[d] = u
          /\ forgotten \subseteq forgotten'
      BY <1>7 DEF UpdateCoupon
    <2> HIDE DEF u
    <2>3. v \in Users /\ v # NoUser
      BY <1>0, <2>2, RowsAssumption
    <2>4. (\E d \in Coupons : owner[d] = v) => \E d \in Coupons : owner'[d] = v
      BY <1>0, <2>1, <2>3
    <2>5. u \in forgotten' \/ \E d \in Coupons : owner'[d] = u
      BY <1>0, <2>2
    <2>6. InWork(grabber[t], worker[t], v) => InWork(grabber[t], worker'[t], v) \/ v = u
      BY <1>0, <2>2 DEF InWork, Workers, u
    <2> QED
      BY <1>00, <2>1, <2>2, <2>4, <2>5, <2>6 DEF Goal, ServedOK
  <1>8. CASE EndFallback(t)
    <2>1. /\ chan' = chan /\ worker' = worker /\ owner' = owner
          /\ asked' = asked /\ forgotten' = forgotten /\ grabber[t].pc = "fallback"
          /\ \A c \in Coupons : worker[t][c] = "none"
      BY <1>8 DEF EndFallback, rows, history, pool
    <2>2. ~ InWork(grabber[t], worker[t], v)
      BY <2>1 DEF InWork
    <2> QED
      BY <1>00, <2>1, <2>2 DEF Goal, ServedOK
  <1>9. CASE Crash(t)
    <2>1. /\ owner' = owner /\ asked' = asked
          /\ forgotten' = forgotten \cup {u \in Users : QueuedAt(t, u) \/ InRoundOf(t, u)}
      BY <1>9 DEF Crash, rows
    <2>2. /\ v \in Users
          /\ QueuedAt(t, v) <=> InChan(chan[t], v)
          /\ InRoundOf(t, v) <=> InWork(grabber[t], worker[t], v)
      BY <1>0, <2>1 DEF QueuedAt, InRoundOf, InChan, InWork
    <2> QED
      BY <1>00, <2>1, <2>2 DEF Goal, ServedOK
  <1>10. CASE UNCHANGED <<chan, grabber, worker, owner, asked, forgotten>>
    BY <1>00, <1>10 DEF Goal
  <1>11. \/ UNCHANGED <<chan, grabber, worker, owner, asked, forgotten>>
         \/ \E q \in Requests : Send(q)
         \/ ListCoupons(t) \/ Receive(t) \/ ReceiveTimeout(t) \/ BatchAssign(t)
         \/ EndFallback(t) \/ Crash(t)
         \/ \E c \in Coupons : TakeToken(t, c) \/ UpdateCoupon(t, c)
    <2>1. \A s \in Servers : s = t
      BY DEF OneServer
    <2> QED
      BY <2>1 DEF Next, vars, rows, pool, history, Reserve, IssueCoupons, Expire, ClockTick,
             TestBloom, Handle, Lookup, AddBloom, Round, Work, ResetBloom, Signal
  <1> QED
    BY <1>1, <1>2, <1>3, <1>4, <1>5, <1>6, <1>7, <1>8, <1>9, <1>10, <1>11 DEF Goal

\* Nothing is forgotten without a fault or a signal.
BlameInv == faultsLeft <= MaxFaults /\ (forgotten # {} => Disturbed)

LEMMA BlameStep == TypeOK /\ TypeOK' /\ BlameInv /\ [Next]_vars => BlameInv'
  <1> SUFFICES ASSUME TypeOK, TypeOK', BlameInv, [Next]_vars PROVE BlameInv'
    OBVIOUS
  <1>0. /\ faultsLeft \in Nat /\ MaxFaults \in Nat /\ ctx \in [Servers -> {"live", "done"}]
        /\ faultsLeft' <= faultsLeft
    BY FaultsFall, FaultsAssumption DEF TypeOK
  <1>1. faultsLeft' \in Nat
    BY DEF TypeOK
  <1>2. ASSUME UseFault PROVE BlameInv'
    BY <1>0, <1>1, <1>2 DEF UseFault, BlameInv, Disturbed
  <1>3. ASSUME forgotten' \subseteq forgotten,
               \A s \in Servers : ctx[s] = "done" => ctx'[s] = "done"
        PROVE  BlameInv'
    BY <1>0, <1>1, <1>3 DEF BlameInv, Disturbed
  <1>4. ASSUME NEW s \in Servers, ctx[s] = "done", ctx' = ctx PROVE BlameInv'
    BY <1>0, <1>1, <1>4 DEF BlameInv, Disturbed
  <1>5. ASSUME NEW s \in Servers, NEW c \in Coupons, TakeToken(s, c) PROVE BlameInv'
    <2>1. ctx' = ctx /\ (ctx[s] = "done" \/ forgotten' = forgotten)
      BY <1>5 DEF TakeToken, world
    <2> QED
      BY <1>3, <1>4, <2>1
  <1>6. ASSUME NEW s \in Servers, NEW c \in Coupons, UpdateCoupon(s, c) PROVE BlameInv'
    <2>1. /\ ctx' = ctx
          /\ ctx[s] = "done" \/ UseFault \/ forgotten' = forgotten
      BY <1>6 DEF UpdateCoupon, Returns, world
    <2> QED
      BY <1>2, <1>3, <1>4, <2>1
  <1>7. ASSUME NEW s \in Servers, Crash(s) PROVE BlameInv'
    BY <1>2, <1>7 DEF Crash
  <1>8. ASSUME NEW s \in Servers, Signal(s) PROVE BlameInv'
    <2>1. ctx' = [ctx EXCEPT ![s] = "done"] /\ forgotten' = forgotten
      BY <1>8 DEF Signal, history
    <2> QED
      BY <1>0, <1>3, <2>1
  <1>9. ASSUME NEW q \in Requests, Send(q) PROVE BlameInv'
    <2>1. ctx' = ctx /\ forgotten' \subseteq forgotten
      BY <1>9 DEF Send, history, world
    <2> QED
      BY <1>3, <2>1
  <1>10. CASE UNCHANGED <<forgotten, ctx>>
    BY <1>3, <1>10
  <1>11. \/ UNCHANGED <<forgotten, ctx>>
         \/ \E q \in Requests : Send(q)
         \/ \E s \in Servers :
               Crash(s) \/ Signal(s) \/ \E c \in Coupons : TakeToken(s, c) \/ UpdateCoupon(s, c)
    BY DEF Next, vars, history, world, Reserve, IssueCoupons, Expire, ClockTick, TestBloom,
           Handle, Lookup, AddBloom, Round, ListCoupons, Receive, ReceiveTimeout,
           BatchAssign, EndFallback, Work, ResetBloom
  <1> QED
    BY <1>5, <1>6, <1>7, <1>8, <1>9, <1>10, <1>11

\* Of a single server, a request that was accepted is in the channel, in the
\* round, or has become a coupon, for any number of users, coupons and failing
\* statements: only the death of the process or the failure of that user's own
\* update forgets it, and without a fault or a signal nothing does
\* (updateCouponsForWinners; AcceptedServed).
THEOREM AcceptedAreServed ==
    ASSUME OneServer
    PROVE  Spec => []AcceptedServed
  <1>1. Init => ServedInv
    BY DEF Init, ServedInv
  <1>2. TypeOK /\ FlowInv /\ FreeInv /\ ServedInv /\ [Next]_vars => ServedInv'
    BY ServedStep
  <1>3. Spec => [](TypeOK /\ FlowInv /\ FreeInv)
    BY FreeCorrect
  <1>4. ServedInv /\ BlameInv => AcceptedServed
    <2>1. PICK s \in Servers : TRUE
      BY SizesAssumption
    <2> QED
      BY <2>1 DEF ServedInv, ServedOK, InChan, InWork, AcceptedServed, Queued, QueuedAt,
             InRound, InRoundOf, Owns, BlameInv
  <1>5. Init => BlameInv
    BY FaultsAssumption DEF Init, BlameInv
  <1> QED
    BY <1>1, <1>2, <1>3, <1>4, <1>5, BlameStep, PTL DEF Spec
=============================================================================
