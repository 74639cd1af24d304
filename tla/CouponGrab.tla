----------------------------- MODULE CouponGrab -----------------------------
(***************************************************************************)
(* The grab: POST /grab handlers put requests into a channel, a loop takes *)
(* as many as there are coupons and assigns the coupons to their users,    *)
(* with one statement or, when that fails, with concurrent single updates  *)
(* (src/api/grab.go).                                                      *)
(*                                                                         *)
(* Handlers, the loop and its update goroutines run concurrently; each     *)
(* database call, channel operation and filter operation is a step.  A     *)
(* coupon is its row id, a request its user.  Other servers share the      *)
(* database and nothing else.  (Definitions nothing uses: see CouponIssue.) *)
(***************************************************************************)
EXTENDS Integers, Sequences, FiniteSets, BloomFilter

CONSTANTS
    Coupons,      \* the row ids of coupons
    NoUser,       \* user_id IS NULL
    Servers,      \* the server processes
    Requests,     \* the handlers that may be at work at a time
    ChanCap,      \* capacity of grabRequestChan (maxConcurrentRequests)
    NumWorkers,   \* tokens of the work pool
    Failing,      \* the database calls that may fail without effect
    Losing,       \* the calls that may take effect and yet return an error
    Disruptions,  \* what else may happen: "crash", "signal", "reset"
    MaxFaults     \* bound on failures, lost replies and crashes

ASSUME RowsAssumption ==
    /\ Coupons \subseteq Nat
    /\ NoUser \notin Users

ASSUME SizesAssumption ==
    /\ IsFiniteSet(Requests) /\ IsFiniteSet(Coupons) /\ Servers # {}
    /\ {ChanCap, NumWorkers} \subseteq Nat \ {0}

ASSUME FaultsAssumption ==
    /\ Failing \subseteq {"lookup", "assign", "update"}
    /\ Losing \subseteq {"assign", "update"}
    /\ Disruptions \subseteq {"crash", "signal", "reset"}
    /\ MaxFaults \in Nat

VARIABLES
    reserved,    \* users with a row in coupon_reservations
    status,      \* of a coupon row: not yet issued, live, or expired
    owner,       \* user_id of a coupon row
    bloom,       \* bloomFilterForGrab, per server
    chan,        \* grabRequestChan, per server
    req,         \* the local state of handleGrabRequest, per handler
    accepted,    \* history: requests of a user a server accepted since its filter
                 \* was last cleared (saturating)
    asked,       \* history: users of whom a request was ever accepted
    forgotten,   \* history: those whose last accepted request came to nothing, as
                 \* the process died, or as their update failed or was given up
    grabber,     \* the local state of handleGrabbing, per server
    worker,      \* the update goroutines of the fallback, per server and coupon
    tokens,      \* tokens left in workPool, per server
    ctx,         \* the context of the background loops: "live" or "done"
    phase,       \* the time of day
    faultsLeft   \* faults still allowed by MaxFaults

vars == <<reserved, status, owner, bloom, chan, req, accepted, asked, forgotten,
          grabber, worker, tokens, ctx, phase, faultsLeft>>

rows == <<reserved, status, owner>>
pool == <<worker, tokens>>
world == <<ctx, phase>>
history == <<accepted, asked, forgotten>>

-----------------------------------------------------------------------------
\* The windows of couponClockTimer, in the order of the day.
Phases == {"day", "reserve", "pause", "grab"}

NextPhase(p) ==
    CASE p = "day" -> "reserve" [] p = "reserve" -> "pause"
      [] p = "pause" -> "grab"  [] p = "grab" -> "day"

\* specialTimeMiddleware lets a request pass in either window.
Admitted(p) == p \in {"reserve", "grab"}

NoRequest == [pc |-> "idle", server |-> CHOOSE s \in Servers : TRUE, user |-> NoUser]
NothingAccepted == [u \in Users |-> 0]
NoPairs == [c \in Coupons |-> NoUser]
NoRound == [pc |-> "idle", coupons |-> {}, count |-> 0, received |-> {},
            pairs |-> NoPairs]

\* WHERE user_id IS NULL AND expiry_date >= now
Available == {c \in Coupons : status[c] = "live" /\ owner[c] = NoUser}

\* winners[i] is paired with coupons[i]: the winners come in the order of a
\* map, which is any order, the coupons in that of their ids.
Pairings(S, W) ==
    {p \in [Coupons -> W \cup {NoUser}] :
       LET T == {c \in Coupons : p[c] # NoUser} IN
       /\ T \subseteq S
       /\ \A c \in T, d \in S \ T : c < d
       /\ \A u \in W : \E c \in T : p[c] = u
       /\ \A c, d \in T : p[c] = p[d] => c = d}

\* coupons = nil ends the round, so that the next one lists again.
AfterRoundStale(g) == [g EXCEPT !.pc = "idle", !.count = 0, !.received = {}, !.pairs = NoPairs]
AfterRoundReturn(g) == [NoRound EXCEPT !.pc = "returned"]
AfterRound(g) == NoRound

\* A call succeeds, fails without effect, or takes effect but returns an
\* error; it may do either at any time once its context is done.
Outcomes == {"ok", "fail", "lost"}

UseFault == faultsLeft > 0 /\ faultsLeft' = faultsLeft - 1

Returns(c, call, out) ==
    \/ out = "ok" /\ UNCHANGED faultsLeft
    \/ out # "ok" /\ c = "done" /\ UNCHANGED faultsLeft
    \/ out = "fail" /\ call \in Failing /\ UseFault
    \/ out = "lost" /\ call \in Losing /\ UseFault

-----------------------------------------------------------------------------
Init ==
    /\ reserved = {}
    /\ status = [c \in Coupons |-> "unissued"]
    /\ owner = [c \in Coupons |-> NoUser]
    /\ bloom = [s \in Servers |-> Cleared]
    /\ chan = [s \in Servers |-> <<>>]
    /\ req = [q \in Requests |-> NoRequest]
    /\ accepted = [s \in Servers |-> NothingAccepted]
    /\ asked = {} /\ forgotten = {}
    /\ grabber = [s \in Servers |-> NoRound]
    /\ worker = [s \in Servers |-> [c \in Coupons |-> "none"]]
    /\ tokens = [s \in Servers |-> NumWorkers]
    /\ ctx = [s \in Servers |-> "live"]
    /\ phase = "day"
    /\ faultsLeft = MaxFaults

(* The rows other components write: POST /reserve, the reservation listener *)
(* and the passing of a coupon's expiry date.                               *)

Reserve(u) ==
    /\ u \notin reserved
    /\ reserved' = reserved \cup {u}
    /\ UNCHANGED <<status, owner, bloom, chan, req, history, grabber, pool, world, faultsLeft>>

IssueCoupons(S) ==
    /\ S # {} /\ \A c \in S : status[c] = "unissued"
    /\ status' = [c \in Coupons |-> IF c \in S THEN "live" ELSE status[c]]
    /\ UNCHANGED <<reserved, owner, bloom, chan, req, history, grabber, pool, world, faultsLeft>>

Expire(c) ==
    /\ status[c] = "live"
    /\ status' = [status EXCEPT ![c] = "expired"]
    /\ UNCHANGED <<reserved, owner, bloom, chan, req, history, grabber, pool, world, faultsLeft>>

ClockTick ==
    /\ phase' = NextPhase(phase)
    /\ UNCHANGED <<rows, bloom, chan, req, history, grabber, pool, ctx, faultsLeft>>

-----------------------------------------------------------------------------
(* handleGrabRequest.                                                      *)

\* The request is let in and its user is not in the filter.  A request that
\* is refused here changes nothing.
TestBloom(q, s, u) ==
    /\ req[q].pc = "idle"
    /\ Admitted(phase)
    /\ ~ Test(bloom[s], u)
    /\ req' = [req EXCEPT ![q] = [pc |-> "lookup", server |-> s, user |-> u]]
    /\ UNCHANGED <<rows, bloom, chan, history, grabber, pool, world, faultsLeft>>

\* sql.ErrNoRows
MayGrabAnyone(u) == TRUE
MayGrab(u) == u \in reserved

\* GetCouponReservation: without a reservation, or on an error, it is refused.
Lookup(q) ==
    /\ req[q].pc = "lookup"
    /\ \E out \in {"ok", "fail"} :
          /\ Returns("live", "lookup", out)
          /\ req' = [req EXCEPT ![q] =
                      IF out = "ok" /\ MayGrab(req[q].user)
                      THEN [@ EXCEPT !.pc = "send"] ELSE NoRequest]
    /\ UNCHANGED <<rows, bloom, chan, history, grabber, pool, world>>

\* Is there room in the channel?
RoomForOneMore(s) == Len(chan[s]) <= ChanCap
Room(s) == Len(chan[s]) < ChanCap

\* The non-blocking send.  With a default case the timeout next to it is never
\* taken: a full channel refuses at once.
Send(q) ==
    /\ req[q].pc = "send"
    /\ LET s == req[q].server
           u == req[q].user
       IN IF Room(s)
          THEN /\ chan' = [chan EXCEPT ![s] = Append(@, u)]
               /\ accepted' = [accepted EXCEPT ![s][u] =
                                IF @ > Cardinality(Requests) THEN @ ELSE @ + 1]
               /\ asked' = asked \cup {u} /\ forgotten' = forgotten \ {u}
               /\ req' = [req EXCEPT ![q].pc = "add"]
          ELSE /\ req' = [req EXCEPT ![q] = NoRequest]
               /\ UNCHANGED <<chan, history>>
    /\ UNCHANGED <<rows, bloom, grabber, pool, world, faultsLeft>>

\* What the handler leaves in the filter before it answers 200.
FilterUnchanged(filter, u) == filter
FilterAfterSend(filter, u) == Add(filter, u)

AddBloom(q) ==
    /\ req[q].pc = "add"
    /\ bloom' = [bloom EXCEPT ![req[q].server] = FilterAfterSend(@, req[q].user)]
    /\ req' = [req EXCEPT ![q] = NoRequest]
    /\ UNCHANGED <<rows, chan, history, grabber, pool, world, faultsLeft>>

-----------------------------------------------------------------------------
(* handleGrabbing.                                                         *)

\* A tick inside the grab window: list the available coupons unless a list is
\* at hand.  An error or an empty list leaves the work to the next tick.
ListCoupons(s) ==
    /\ grabber[s].pc = "idle"
    /\ ctx[s] = "live" /\ phase = "grab"
    /\ LET listed == IF grabber[s].coupons = {} THEN Available ELSE grabber[s].coupons
       IN /\ listed # {}
          /\ grabber' = [grabber EXCEPT ![s] =
                          [NoRound EXCEPT !.pc = "receive", !.coupons = listed]]
    /\ UNCHANGED <<rows, bloom, chan, req, history, pool, world, faultsLeft>>

\* receiveGrabRequests takes one request; it ends with the last coupon.
Receive(s) ==
    /\ grabber[s].pc = "receive" /\ chan[s] # <<>>
    /\ chan' = [chan EXCEPT ![s] = Tail(@)]
    /\ grabber' = [grabber EXCEPT ![s] =
                    [@ EXCEPT !.count = grabber[s].count + 1,
                       !.received = grabber[s].received \cup {Head(chan[s])},
                       !.pc = IF grabber[s].count + 1 = Cardinality(grabber[s].coupons)
                              THEN "assign" ELSE "receive"]]
    /\ UNCHANGED <<rows, bloom, req, history, pool, world, faultsLeft>>

\* After three seconds it returns what it has; the context of this timeout is
\* its own, so a signal does not end it.
ReceiveTimeout(s) ==
    /\ grabber[s].pc = "receive"
    /\ grabber' = [grabber EXCEPT ![s] =
                    IF grabber[s].received = {} THEN AfterRound(@)
                                                ELSE [@ EXCEPT !.pc = "assign"]]
    /\ UNCHANGED <<rows, bloom, chan, req, history, pool, world, faultsLeft>>

\* The rows the batch statement updates: those still without a user.
Updated(p) == {c \in Coupons : p[c] # NoUser /\ owner[c] = NoUser}

\* user_id is UNIQUE: one user who has a coupon already fails the statement.
Violates(p, S) == \E c \in S, d \in Coupons \ S : owner[d] = p[c]

\* selectWinnersSimple and BatchAssignCouponsToUsers: every user received wins,
\* as there are at least as many coupons.  On an error each pair gets a
\* goroutine of its own.
BatchAssign(s) ==
    /\ grabber[s].pc = "assign"
    /\ \E p \in Pairings(grabber[s].coupons, grabber[s].received) : \E out \in Outcomes :
          /\ Returns(ctx[s], "assign", out)
          /\ LET S == Updated(p)
                 done == out # "fail" /\ ~ Violates(p, S)
             IN /\ owner' = IF done THEN [c \in Coupons |-> IF c \in S THEN p[c] ELSE owner[c]]
                                    ELSE owner
                /\ IF done /\ out = "ok"
                   THEN /\ grabber' = [grabber EXCEPT ![s] = AfterRound(@)]
                        /\ UNCHANGED worker
                   ELSE /\ grabber' = [grabber EXCEPT ![s] =
                                        [@ EXCEPT !.pc = "fallback", !.pairs = p]]
                        /\ worker' = [worker EXCEPT ![s] = [c \in Coupons |->
                                        IF p[c] # NoUser THEN "waiting" ELSE "none"]]
    /\ UNCHANGED <<reserved, status, bloom, chan, req, history, tokens, world>>

\* A goroutine takes a token of the pool, or gives up when the context is done.
TakeToken(s, c) ==
    /\ worker[s][c] = "waiting"
    /\ \/ /\ tokens[s] > 0
          /\ tokens' = [tokens EXCEPT ![s] = @ - 1]
          /\ worker' = [worker EXCEPT ![s][c] = "running"]
          /\ UNCHANGED forgotten
       \/ /\ ctx[s] = "done"
          /\ worker' = [worker EXCEPT ![s][c] = "none"]
          /\ forgotten' = forgotten \cup {grabber[s].pairs[c]}
          /\ UNCHANGED tokens
    /\ UNCHANGED <<rows, bloom, chan, req, accepted, asked, grabber, world, faultsLeft>>

\* The deferred send returns the token, whether the update succeeded or not.
TokensOnSuccess(n, ok) == IF ok THEN n + 1 ELSE n
TokensAfter(n, ok) == n + 1

\* UpdateCoupon: WHERE id = $1 and nothing else, refused by the UNIQUE user_id.
UpdateCoupon(s, c) ==
    /\ worker[s][c] = "running"
    /\ \E out \in Outcomes :
          /\ Returns(ctx[s], "update", out)
          /\ LET u == grabber[s].pairs[c]
                 done == out # "fail" /\ \A d \in Coupons \ {c} : owner[d] # u
             IN /\ owner' = IF done THEN [owner EXCEPT ![c] = u] ELSE owner
                /\ tokens' = [tokens EXCEPT ![s] = TokensAfter(@, done /\ out = "ok")]
                /\ forgotten' = IF out = "fail" THEN forgotten \cup {u} ELSE forgotten
    /\ worker' = [worker EXCEPT ![s][c] = "none"]
    /\ UNCHANGED <<reserved, status, bloom, chan, req, accepted, asked, grabber, world>>

\* wg.Wait: the round ends when the last goroutine has.
EndFallback(s) ==
    /\ grabber[s].pc = "fallback"
    /\ \A c \in Coupons : worker[s][c] = "none"
    /\ grabber' = [grabber EXCEPT ![s] = AfterRound(@)]
    /\ UNCHANGED <<rows, bloom, chan, req, history, pool, world, faultsLeft>>

-----------------------------------------------------------------------------
(* What happens to a server.                                               *)

\* Where the accepted request of a user may be.
QueuedAt(s, u) == \E k \in 1..Len(chan[s]) : chan[s][k] = u
InRoundOf(s, u) ==
    \/ grabber[s].pc \in {"receive", "assign"} /\ u \in grabber[s].received
    \/ \E c \in Coupons : worker[s][c] # "none" /\ grabber[s].pairs[c] = u

\* resetBloomFilterDaily.  It fires at 23:10 local time, which in no time zone
\* falls into one of the windows (13:59 to 14:04 and 14:11 to 14:12 UTC).
ResetBloom(s) ==
    /\ "reset" \in Disruptions
    /\ ctx[s] = "live" /\ ~ Admitted(phase)
    /\ bloom' = [bloom EXCEPT ![s] = Cleared]
    /\ accepted' = [accepted EXCEPT ![s] = NothingAccepted]
    /\ UNCHANGED <<rows, chan, req, asked, forgotten, grabber, pool, world, faultsLeft>>

\* SIGINT or SIGTERM: the loops stop, the HTTP server goes on.
Signal(s) ==
    /\ "signal" \in Disruptions
    /\ ctx[s] = "live"
    /\ ctx' = [ctx EXCEPT ![s] = "done"]
    /\ UNCHANGED <<rows, bloom, chan, req, history, grabber, pool, phase, faultsLeft>>

\* The process dies and is started again: only the database rows stay.
Crash(s) ==
    /\ "crash" \in Disruptions
    /\ UseFault
    /\ bloom' = [bloom EXCEPT ![s] = Cleared]
    /\ chan' = [chan EXCEPT ![s] = <<>>]
    /\ req' = [q \in Requests |->
                 IF req[q].pc # "idle" /\ req[q].server = s THEN NoRequest ELSE req[q]]
    /\ grabber' = [grabber EXCEPT ![s] = NoRound]
    /\ worker' = [worker EXCEPT ![s] = [c \in Coupons |-> "none"]]
    /\ tokens' = [tokens EXCEPT ![s] = NumWorkers]
    /\ ctx' = [ctx EXCEPT ![s] = "live"]
    /\ accepted' = [accepted EXCEPT ![s] = NothingAccepted]
    /\ forgotten' = forgotten \cup {u \in Users : QueuedAt(s, u) \/ InRoundOf(s, u)}
    /\ UNCHANGED <<rows, asked, phase>>

-----------------------------------------------------------------------------
Handle(q) == Lookup(q) \/ Send(q) \/ AddBloom(q)

Work(s, c) == TakeToken(s, c) \/ UpdateCoupon(s, c)

Round(s) == Receive(s) \/ ReceiveTimeout(s) \/ BatchAssign(s) \/ EndFallback(s)

Next ==
    \/ \E u \in Users : Reserve(u)
    \/ \E S \in SUBSET Coupons : IssueCoupons(S)
    \/ \E c \in Coupons : Expire(c)
    \/ ClockTick
    \/ \E q \in Requests, s \in Servers, u \in Users : TestBloom(q, s, u)
    \/ \E q \in Requests : Handle(q)
    \/ \E s \in Servers :
          \/ ListCoupons(s) \/ Round(s)
          \/ \E c \in Coupons : Work(s, c)
          \/ ResetBloom(s) \/ Signal(s) \/ Crash(s)

\* Handlers, rounds and goroutines run on, the clock goes on, a window holds
\* many ticks of the loop, and a round that finds requests again and again
\* takes one: its timeout comes three seconds after they were there.
Fairness ==
    /\ WF_vars(ClockTick)
    /\ \A q \in Requests : WF_vars(Handle(q))
    /\ \A s \in Servers :
         /\ SF_vars(ListCoupons(s)) /\ SF_vars(Receive(s)) /\ WF_vars(Round(s))
         /\ \A c \in Coupons : WF_vars(Work(s, c))

Spec == Init /\ [][Next]_vars
FairSpec == Spec /\ Fairness

-----------------------------------------------------------------------------
(* Properties.                                                             *)

Handlers == [pc : {"idle", "lookup", "send", "add"}, server : Servers,
             user : Users \cup {NoUser}]

Rounds == [pc : {"idle", "receive", "assign", "fallback"}, coupons : SUBSET Coupons,
           count : Nat, received : SUBSET Users,
           pairs : [Coupons -> Users \cup {NoUser}]]

\* Every variable has its type, and no channel holds more than its capacity.
TypeOK ==
    /\ reserved \subseteq Users
    /\ status \in [Coupons -> {"unissued", "live", "expired"}]
    /\ owner \in [Coupons -> Users \cup {NoUser}]
    /\ bloom \in [Servers -> SUBSET Bits]
    /\ chan \in [Servers -> Seq(Users)] /\ \A s \in Servers : Len(chan[s]) <= ChanCap
    /\ req \in [Requests -> Handlers]
    /\ accepted \in [Servers -> [Users -> Nat]]
    /\ forgotten \subseteq asked /\ asked \subseteq Users
    /\ grabber \in [Servers -> Rounds]
    /\ worker \in [Servers -> [Coupons -> {"none", "waiting", "running"}]]
    /\ tokens \in [Servers -> Nat]
    /\ ctx \in [Servers -> {"live", "done"}]
    /\ phase \in Phases
    /\ faultsLeft \in Nat

Queued(u) == \E s \in Servers : QueuedAt(s, u)
InRound(u) == \E s \in Servers : InRoundOf(s, u)
Owns(u) == \E c \in Coupons : owner[c] = u

\* A coupon that has an owner keeps it, though the fallback updates rows by id
\* alone, with a list read seconds before (fallbackUpdateCouponsForWinners).
OwnerStable ==
    [][\A c \in Coupons : owner[c] # NoUser => owner'[c] = owner[c]]_vars

\* An accepted request is in the channel, in the running round, or its user
\* has a coupon: the batch that one such user makes fail is served one by one
\* (updateCouponsForWinners).  It is forgotten only when the process dies or
\* the update of that very user fails or is given up: without a fault or a
\* signal no request that the loop took from the channel is.
Disturbed == faultsLeft < MaxFaults \/ \E s \in Servers : ctx[s] = "done"

AcceptedServed ==
    /\ \A u \in asked : Queued(u) \/ InRound(u) \/ Owns(u) \/ u \in forgotten
    /\ forgotten # {} => Disturbed

\* Who owns a coupon has reserved, and the server accepted a request of his.
OwnersReserved ==
    \A u \in Users : Owns(u) => u \in reserved /\ u \in asked

\* The pool has all its tokens but those of running updates, so that failed
\* or abandoned updates never starve later rounds.
WorkersConserved ==
    \A s \in Servers :
        tokens[s] + Cardinality({c \in Coupons : worker[s][c] = "running"}) = NumWorkers

\* Between two clearings of its filter a server accepts at most as many
\* requests of a user as handlers can pass the filter test at once, also when
\* the filter is cleared under handlers on their way (handleGrabRequest).
DuplicatesBounded ==
    \A s \in Servers, u \in Users : accepted[s][u] <= Cardinality(Requests)

\* A round ends, with whatever failures, abandoned goroutines or signals.
RoundEnds == \A s \in Servers : grabber[s].pc # "idle" ~> grabber[s].pc = "idle"

\* Who was told "grab request accepted" gets a coupon in the end, unless his request
\* was forgotten, the coupons ran out or a signal has stopped the loop: no
\* request stays in the channel or in a round for ever.
AskedIsServed ==
    \A u \in Users :
        u \in asked ~> \/ Owns(u) \/ u \in forgotten \/ Available = {}
                     \/ \E s \in Servers : ctx[s] = "done"
=============================================================================
