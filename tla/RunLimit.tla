------------------------------ MODULE RunLimit ------------------------------
(***************************************************************************)
(* What the rate limiter promises, without counters, entries or cleanup:   *)
(* whether a request is served depends only on when the requests of its    *)
(* address were served before.  Rate of them, none more than Window after  *)
(* the one before, make a full run; the next request is refused unless     *)
(* more than Window has passed since the last of the run.                  *)
(***************************************************************************)
EXTENDS Integers, Sequences

CONSTANTS IPs, Rate, Window, Start
VARIABLES
    now,        \* the clock
    served,     \* the times at which requests were served, per address
    refusedAt   \* the time of the last refusal, per address

RunIsFull(times, t) ==
    /\ Len(times) >= Rate
    /\ t - times[Len(times)] <= Window
    /\ \A k \in (Len(times) - Rate + 1)..(Len(times) - 1) :
          times[k + 1] - times[k] <= Window

Init ==
    /\ now = Start
    /\ served = [ip \in IPs |-> <<>>]
    /\ refusedAt = [ip \in IPs |-> 0]

Serve(ip) ==
    /\ ~ RunIsFull(served[ip], now)
    /\ served' = [served EXCEPT ![ip] = Append(@, now)]
    /\ UNCHANGED <<now, refusedAt>>

Refuse(ip) ==
    /\ RunIsFull(served[ip], now)
    /\ refusedAt' = [refusedAt EXCEPT ![ip] = now]
    /\ UNCHANGED <<now, served>>

Tick == now' = now + 1 /\ UNCHANGED <<served, refusedAt>>

Next == Tick \/ \E ip \in IPs : Serve(ip) \/ Refuse(ip)

Spec == Init /\ [][Next]_<<now, served, refusedAt>>
=============================================================================
