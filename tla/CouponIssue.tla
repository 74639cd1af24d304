----------------------------- MODULE CouponIssue -----------------------------
(***************************************************************************)
(* The reservation listener: every three seconds of the reserve window it  *)
(* lists the unprocessed reservations, turns one in WinnerRatio of them    *)
(* into coupons and marks the others as processed                          *)
(* (src/api/coupon_reservation.go, src/db/sqlc/batch_operations.go).       *)
(*                                                                         *)
(* Each SQL statement, and the one transaction, is a step of its own, so a *)
(* failure, a lost reply, a crash or another instance of the server may    *)
(* come between any two of them.  What is abstracted: a reservation is its *)
(* row id, a slice of rows is the set of their ids (the code only ever     *)
(* takes rows in id order), and a coupon is the code minted for it, named  *)
(* by the reservation and the cycle it was minted in.                      *)
(*                                                                         *)
(* A definition that nothing uses and that stands before one of nearly the *)
(* same name is a plausible mistake in that one, which a run must notice.  *)
(***************************************************************************)
EXTENDS Integers, FiniteSets

CONSTANTS
    Reservations,   \* the row ids of coupon_reservations
    Instances,      \* the server processes running reservationListener
    WinnerRatio,    \* one reservation in WinnerRatio wins (1 / couponWinnerRatio)
    BatchSize,      \* reservationBatchSize
    MaxPerCycle,    \* maxReservationsPerCycle
    Failing,        \* the database calls that may fail without effect
    Losing,         \* the calls that may take effect and yet return an error
    CrashPoints,    \* the program points at which an instance may crash
    MaxFaults       \* bound on the failures, lost replies and crashes of a run

Calls == {"list", "code", "tx", "create", "mark", "nonwinners"}

Points == {"idle", "batch", "tx", "create", "mark", "nonwinners", "eachNonWinner"}

ASSUME ReservationsAssumption ==
    Reservations \subseteq Nat /\ IsFiniteSet(Reservations)

ASSUME SizesAssumption ==
    {WinnerRatio, BatchSize, MaxPerCycle} \subseteq Nat \ {0}

ASSUME FaultsAssumption ==
    /\ Failing \subseteq Calls
    /\ Losing \subseteq Calls \ {"list", "code"}
    /\ CrashPoints \subseteq Points
    /\ MaxFaults \in Nat

VARIABLES
    reserved,    \* the rows of coupon_reservations
    processed,   \* those with is_processed = TRUE
    coupons,     \* the rows of coupons: pairs <<reservation, cycle>>
    cycles,      \* how many listings returned rows so far
    job,         \* the local state of handleReservations, per instance
    window,      \* the reserve window: "open" or "closed"
    faultsLeft,  \* faults still allowed by MaxFaults
    passedOver,  \* history: rows that were ever among the non-winners of a batch
    uncounted    \* history: coupons inserted by a call whose reply was lost

vars == <<reserved, processed, coupons, cycles, job, window, faultsLeft,
          passedOver, uncounted>>

database == <<reserved, processed, coupons>>

-----------------------------------------------------------------------------
(* The algorithms the handler is built from.                               *)

\* int(float64(n) * couponWinnerRatio): the product is cut, never rounded up.
QuotaOneShort(n) == (n - 1) \div WinnerRatio
QuotaRoundedUp(n) == (n + WinnerRatio - 1) \div WinnerRatio
Quota(n) == n \div WinnerRatio

\* ORDER BY id LIMIT n, reservations[i:end] and reservations[:n]: the n rows
\* of S with the lowest ids, all of S when it has fewer, none when n < 0.
IsLowest(T, n, S) ==
    /\ T \subseteq S
    /\ Cardinality(T) = IF n < 0 THEN 0
                        ELSE IF Cardinality(S) < n THEN Cardinality(S) ELSE n
    /\ \A x \in T, y \in S \ T : x < y

\* The element a loop over the rows of S takes next.
IsNext(r, S) == r \in S /\ \A s \in S : r <= s

\* WHERE is_processed = FALSE
AllRows == reserved
Unprocessed == reserved \ processed

\* The rows BatchCreateCouponsWithTx marks next to the coupons it inserts.
TxMarksNothing(ids) == {}
TxMarks(ids) == ids

-----------------------------------------------------------------------------
(* The local state of handleReservations and how the calls it makes and    *)
(* their results change it.                                                *)

NoJob == [pc |-> "idle", cycle |-> 0, listed |-> 0, rest |-> {}, numCoupons |-> 0,
          pending |-> {}, nonWinners |-> {}, generated |-> 0]

\* handleReservations has listed rows and computed the quota of the cycle.
NewJob(n, rows) ==
    [NoJob EXCEPT !.pc = "batch", !.cycle = n, !.listed = Cardinality(rows),
                  !.rest = rows, !.numCoupons = Quota(Cardinality(rows))]

\* The batch is partitioned and codes are minted for the winners but failed.
\* Without any code createCouponsForWinners returns at once.
InBatch(j, batch, winners, failed) ==
    [j EXCEPT !.pc = IF winners \subseteq failed THEN "nonwinners" ELSE "tx",
              !.rest = @ \ batch, !.pending = winners \ failed,
              !.nonWinners = batch \ winners, !.generated = 0]

\* BatchCreateCouponsWithTx has returned: the number of its rows, or an error.
AfterTx(j, ok) ==
    IF ok THEN [j EXCEPT !.pc = "nonwinners", !.pending = {},
                         !.generated = Cardinality(j.pending)]
          ELSE [j EXCEPT !.pc = "create"]

\* The fallback loop goes on to its next code, or ends.
SkipCodeTakenOff(j, r) ==
    [j EXCEPT !.pending = @ \ {r}, !.generated = @ - 1,
              !.pc = IF j.pending = {r} THEN "nonwinners" ELSE "create"]
SkipCode(j, r) ==
    [j EXCEPT !.pending = @ \ {r},
              !.pc = IF j.pending = {r} THEN "nonwinners" ELSE "create"]

\* A coupon that was not created leaves its reservation alone (continue).
AfterCreateUnmarked(j, r, created) == SkipCode(j, r)
AfterCreateMarkAnyway(j, r, created) == [j EXCEPT !.pc = "mark"]
AfterCreate(j, r, created) ==
    IF created THEN [j EXCEPT !.pc = "mark"] ELSE SkipCode(j, r)

\* couponsGenerated++, whether the mark succeeded or not.
AfterMark(j, r) == [SkipCode(j, r) EXCEPT !.generated = @ + 1]

\* numCoupons -= couponsGenerated, then the loop condition i < numReservations.
EndBatchQuotaKept(j) ==
    [j EXCEPT !.pc = IF j.rest = {} THEN "idle" ELSE "batch",
              !.nonWinners = {}, !.generated = 0]
EndBatchForever(j) ==
    [j EXCEPT !.pc = "batch", !.nonWinners = {},
              !.numCoupons = @ - j.generated, !.generated = 0]
EndBatch(j) ==
    [j EXCEPT !.pc = IF j.rest = {} THEN "idle" ELSE "batch",
              !.nonWinners = {},
              !.numCoupons = @ - j.generated, !.generated = 0]

\* The batch UPDATE of the non-winners returned, or the loop over them did.
AfterNonWinners(j, ok) ==
    IF ok THEN EndBatch(j) ELSE [j EXCEPT !.pc = "eachNonWinner"]

AfterNonWinner(j, r) ==
    IF j.nonWinners = {r} THEN EndBatch(j) ELSE [j EXCEPT !.nonWinners = @ \ {r}]

-----------------------------------------------------------------------------
(* The database calls and their outcomes.                                  *)

\* A call returns "ok", fails without effect, or takes effect while its reply
\* is lost, as when the connection breaks during COMMIT.
Outcomes == {"ok", "fail", "lost"}

UseFault == faultsLeft > 0 /\ faultsLeft' = faultsLeft - 1

Returns(call, out) ==
    \/ out = "ok" /\ UNCHANGED faultsLeft
    \/ out = "fail" /\ call \in Failing /\ UseFault
    \/ out = "lost" /\ call \in Losing /\ UseFault

-----------------------------------------------------------------------------
Init ==
    /\ reserved = {} /\ processed = {} /\ coupons = {}
    /\ cycles = 0
    /\ job = [i \in Instances |-> NoJob]
    /\ window = "closed"
    /\ faultsLeft = MaxFaults
    /\ passedOver = {} /\ uncounted = {}

\* POST /reserve inserts a row.  A request let in by the time check may insert
\* after the window has closed, so the window is not in the guard; serial ids
\* are drawn before the row is visible, so the order of the ids is not either.
Reserve(r) ==
    /\ r \notin reserved
    /\ reserved' = reserved \cup {r}
    /\ UNCHANGED <<processed, coupons, cycles, job, window, faultsLeft, passedOver, uncounted>>

\* The reserve window opens and closes, every day.
ClockTick ==
    /\ window' = IF window = "open" THEN "closed" ELSE "open"
    /\ UNCHANGED <<database, cycles, job, faultsLeft, passedOver, uncounted>>

\* Rows an instance may hold locked: those its UPDATE marks, and all it lists
\* while the listing runs, which may be next or may just have returned.  Outside
\* a transaction its locks are gone when it does.
Locked(k) ==
    CASE job[k].pc = "tx" -> job[k].pending
      [] job[k].pc = "mark" -> {r \in job[k].pending : IsNext(r, job[k].pending)}
      [] job[k].pc = "nonwinners" -> job[k].nonWinners
      [] job[k].pc = "eachNonWinner" ->
            {r \in job[k].nonWinners : IsNext(r, job[k].nonWinners)}
      [] job[k].pc = "idle" -> Unprocessed
      [] job[k].pc = "batch" /\ Cardinality(job[k].rest) = job[k].listed -> job[k].rest
      [] OTHER -> {}

\* What SKIP LOCKED may leave out.
LockedByOthers(i) == UNION {Locked(k) : k \in Instances \ {i}}

\* A tick of reservationListener inside the window: list up to MaxPerCycle
\* unprocessed rows.  An empty listing changes nothing and is left out.
List(i) ==
    /\ job[i].pc = "idle" /\ window = "open"
    /\ Unprocessed # {}
    /\ \/ /\ Returns("list", "fail")
          /\ UNCHANGED <<cycles, job>>
       \/ /\ Returns("list", "ok")
          /\ cycles' = cycles + 1
          /\ \E skipped \in SUBSET LockedByOthers(i) :
             \E rows \in SUBSET (Unprocessed \ skipped) :
                /\ rows # {}
                /\ IsLowest(rows, MaxPerCycle, Unprocessed \ skipped)
                /\ job' = [job EXCEPT ![i] = NewJob(cycles + 1, rows)]
    /\ UNCHANGED <<database, window, passedOver, uncounted>>

\* Take the next batch, partition it, and mint a code for each winner; the
\* random source may fail for some of them, which are then left unprocessed.
StartBatch(i) ==
    /\ job[i].pc = "batch"
    /\ \E batch \in SUBSET job[i].rest :
       /\ IsLowest(batch, BatchSize, job[i].rest)
       /\ \E winners \in SUBSET batch :
          /\ IsLowest(winners, job[i].numCoupons, batch)
          /\ \E failed \in SUBSET winners :
             /\ Returns("code", IF failed = {} THEN "ok" ELSE "fail")
             /\ job' = [job EXCEPT ![i] = InBatch(@, batch, winners, failed)]
             /\ passedOver' = passedOver \cup (batch \ winners)
    /\ UNCHANGED <<database, cycles, window, uncounted>>

\* One transaction inserts the coupons and marks their reservations.  On any
\* error the fallback runs with the same codes.
BatchCreateCouponsWithTx(i) ==
    /\ job[i].pc = "tx"
    /\ \E out \in Outcomes :
          /\ Returns("tx", out)
          /\ IF out = "fail"
             THEN UNCHANGED <<coupons, processed>>
             ELSE /\ coupons' = coupons \cup (job[i].pending \X {job[i].cycle})
                  /\ processed' = processed \cup TxMarks(job[i].pending)
          /\ uncounted' = IF out = "lost" THEN uncounted \cup (coupons' \ coupons)
                                          ELSE uncounted
          /\ job' = [job EXCEPT ![i] = AfterTx(@, out = "ok")]
    /\ UNCHANGED <<reserved, cycles, window, passedOver>>

\* The fallback inserts one coupon.  The code column is UNIQUE: a code that a
\* transaction with a lost reply has inserted is refused.
CreateCoupon(i) ==
    /\ job[i].pc = "create"
    /\ \E r \in job[i].pending : \E out \in Outcomes :
          /\ IsNext(r, job[i].pending)
          /\ Returns("create", out)
          /\ LET code == <<r, job[i].cycle>> IN
             /\ coupons' = IF out = "fail" THEN coupons ELSE coupons \cup {code}
             /\ uncounted' = IF out = "lost" THEN uncounted \cup (coupons' \ coupons)
                                             ELSE uncounted
             /\ job' = [job EXCEPT ![i] =
                         AfterCreate(@, r, out = "ok" /\ code \notin coupons)]
    /\ UNCHANGED <<reserved, processed, cycles, window, passedOver>>

\* The fallback marks the reservation of the coupon it just created.  An error
\* is only logged: the coupon counts as generated either way.
MarkCreated(i) ==
    /\ job[i].pc = "mark"
    /\ \E r \in job[i].pending : \E out \in Outcomes :
          /\ IsNext(r, job[i].pending)
          /\ Returns("mark", out)
          /\ processed' = IF out = "fail" THEN processed ELSE processed \cup {r}
          /\ job' = [job EXCEPT ![i] = AfterMark(@, r)]
    /\ UNCHANGED <<reserved, coupons, cycles, window, passedOver, uncounted>>

\* One UPDATE marks the non-winners of the batch; with none it is not sent.
MarkNonWinners(i) ==
    /\ job[i].pc = "nonwinners"
    /\ \E out \in Outcomes :
          /\ job[i].nonWinners = {} => out = "ok"
          /\ Returns("nonwinners", out)
          /\ processed' = IF out = "fail" THEN processed
                                          ELSE processed \cup job[i].nonWinners
          /\ job' = [job EXCEPT ![i] = AfterNonWinners(@, out = "ok")]
    /\ UNCHANGED <<reserved, coupons, cycles, window, passedOver, uncounted>>

\* After an error they are marked one by one; a row that fails is skipped.
MarkEachNonWinner(i) ==
    /\ job[i].pc = "eachNonWinner"
    /\ \E r \in job[i].nonWinners : \E out \in Outcomes :
          /\ IsNext(r, job[i].nonWinners)
          /\ Returns("nonwinners", out)
          /\ processed' = IF out = "fail" THEN processed ELSE processed \cup {r}
          /\ job' = [job EXCEPT ![i] = AfterNonWinner(@, r)]
    /\ UNCHANGED <<reserved, coupons, cycles, window, passedOver, uncounted>>

\* The process dies and is started again: its rows stay, its job does not.
Crash(i) ==
    /\ job[i].pc \in CrashPoints
    /\ UseFault
    /\ job' = [job EXCEPT ![i] = NoJob]
    /\ UNCHANGED <<database, cycles, window, passedOver, uncounted>>

Step(i) ==
    \/ StartBatch(i)
    \/ BatchCreateCouponsWithTx(i)
    \/ CreateCoupon(i)
    \/ MarkCreated(i)
    \/ MarkNonWinners(i)
    \/ MarkEachNonWinner(i)

Next ==
    \/ \E r \in Reservations : Reserve(r)
    \/ ClockTick
    \/ \E i \in Instances : List(i) \/ Step(i) \/ Crash(i)

\* The listener runs to the end of a cycle, the clock goes on, and the window
\* holds many ticks of it: a listing possible again and again is made.
Fairness ==
    /\ WF_vars(ClockTick)
    /\ \A i \in Instances : WF_vars(Step(i)) /\ SF_vars(List(i))

Spec == Init /\ [][Next]_vars
FairSpec == Spec /\ Fairness

-----------------------------------------------------------------------------
(* Properties.                                                             *)

Jobs == [pc : Points, cycle : Nat, listed : Nat, rest : SUBSET Reservations,
         numCoupons : Int, pending : SUBSET Reservations,
         nonWinners : SUBSET Reservations, generated : Nat]

\* Every variable has its type; the loop counters stay natural or integer.
TypeOK ==
    /\ reserved \subseteq Reservations
    /\ processed \subseteq Reservations
    /\ coupons \subseteq Reservations \X Nat
    /\ cycles \in Nat
    /\ job \in [Instances -> Jobs]
    /\ window \in {"open", "closed"}
    /\ faultsLeft \in Nat
    /\ passedOver \subseteq Reservations
    /\ uncounted \subseteq coupons

CouponsOf(r) == {c \in coupons : c[1] = r}
CouponsOfCycle(n) == {c \in coupons : c[2] = n}

\* No reservation is lost: one that is marked processed had a coupon created
\* for it, or was passed over as a non-winner, whichever calls fail, whichever
\* replies are lost and wherever instances crash
\* (fallbackCreateCouponsIndividually, "Only mark as processed after
\* successful coupon creation").
ProcessedHasCause ==
    \A r \in processed : CouponsOf(r) # {} \/ r \in passedOver

\* A reservation with a coupon is marked at once, or the instance that created
\* the coupon is about to: each failed mark, lost reply or crash leaves one such
\* reservation at most half done, to be issued again, however many instances
\* work on the same rows (fallbackCreateCouponsIndividually, "Each successful
\* coupon creation immediately marks its reservation as processed").
AboutToMark(r) == \E i \in Instances : job[i].pc = "mark" /\ IsNext(r, job[i].pending)

HalfDone ==
    {r \in Reservations : CouponsOf(r) # {} /\ r \notin processed /\ ~ AboutToMark(r)}

HalfDoneByFaults == Cardinality(HalfDone) <= MaxFaults - faultsLeft

\* A reservation never yields two coupons, though its winners may be handled
\* by the transaction, then by the fallback, then by a later cycle again
\* (createCouponsForWinners).
NoDoubleIssue ==
    \A c, d \in coupons : c[1] = d[1] => c = d

\* One invocation of handleReservations issues at most one coupon for each
\* WinnerRatio rows it listed, over all its batches and fallbacks, whichever
\* calls fail; it exceeds that only by coupons it cannot know of, as the reply
\* to their insert was lost (numCoupons -= couponsGenerated).
CycleQuota ==
    \A i \in Instances :
        job[i].cycle > 0 =>
            Cardinality(CouponsOfCycle(job[i].cycle) \ uncounted) * WinnerRatio
                <= job[i].listed

\* Without a fault all cycles together issue at most one coupon for each
\* WinnerRatio reservations ever made, though every cycle computes a quota of
\* its own (handleReservations) and reservations go on to arrive while it runs.
TotalQuotaWithoutFaults ==
    faultsLeft = MaxFaults =>
        Cardinality(coupons) * WinnerRatio <= Cardinality(reserved)

\* Without a fault no coupon is held back but for the fraction each cycle cuts
\* off its product, though the quota is handed on from batch to batch
\* (handleReservations, "20% of reservations will receive coupons").
WithheldIsCutOff ==
    faultsLeft = MaxFaults =>
        Cardinality(processed) + cycles <= (Cardinality(coupons) + cycles) * WinnerRatio

\* Every reservation is settled some day, however its cycles fail, as long as
\* the failures end (reservationListener tries again on every tick).
EveryReservationSettled ==
    \A r \in Reservations : r \in reserved ~> r \in processed

-----------------------------------------------------------------------------
(* What the listener promises: IssueLedger, one outcome per reservation.   *)

Outcome(r) ==
    IF r \notin reserved THEN "absent"
    ELSE IF Cardinality(CouponsOf(r)) > 1 THEN "overpaid"
    ELSE IF CouponsOf(r) # {} THEN "coupon"
    ELSE IF r \in processed THEN "none" ELSE "open"

Ledger == INSTANCE IssueLedger WITH outcome <- [r \in Reservations |-> Outcome(r)]

\* The listener implements the ledger: outcomes are final, at most one coupon
\* each, and every reservation that was entered gets one in the end.
ImplementsLedger == Ledger!FairSpec
=============================================================================
