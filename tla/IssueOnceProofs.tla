--------------------------- MODULE IssueOnceProofs ---------------------------
(***************************************************************************)
(* With one instance of the server, and unless the fallback's own insert   *)
(* or mark goes wrong, a reservation never yields two coupons: neither a   *)
(* transaction whose reply is lost, nor the fallback that repeats it, nor  *)
(* a later cycle that retries what failed issues twice.                    *)
(***************************************************************************)
EXTENDS CouponIssueProofs

\* The conditions the theorem needs.  Each is necessary: without it the model
\* checker finds a reservation with two coupons.
IssuedOnceConditions ==
    /\ \A i, k \in Instances : i = k
    /\ "mark" \notin Failing /\ "mark" \notin CrashPoints
    /\ "create" \notin Losing

\* The rows an instance has listed are reservations, and each is still to be
\* batched, about to get a coupon, or about to be passed over.
RowsApart(i) ==
    /\ job[i].rest \cup job[i].pending \cup job[i].nonWinners \subseteq reserved
    /\ job[i].rest \cap job[i].pending = {}
    /\ job[i].rest \cap job[i].nonWinners = {}
    /\ job[i].pending \cap job[i].nonWinners = {}
    /\ job[i].pc \notin {"tx", "create", "mark"} => job[i].pending = {}

\* Rows to be batched or passed over have no coupon, those about to get one
\* have none but that of this very cycle.
NotYetIssued(i) ==
    /\ job[i].rest \cap processed = {}
    /\ \A r \in job[i].pending \cap processed : CouponsOf(r) # {}
    /\ \A c \in coupons :
         /\ c[1] \notin job[i].rest
         /\ c[1] \notin job[i].nonWinners
         /\ c[1] \in job[i].pending => c[2] = job[i].cycle /\ job[i].pc # "tx"

\* Rows with a coupon are processed, but the one that is marked next.
IssuedIsMarked(i) ==
    \A c \in coupons :
        \/ c[1] \in processed
        \/ job[i].pc = "mark" /\ IsNext(c[1], job[i].pending)

OnceInv ==
    /\ NoDoubleIssue
    /\ \A c \in coupons : c[1] \in reserved
    /\ \A i \in Instances : RowsApart(i) /\ NotYetIssued(i) /\ IssuedIsMarked(i)

LEMMA OnceInit == Init => OnceInv
  BY DEF Init, OnceInv, NoDoubleIssue, RowsApart, NotYetIssued, IssuedIsMarked,
         NoJob, CouponsOf

LEMMA OnceStep ==
    ASSUME IssuedOnceConditions, TypeOK, OnceInv, [Next]_vars
    PROVE  OnceInv'
  <1>0. job \in [Instances -> Jobs]
    BY DEF TypeOK
  <1>1. ASSUME NEW i \in Instances, RowsApart(i)', NotYetIssued(i)', IssuedIsMarked(i)',
               NoDoubleIssue', \A c \in coupons' : c[1] \in reserved'
        PROVE  OnceInv'
    BY <1>1 DEF OnceInv, IssuedOnceConditions
  <1>2. ASSUME UNCHANGED <<processed, coupons, job>>, reserved \subseteq reserved'
        PROVE  OnceInv'
    BY <1>2 DEF OnceInv, NoDoubleIssue, RowsApart, NotYetIssued, IssuedIsMarked,
                IsNext, CouponsOf
  <1>3. ASSUME NEW i \in Instances, List(i) PROVE OnceInv'
    <2>1. CASE UNCHANGED job
      BY <1>2, <1>3, <2>1 DEF List, database
    <2>2. ASSUME NEW n, NEW rows \in SUBSET Unprocessed,
                 job' = [job EXCEPT ![i] = NewJob(n, rows)]
          PROVE  OnceInv'
      <3>1. /\ job'[i].pc = "batch" /\ job'[i].rest = rows
            /\ job'[i].pending = {} /\ job'[i].nonWinners = {}
        BY <1>0, <2>2 DEF NewJob, NoJob
      <3>2. UNCHANGED <<reserved, processed, coupons>>
        BY <1>3 DEF List, database
      <3>3. RowsApart(i)'
        BY <3>1, <3>2 DEF RowsApart, Unprocessed
      <3>4. \A c \in coupons : c[1] \in processed
        BY <1>3 DEF OnceInv, IssuedIsMarked, List
      <3>5. NotYetIssued(i)' /\ IssuedIsMarked(i)'
        BY <3>1, <3>2, <3>4 DEF NotYetIssued, IssuedIsMarked, Unprocessed
      <3> QED
        BY <1>1, <3>2, <3>3, <3>5 DEF OnceInv, NoDoubleIssue
    <2> QED
      BY <1>3, <2>1, <2>2 DEF List
  <1>4. ASSUME NEW i \in Instances, StartBatch(i) PROVE OnceInv'
    <2>1. PICK batch, winners, failed :
             /\ batch \subseteq job[i].rest /\ winners \subseteq batch
             /\ job' = [job EXCEPT ![i] = InBatch(@, batch, winners, failed)]
      BY <1>4 DEF StartBatch
    <2>2. UNCHANGED <<reserved, processed, coupons>>
      BY <1>4 DEF StartBatch, database
    <2>3. /\ job'[i].pc = IF winners \subseteq failed THEN "nonwinners" ELSE "tx"
          /\ job'[i].rest = job[i].rest \ batch
          /\ job'[i].pending = winners \ failed
          /\ job'[i].nonWinners = batch \ winners
      BY <1>0, <2>1 DEF InBatch, Jobs
    <2>4. RowsApart(i)'
      BY <2>1, <2>2, <2>3 DEF OnceInv, RowsApart
    <2>5. NotYetIssued(i)'
      BY <2>1, <2>2, <2>3 DEF OnceInv, NotYetIssued
    <2>6. IssuedIsMarked(i)'
      BY <1>4, <2>2 DEF OnceInv, IssuedIsMarked, StartBatch
    <2> QED
      BY <1>1, <2>2, <2>4, <2>5, <2>6 DEF OnceInv, NoDoubleIssue
  <1>5. ASSUME NEW i \in Instances, BatchCreateCouponsWithTx(i) PROVE OnceInv'
    <2> DEFINE p == job[i].pending
               n == job[i].cycle
    <2>1. PICK out \in Outcomes :
             /\ IF out = "fail"
                THEN UNCHANGED <<coupons, processed>>
                ELSE /\ coupons' = coupons \cup (p \X {n})
                     /\ processed' = processed \cup p
             /\ job' = [job EXCEPT ![i] = AfterTx(@, out = "ok")]
             /\ reserved' = reserved
      BY <1>5 DEF BatchCreateCouponsWithTx, TxMarks
    <2>2. /\ job'[i].rest = job[i].rest
          /\ job'[i].nonWinners = job[i].nonWinners
          /\ job'[i].cycle = n
          /\ IF out = "ok" THEN job'[i].pc = "nonwinners" /\ job'[i].pending = {}
                           ELSE job'[i].pc = "create" /\ job'[i].pending = p
      BY <1>0, <2>1 DEF AfterTx, Jobs
    <2>3. RowsApart(i)'
      BY <2>1, <2>2 DEF OnceInv, RowsApart
    <2>4. \A c \in coupons : c[1] \in processed
      BY <1>5 DEF OnceInv, IssuedIsMarked, BatchCreateCouponsWithTx
    <2>5. CASE out = "fail"
      <3>1. UNCHANGED <<coupons, processed>>
        BY <2>1, <2>5
      <3>2. NotYetIssued(i)'
        BY <2>2, <2>5, <3>1 DEF OnceInv, NotYetIssued, CouponsOf
      <3>3. IssuedIsMarked(i)'
        BY <2>4, <3>1 DEF IssuedIsMarked
      <3> QED
        BY <1>1, <2>1, <2>3, <3>1, <3>2, <3>3 DEF OnceInv, NoDoubleIssue
    <2>6. CASE out # "fail"
      <3>1. coupons' = coupons \cup (p \X {n}) /\ processed' = processed \cup p
        BY <2>1, <2>6
      <3>2. \A c \in coupons : c[1] \notin p
        BY <1>5 DEF OnceInv, NotYetIssued, BatchCreateCouponsWithTx
      <3>3. NoDoubleIssue'
        BY <3>1, <3>2 DEF OnceInv, NoDoubleIssue
      <3>4. \A r \in p : CouponsOf(r)' # {}
        <4> TAKE r \in p
        <4>1. <<r, n>> \in coupons'
          BY <3>1
        <4> QED
          BY <4>1 DEF CouponsOf
      <3>5. \A c \in coupons' : c \in coupons \/ (c[1] \in p /\ c[2] = n)
        BY <3>1
      <3>6. NotYetIssued(i)'
        <4>1. job[i].rest \cap processed' = {}
          BY <3>1 DEF OnceInv, NotYetIssued, RowsApart
        <4>2. \A r \in job'[i].pending \cap processed' : CouponsOf(r)' # {}
          BY <2>2, <3>4
        <4>3. \A c \in coupons' : c[1] \notin job[i].rest /\ c[1] \notin job[i].nonWinners
          BY <3>5 DEF OnceInv, NotYetIssued, RowsApart
        <4>4. \A c \in coupons' : c[1] \in p => c[2] = n
          BY <3>2, <3>5
        <4> QED
          BY <2>2, <4>1, <4>2, <4>3, <4>4 DEF NotYetIssued
      <3>7. IssuedIsMarked(i)'
        BY <2>4, <3>1, <3>5 DEF IssuedIsMarked
      <3>8. \A c \in coupons' : c[1] \in reserved'
        BY <2>1, <3>5 DEF OnceInv, RowsApart
      <3> QED
        BY <1>1, <2>3, <3>3, <3>6, <3>7, <3>8
    <2> QED
      BY <2>5, <2>6
  <1>6. ASSUME NEW i \in Instances, CreateCoupon(i) PROVE OnceInv'
    <2> DEFINE p == job[i].pending
               n == job[i].cycle
    <2>1. PICK r \in p, out \in Outcomes :
             /\ IsNext(r, p)
             /\ coupons' = IF out = "fail" THEN coupons ELSE coupons \cup {<<r, n>>}
             /\ job' = [job EXCEPT ![i] =
                         AfterCreate(@, r, out = "ok" /\ <<r, n>> \notin coupons)]
             /\ UNCHANGED <<reserved, processed>>
             /\ Returns("create", out)
      BY <1>6 DEF CreateCoupon
    <2>2. out # "lost"
      BY <2>1 DEF Returns, IssuedOnceConditions
    <2>3. \A c \in coupons : c[1] \in processed
      BY <1>6 DEF OnceInv, IssuedIsMarked, CreateCoupon
    <2>4. CASE out = "ok" /\ <<r, n>> \notin coupons
      <3>1. /\ job'[i].rest = job[i].rest /\ job'[i].pending = p
            /\ job'[i].nonWinners = job[i].nonWinners
            /\ job'[i].cycle = n /\ job'[i].pc = "mark"
        BY <1>0, <2>1, <2>4 DEF AfterCreate, Jobs
      <3>2. coupons' = coupons \cup {<<r, n>>}
        BY <2>1, <2>4
      <3>3. \A c \in coupons : c[1] # r
        <4> TAKE c \in coupons
        <4>1. SUFFICES ASSUME c[1] = r PROVE FALSE
          OBVIOUS
        <4>2. c[2] = n
          BY <4>1 DEF OnceInv, NotYetIssued
        <4>3. c = <<r, n>>
          BY <4>1, <4>2 DEF TypeOK
        <4> QED
          BY <2>4, <4>3
      <3>4. NoDoubleIssue'
        BY <3>2, <3>3 DEF OnceInv, NoDoubleIssue
      <3>5. RowsApart(i)'
        BY <2>1, <3>1 DEF OnceInv, RowsApart
      <3>6. NotYetIssued(i)'
        <4>1. \A s \in p \cap processed : CouponsOf(s)' # {}
          BY <3>2 DEF OnceInv, NotYetIssued, CouponsOf
        <4>2. \A c \in coupons' : c[1] \notin job[i].rest /\ c[1] \notin job[i].nonWinners
          BY <3>2 DEF OnceInv, NotYetIssued, RowsApart
        <4>3. \A c \in coupons' : c[1] \in p => c[2] = n
          BY <3>2 DEF OnceInv, NotYetIssued
        <4> QED
          BY <2>1, <3>1, <4>1, <4>2, <4>3 DEF OnceInv, NotYetIssued
      <3>7. IssuedIsMarked(i)'
        BY <2>1, <2>3, <3>1, <3>2 DEF IssuedIsMarked
      <3>8. \A c \in coupons' : c[1] \in reserved'
        BY <2>1, <3>2 DEF OnceInv, RowsApart
      <3> QED
        BY <1>1, <3>4, <3>5, <3>6, <3>7, <3>8
    <2>5. CASE ~ (out = "ok" /\ <<r, n>> \notin coupons)
      <3>1. coupons' = coupons
        BY <2>1, <2>2, <2>5 DEF Outcomes
      <3>2. /\ job'[i].rest = job[i].rest /\ job'[i].pending = p \ {r}
            /\ job'[i].nonWinners = job[i].nonWinners
            /\ job'[i].cycle = n
            /\ job'[i].pc = IF p = {r} THEN "nonwinners" ELSE "create"
        BY <1>0, <2>1, <2>5 DEF AfterCreate, SkipCode, Jobs
      <3>3. RowsApart(i)'
        BY <2>1, <3>2 DEF OnceInv, RowsApart
      <3>4. NotYetIssued(i)'
        BY <2>1, <3>1, <3>2 DEF OnceInv, NotYetIssued, CouponsOf
      <3>5. IssuedIsMarked(i)'
        BY <2>1, <2>3, <3>1 DEF IssuedIsMarked
      <3> QED
        BY <1>1, <2>1, <3>1, <3>3, <3>4, <3>5 DEF OnceInv, NoDoubleIssue
    <2> QED
      BY <2>4, <2>5
  <1>7. ASSUME NEW i \in Instances, MarkCreated(i) PROVE OnceInv'
    <2> DEFINE p == job[i].pending
    <2>1. PICK r \in p, out \in Outcomes :
             /\ IsNext(r, p)
             /\ processed' = IF out = "fail" THEN processed ELSE processed \cup {r}
             /\ job' = [job EXCEPT ![i] = AfterMark(@, r)]
             /\ UNCHANGED <<reserved, coupons>>
             /\ Returns("mark", out)
      BY <1>7 DEF MarkCreated
    <2>2. processed' = processed \cup {r}
      BY <2>1 DEF Returns, IssuedOnceConditions
    <2>3. /\ job'[i].rest = job[i].rest /\ job'[i].pending = p \ {r}
          /\ job'[i].nonWinners = job[i].nonWinners
          /\ job'[i].cycle = job[i].cycle
          /\ job'[i].pc = IF p = {r} THEN "nonwinners" ELSE "create"
      BY <1>0, <2>1 DEF AfterMark, SkipCode, Jobs
    <2>4. RowsApart(i)'
      BY <2>1, <2>3 DEF OnceInv, RowsApart
    <2>5. NotYetIssued(i)'
      BY <2>1, <2>2, <2>3 DEF OnceInv, NotYetIssued, RowsApart, CouponsOf
    <2>6. \A s \in p : IsNext(s, p) => s = r
      BY <1>0, <2>1, NextIsUnique DEF Jobs
    <2>7. IssuedIsMarked(i)'
      BY <2>1, <2>2, <2>6 DEF OnceInv, IssuedIsMarked, IsNext
    <2> QED
      BY <1>1, <2>1, <2>4, <2>5, <2>7 DEF OnceInv, NoDoubleIssue
  <1>8. ASSUME NEW i \in Instances, MarkNonWinners(i) PROVE OnceInv'
    <2>1. PICK ok \in BOOLEAN :
             /\ processed \subseteq processed'
             /\ processed' \subseteq processed \cup job[i].nonWinners
             /\ job' = [job EXCEPT ![i] = AfterNonWinners(@, ok)]
             /\ UNCHANGED <<reserved, coupons>>
             /\ job[i].pc = "nonwinners"
      BY <1>8 DEF MarkNonWinners
    <2>2. /\ job'[i].rest = job[i].rest /\ job'[i].pending = job[i].pending
          /\ job'[i].nonWinners \subseteq job[i].nonWinners
          /\ job'[i].cycle = job[i].cycle
          /\ job'[i].pc \in {"idle", "batch", "eachNonWinner"}
      BY <1>0, <2>1 DEF AfterNonWinners, EndBatch, Jobs
    <2>3. RowsApart(i)'
      BY <2>1, <2>2 DEF OnceInv, RowsApart
    <2>4. NotYetIssued(i)'
      BY <2>1, <2>2 DEF OnceInv, NotYetIssued, RowsApart, CouponsOf
    <2>5. IssuedIsMarked(i)'
      BY <2>1 DEF OnceInv, IssuedIsMarked
    <2> QED
      BY <1>1, <2>1, <2>3, <2>4, <2>5 DEF OnceInv, NoDoubleIssue
  <1>9. ASSUME NEW i \in Instances, MarkEachNonWinner(i) PROVE OnceInv'
    <2>1. PICK r \in job[i].nonWinners :
             /\ processed \subseteq processed'
             /\ processed' \subseteq processed \cup {r}
             /\ job' = [job EXCEPT ![i] = AfterNonWinner(@, r)]
             /\ UNCHANGED <<reserved, coupons>>
             /\ job[i].pc = "eachNonWinner"
      BY <1>9 DEF MarkEachNonWinner
    <2>2. /\ job'[i].rest = job[i].rest /\ job'[i].pending = job[i].pending
          /\ job'[i].nonWinners \subseteq job[i].nonWinners
          /\ job'[i].cycle = job[i].cycle
          /\ job'[i].pc \in {"idle", "batch", "eachNonWinner"}
      BY <1>0, <2>1 DEF AfterNonWinner, EndBatch, Jobs
    <2>3. RowsApart(i)'
      BY <2>1, <2>2 DEF OnceInv, RowsApart
    <2>4. NotYetIssued(i)'
      BY <2>1, <2>2 DEF OnceInv, NotYetIssued, RowsApart, CouponsOf
    <2>5. IssuedIsMarked(i)'
      BY <2>1 DEF OnceInv, IssuedIsMarked
    <2> QED
      BY <1>1, <2>1, <2>3, <2>4, <2>5 DEF OnceInv, NoDoubleIssue
  <1>10. ASSUME NEW i \in Instances, Crash(i) PROVE OnceInv'
    <2>1. job[i].pc # "mark"
      BY <1>10 DEF Crash, IssuedOnceConditions
    <2>2. job'[i] = NoJob /\ UNCHANGED <<reserved, processed, coupons>>
      BY <1>0, <1>10 DEF Crash, database
    <2>3. RowsApart(i)' /\ NotYetIssued(i)'
      BY <2>2 DEF RowsApart, NotYetIssued, NoJob
    <2>4. IssuedIsMarked(i)'
      BY <2>1, <2>2 DEF OnceInv, IssuedIsMarked
    <2> QED
      BY <1>1, <2>2, <2>3, <2>4 DEF OnceInv, NoDoubleIssue
  <1>11. ASSUME NEW r \in Reservations, Reserve(r) PROVE OnceInv'
    BY <1>2, <1>11 DEF Reserve
  <1>12. CASE ClockTick
    BY <1>2, <1>12 DEF ClockTick, database
  <1>13. CASE UNCHANGED vars
    BY <1>2, <1>13 DEF vars
  <1> QED
    BY <1>3, <1>4, <1>5, <1>6, <1>7, <1>8, <1>9, <1>10, <1>11, <1>12, <1>13
       DEF Next, Step

\* A reservation never yields two coupons, in any number of cycles, batches,
\* failed transactions, lost replies and crashes, under IssuedOnceConditions.
THEOREM IssuedOnce ==
    ASSUME IssuedOnceConditions
    PROVE  Spec => []NoDoubleIssue
  <1>1. TypeOK /\ OnceInv /\ [Next]_vars => OnceInv'
    BY OnceStep
  <1>2. OnceInv => NoDoubleIssue
    BY DEF OnceInv
  <1> QED
    BY <1>1, <1>2, OnceInit, TypeCorrect, PTL DEF Spec

-----------------------------------------------------------------------------
(* The listener implements IssueLedger.                                    *)

\* Of coupons no two of which are of one reservation, one has at most one.
LEMMA AtMostOne ==
    ASSUME NEW C, \A c, d \in C : c[1] = d[1] => c = d, NEW r
    PROVE  ~ (Cardinality({c \in C : c[1] = r}) > 1)
  <1> DEFINE S == {c \in C : c[1] = r}
  <1>1. CASE S = {}
    <2>1. Cardinality(S) = 0
      BY <1>1, FS_EmptySet
    <2> HIDE DEF S
    <2>2. ~ (Cardinality(S) > 1)
      BY <2>1
    <2> QED
      BY <2>2 DEF S
  <1>2. CASE S # {}
    <2>1. PICK c \in C : S = {c}
      BY <1>2
    <2>2. Cardinality(S) = 1
      BY <2>1, FS_Singleton
    <2> HIDE DEF S
    <2>3. ~ (Cardinality(S) > 1)
      BY <2>2
    <2> QED
      BY <2>3 DEF S
  <1> QED
    BY <1>1, <1>2

\* The outcome of a reservation that has at most one coupon.
PlainOutcome(r) ==
    IF r \notin reserved THEN "absent"
    ELSE IF CouponsOf(r) # {} THEN "coupon"
    ELSE IF r \in processed THEN "none" ELSE "open"

LEMMA OutcomeIsPlain ==
    ASSUME NoDoubleIssue
    PROVE  \A r \in Reservations : Outcome(r) = PlainOutcome(r)
  BY AtMostOne DEF NoDoubleIssue, Outcome, PlainOutcome, CouponsOf

LEMMA OutcomeIsPlainNext ==
    ASSUME NoDoubleIssue'
    PROVE  \A r \in Reservations : Outcome(r)' = PlainOutcome(r)'
  BY AtMostOne DEF NoDoubleIssue, Outcome, PlainOutcome, CouponsOf

\* A step that turns the outcomes of S, and no others, is one of the ledger.
LEMMA LedgerTurn ==
    ASSUME NoDoubleIssue, NoDoubleIssue', NEW S \in SUBSET Reservations, NEW from, NEW to,
           \A r \in S : PlainOutcome(r) = from /\ PlainOutcome(r)' = to,
           \A r \in Reservations \ S : PlainOutcome(r)' = PlainOutcome(r)
    PROVE  Ledger!Turn(S, from, to)
  <1>1. \A r \in S : Outcome(r) = from /\ Outcome(r)' = to
    BY OutcomeIsPlain, OutcomeIsPlainNext
  <1>2. \A r \in Reservations \ S : Outcome(r)' = Outcome(r)
    BY OutcomeIsPlain, OutcomeIsPlainNext
  <1>3. \A r \in S : [s \in Reservations |-> Outcome(s)][r] = from
    BY <1>1
  <1>4. [s \in Reservations |-> Outcome(s)']
          = [r \in Reservations |-> IF r \in S THEN to ELSE [s \in Reservations |-> Outcome(s)][r]]
    BY <1>1, <1>2
  <1> QED
    BY <1>3, <1>4 DEF Ledger!Turn

\* A step that turns none is a stutter of it.
LEMMA LedgerStays ==
    ASSUME NoDoubleIssue, NoDoubleIssue',
           \A r \in Reservations : PlainOutcome(r)' = PlainOutcome(r)
    PROVE  UNCHANGED [r \in Reservations |-> Outcome(r)]
  BY OutcomeIsPlain, OutcomeIsPlainNext

\* Only reservations are ever processed.
ProcessedReserved == processed \subseteq reserved

LEMMA ProcessedStep ==
    ASSUME TypeOK, OnceInv, ProcessedReserved, [Next]_vars
    PROVE  ProcessedReserved'
  <1>1. \A i \in Instances : job[i].pending \subseteq reserved /\ job[i].nonWinners \subseteq reserved
    BY DEF OnceInv, RowsApart
  <1>2. ASSUME processed' = processed, reserved \subseteq reserved' PROVE ProcessedReserved'
    BY <1>2 DEF ProcessedReserved
  <1>3. ASSUME NEW i \in Instances, reserved' = reserved,
               processed' \subseteq processed \cup (job[i].pending \cup job[i].nonWinners)
        PROVE  ProcessedReserved'
    BY <1>1, <1>3 DEF ProcessedReserved
  <1>4. ASSUME NEW i \in Instances, BatchCreateCouponsWithTx(i) PROVE ProcessedReserved'
    BY <1>3, <1>4 DEF BatchCreateCouponsWithTx, TxMarks
  <1>5. ASSUME NEW i \in Instances, MarkCreated(i) PROVE ProcessedReserved'
    BY <1>3, <1>5 DEF MarkCreated
  <1>6. ASSUME NEW i \in Instances, MarkNonWinners(i) PROVE ProcessedReserved'
    BY <1>3, <1>6 DEF MarkNonWinners
  <1>7. ASSUME NEW i \in Instances, MarkEachNonWinner(i) PROVE ProcessedReserved'
    BY <1>3, <1>7 DEF MarkEachNonWinner
  <1>8. ASSUME NEW i \in Instances, CreateCoupon(i) PROVE ProcessedReserved'
    BY <1>2, <1>8 DEF CreateCoupon
  <1>9. ASSUME NEW i \in Instances, List(i) \/ StartBatch(i) \/ Crash(i) PROVE ProcessedReserved'
    BY <1>2, <1>9 DEF List, StartBatch, Crash, database
  <1>10. ASSUME NEW r \in Reservations, Reserve(r) PROVE ProcessedReserved'
    BY <1>2, <1>10 DEF Reserve
  <1>11. CASE ClockTick \/ UNCHANGED vars
    BY <1>2, <1>11 DEF ClockTick, database, vars
  <1> QED
    BY <1>4, <1>5, <1>6, <1>7, <1>8, <1>9, <1>10, <1>11 DEF Next, Step

\* Every step of the listener is one of the ledger, or a stutter.
LEMMA LedgerStep ==
    ASSUME IssuedOnceConditions, TypeOK, CauseInv, OnceInv, OnceInv', ProcessedReserved,
           [Next]_vars
    PROVE  [Ledger!Next]_[r \in Reservations |-> Outcome(r)]
  <1> DEFINE out == [r \in Reservations |-> Outcome(r)]
  <1>0. NoDoubleIssue /\ NoDoubleIssue'
    BY DEF OnceInv
  <1>1. ASSUME UNCHANGED <<reserved, processed, coupons>> PROVE UNCHANGED out
    BY <1>1 DEF Outcome, CouponsOf
  <1>2. ASSUME NEW S \in SUBSET Reservations,
               \/ Ledger!Turn(S, "open", "coupon") \/ Ledger!Turn(S, "open", "none")
        PROVE  Ledger!Next
    BY <1>2 DEF Ledger!Next, Ledger!Award, Ledger!PassOver
  <1>3. ASSUME NEW r \in Reservations, Reserve(r) PROVE Ledger!Next
    <2>1. /\ r \notin reserved /\ reserved' = reserved \cup {r}
          /\ UNCHANGED <<processed, coupons>>
      BY <1>3 DEF Reserve
    <2>2. CouponsOf(r) = {} /\ r \notin processed
      BY <2>1 DEF OnceInv, CouponsOf, ProcessedReserved
    <2>3. \A s \in {r} : PlainOutcome(s) = "absent" /\ PlainOutcome(s)' = "open"
      BY <2>1, <2>2 DEF PlainOutcome, CouponsOf
    <2>4. \A s \in Reservations \ {r} : PlainOutcome(s)' = PlainOutcome(s)
      BY <2>1 DEF PlainOutcome, CouponsOf
    <2>5. Ledger!Turn({r}, "absent", "open")
      BY <1>0, <2>3, <2>4, LedgerTurn
    <2> QED
      BY <2>5 DEF Ledger!Next, Ledger!Enter
  <1>4. ASSUME NEW i \in Instances, BatchCreateCouponsWithTx(i) PROVE Ledger!Next \/ UNCHANGED out
    <2> DEFINE p == job[i].pending
               n == job[i].cycle
    <2>1. PICK o \in Outcomes :
             IF o = "fail" THEN UNCHANGED <<coupons, processed>>
                           ELSE /\ coupons' = coupons \cup (p \X {n})
                                /\ processed' = processed \cup p
      BY <1>4 DEF BatchCreateCouponsWithTx, TxMarks
    <2>2. reserved' = reserved /\ job[i].pc = "tx"
      BY <1>4 DEF BatchCreateCouponsWithTx
    <2>3. CASE o = "fail"
      BY <1>1, <2>1, <2>2, <2>3
    <2>4. CASE o # "fail"
      <3>1. p \subseteq reserved /\ p \subseteq Reservations
        BY DEF OnceInv, RowsApart, TypeOK
      <3>2. \A r \in p : CouponsOf(r) = {} /\ r \notin processed
        BY <2>2 DEF OnceInv, NotYetIssued, CouponsOf
      <3>3. \A r \in p : <<r, n>> \in coupons'
        BY <2>1, <2>4
      <3>4. \A r \in p : CouponsOf(r)' # {}
        <4> TAKE r \in p
        <4>1. <<r, n>> \in coupons'
          BY <3>3
        <4> QED
          BY <4>1 DEF CouponsOf
      <3>5. \A r \in p : PlainOutcome(r) = "open" /\ PlainOutcome(r)' = "coupon"
        BY <2>2, <3>1, <3>2, <3>4 DEF PlainOutcome
      <3>6. \A r \in Reservations \ p : PlainOutcome(r)' = PlainOutcome(r)
        <4> TAKE r \in Reservations \ p
        <4>1. CouponsOf(r)' = CouponsOf(r) /\ (r \in processed' <=> r \in processed)
          BY <2>1, <2>4 DEF CouponsOf
        <4> QED
          BY <2>2, <4>1 DEF PlainOutcome
      <3> HIDE DEF p
      <3>7. Ledger!Turn(p, "open", "coupon")
        BY <1>0, <3>1, <3>5, <3>6, LedgerTurn
      <3> QED
        BY <1>2, <3>1, <3>7
    <2> QED
      BY <2>3, <2>4
  <1>5. ASSUME NEW i \in Instances, CreateCoupon(i) PROVE Ledger!Next \/ UNCHANGED out
    <2> DEFINE n == job[i].cycle
    <2>1. PICK r \in job[i].pending, o \in Outcomes :
             /\ coupons' = IF o = "fail" THEN coupons ELSE coupons \cup {<<r, n>>}
             /\ Returns("create", o)
      BY <1>5 DEF CreateCoupon
    <2>2. UNCHANGED <<reserved, processed>>
      BY <1>5 DEF CreateCoupon
    <2>3. CASE coupons' = coupons
      BY <1>1, <2>2, <2>3
    <2>4. CASE coupons' # coupons
      <3>1. coupons' = coupons \cup {<<r, n>>} /\ <<r, n>> \notin coupons
        BY <2>1, <2>4
      <3>2. r \in reserved /\ r \in Reservations
        BY DEF OnceInv, RowsApart, TypeOK
      <3>3. CouponsOf(r) = {}
        <4> SUFFICES ASSUME NEW c \in coupons, c[1] = r PROVE FALSE
          BY DEF CouponsOf
        <4>1. c[2] = n
          BY DEF OnceInv, NotYetIssued
        <4>2. c = <<r, n>>
          BY <4>1 DEF TypeOK
        <4> QED
          BY <3>1, <4>2
      <3>4. r \notin processed
        BY <3>3 DEF OnceInv, NotYetIssued
      <3>5. <<r, n>> \in coupons'
        BY <3>1
      <3>6. CouponsOf(r)' # {}
        BY <3>5 DEF CouponsOf
      <3>7. \A s \in {r} : PlainOutcome(s) = "open" /\ PlainOutcome(s)' = "coupon"
        BY <2>2, <3>2, <3>3, <3>4, <3>6 DEF PlainOutcome
      <3>8. \A s \in Reservations \ {r} : PlainOutcome(s)' = PlainOutcome(s)
        <4> TAKE s \in Reservations \ {r}
        <4>1. CouponsOf(s)' = CouponsOf(s)
          BY <3>1 DEF CouponsOf
        <4> QED
          BY <2>2, <4>1 DEF PlainOutcome
      <3>9. Ledger!Turn({r}, "open", "coupon")
        BY <1>0, <3>2, <3>7, <3>8, LedgerTurn
      <3> QED
        BY <1>2, <3>2, <3>9
    <2> QED
      BY <2>3, <2>4
  <1>6. ASSUME NEW i \in Instances, MarkCreated(i) PROVE UNCHANGED out
    <2>1. PICK r \in job[i].pending :
             /\ IsNext(r, job[i].pending)
             /\ processed' = processed \/ processed' = processed \cup {r}
             /\ UNCHANGED <<reserved, coupons>>
             /\ job[i].pc = "mark"
      BY <1>6 DEF MarkCreated
    <2>2. <<r, job[i].cycle>> \in coupons
      BY <2>1 DEF CauseInv, JobHasCause
    <2>3. CouponsOf(r) # {}
      BY <2>2 DEF CouponsOf
    <2>4. \A s \in Reservations : PlainOutcome(s)' = PlainOutcome(s)
      BY <2>1, <2>3 DEF PlainOutcome, CouponsOf
    <2> QED
      BY <1>0, <2>4, LedgerStays
  <1>7. ASSUME NEW i \in Instances, NEW T \in SUBSET job[i].nonWinners,
               processed' = processed \cup T, UNCHANGED <<reserved, coupons>>
        PROVE  Ledger!Next
    <2> DEFINE S == T \ processed
    <2>1. \A r \in T : CouponsOf(r) = {}
      BY <1>7 DEF OnceInv, NotYetIssued, CouponsOf
    <2>2. T \subseteq reserved /\ S \subseteq Reservations
      BY DEF OnceInv, RowsApart, TypeOK
    <2>3. \A r \in S : PlainOutcome(r) = "open" /\ PlainOutcome(r)' = "none"
      BY <1>7, <2>1, <2>2 DEF PlainOutcome, CouponsOf
    <2>4. \A r \in Reservations \ S : PlainOutcome(r)' = PlainOutcome(r)
      BY <1>7 DEF PlainOutcome, CouponsOf
    <2> HIDE DEF S
    <2>5. Ledger!Turn(S, "open", "none")
      BY <1>0, <2>2, <2>3, <2>4, LedgerTurn
    <2> QED
      BY <1>2, <2>2, <2>5
  <1>8. ASSUME NEW i \in Instances, MarkNonWinners(i) PROVE Ledger!Next
    <2>1. PICK T \in {{}, job[i].nonWinners} : processed' = processed \cup T
      BY <1>8 DEF MarkNonWinners
    <2> QED
      BY <1>7, <1>8, <2>1 DEF MarkNonWinners
  <1>9. ASSUME NEW i \in Instances, MarkEachNonWinner(i) PROVE Ledger!Next
    <2>1. PICK r \in job[i].nonWinners, o \in Outcomes :
             processed' = IF o = "fail" THEN processed ELSE processed \cup {r}
      BY <1>9 DEF MarkEachNonWinner
    <2>2. PICK T \in SUBSET job[i].nonWinners : processed' = processed \cup T
      <3>1. CASE o = "fail"
        <4>1. processed' = processed \cup {}
          BY <2>1, <3>1
        <4> QED
          BY <4>1
      <3>2. CASE o # "fail"
        BY <2>1, <3>2
      <3> QED
        BY <3>1, <3>2
    <2> QED
      BY <1>7, <1>9, <2>2 DEF MarkEachNonWinner
  <1>10. ASSUME NEW i \in Instances, List(i) \/ StartBatch(i) \/ Crash(i) PROVE UNCHANGED out
    BY <1>1, <1>10 DEF List, StartBatch, Crash, database
  <1>11. ASSUME ClockTick \/ UNCHANGED vars PROVE UNCHANGED out
    BY <1>1, <1>11 DEF ClockTick, database, vars
  <1> HIDE DEF out
  <1>12. Ledger!Next \/ UNCHANGED out
    <2>1. ASSUME NEW i \in Instances, List(i) \/ Step(i) \/ Crash(i)
          PROVE  Ledger!Next \/ UNCHANGED out
      BY <1>4, <1>5, <1>6, <1>8, <1>9, <1>10, <2>1, Zenon DEF Step
    <2> QED
      BY <1>3, <1>11, <2>1, Zenon DEF Next
  <1> QED
    BY <1>12 DEF out

\* The listener implements the safety part of IssueLedger: the outcome of a
\* reservation is settled once, for good, and with at most one coupon.
THEOREM ImplementsLedgerSafely ==
    ASSUME IssuedOnceConditions
    PROVE  Spec => Ledger!Spec
  <1>1. Init => Ledger!Init
    <2> SUFFICES ASSUME Init PROVE Ledger!Init
      OBVIOUS
    <2>1. \A r \in Reservations : Outcome(r) = "absent"
      BY DEF Init, Outcome
    <2> QED
      BY <2>1 DEF Ledger!Init
  <1>2. Init => CauseInv /\ ProcessedReserved
    BY DEF Init, CauseInv, ProcessedHasCause, JobHasCause, NoJob, ProcessedReserved
  <1>3. TypeOK /\ OnceInv /\ [Next]_vars => OnceInv'
    BY OnceStep
  <1>4. TypeOK /\ OnceInv /\ ProcessedReserved /\ [Next]_vars => ProcessedReserved'
    BY ProcessedStep
  <1>5. TypeOK /\ CauseInv /\ OnceInv /\ OnceInv' /\ ProcessedReserved /\ [Next]_vars
            => [Ledger!Next]_[r \in Reservations |-> Outcome(r)]
    BY LedgerStep
  <1> QED
    BY <1>1, <1>2, <1>3, <1>4, <1>5, OnceInit, TypeCorrect, CauseStep, PTL
       DEF Spec, Ledger!Spec
=============================================================================
