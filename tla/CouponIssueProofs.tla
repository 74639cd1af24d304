-------------------------- MODULE CouponIssueProofs --------------------------
(***************************************************************************)
(* What holds of CouponIssue for all tables, sizes, faults and numbers of  *)
(* instances.                                                              *)
(***************************************************************************)
EXTENDS CouponIssue, FiniteSetTheorems, TLAPS

-----------------------------------------------------------------------------
(* The algorithms.                                                         *)

\* The quota of a listing is a natural number, and at most one in WinnerRatio.
LEMMA QuotaBound ==
    ASSUME NEW n \in Nat
    PROVE  Quota(n) \in Nat /\ Quota(n) * WinnerRatio <= n
  BY SizesAssumption DEF Quota

\* Every set of rows is finite, so its size is a natural number.
LEMMA RowsFinite ==
    ASSUME NEW S \in SUBSET Reservations
    PROVE  IsFiniteSet(S) /\ Cardinality(S) \in Nat
  BY ReservationsAssumption, FS_Subset, FS_CardinalityType

\* At most one element comes next in a loop.
LEMMA NextIsUnique ==
    ASSUME NEW S \in SUBSET Reservations, NEW r, NEW s,
           IsNext(r, S), IsNext(s, S)
    PROVE  r = s
  BY ReservationsAssumption DEF IsNext

-----------------------------------------------------------------------------
(* Type correctness.                                                       *)

\* The names of the program points.
LEMMA PointNames ==
    /\ {"idle", "batch", "tx", "create"} \subseteq Points
    /\ {"mark", "nonwinners", "eachNonWinner"} \subseteq Points
  BY DEF Points

\* An instance without a job is in a local state.
LEMMA NoJobType == NoJob \in Jobs
  BY PointNames DEF NoJob, Jobs

\* A listing makes a local state.
LEMMA NewJobType ==
    ASSUME NEW n \in Nat, NEW rows \in SUBSET Reservations
    PROVE  NewJob(n, rows) \in Jobs
  <1>1. Cardinality(rows) \in Nat /\ Quota(Cardinality(rows)) \in Nat
    BY RowsFinite, QuotaBound
  <1>2. ASSUME NEW j \in Jobs, NEW l \in Nat, NEW q \in Nat
        PROVE  [j EXCEPT !.pc = "batch", !.cycle = n, !.listed = l,
                         !.rest = rows, !.numCoupons = q] \in Jobs
    <2>1. "batch" \in Points /\ q \in Int
      BY PointNames
    <2> QED
      BY <2>1 DEF Jobs
  <1> QED
    BY <1>1, <1>2, NoJobType DEF NewJob

\* The start of a batch makes a local state.
LEMMA InBatchType ==
    ASSUME NEW j \in Jobs, NEW batch, NEW winners, NEW failed,
           batch \subseteq j.rest, winners \subseteq batch
    PROVE  InBatch(j, batch, winners, failed) \in Jobs
  <1>1. (IF winners \subseteq failed THEN "nonwinners" ELSE "tx") \in Points
    BY PointNames
  <1>2. /\ j.rest \ batch \subseteq Reservations
        /\ winners \ failed \subseteq Reservations
        /\ batch \ winners \subseteq Reservations
    BY DEF Jobs
  <1> QED
    BY <1>1, <1>2 DEF InBatch, Jobs

\* The steps of the loops make local states.
LEMMA LoopTypes ==
    ASSUME NEW j \in Jobs, NEW r, NEW ok \in BOOLEAN
    PROVE  /\ AfterTx(j, ok) \in Jobs
           /\ SkipCode(j, r) \in Jobs
           /\ AfterCreate(j, r, ok) \in Jobs
           /\ AfterMark(j, r) \in Jobs
           /\ EndBatch(j) \in Jobs
           /\ AfterNonWinners(j, ok) \in Jobs
           /\ AfterNonWinner(j, r) \in Jobs
  <1>1. AfterTx(j, ok) \in Jobs
    <2>1. Cardinality(j.pending) \in Nat
      BY RowsFinite DEF Jobs
    <2> QED
      BY <2>1, PointNames DEF AfterTx, Jobs
  <1>2. SkipCode(j, r) \in Jobs
    <2>1. (IF j.pending = {r} THEN "nonwinners" ELSE "create") \in Points
      BY PointNames
    <2> QED
      BY <2>1 DEF SkipCode, Jobs
  <1>3. AfterCreate(j, r, ok) \in Jobs
    BY <1>2, PointNames DEF AfterCreate, Jobs
  <1>4. AfterMark(j, r) \in Jobs
    BY <1>2 DEF AfterMark, Jobs
  <1>5. EndBatch(j) \in Jobs
    <2>1. j.numCoupons - j.generated \in Int
      BY DEF Jobs
    <2>2. (IF j.rest = {} THEN "idle" ELSE "batch") \in Points
      BY PointNames
    <2> QED
      BY <2>1, <2>2 DEF EndBatch, Jobs
  <1>6. AfterNonWinners(j, ok) \in Jobs
    BY <1>5, PointNames DEF AfterNonWinners, Jobs
  <1>7. AfterNonWinner(j, r) \in Jobs
    BY <1>5 DEF AfterNonWinner, Jobs
  <1> QED
    BY <1>1, <1>2, <1>3, <1>4, <1>5, <1>6, <1>7

\* The budget of faults never becomes negative.
LEMMA FaultType ==
    ASSUME faultsLeft \in Nat,
           UseFault \/ \E call, out : Returns(call, out)
    PROVE  faultsLeft' \in Nat
  BY DEF UseFault, Returns

LEMMA TypeInit == Init => TypeOK
  BY FaultsAssumption, NoJobType DEF Init, TypeOK

LEMMA TypeStep == TypeOK /\ [Next]_vars => TypeOK'
  <1> SUFFICES ASSUME TypeOK, [Next]_vars PROVE TypeOK'
    OBVIOUS
  <1> USE DEF TypeOK
  <1>1. ASSUME NEW r \in Reservations, Reserve(r) PROVE TypeOK'
    BY <1>1 DEF Reserve
  <1>2. CASE ClockTick
    BY <1>2 DEF ClockTick, database
  <1>3. ASSUME NEW i \in Instances, List(i) PROVE TypeOK'
    <2>1. faultsLeft' \in Nat
      BY <1>3, FaultType DEF List
    <2>2. CASE UNCHANGED <<cycles, job>>
      BY <1>3, <2>1, <2>2 DEF List, database
    <2>3. ASSUME cycles' = cycles + 1,
                 NEW rows \in SUBSET Unprocessed,
                 job' = [job EXCEPT ![i] = NewJob(cycles + 1, rows)]
          PROVE  TypeOK'
      <3>1. NewJob(cycles + 1, rows) \in Jobs
        BY NewJobType DEF Unprocessed
      <3> QED
        BY <1>3, <2>1, <2>3, <3>1 DEF List, database
    <2> QED
      BY <1>3, <2>2, <2>3 DEF List
  <1>4. ASSUME NEW i \in Instances, StartBatch(i) PROVE TypeOK'
    <2>a. PICK batch \in SUBSET job[i].rest : \E winners \in SUBSET batch :
             \E failed \in SUBSET winners :
                /\ Returns("code", IF failed = {} THEN "ok" ELSE "fail")
                /\ job' = [job EXCEPT ![i] = InBatch(@, batch, winners, failed)]
                /\ passedOver' = passedOver \cup (batch \ winners)
      BY <1>4, Zenon DEF StartBatch
    <2>b. PICK winners \in SUBSET batch : \E failed \in SUBSET winners :
                /\ Returns("code", IF failed = {} THEN "ok" ELSE "fail")
                /\ job' = [job EXCEPT ![i] = InBatch(@, batch, winners, failed)]
                /\ passedOver' = passedOver \cup (batch \ winners)
      BY <2>a, Zenon
    <2>1. PICK failed \in SUBSET winners :
                /\ Returns("code", IF failed = {} THEN "ok" ELSE "fail")
                /\ job' = [job EXCEPT ![i] = InBatch(@, batch, winners, failed)]
                /\ passedOver' = passedOver \cup (batch \ winners)
      BY <2>b, Zenon
    <2>2. job[i] \in Jobs /\ batch \subseteq Reservations
      BY <2>1 DEF Jobs
    <2>3. job' \in [Instances -> Jobs]
      BY <2>1, <2>2, InBatchType
    <2> QED
      BY <1>4, <2>1, <2>2, <2>3, FaultType DEF StartBatch, database
  <1>5. ASSUME NEW i \in Instances, BatchCreateCouponsWithTx(i) PROVE TypeOK'
    <2>1. job[i] \in Jobs
      OBVIOUS
    <2>2. job' \in [Instances -> Jobs]
      BY <1>5, <2>1, LoopTypes DEF BatchCreateCouponsWithTx
    <2>3. coupons' \subseteq Reservations \X Nat /\ processed' \subseteq Reservations
      BY <1>5, <2>1 DEF BatchCreateCouponsWithTx, TxMarks, Jobs
    <2> QED
      BY <1>5, <2>2, <2>3, FaultType DEF BatchCreateCouponsWithTx
  <1>6. ASSUME NEW i \in Instances, CreateCoupon(i) PROVE TypeOK'
    <2>1. PICK r \in job[i].pending, out \in Outcomes :
             /\ coupons' = IF out = "fail" THEN coupons
                                           ELSE coupons \cup {<<r, job[i].cycle>>}
             /\ job' = [job EXCEPT ![i] =
                  AfterCreate(@, r, out = "ok" /\ <<r, job[i].cycle>> \notin coupons)]
             /\ Returns("create", out)
      BY <1>6 DEF CreateCoupon
    <2>2. job[i] \in Jobs /\ r \in Reservations /\ job[i].cycle \in Nat
      BY DEF Jobs
    <2>3. job' \in [Instances -> Jobs]
      BY <2>1, <2>2, LoopTypes
    <2> QED
      BY <1>6, <2>1, <2>2, <2>3, FaultType DEF CreateCoupon
  <1>7. ASSUME NEW i \in Instances, MarkCreated(i) PROVE TypeOK'
    <2>1. PICK r \in job[i].pending, out \in Outcomes :
             /\ processed' = IF out = "fail" THEN processed ELSE processed \cup {r}
             /\ job' = [job EXCEPT ![i] = AfterMark(@, r)]
             /\ Returns("mark", out)
      BY <1>7 DEF MarkCreated
    <2>2. job[i] \in Jobs /\ r \in Reservations
      BY DEF Jobs
    <2>3. job' \in [Instances -> Jobs]
      BY <2>1, <2>2, LoopTypes
    <2> QED
      BY <1>7, <2>1, <2>2, <2>3, FaultType DEF MarkCreated
  <1>8. ASSUME NEW i \in Instances, MarkNonWinners(i) PROVE TypeOK'
    <2>1. job[i] \in Jobs /\ job[i].nonWinners \subseteq Reservations
      BY DEF Jobs
    <2>2. job' \in [Instances -> Jobs]
      BY <1>8, <2>1, LoopTypes DEF MarkNonWinners
    <2> QED
      BY <1>8, <2>1, <2>2, FaultType DEF MarkNonWinners
  <1>9. ASSUME NEW i \in Instances, MarkEachNonWinner(i) PROVE TypeOK'
    <2>1. PICK r \in job[i].nonWinners, out \in Outcomes :
             /\ processed' = IF out = "fail" THEN processed ELSE processed \cup {r}
             /\ job' = [job EXCEPT ![i] = AfterNonWinner(@, r)]
             /\ Returns("nonwinners", out)
      BY <1>9 DEF MarkEachNonWinner
    <2>2. job[i] \in Jobs /\ r \in Reservations
      BY DEF Jobs
    <2>3. job' \in [Instances -> Jobs]
      BY <2>1, <2>2, LoopTypes
    <2> QED
      BY <1>9, <2>1, <2>2, <2>3, FaultType DEF MarkEachNonWinner
  <1>10. ASSUME NEW i \in Instances, Crash(i) PROVE TypeOK'
    BY <1>10, NoJobType, FaultType DEF Crash, database
  <1>11. CASE UNCHANGED vars
    BY <1>11 DEF vars
  <1> QED
    BY <1>1, <1>2, <1>3, <1>4, <1>5, <1>6, <1>7, <1>8, <1>9, <1>10, <1>11
       DEF Next, Step

\* The variables keep their types.
THEOREM TypeCorrect == Spec => []TypeOK
  BY TypeInit, TypeStep, PTL DEF Spec

-----------------------------------------------------------------------------
(* No reservation is lost.                                                 *)

\* What an instance relies on between two of its calls: the rows it is about
\* to mark as non-winners were passed over, and the row it is about to mark as
\* a winner has its coupon.
JobHasCause(i) ==
    /\ job[i].nonWinners \subseteq passedOver
    /\ job[i].pc = "mark" =>
         \A r \in job[i].pending :
            IsNext(r, job[i].pending) => <<r, job[i].cycle>> \in coupons

CauseInv == ProcessedHasCause /\ \A i \in Instances : JobHasCause(i)

\* Coupons and passed over rows only accumulate, so rows that have a cause
\* keep it, and it is enough to look at the rows a step marks.
LEMMA CauseKept ==
    ASSUME ProcessedHasCause, coupons \subseteq coupons', passedOver \subseteq passedOver',
           NEW marked, processed' \subseteq processed \cup marked,
           \A r \in marked : CouponsOf(r)' # {} \/ r \in passedOver'
    PROVE  ProcessedHasCause'
  BY DEF ProcessedHasCause, CouponsOf

\* An instance that does not move keeps what it relies on.
LEMMA OthersKeepCause ==
    ASSUME NEW i, JobHasCause(i), job'[i] = job[i],
           coupons \subseteq coupons', passedOver \subseteq passedOver'
    PROVE  JobHasCause(i)'
  BY DEF JobHasCause, IsNext

LEMMA CauseStep == TypeOK /\ CauseInv /\ [Next]_vars => CauseInv'
  <1> SUFFICES ASSUME TypeOK, CauseInv, [Next]_vars PROVE CauseInv'
    OBVIOUS
  <1>0. job \in [Instances -> Jobs]
    BY DEF TypeOK
  <1>1. ASSUME NEW i \in Instances,
               \A k \in Instances \ {i} : job'[k] = job[k],
               coupons \subseteq coupons', passedOver \subseteq passedOver',
               JobHasCause(i)'
        PROVE  \A k \in Instances : JobHasCause(k)'
    BY <1>1, OthersKeepCause DEF CauseInv
  <1>2. ASSUME UNCHANGED <<processed, coupons, job, passedOver>> PROVE CauseInv'
    BY <1>2 DEF CauseInv, ProcessedHasCause, CouponsOf, JobHasCause, IsNext
  <1>3. ASSUME NEW i \in Instances, List(i) PROVE CauseInv'
    <2>1. CASE UNCHANGED job
      BY <1>2, <1>3, <2>1 DEF List, database
    <2>2. ASSUME NEW n, NEW rows, job' = [job EXCEPT ![i] = NewJob(n, rows)]
          PROVE  CauseInv'
      <3>1. job'[i].pc = "batch" /\ job'[i].nonWinners = {}
        BY <1>0, <2>2 DEF NewJob, NoJob
      <3>2. JobHasCause(i)'
        BY <3>1 DEF JobHasCause
      <3>3. UNCHANGED <<processed, coupons, passedOver>>
        BY <1>3 DEF List, database
      <3> QED
        BY <1>0, <1>1, <2>2, <3>2, <3>3 DEF CauseInv, ProcessedHasCause, CouponsOf
    <2> QED
      BY <1>3, <2>1, <2>2 DEF List
  <1>4. ASSUME NEW i \in Instances, StartBatch(i) PROVE CauseInv'
    <2>1. PICK batch, winners, failed :
             /\ job' = [job EXCEPT ![i] = InBatch(@, batch, winners, failed)]
             /\ passedOver' = passedOver \cup (batch \ winners)
      BY <1>4 DEF StartBatch
    <2>2. job'[i].pc # "mark" /\ job'[i].nonWinners = batch \ winners
      BY <1>0, <2>1 DEF InBatch, Jobs
    <2>3. JobHasCause(i)'
      BY <2>1, <2>2 DEF JobHasCause
    <2>4. UNCHANGED <<processed, coupons>>
      BY <1>4 DEF StartBatch, database
    <2>5. ProcessedHasCause'
      BY <2>1, <2>4 DEF CauseInv, ProcessedHasCause, CouponsOf
    <2> QED
      BY <1>0, <1>1, <2>1, <2>3, <2>4, <2>5 DEF CauseInv
  <1>5. ASSUME NEW i \in Instances, BatchCreateCouponsWithTx(i) PROVE CauseInv'
    <2>1. PICK out \in Outcomes :
             /\ IF out = "fail"
                THEN UNCHANGED <<coupons, processed>>
                ELSE /\ coupons' = coupons \cup (job[i].pending \X {job[i].cycle})
                     /\ processed' = processed \cup TxMarks(job[i].pending)
             /\ job' = [job EXCEPT ![i] = AfterTx(@, out = "ok")]
             /\ passedOver' = passedOver
      BY <1>5 DEF BatchCreateCouponsWithTx
    <2>2. job'[i].pc # "mark" /\ job'[i].nonWinners = job[i].nonWinners
      BY <1>0, <2>1 DEF AfterTx, Jobs
    <2>3. JobHasCause(i)'
      BY <2>1, <2>2 DEF CauseInv, JobHasCause
    <2>4. ProcessedHasCause'
      <3>1. CASE out = "fail"
        BY <2>1, <3>1 DEF CauseInv, ProcessedHasCause, CouponsOf
      <3>2. CASE out # "fail"
        <4>1. \A r \in job[i].pending : CouponsOf(r)' # {}
          <5> TAKE r \in job[i].pending
          <5>1. <<r, job[i].cycle>> \in coupons'
            BY <2>1, <3>2
          <5> QED
            BY <5>1 DEF CouponsOf
        <4>2. processed' = processed \cup job[i].pending
          BY <2>1, <3>2 DEF TxMarks
        <4> QED
          BY <2>1, <3>2, <4>1, <4>2, CauseKept DEF CauseInv
      <3> QED
        BY <3>1, <3>2
    <2> QED
      BY <1>0, <1>1, <2>1, <2>3, <2>4 DEF CauseInv
  <1>6. ASSUME NEW i \in Instances, CreateCoupon(i) PROVE CauseInv'
    <2>1. PICK r \in job[i].pending, out \in Outcomes :
             /\ IsNext(r, job[i].pending)
             /\ coupons' = IF out = "fail" THEN coupons
                                           ELSE coupons \cup {<<r, job[i].cycle>>}
             /\ job' = [job EXCEPT ![i] =
                  AfterCreate(@, r, out = "ok" /\ <<r, job[i].cycle>> \notin coupons)]
             /\ UNCHANGED <<processed, passedOver>>
      BY <1>6 DEF CreateCoupon
    <2>2. job'[i].nonWinners = job[i].nonWinners
      BY <1>0, <2>1 DEF AfterCreate, SkipCode, Jobs
    <2>3. CASE out = "ok" /\ <<r, job[i].cycle>> \notin coupons
      <3>1. /\ job'[i].pending = job[i].pending
            /\ job'[i].cycle = job[i].cycle
        BY <1>0, <2>1, <2>3 DEF AfterCreate, Jobs
      <3>2. <<r, job[i].cycle>> \in coupons'
        BY <2>1, <2>3
      <3>3. \A s \in job[i].pending : IsNext(s, job[i].pending) => s = r
        BY <1>0, <2>1, NextIsUnique DEF Jobs
      <3>4. JobHasCause(i)'
        BY <2>1, <2>2, <3>1, <3>2, <3>3 DEF CauseInv, JobHasCause, IsNext
      <3> QED
        BY <1>0, <1>1, <2>1, <3>4, CauseKept DEF CauseInv
    <2>4. CASE ~ (out = "ok" /\ <<r, job[i].cycle>> \notin coupons)
      <3>1. job'[i].pc # "mark"
        BY <1>0, <2>1, <2>4 DEF AfterCreate, SkipCode, Jobs
      <3>2. JobHasCause(i)'
        BY <2>1, <2>2, <3>1 DEF CauseInv, JobHasCause
      <3> QED
        BY <1>0, <1>1, <2>1, <3>2, CauseKept DEF CauseInv
    <2> QED
      BY <2>3, <2>4
  <1>7. ASSUME NEW i \in Instances, MarkCreated(i) PROVE CauseInv'
    <2>1. PICK r \in job[i].pending :
             /\ IsNext(r, job[i].pending)
             /\ processed' \subseteq processed \cup {r}
             /\ job' = [job EXCEPT ![i] = AfterMark(@, r)]
             /\ UNCHANGED <<coupons, passedOver>>
             /\ job[i].pc = "mark"
      BY <1>7 DEF MarkCreated
    <2>2. job'[i].nonWinners = job[i].nonWinners /\ job'[i].pc # "mark"
      BY <1>0, <2>1 DEF AfterMark, SkipCode, Jobs
    <2>3. JobHasCause(i)'
      BY <2>1, <2>2 DEF CauseInv, JobHasCause
    <2>4. <<r, job[i].cycle>> \in coupons'
      BY <2>1 DEF CauseInv, JobHasCause
    <2>5. CouponsOf(r)' # {}
      BY <2>4 DEF CouponsOf
    <2>6. /\ coupons \subseteq coupons' /\ passedOver \subseteq passedOver'
          /\ processed' \subseteq processed \cup {r}
          /\ \A s \in {r} : CouponsOf(s)' # {} \/ s \in passedOver'
      BY <2>1, <2>5
    <2>7. ProcessedHasCause
      BY DEF CauseInv
    <2>8. ProcessedHasCause'
      BY <2>6, <2>7 DEF ProcessedHasCause, CouponsOf
    <2> QED
      BY <1>0, <1>1, <2>1, <2>3, <2>8 DEF CauseInv
  <1>8. ASSUME NEW i \in Instances, MarkNonWinners(i) PROVE CauseInv'
    <2>0. PICK out :
             /\ processed' = IF out = "fail" THEN processed
                                             ELSE processed \cup job[i].nonWinners
             /\ job' = [job EXCEPT ![i] = AfterNonWinners(@, out = "ok")]
      BY <1>8 DEF MarkNonWinners
    <2>1. /\ processed' \subseteq processed \cup job[i].nonWinners
          /\ \E ok \in BOOLEAN : job' = [job EXCEPT ![i] = AfterNonWinners(@, ok)]
          /\ UNCHANGED <<coupons, passedOver>>
          /\ job[i].pc = "nonwinners"
      BY <1>8, <2>0 DEF MarkNonWinners
    <2>2. /\ job'[i].nonWinners \subseteq job[i].nonWinners
          /\ job'[i].pc # "mark"
      BY <1>0, <2>1 DEF AfterNonWinners, EndBatch, Jobs
    <2>3. JobHasCause(i)'
      BY <2>1, <2>2 DEF CauseInv, JobHasCause
    <2>4. job[i].nonWinners \subseteq passedOver'
      BY <2>1 DEF CauseInv, JobHasCause
    <2> QED
      BY <1>0, <1>1, <2>1, <2>3, <2>4, CauseKept DEF CauseInv
  <1>9. ASSUME NEW i \in Instances, MarkEachNonWinner(i) PROVE CauseInv'
    <2>1. PICK r \in job[i].nonWinners :
             /\ processed' \subseteq processed \cup {r}
             /\ job' = [job EXCEPT ![i] = AfterNonWinner(@, r)]
             /\ UNCHANGED <<coupons, passedOver>>
             /\ job[i].pc = "eachNonWinner"
      BY <1>9 DEF MarkEachNonWinner
    <2>2. /\ job'[i].nonWinners \subseteq job[i].nonWinners
          /\ job'[i].pc # "mark"
      BY <1>0, <2>1 DEF AfterNonWinner, EndBatch, Jobs
    <2>3. JobHasCause(i)'
      BY <2>1, <2>2 DEF CauseInv, JobHasCause
    <2>4. r \in passedOver'
      BY <2>1 DEF CauseInv, JobHasCause
    <2> QED
      BY <1>0, <1>1, <2>1, <2>3, <2>4, CauseKept DEF CauseInv
  <1>10. ASSUME NEW i \in Instances, Crash(i) PROVE CauseInv'
    <2>1. job' = [job EXCEPT ![i] = NoJob] /\ UNCHANGED <<processed, coupons, passedOver>>
      BY <1>10 DEF Crash, database
    <2>2. JobHasCause(i)'
      BY <1>0, <2>1 DEF JobHasCause, NoJob
    <2> QED
      BY <1>0, <1>1, <2>1, <2>2 DEF CauseInv, ProcessedHasCause, CouponsOf
  <1>11. ASSUME NEW r \in Reservations, Reserve(r) PROVE CauseInv'
    BY <1>2, <1>11 DEF Reserve
  <1>12. CASE ClockTick
    BY <1>2, <1>12 DEF ClockTick, database
  <1>13. CASE UNCHANGED vars
    BY <1>2, <1>13 DEF vars
  <1> QED
    BY <1>3, <1>4, <1>5, <1>6, <1>7, <1>8, <1>9, <1>10, <1>11, <1>12, <1>13
       DEF Next, Step

\* A processed reservation has its coupon or was passed over, whichever calls
\* fail, whichever replies are lost and however many instances run and crash.
THEOREM NoReservationLost == Spec => []ProcessedHasCause
  <1>1. Init => CauseInv
    BY DEF Init, CauseInv, ProcessedHasCause, JobHasCause, NoJob
  <1>2. CauseInv => ProcessedHasCause
    BY DEF CauseInv
  <1> QED
    BY <1>1, <1>2, TypeCorrect, CauseStep, PTL DEF Spec

-----------------------------------------------------------------------------
(* Only reservations are worked on.                                        *)

\* What is listed, processed or issued a coupon has been reserved.
RowsReserved ==
    /\ processed \subseteq reserved
    /\ \A c \in coupons : c[1] \in reserved
    /\ \A i \in Instances :
          job[i].rest \subseteq reserved /\ job[i].pending \subseteq reserved
              /\ job[i].nonWinners \subseteq reserved

\* A local state whose rows are among those of another, or have been reserved.
RowsWithin(q, j) ==
    q.rest \subseteq j.rest /\ q.pending \subseteq j.rest \cup j.pending
        /\ q.nonWinners \subseteq j.rest \cup j.nonWinners

\* No step of a cycle takes up rows of its own.
LEMMA RowsWithinJob ==
    ASSUME NEW j \in Jobs
    PROVE  /\ \A batch \in SUBSET j.rest : \A winners \in SUBSET batch : \A failed :
                 RowsWithin(InBatch(j, batch, winners, failed), j)
           /\ \A ok \in BOOLEAN :
                 RowsWithin(AfterTx(j, ok), j) /\ RowsWithin(AfterNonWinners(j, ok), j)
           /\ \A r : \A ok \in BOOLEAN :
                 /\ RowsWithin(AfterCreate(j, r, ok), j)
                 /\ RowsWithin(AfterMark(j, r), j) /\ RowsWithin(AfterNonWinner(j, r), j)
  <1>1. \A batch \in SUBSET j.rest : \A winners \in SUBSET batch : \A failed :
            RowsWithin(InBatch(j, batch, winners, failed), j)
    BY DEF InBatch, RowsWithin, Jobs
  <1>2. RowsWithin(EndBatch(j), j)
    BY DEF EndBatch, RowsWithin, Jobs
  <1>3. \A ok \in BOOLEAN : RowsWithin(AfterTx(j, ok), j) /\ RowsWithin(AfterNonWinners(j, ok), j)
    BY <1>2 DEF AfterTx, AfterNonWinners, RowsWithin, Jobs
  <1>4. \A r : RowsWithin(SkipCode(j, r), j) /\ RowsWithin(AfterMark(j, r), j)
    BY DEF SkipCode, AfterMark, RowsWithin, Jobs
  <1>5. \A r : RowsWithin(AfterNonWinner(j, r), j)
    BY <1>2 DEF AfterNonWinner, RowsWithin, Jobs
  <1>6. \A r : \A ok \in BOOLEAN : RowsWithin(AfterCreate(j, r, ok), j)
    BY <1>4 DEF AfterCreate, RowsWithin, Jobs
  <1> QED
    BY <1>1, <1>3, <1>4, <1>5, <1>6

LEMMA RowsReservedInit == Init => RowsReserved
  BY DEF Init, RowsReserved, NoJob

\* A step of a cycle issues coupons for reservations and marks reservations.
LEMMA RowsReservedMoves ==
    ASSUME TypeOK, RowsReserved, NEW i \in Instances, NEW j,
           job' = [job EXCEPT ![i] = j], RowsWithin(j, job[i]),
           reserved' = reserved,
           processed' \subseteq processed \cup (job[i].pending \cup job[i].nonWinners),
           \A c \in coupons' : c \in coupons \/ c[1] \in job[i].pending
    PROVE  RowsReserved'
  <1>1. job'[i] = j /\ \A k \in Instances : k # i => job'[k] = job[k]
    BY DEF TypeOK
  <1>2. /\ job[i].rest \subseteq reserved /\ job[i].pending \subseteq reserved
        /\ job[i].nonWinners \subseteq reserved
    BY DEF RowsReserved
  <1>3. ASSUME NEW k \in Instances
        PROVE  /\ job'[k].rest \subseteq reserved /\ job'[k].pending \subseteq reserved
               /\ job'[k].nonWinners \subseteq reserved
    BY <1>1, <1>2 DEF RowsWithin, RowsReserved
  <1> QED
    BY <1>2, <1>3 DEF RowsReserved

\* Coupons are never deleted, and new ones are for reservations.
LEMMA RowsReservedStep ==
    TypeOK /\ RowsReserved /\ [Next]_vars => RowsReserved' /\ coupons \subseteq coupons'
  <1> SUFFICES ASSUME TypeOK, RowsReserved, [Next]_vars
               PROVE  RowsReserved' /\ coupons \subseteq coupons'
    OBVIOUS
  <1>0. \A i \in Instances : job[i] \in Jobs
    BY DEF TypeOK
  <1>1. ASSUME UNCHANGED <<processed, coupons, job>>, reserved \subseteq reserved'
        PROVE  RowsReserved' /\ coupons \subseteq coupons'
    BY <1>1 DEF RowsReserved
  <1>2. ASSUME NEW r \in Reservations, Reserve(r) PROVE RowsReserved' /\ coupons \subseteq coupons'
    BY <1>1, <1>2 DEF Reserve
  <1>3. CASE ClockTick \/ UNCHANGED vars
    BY <1>1, <1>3 DEF ClockTick, database, vars
  <1>4. ASSUME NEW i \in Instances, List(i) PROVE RowsReserved' /\ coupons \subseteq coupons'
    <2>1. UNCHANGED <<reserved, processed, coupons>>
      BY <1>4 DEF List, database
    <2>2. CASE UNCHANGED job
      BY <1>1, <2>1, <2>2
    <2>3. ASSUME NEW n, NEW rows \in SUBSET Unprocessed, job' = [job EXCEPT ![i] = NewJob(n, rows)]
          PROVE  RowsReserved' /\ coupons \subseteq coupons'
      <3>1. NewJob(n, rows).rest = rows /\ NewJob(n, rows).pending = {} /\ NewJob(n, rows).nonWinners = {}
        BY DEF NewJob, NoJob
      <3>2. job'[i] = NewJob(n, rows) /\ \A k \in Instances : k # i => job'[k] = job[k]
        BY <2>3 DEF TypeOK
      <3> QED
        BY <2>1, <3>1, <3>2 DEF RowsReserved, Unprocessed
    <2> QED
      BY <1>4, <2>2, <2>3 DEF List
  <1>5. ASSUME NEW i \in Instances, StartBatch(i) PROVE RowsReserved' /\ coupons \subseteq coupons'
    <2>a. PICK batch \in SUBSET job[i].rest : \E winners \in SUBSET batch :
             \E failed \in SUBSET winners :
                job' = [job EXCEPT ![i] = InBatch(@, batch, winners, failed)]
      BY <1>5, Zenon DEF StartBatch
    <2>b. PICK winners \in SUBSET batch : \E failed \in SUBSET winners :
                job' = [job EXCEPT ![i] = InBatch(@, batch, winners, failed)]
      BY <2>a, Zenon
    <2>1. PICK failed \in SUBSET winners :
                job' = [job EXCEPT ![i] = InBatch(@, batch, winners, failed)]
      BY <2>b, Zenon
    <2>2. RowsWithin(InBatch(job[i], batch, winners, failed), job[i])
      BY <1>0, RowsWithinJob
    <2>3. UNCHANGED <<reserved, processed, coupons>>
      BY <1>5 DEF StartBatch, database
    <2> QED
      BY <2>1, <2>2, <2>3, RowsReservedMoves
  <1>6. ASSUME NEW i \in Instances, BatchCreateCouponsWithTx(i)
        PROVE  RowsReserved' /\ coupons \subseteq coupons'
    <2>1. PICK ok \in BOOLEAN : job' = [job EXCEPT ![i] = AfterTx(@, ok)]
      BY <1>6 DEF BatchCreateCouponsWithTx
    <2>2. /\ reserved' = reserved /\ processed' \subseteq processed \cup job[i].pending
          /\ coupons \subseteq coupons'
          /\ \A c \in coupons' : c \in coupons \/ c[1] \in job[i].pending
      BY <1>6 DEF BatchCreateCouponsWithTx, TxMarks
    <2>3. RowsWithin(AfterTx(job[i], ok), job[i])
      BY <1>0, RowsWithinJob
    <2> QED
      BY <2>1, <2>2, <2>3, RowsReservedMoves
  <1>7. ASSUME NEW i \in Instances, CreateCoupon(i) PROVE RowsReserved' /\ coupons \subseteq coupons'
    <2>1. PICK r \in job[i].pending, out \in Outcomes :
             /\ coupons' = IF out = "fail" THEN coupons
                                           ELSE coupons \cup {<<r, job[i].cycle>>}
             /\ job' = [job EXCEPT ![i] =
                  AfterCreate(@, r, out = "ok" /\ <<r, job[i].cycle>> \notin coupons)]
      BY <1>7 DEF CreateCoupon
    <2>2. PICK ok \in BOOLEAN : job' = [job EXCEPT ![i] = AfterCreate(@, r, ok)]
      BY <2>1
    <2>3. RowsWithin(AfterCreate(job[i], r, ok), job[i])
      BY <1>0, RowsWithinJob
    <2>4. UNCHANGED <<reserved, processed>>
      BY <1>7 DEF CreateCoupon
    <2>5. coupons \subseteq coupons' /\ \A c \in coupons' : c \in coupons \/ c[1] \in job[i].pending
      BY <2>1
    <2> QED
      BY <2>2, <2>3, <2>4, <2>5, RowsReservedMoves
  <1>8. ASSUME NEW i \in Instances, MarkCreated(i) PROVE RowsReserved' /\ coupons \subseteq coupons'
    <2>1. PICK r \in job[i].pending :
             /\ processed' \subseteq processed \cup {r}
             /\ job' = [job EXCEPT ![i] = AfterMark(@, r)]
      BY <1>8 DEF MarkCreated
    <2>2. RowsWithin(AfterMark(job[i], r), job[i])
      BY <1>0, RowsWithinJob
    <2>3. UNCHANGED <<reserved, coupons>>
      BY <1>8 DEF MarkCreated
    <2> QED
      BY <2>1, <2>2, <2>3, RowsReservedMoves
  <1>9. ASSUME NEW i \in Instances, MarkNonWinners(i) PROVE RowsReserved' /\ coupons \subseteq coupons'
    <2>1. PICK ok \in BOOLEAN : job' = [job EXCEPT ![i] = AfterNonWinners(@, ok)]
      BY <1>9 DEF MarkNonWinners
    <2>2. RowsWithin(AfterNonWinners(job[i], ok), job[i])
      BY <1>0, RowsWithinJob
    <2>3. UNCHANGED <<reserved, coupons>> /\ processed' \subseteq processed \cup job[i].nonWinners
      BY <1>9 DEF MarkNonWinners
    <2> QED
      BY <2>1, <2>2, <2>3, RowsReservedMoves
  <1>10. ASSUME NEW i \in Instances, MarkEachNonWinner(i)
         PROVE  RowsReserved' /\ coupons \subseteq coupons'
    <2>1. PICK r \in job[i].nonWinners :
             /\ processed' \subseteq processed \cup {r}
             /\ job' = [job EXCEPT ![i] = AfterNonWinner(@, r)]
      BY <1>10 DEF MarkEachNonWinner
    <2>2. RowsWithin(AfterNonWinner(job[i], r), job[i])
      BY <1>0, RowsWithinJob
    <2>3. UNCHANGED <<reserved, coupons>>
      BY <1>10 DEF MarkEachNonWinner
    <2> QED
      BY <2>1, <2>2, <2>3, RowsReservedMoves
  <1>11. ASSUME NEW i \in Instances, Crash(i) PROVE RowsReserved' /\ coupons \subseteq coupons'
    <2>1. job' = [job EXCEPT ![i] = NoJob] /\ UNCHANGED <<reserved, processed, coupons>>
      BY <1>11 DEF Crash, database
    <2>2. RowsWithin(NoJob, job[i])
      BY DEF NoJob, RowsWithin
    <2> QED
      BY <2>1, <2>2, RowsReservedMoves
  <1> QED
    BY <1>2, <1>3, <1>4, <1>5, <1>6, <1>7, <1>8, <1>9, <1>10, <1>11 DEF Next, Step

-----------------------------------------------------------------------------
(* Half done reservations are paid for by faults.                          *)

\* A step of one instance leaves half done what was so before, what it issues
\* a coupon for, and the row it was about to mark.
LEMMA HalfDoneMoves ==
    ASSUME NEW i \in Instances, \A k \in Instances \ {i} : job'[k] = job[k],
           processed \subseteq processed'
    PROVE  \A r \in HalfDone' : \/ r \in HalfDone
                                \/ CouponsOf(r) = {}
                                \/ job[i].pc = "mark" /\ IsNext(r, job[i].pending)
  <1> SUFFICES ASSUME NEW r \in HalfDone', CouponsOf(r) # {},
                      ~ (job[i].pc = "mark" /\ IsNext(r, job[i].pending))
               PROVE  r \in HalfDone
    OBVIOUS
  <1>1. r \in Reservations /\ r \notin processed /\ ~ AboutToMark(r)'
    BY DEF HalfDone
  <1>2. ~ AboutToMark(r)
    BY <1>1 DEF AboutToMark, IsNext
  <1> QED
    BY <1>1, <1>2 DEF HalfDone

\* What the bound needs of a step: no row more, or one for a fault.
LEMMA HalfDoneCounted ==
    ASSUME TypeOK, HalfDoneByFaults, faultsLeft' \in Nat,
           \/ HalfDone' \subseteq HalfDone /\ faultsLeft' <= faultsLeft
           \/ \E r : HalfDone' \subseteq HalfDone \cup {r} /\ faultsLeft' = faultsLeft - 1
    PROVE  HalfDoneByFaults'
  <1>1. HalfDone \subseteq Reservations /\ HalfDone' \subseteq Reservations
    BY DEF HalfDone
  <1>2. /\ IsFiniteSet(HalfDone) /\ Cardinality(HalfDone) \in Nat
        /\ IsFiniteSet(HalfDone') /\ Cardinality(HalfDone') \in Nat
    BY <1>1, RowsFinite
  <1>3. faultsLeft \in Nat /\ MaxFaults \in Nat
    BY FaultsAssumption DEF TypeOK
  <1>4. CASE HalfDone' \subseteq HalfDone /\ faultsLeft' <= faultsLeft
    <2>1. Cardinality(HalfDone') <= Cardinality(HalfDone)
      BY <1>2, <1>4, FS_Subset
    <2> QED
      BY <1>2, <1>3, <1>4, <2>1 DEF HalfDoneByFaults
  <1>5. ASSUME NEW r, HalfDone' \subseteq HalfDone \cup {r}, faultsLeft' = faultsLeft - 1
        PROVE  HalfDoneByFaults'
    <2>a. /\ IsFiniteSet(HalfDone \cup {r})
          /\ Cardinality(HalfDone \cup {r}) =
                IF r \in HalfDone THEN Cardinality(HalfDone) ELSE Cardinality(HalfDone) + 1
      BY <1>2, FS_AddElement
    <2>1. /\ IsFiniteSet(HalfDone \cup {r})
          /\ Cardinality(HalfDone \cup {r}) <= Cardinality(HalfDone) + 1
          /\ Cardinality(HalfDone \cup {r}) \in Nat
      BY <1>2, <2>a
    <2>2. Cardinality(HalfDone') <= Cardinality(HalfDone \cup {r})
      BY <1>5, <2>1, FS_Subset
    <2> QED
      BY <1>2, <1>3, <1>5, <2>1, <2>2 DEF HalfDoneByFaults
  <1> QED
    BY <1>4, <1>5

LEMMA HalfDoneStep == TypeOK /\ TypeOK' /\ HalfDoneByFaults /\ [Next]_vars => HalfDoneByFaults'
  <1> SUFFICES ASSUME TypeOK, TypeOK', HalfDoneByFaults, [Next]_vars PROVE HalfDoneByFaults'
    OBVIOUS
  <1>0. /\ job \in [Instances -> Jobs] /\ faultsLeft \in Nat /\ faultsLeft' \in Nat
        /\ \A i \in Instances : job[i].pending \subseteq Reservations
    BY DEF TypeOK, Jobs
  <1>1. ASSUME UNCHANGED <<processed, coupons, job, faultsLeft>> PROVE HalfDoneByFaults'
    BY <1>1 DEF HalfDoneByFaults, HalfDone, CouponsOf, AboutToMark
  <1>2. ASSUME UseFault \/ UNCHANGED faultsLeft PROVE faultsLeft' <= faultsLeft
    BY <1>0, <1>2 DEF UseFault
  <1>3. ASSUME NEW call, NEW outcome, Returns(call, outcome)
        PROVE  /\ UseFault \/ UNCHANGED faultsLeft
               /\ outcome # "ok" => faultsLeft' = faultsLeft - 1
    BY <1>3 DEF Returns, UseFault
  \* A step of an instance that is not marking, and creates no coupon.
  <1>4. ASSUME NEW i \in Instances, job[i].pc # "mark",
               \A k \in Instances \ {i} : job'[k] = job[k],
               processed \subseteq processed', UNCHANGED coupons,
               UseFault \/ UNCHANGED faultsLeft
        PROVE  HalfDoneByFaults'
    <2>1. HalfDone' \subseteq HalfDone
      <3> SUFFICES ASSUME NEW r \in HalfDone' PROVE r \in HalfDone
        OBVIOUS
      <3>1. CouponsOf(r) # {}
        BY <1>4 DEF HalfDone, CouponsOf
      <3> QED
        BY <1>4, <3>1, HalfDoneMoves
    <2> QED
      BY <1>0, <1>2, <1>4, <2>1, HalfDoneCounted
  <1>5. ASSUME NEW i \in Instances, List(i) \/ StartBatch(i) PROVE HalfDoneByFaults'
    <2>1. UNCHANGED <<processed, coupons>> /\ job[i].pc # "mark"
      BY <1>5 DEF List, StartBatch, database
    <2>2. \A k \in Instances \ {i} : job'[k] = job[k]
      BY <1>0, <1>5 DEF List, StartBatch
    <2>3. UseFault \/ UNCHANGED faultsLeft
      BY <1>5 DEF List, StartBatch, Returns
    <2> QED
      BY <1>4, <2>1, <2>2, <2>3
  <1>6. ASSUME NEW i \in Instances, BatchCreateCouponsWithTx(i) PROVE HalfDoneByFaults'
    <2>1. PICK out \in Outcomes :
             /\ Returns("tx", out)
             /\ IF out = "fail"
                THEN UNCHANGED <<coupons, processed>>
                ELSE /\ coupons' = coupons \cup (job[i].pending \X {job[i].cycle})
                     /\ processed' = processed \cup job[i].pending
             /\ job' = [job EXCEPT ![i] = AfterTx(@, out = "ok")]
      BY <1>6 DEF BatchCreateCouponsWithTx, TxMarks
    <2>2. /\ job[i].pc # "mark" /\ processed \subseteq processed'
          /\ \A k \in Instances \ {i} : job'[k] = job[k]
      BY <1>0, <1>6, <2>1 DEF BatchCreateCouponsWithTx
    <2>3. HalfDone' \subseteq HalfDone
      <3> SUFFICES ASSUME NEW r \in HalfDone' PROVE r \in HalfDone
        OBVIOUS
      <3>1. r \notin processed' /\ CouponsOf(r)' # {}
        BY DEF HalfDone
      <3>2. CouponsOf(r) # {}
        BY <2>1, <3>1 DEF CouponsOf
      <3> QED
        BY <2>2, <3>2, HalfDoneMoves
    <2> QED
      BY <1>0, <1>2, <1>3, <2>1, <2>3, HalfDoneCounted
  <1>7. ASSUME NEW i \in Instances, CreateCoupon(i) PROVE HalfDoneByFaults'
    <2>1. PICK r \in job[i].pending : \E out \in Outcomes :
             /\ IsNext(r, job[i].pending)
             /\ Returns("create", out)
             /\ coupons' = IF out = "fail" THEN coupons
                                           ELSE coupons \cup {<<r, job[i].cycle>>}
             /\ job' = [job EXCEPT ![i] =
                  AfterCreate(@, r, out = "ok" /\ <<r, job[i].cycle>> \notin coupons)]
      BY <1>7, Zenon DEF CreateCoupon
    <2>2. PICK out \in Outcomes :
             /\ IsNext(r, job[i].pending)
             /\ Returns("create", out)
             /\ coupons' = IF out = "fail" THEN coupons
                                           ELSE coupons \cup {<<r, job[i].cycle>>}
             /\ job' = [job EXCEPT ![i] =
                  AfterCreate(@, r, out = "ok" /\ <<r, job[i].cycle>> \notin coupons)]
      BY <2>1, Zenon
    <2>3. /\ job[i].pc # "mark" /\ processed' = processed
          /\ \A k \in Instances \ {i} : job'[k] = job[k]
      BY <1>0, <1>7, <2>2 DEF CreateCoupon
    <2>4. HalfDone' \subseteq HalfDone \cup {r}
      <3> SUFFICES ASSUME NEW s \in HalfDone', s # r PROVE s \in HalfDone
        OBVIOUS
      <3>1. CouponsOf(s) # {}
        BY <2>2 DEF CouponsOf, HalfDone
      <3> QED
        BY <2>3, <3>1, HalfDoneMoves
    <2>5. CASE out = "ok" /\ <<r, job[i].cycle>> \notin coupons
      <3>1. job'[i].pc = "mark" /\ job'[i].pending = job[i].pending
        BY <1>0, <2>2, <2>5 DEF AfterCreate, Jobs
      <3>2. r \notin HalfDone'
        BY <2>2, <3>1 DEF HalfDone, AboutToMark, IsNext
      <3>3. HalfDone' \subseteq HalfDone
        BY <2>4, <3>2
      <3> QED
        BY <1>0, <1>2, <1>3, <2>2, <3>3, HalfDoneCounted
    <2>6. CASE coupons' = coupons
      <3>1. UseFault \/ UNCHANGED faultsLeft
        BY <1>3, <2>2
      <3> QED
        BY <1>4, <2>3, <2>6, <3>1
    <2>7. CASE out # "ok"
      BY <1>0, <1>3, <2>2, <2>4, <2>7, HalfDoneCounted
    <2>8. out = "ok" /\ <<r, job[i].cycle>> \in coupons => coupons' = coupons
      BY <2>2
    <2> QED
      BY <2>5, <2>6, <2>7, <2>8
  <1>8. ASSUME NEW i \in Instances, MarkCreated(i) PROVE HalfDoneByFaults'
    <2>1. PICK r \in job[i].pending : \E out \in Outcomes :
             /\ IsNext(r, job[i].pending)
             /\ Returns("mark", out)
             /\ processed' = IF out = "fail" THEN processed ELSE processed \cup {r}
             /\ job' = [job EXCEPT ![i] = AfterMark(@, r)]
      BY <1>8, Zenon DEF MarkCreated
    <2>2. PICK out \in Outcomes :
             /\ IsNext(r, job[i].pending)
             /\ Returns("mark", out)
             /\ processed' = IF out = "fail" THEN processed ELSE processed \cup {r}
             /\ job' = [job EXCEPT ![i] = AfterMark(@, r)]
      BY <2>1, Zenon
    <2>3. /\ coupons' = coupons /\ processed \subseteq processed'
          /\ \A k \in Instances \ {i} : job'[k] = job[k]
      BY <1>0, <1>8, <2>2 DEF MarkCreated
    <2>4. HalfDone' \subseteq HalfDone \cup {r}
      <3> SUFFICES ASSUME NEW s \in HalfDone', s # r PROVE s \in HalfDone
        OBVIOUS
      <3>1. CouponsOf(s) # {}
        BY <2>3 DEF CouponsOf, HalfDone
      <3>2. ~ IsNext(s, job[i].pending)
        BY <1>0, <2>2, NextIsUnique
      <3> QED
        BY <2>3, <3>1, <3>2, HalfDoneMoves
    <2>5. CASE out = "fail"
      BY <1>0, <1>3, <2>2, <2>4, <2>5, HalfDoneCounted
    <2>6. CASE out # "fail"
      <3>1. r \notin HalfDone'
        BY <2>2, <2>6 DEF HalfDone
      <3>2. HalfDone' \subseteq HalfDone
        BY <2>4, <3>1
      <3> QED
        BY <1>0, <1>2, <1>3, <2>2, <3>2, HalfDoneCounted
    <2> QED
      BY <2>5, <2>6
  <1>9. ASSUME NEW i \in Instances, MarkNonWinners(i) \/ MarkEachNonWinner(i) PROVE HalfDoneByFaults'
    <2>1. UNCHANGED coupons /\ job[i].pc # "mark" /\ processed \subseteq processed'
      BY <1>9 DEF MarkNonWinners, MarkEachNonWinner
    <2>2. \A k \in Instances \ {i} : job'[k] = job[k]
      BY <1>0, <1>9 DEF MarkNonWinners, MarkEachNonWinner
    <2>3. UseFault \/ UNCHANGED faultsLeft
      BY <1>9 DEF MarkNonWinners, MarkEachNonWinner, Returns
    <2> QED
      BY <1>4, <2>1, <2>2, <2>3
  <1>10. ASSUME NEW i \in Instances, Crash(i) PROVE HalfDoneByFaults'
    <2>1. /\ UNCHANGED <<processed, coupons>> /\ faultsLeft' = faultsLeft - 1
          /\ \A k \in Instances \ {i} : job'[k] = job[k]
      BY <1>0, <1>10 DEF Crash, database, UseFault
    <2>2. ASSUME NEW s \in HalfDone' PROVE s \in HalfDone \/ IsNext(s, job[i].pending)
      <3>1. CouponsOf(s) # {}
        BY <2>1 DEF CouponsOf, HalfDone
      <3> QED
        BY <2>1, <3>1, HalfDoneMoves
    <2>3. \E r : HalfDone' \subseteq HalfDone \cup {r}
      <3>1. CASE \E r : IsNext(r, job[i].pending)
        <4>1. PICK r : IsNext(r, job[i].pending)
          BY <3>1
        <4>2. HalfDone' \subseteq HalfDone \cup {r}
          BY <1>0, <2>2, <4>1, NextIsUnique
        <4> QED
          BY <4>2
      <3>2. CASE ~ \E r : IsNext(r, job[i].pending)
        BY <2>2, <3>2
      <3> QED
        BY <3>1, <3>2
    <2> QED
      BY <1>0, <2>1, <2>3, HalfDoneCounted
  <1>11. ASSUME NEW r \in Reservations, Reserve(r) PROVE HalfDoneByFaults'
    BY <1>1, <1>11 DEF Reserve
  <1>12. CASE ClockTick \/ UNCHANGED vars
    BY <1>1, <1>12 DEF ClockTick, database, vars
  <1> QED
    BY <1>5, <1>6, <1>7, <1>8, <1>9, <1>10, <1>11, <1>12 DEF Next, Step

\* Of the reservations with a coupon, at most one for each failure, lost reply
\* or crash so far is neither marked nor about to be, for any number of
\* instances: between the two statements of the fallback nothing else gets lost.
THEOREM HalfDoneIsBounded == Spec => []HalfDoneByFaults
  <1>1. Init => HalfDoneByFaults
    <2> SUFFICES ASSUME Init PROVE HalfDoneByFaults
      OBVIOUS
    <2>1. HalfDone = {}
      BY DEF Init, HalfDone, CouponsOf
    <2> QED
      BY <2>1, FS_EmptySet, FaultsAssumption DEF Init, HalfDoneByFaults
  <1> QED
    BY <1>1, TypeCorrect, HalfDoneStep, PTL DEF Spec
=============================================================================
