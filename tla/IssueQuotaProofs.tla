--------------------------- MODULE IssueQuotaProofs ---------------------------
(***************************************************************************)
(* How many coupons the listener issues: one cycle never more than its     *)
(* quota, whichever calls fail and however many instances run, and without *)
(* faults one instance never more than one for each WinnerRatio            *)
(* reservations, over all its cycles, and less than one for each cycle     *)
(* short of that.                                                          *)
(***************************************************************************)
EXTENDS CouponIssueProofs

-----------------------------------------------------------------------------
(* Sets of rows and coupons.                                               *)

\* A set within the union of two finite sets has at most as many elements.
LEMMA WithinUnion ==
    ASSUME NEW A, NEW B, NEW C, IsFiniteSet(A), IsFiniteSet(B), C \subseteq A \cup B
    PROVE  /\ IsFiniteSet(C)
           /\ Cardinality(A) \in Nat /\ Cardinality(B) \in Nat /\ Cardinality(C) \in Nat
           /\ Cardinality(C) <= Cardinality(A) + Cardinality(B)
  <1>1. /\ IsFiniteSet(A \cup B) /\ IsFiniteSet(A \cap B)
        /\ Cardinality(A \cup B) = Cardinality(A) + Cardinality(B) - Cardinality(A \cap B)
    BY FS_Union, FS_Subset
  <1>2. IsFiniteSet(C) /\ Cardinality(C) <= Cardinality(A \cup B)
    BY <1>1, FS_Subset
  <1>3. /\ Cardinality(A) \in Nat /\ Cardinality(B) \in Nat /\ Cardinality(C) \in Nat
        /\ Cardinality(A \cup B) \in Nat /\ Cardinality(A \cap B) \in Nat
    BY <1>1, <1>2, FS_CardinalityType
  <1> QED
    BY <1>1, <1>2, <1>3

\* A row less makes one less to go.
LEMMA OneRowLess ==
    ASSUME NEW S \in SUBSET Reservations, NEW r \in S
    PROVE  /\ Cardinality(S \ {r}) \in Nat /\ Cardinality(S) \in Nat
           /\ Cardinality(S \ {r}) = Cardinality(S) - 1
  BY RowsFinite, FS_RemoveElement

\* The coupons of a cycle its listener has counted or is about to count.
Counted(n) == CouponsOfCycle(n) \ uncounted
Spent(n) == Cardinality(Counted(n))

LEMMA CountedFinite ==
    ASSUME TypeOK, NEW n \in Nat
    PROVE  IsFiniteSet(Counted(n)) /\ Spent(n) \in Nat
  <1>1. IsFiniteSet(Reservations \X {n})
    BY ReservationsAssumption, FS_Product, FS_Singleton
  <1>2. Counted(n) \subseteq Reservations \X {n}
    BY DEF Counted, CouponsOfCycle, TypeOK
  <1> QED
    BY <1>1, <1>2, FS_Subset, FS_CardinalityType DEF Spent

\* What a step adds to the coupons of a cycle bounds what it adds to Spent.
LEMMA SpentGrows ==
    ASSUME TypeOK, NEW n \in Nat, NEW B, IsFiniteSet(B), Counted(n)' \subseteq Counted(n) \cup B
    PROVE  /\ Spent(n)' \in Nat /\ Cardinality(B) \in Nat
           /\ Spent(n)' <= Spent(n) + Cardinality(B)
  BY CountedFinite, WithinUnion DEF Spent

\* Without anything added it does not grow.
LEMMA SpentStays ==
    ASSUME TypeOK, NEW n \in Nat, Counted(n)' \subseteq Counted(n)
    PROVE  Spent(n)' \in Nat /\ Spent(n)' <= Spent(n)
  BY CountedFinite, FS_Subset, FS_CardinalityType DEF Spent

-----------------------------------------------------------------------------
(* The quota of one cycle.                                                 *)

\* The coupon a fallback has created and not yet counted.
InHand(j) == IF j.pc = "mark" THEN 1 ELSE 0

\* An instance with local state j that has spent k coupons of its quota: what
\* it has counted and what it has still to issue are within numCoupons, and
\* what it has spent is the quota less what is left of numCoupons.
Budget(j, k) ==
    /\ j.pc # "idle" => j.cycle > 0
    /\ j.generated + Cardinality(j.pending) <= j.numCoupons
    /\ j.pc \in {"idle", "batch", "tx"} => j.generated = 0
    /\ j.pc = "mark" => j.pending # {}
    /\ k + j.numCoupons <= Quota(j.listed) + (j.generated + InHand(j))

\* The numbers of a local state.
LEMMA JobNumbers ==
    ASSUME NEW j \in Jobs
    PROVE  /\ j.pc \in Points /\ j.cycle \in Nat /\ j.listed \in Nat
           /\ j.generated \in Nat /\ j.numCoupons \in Int
           /\ j.rest \subseteq Reservations /\ j.pending \subseteq Reservations
           /\ j.nonWinners \subseteq Reservations
           /\ Cardinality(j.pending) \in Nat /\ Quota(j.listed) \in Nat
  BY RowsFinite, QuotaBound DEF Jobs

\* Fewer coupons spent are within the budget as well.
LEMMA BudgetLess ==
    ASSUME NEW j \in Jobs, NEW k \in Nat, NEW l \in Nat, l <= k, Budget(j, k)
    PROVE  Budget(j, l)
  BY JobNumbers DEF Budget, InHand

\* An instance without a job spends nothing.
LEMMA NoJobBudget == Budget(NoJob, 0) /\ NoJob.cycle = 0
  <1>1. /\ NoJob.pc = "idle" /\ NoJob.cycle = 0 /\ NoJob.listed = 0
        /\ NoJob.generated = 0 /\ NoJob.numCoupons = 0 /\ NoJob.pending = {}
    BY DEF NoJob
  <1>2. Cardinality({}) = 0 /\ Quota(0) \in Nat
    BY FS_EmptySet, QuotaBound
  <1> QED
    BY <1>1, <1>2 DEF Budget, InHand

\* A new cycle has its whole quota.
LEMMA NewJobBudget ==
    ASSUME NEW n \in Nat, n > 0, NEW rows \in SUBSET Reservations
    PROVE  Budget(NewJob(n, rows), 0) /\ NewJob(n, rows).cycle = n
  <1> DEFINE j == NewJob(n, rows)
  <1>1. /\ j.pc = "batch" /\ j.cycle = n /\ j.listed = Cardinality(rows)
        /\ j.generated = 0 /\ j.pending = {} /\ j.numCoupons = Quota(Cardinality(rows))
    BY DEF NewJob, NoJob
  <1> HIDE DEF j
  <1>2. Cardinality({}) = 0 /\ Quota(Cardinality(rows)) \in Nat
    BY FS_EmptySet, RowsFinite, QuotaBound
  <1>3. Budget(j, 0)
    BY <1>1, <1>2 DEF Budget, InHand
  <1> QED
    BY <1>1, <1>3 DEF j

\* A batch has at most numCoupons winners.
LEMMA InBatchBudget ==
    ASSUME NEW j \in Jobs, NEW k \in Nat, Budget(j, k), j.pc = "batch",
           NEW batch \in SUBSET j.rest, NEW winners \in SUBSET batch, NEW failed,
           IsLowest(winners, j.numCoupons, batch)
    PROVE  /\ Budget(InBatch(j, batch, winners, failed), k)
           /\ InBatch(j, batch, winners, failed).cycle = j.cycle
  <1> DEFINE q == InBatch(j, batch, winners, failed)
  <1>1. /\ q.pc \in {"nonwinners", "tx"} /\ q.cycle = j.cycle /\ q.listed = j.listed
        /\ q.generated = 0 /\ q.pending = winners \ failed /\ q.numCoupons = j.numCoupons
    BY DEF InBatch, Jobs
  <1> HIDE DEF q
  <1>2. /\ winners \subseteq Reservations /\ batch \subseteq Reservations
        /\ winners \ failed \subseteq Reservations
    BY JobNumbers
  <1>3. /\ Cardinality(winners) \in Nat /\ Cardinality(batch) \in Nat
        /\ Cardinality(winners \ failed) \in Nat
        /\ Cardinality(winners \ failed) <= Cardinality(winners)
    BY <1>2, RowsFinite, FS_Subset
  <1>4. Cardinality(winners) <= j.numCoupons
    BY <1>3, JobNumbers DEF IsLowest, Budget
  <1>5. j.generated = 0
    BY DEF Budget
  <1>6. k + j.numCoupons <= Quota(j.listed) /\ j.cycle > 0
    BY <1>5, JobNumbers DEF Budget, InHand
  <1>7. Budget(q, k)
    BY <1>1, <1>3, <1>4, <1>6, JobNumbers DEF Budget, InHand
  <1> QED
    BY <1>1, <1>7 DEF q

\* The transaction spends what is pending, or what it spends is not counted.
LEMMA AfterTxBudget ==
    ASSUME NEW j \in Jobs, NEW k \in Nat, Budget(j, k), j.pc = "tx",
           NEW l \in Nat, NEW ok \in BOOLEAN,
           l <= k + (IF ok THEN Cardinality(j.pending) ELSE 0)
    PROVE  Budget(AfterTx(j, ok), l) /\ AfterTx(j, ok).cycle = j.cycle
  <1> DEFINE q == AfterTx(j, ok)
             c == Cardinality(j.pending)
  <1>1. q.cycle = j.cycle /\ q.listed = j.listed /\ q.numCoupons = j.numCoupons
    BY DEF AfterTx, Jobs
  <1>2. CASE ok
    <2>1. q.pc = "nonwinners" /\ q.pending = {} /\ q.generated = c
      BY <1>2 DEF AfterTx, Jobs
    <2> HIDE DEF q
    <2>2. Cardinality({}) = 0 /\ c \in Nat
      BY FS_EmptySet, JobNumbers
    <2>3. j.generated = 0 /\ c <= j.numCoupons /\ k + j.numCoupons <= Quota(j.listed)
      BY JobNumbers DEF Budget, InHand
    <2>4. l + j.numCoupons <= Quota(j.listed) + c
      BY <1>2, <2>2, <2>3, JobNumbers
    <2>5. Budget(q, l)
      BY <1>1, <2>1, <2>2, <2>3, <2>4, JobNumbers DEF Budget, InHand
    <2> QED
      BY <1>1, <2>5 DEF q
  <1>3. CASE ~ ok
    <2>1. q.pc = "create" /\ q.pending = j.pending /\ q.generated = j.generated
      BY <1>3 DEF AfterTx, Jobs
    <2> HIDE DEF q
    <2>2. l <= k
      BY <1>3
    <2>3. Budget(q, l)
      BY <1>1, <2>1, <2>2, JobNumbers DEF Budget, InHand
    <2> QED
      BY <1>1, <2>3 DEF q
  <1> QED
    BY <1>2, <1>3

\* A code the fallback gives up leaves the budget as it is.
LEMMA SkipCodeBudget ==
    ASSUME NEW j \in Jobs, NEW k \in Nat, Budget(j, k), j.pc = "create",
           NEW l \in Nat, l <= k, NEW r \in j.pending
    PROVE  Budget(SkipCode(j, r), l) /\ SkipCode(j, r).cycle = j.cycle
  <1> DEFINE q == SkipCode(j, r)
  <1>1. /\ q.cycle = j.cycle /\ q.listed = j.listed /\ q.numCoupons = j.numCoupons
        /\ q.pc \in {"nonwinners", "create"} /\ q.pending = j.pending \ {r}
        /\ q.generated = j.generated
    BY DEF SkipCode, Jobs
  <1> HIDE DEF q
  <1>2. Cardinality(j.pending \ {r}) \in Nat /\ Cardinality(j.pending \ {r}) <= Cardinality(j.pending)
    BY OneRowLess, JobNumbers
  <1>3. Budget(q, l)
    BY <1>1, <1>2, JobNumbers DEF Budget, InHand
  <1> QED
    BY <1>1, <1>3 DEF q

\* A coupon the fallback creates is in hand until its row is marked.
LEMMA CreatedBudget ==
    ASSUME NEW j \in Jobs, NEW k \in Nat, Budget(j, k), j.pc = "create",
           NEW l \in Nat, l <= k + 1, NEW r \in j.pending
    PROVE  Budget(AfterCreate(j, r, TRUE), l) /\ AfterCreate(j, r, TRUE).cycle = j.cycle
  <1> DEFINE q == AfterCreate(j, r, TRUE)
  <1>1. /\ q.cycle = j.cycle /\ q.listed = j.listed /\ q.numCoupons = j.numCoupons
        /\ q.pc = "mark" /\ q.pending = j.pending /\ q.generated = j.generated
    BY DEF AfterCreate, Jobs
  <1> HIDE DEF q
  <1>2. k + j.numCoupons <= Quota(j.listed) + j.generated
    BY JobNumbers DEF Budget, InHand
  <1>3. Budget(q, l)
    BY <1>1, <1>2, JobNumbers DEF Budget, InHand
  <1> QED
    BY <1>1, <1>3 DEF q

\* The mark counts the coupon in hand.
LEMMA AfterMarkBudget ==
    ASSUME NEW j \in Jobs, NEW k \in Nat, Budget(j, k), j.pc = "mark",
           NEW l \in Nat, l <= k, NEW r \in j.pending
    PROVE  Budget(AfterMark(j, r), l) /\ AfterMark(j, r).cycle = j.cycle
  <1> DEFINE q == AfterMark(j, r)
  <1>1. /\ q.cycle = j.cycle /\ q.listed = j.listed /\ q.numCoupons = j.numCoupons
        /\ q.pc \in {"nonwinners", "create"} /\ q.pending = j.pending \ {r}
        /\ q.generated = j.generated + 1
    BY DEF AfterMark, SkipCode, Jobs
  <1> HIDE DEF q
  <1>2. /\ Cardinality(j.pending \ {r}) \in Nat
        /\ Cardinality(j.pending \ {r}) = Cardinality(j.pending) - 1
    BY OneRowLess, JobNumbers
  <1>3. k + j.numCoupons <= Quota(j.listed) + (j.generated + 1)
    BY JobNumbers DEF Budget, InHand
  <1>4. Budget(q, l)
    BY <1>1, <1>2, <1>3, JobNumbers DEF Budget, InHand
  <1> QED
    BY <1>1, <1>4 DEF q

\* The end of a batch takes what was counted off numCoupons.
LEMMA EndBatchBudget ==
    ASSUME NEW j \in Jobs, NEW k \in Nat, Budget(j, k), j.pc \in {"nonwinners", "eachNonWinner"}
    PROVE  Budget(EndBatch(j), k) /\ EndBatch(j).cycle = j.cycle
  <1> DEFINE q == EndBatch(j)
  <1>1. /\ q.cycle = j.cycle /\ q.listed = j.listed /\ q.numCoupons = j.numCoupons - j.generated
        /\ q.pc \in {"idle", "batch"} /\ q.pending = j.pending /\ q.generated = 0
    BY DEF EndBatch, Jobs
  <1> HIDE DEF q
  <1>2. k + j.numCoupons <= Quota(j.listed) + j.generated /\ j.cycle > 0
    BY JobNumbers DEF Budget, InHand
  <1>3. Budget(q, k)
    BY <1>1, <1>2, JobNumbers DEF Budget, InHand
  <1> QED
    BY <1>1, <1>3 DEF q

\* So do the two ways to mark the non-winners.
LEMMA NonWinnersBudget ==
    ASSUME NEW j \in Jobs, NEW k \in Nat, Budget(j, k)
    PROVE  /\ \A ok \in BOOLEAN : j.pc = "nonwinners" =>
                 Budget(AfterNonWinners(j, ok), k) /\ AfterNonWinners(j, ok).cycle = j.cycle
           /\ \A r : j.pc = "eachNonWinner" =>
                 Budget(AfterNonWinner(j, r), k) /\ AfterNonWinner(j, r).cycle = j.cycle
  <1>1. ASSUME j.pc = "nonwinners"
        PROVE  /\ Budget([j EXCEPT !.pc = "eachNonWinner"], k)
               /\ [j EXCEPT !.pc = "eachNonWinner"].cycle = j.cycle
    <2> DEFINE q == [j EXCEPT !.pc = "eachNonWinner"]
    <2>1. /\ q.cycle = j.cycle /\ q.listed = j.listed /\ q.numCoupons = j.numCoupons
          /\ q.pc = "eachNonWinner" /\ q.pending = j.pending /\ q.generated = j.generated
      BY DEF Jobs
    <2> HIDE DEF q
    <2>2. Budget(q, k)
      BY <1>1, <2>1, JobNumbers DEF Budget, InHand
    <2> QED
      BY <2>1, <2>2 DEF q
  <1>2. ASSUME NEW r, j.pc = "eachNonWinner"
        PROVE  /\ Budget([j EXCEPT !.nonWinners = @ \ {r}], k)
               /\ [j EXCEPT !.nonWinners = @ \ {r}].cycle = j.cycle
    <2> DEFINE q == [j EXCEPT !.nonWinners = @ \ {r}]
    <2>1. /\ q.cycle = j.cycle /\ q.listed = j.listed /\ q.numCoupons = j.numCoupons
          /\ q.pc = j.pc /\ q.pending = j.pending /\ q.generated = j.generated
      BY DEF Jobs
    <2> HIDE DEF q
    <2>2. Budget(q, k)
      BY <2>1 DEF Budget, InHand
    <2> QED
      BY <2>1, <2>2 DEF q
  <1> QED
    BY <1>1, <1>2, EndBatchBudget DEF AfterNonWinners, AfterNonWinner

\* Every instance is within its budget, and its cycle is its own.
QuotaInv ==
    /\ \A c \in coupons : c[2] > 0 /\ c[2] <= cycles
    /\ \A i \in Instances : job[i].cycle <= cycles
    /\ \A i \in Instances, n \in Nat : job[i].cycle = n => Budget(job[i], Spent(n))
    /\ \A i, k \in Instances : i # k /\ job[i].cycle = job[k].cycle => job[i].cycle = 0

LEMMA QuotaInit == Init => QuotaInv
  <1> SUFFICES ASSUME Init PROVE QuotaInv
    OBVIOUS
  <1>1. \A n \in Nat : Spent(n) = 0
    BY FS_EmptySet DEF Init, Spent, Counted, CouponsOfCycle
  <1> QED
    BY <1>1, NoJobBudget DEF Init, QuotaInv

\* An instance in its cycle changes only the coupons of that cycle.
LEMMA QuotaMoves ==
    ASSUME TypeOK, TypeOK', QuotaInv, NEW i \in Instances, NEW n \in Nat,
           job[i].cycle = n, n > 0,
           NEW j \in Jobs, job' = [job EXCEPT ![i] = j], j.cycle = n,
           cycles' = cycles, uncounted \subseteq uncounted',
           \A c \in coupons' : c \in coupons \/ c[2] = n,
           Budget(j, Spent(n)')
    PROVE  QuotaInv'
  <1>0. job \in [Instances -> Jobs]
    BY DEF TypeOK
  <1>1. job'[i] = j /\ \A k \in Instances : k # i => job'[k] = job[k]
    BY <1>0
  <1>2. \A k \in Instances : job'[k].cycle = job[k].cycle /\ job[k].cycle \in Nat /\ job[k] \in Jobs
    BY <1>0, <1>1, JobNumbers
  <1>3. \A k \in Instances : k # i => job[k].cycle # n
    BY <1>2 DEF QuotaInv
  <1>4. ASSUME NEW k \in Instances, NEW m \in Nat, job'[k].cycle = m
        PROVE  Budget(job'[k], Spent(m)')
    <2>1. CASE k = i
      BY <1>1, <1>4, <2>1
    <2>2. CASE k # i
      <3>1. m # n /\ job[k].cycle = m /\ job'[k] = job[k]
        BY <1>1, <1>2, <1>3, <1>4, <2>2
      <3>2. Counted(m)' \subseteq Counted(m)
        BY <3>1 DEF Counted, CouponsOfCycle
      <3>3. Spent(m)' \in Nat /\ Spent(m) \in Nat /\ Spent(m)' <= Spent(m)
        BY <3>2, SpentStays, CountedFinite
      <3>4. Budget(job[k], Spent(m))
        BY <3>1 DEF QuotaInv
      <3> QED
        BY <1>2, <3>1, <3>3, <3>4, BudgetLess
    <2> QED
      BY <2>1, <2>2
  <1>5. \A c \in coupons' : c[2] > 0 /\ c[2] <= cycles'
    BY DEF QuotaInv
  <1> QED
    BY <1>2, <1>4, <1>5 DEF QuotaInv

\* A step that leaves the coupons and the jobs alone.
LEMMA QuotaKept ==
    ASSUME QuotaInv, UNCHANGED <<coupons, uncounted, cycles, job>>
    PROVE  QuotaInv'
  BY DEF QuotaInv, Spent, Counted, CouponsOfCycle

\* A step of an instance that issues nothing.
LEMMA QuotaIssuesNothing ==
    ASSUME TypeOK, TypeOK', QuotaInv, NEW i \in Instances, job[i].pc # "idle",
           NEW j \in Jobs, job' = [job EXCEPT ![i] = j],
           UNCHANGED <<coupons, uncounted, cycles>>,
           \A k \in Nat : Budget(job[i], k) => Budget(j, k) /\ j.cycle = job[i].cycle
    PROVE  QuotaInv'
  <1>1. PICK n \in Nat : job[i].cycle = n
    BY JobNumbers DEF TypeOK
  <1>2. Spent(n) \in Nat /\ Spent(n)' = Spent(n)
    BY CountedFinite DEF Spent, Counted, CouponsOfCycle
  <1>3. Budget(job[i], Spent(n))
    BY <1>1 DEF QuotaInv
  <1>4. n > 0
    BY <1>1, <1>3 DEF Budget
  <1>5. Budget(j, Spent(n)') /\ j.cycle = n
    BY <1>1, <1>2, <1>3
  <1> QED
    BY <1>1, <1>4, <1>5, QuotaMoves

\* A new cycle has no coupons yet, and a number of its own.
LEMMA QuotaList ==
    ASSUME TypeOK, TypeOK', QuotaInv, NEW i \in Instances, List(i)
    PROVE  QuotaInv'
  <1>1. UNCHANGED <<coupons, uncounted>>
    BY DEF List, database
  <1>2. CASE UNCHANGED <<cycles, job>>
    BY <1>1, <1>2, QuotaKept
  <1>3. ASSUME NEW n \in Nat, n = cycles + 1, cycles' = n, NEW rows \in SUBSET Reservations,
               job' = [job EXCEPT ![i] = NewJob(n, rows)]
        PROVE  QuotaInv'
    <2> DEFINE j == NewJob(n, rows)
    <2>0. cycles \in Nat /\ n > 0 /\ n > cycles
      BY <1>3 DEF TypeOK
    <2>1. Budget(j, 0) /\ j.cycle = n
      BY <2>0, NewJobBudget
    <2> HIDE DEF j
    <2>2. /\ job'[i] = j /\ \A k \in Instances : k # i => job'[k] = job[k]
          /\ \A k \in Instances : job[k].cycle \in Nat
      BY <1>3, JobNumbers DEF TypeOK, j
    <2>3. \A m \in Nat : Spent(m)' = Spent(m)
      BY <1>1 DEF Spent, Counted, CouponsOfCycle
    <2>4. Spent(n) = 0
      <3>1. Counted(n) = {}
        BY <2>0 DEF QuotaInv, Counted, CouponsOfCycle, TypeOK
      <3> QED
        BY <3>1, FS_EmptySet DEF Spent
    <2>5. \A k \in Instances : k # i => job'[k].cycle <= cycles
      BY <2>2 DEF QuotaInv
    <2>6. \A c \in coupons' : c[2] > 0 /\ c[2] <= cycles'
      BY <1>1, <1>3, <2>0 DEF QuotaInv, TypeOK
    <2>7. \A k \in Instances : job'[k].cycle <= cycles'
      BY <1>3, <2>0, <2>1, <2>2, <2>5
    <2>8. ASSUME NEW k \in Instances, NEW m \in Nat, job'[k].cycle = m
          PROVE  Budget(job'[k], Spent(m)')
      <3>1. CASE k = i
        BY <2>1, <2>2, <2>3, <2>4, <2>8, <3>1
      <3>2. CASE k # i
        BY <2>2, <2>3, <2>8, <3>2 DEF QuotaInv
      <3> QED
        BY <3>1, <3>2
    <2>9. \A k, l \in Instances : k # l /\ job'[k].cycle = job'[l].cycle => job'[k].cycle = 0
      <3> TAKE k, l \in Instances
      <3>1. CASE k # i /\ l # i
        BY <2>2, <3>1 DEF QuotaInv
      <3>2. CASE (k = i) # (l = i)
        BY <2>0, <2>1, <2>2, <2>5, <3>2
      <3> QED
        BY <3>1, <3>2
    <2> QED
      BY <2>6, <2>7, <2>8, <2>9 DEF QuotaInv
  <1>4. CASE ~ UNCHANGED <<cycles, job>>
    <2>1. cycles' = cycles + 1 /\ \E rows \in SUBSET Unprocessed :
              job' = [job EXCEPT ![i] = NewJob(cycles + 1, rows)]
      BY <1>4 DEF List
    <2>2. cycles + 1 \in Nat /\ Unprocessed \subseteq Reservations
      BY DEF TypeOK, Unprocessed
    <2> QED
      BY <1>3, <2>1, <2>2
  <1> QED
    BY <1>2, <1>4

\* The transaction of an instance.
LEMMA QuotaTx ==
    ASSUME TypeOK, TypeOK', QuotaInv, NEW i \in Instances, BatchCreateCouponsWithTx(i)
    PROVE  QuotaInv'
  <1>1. PICK n \in Nat : job[i].cycle = n
    BY JobNumbers DEF TypeOK
  <1>2. PICK S \in SUBSET Reservations : job[i].pending = S
    BY JobNumbers DEF TypeOK
  <1>3. PICK out \in Outcomes :
           /\ coupons' = coupons \/ coupons' = coupons \cup (S \X {n})
           /\ out = "fail" => coupons' = coupons
           /\ uncounted' = IF out = "lost" THEN uncounted \cup (coupons' \ coupons) ELSE uncounted
           /\ job' = [job EXCEPT ![i] = AfterTx(@, out = "ok")]
    BY <1>1, <1>2 DEF BatchCreateCouponsWithTx
  <1>4. /\ job[i] \in Jobs /\ job[i].pc = "tx" /\ cycles' = cycles
        /\ AfterTx(job[i], out = "ok") \in Jobs
    BY LoopTypes DEF BatchCreateCouponsWithTx, TypeOK
  <1>5. IsFiniteSet(S \X {n}) /\ Cardinality(S \X {n}) = Cardinality(S) /\ Cardinality(S) \in Nat
    <2>1. Cardinality(S \X {n}) = Cardinality(S) * Cardinality({n}) /\ IsFiniteSet(S \X {n})
      BY RowsFinite, FS_Product, FS_Singleton
    <2>2. Cardinality({n}) = 1 /\ Cardinality(S) \in Nat
      BY RowsFinite, FS_Singleton
    <2>3. Cardinality(S) * Cardinality({n}) = Cardinality(S)
      BY <2>2
    <2> QED
      BY <2>1, <2>2, <2>3
  <1>6. Spent(n) \in Nat /\ Budget(job[i], Spent(n))
    BY <1>1, CountedFinite DEF QuotaInv
  <1>7. Spent(n)' \in Nat /\ Spent(n)' <= Spent(n) + (IF out = "ok" THEN Cardinality(S) ELSE 0)
    <2>1. CASE out = "ok"
      <3>1. Counted(n)' \subseteq Counted(n) \cup (S \X {n})
        BY <1>3, <2>1 DEF Counted, CouponsOfCycle
      <3> QED
        BY <1>5, <2>1, <3>1, SpentGrows
    <2>2. CASE out # "ok"
      <3>1. Counted(n)' \subseteq Counted(n)
        BY <1>3, <2>2 DEF Counted, CouponsOfCycle, Outcomes
      <3> QED
        BY <1>6, <2>2, <3>1, SpentStays
    <2> QED
      BY <2>1, <2>2
  <1>8. /\ Budget(AfterTx(job[i], out = "ok"), Spent(n)')
        /\ AfterTx(job[i], out = "ok").cycle = n
    BY <1>1, <1>2, <1>4, <1>6, <1>7, AfterTxBudget
  <1>9. \A c \in coupons' : c \in coupons \/ c[2] = n
    BY <1>3
  <1> QED
    BY <1>1, <1>3, <1>4, <1>6, <1>8, <1>9, QuotaMoves DEF Budget

\* The fallback's insert.
LEMMA QuotaCreate ==
    ASSUME TypeOK, TypeOK', QuotaInv, NEW i \in Instances, CreateCoupon(i)
    PROVE  QuotaInv'
  <1>1. PICK n \in Nat : job[i].cycle = n
    BY JobNumbers DEF TypeOK
  <1>2. PICK r \in job[i].pending, out \in Outcomes :
           /\ coupons' = IF out = "fail" THEN coupons ELSE coupons \cup {<<r, n>>}
           /\ uncounted' = IF out = "lost" THEN uncounted \cup (coupons' \ coupons) ELSE uncounted
           /\ job' = [job EXCEPT ![i] = AfterCreate(@, r, out = "ok" /\ <<r, n>> \notin coupons)]
    BY <1>1 DEF CreateCoupon
  <1> DEFINE created == out = "ok" /\ <<r, n>> \notin coupons
             j == AfterCreate(job[i], r, created)
  <1>3. job[i] \in Jobs /\ job[i].pc = "create" /\ cycles' = cycles /\ j \in Jobs
    BY LoopTypes DEF CreateCoupon, TypeOK
  <1>4. Spent(n) \in Nat /\ Budget(job[i], Spent(n))
    BY <1>1, CountedFinite DEF QuotaInv
  <1>5. Budget(j, Spent(n)') /\ j.cycle = n
    <2>1. CASE created
      <3>1. Counted(n)' \subseteq Counted(n) \cup {<<r, n>>}
        BY <1>2, <2>1 DEF Counted, CouponsOfCycle
      <3>2. Spent(n)' \in Nat /\ Spent(n)' <= Spent(n) + 1
        BY <3>1, SpentGrows, FS_Singleton
      <3> QED
        BY <1>1, <1>3, <1>4, <2>1, <3>2, <1>2, CreatedBudget
    <2>2. CASE ~ created
      <3>1. Counted(n)' \subseteq Counted(n)
        BY <1>2, <2>2 DEF Counted, CouponsOfCycle, Outcomes
      <3>2. Spent(n)' \in Nat /\ Spent(n)' <= Spent(n)
        BY <3>1, SpentStays
      <3>3. j = SkipCode(job[i], r)
        BY <2>2 DEF AfterCreate
      <3> QED
        BY <1>1, <1>2, <1>3, <1>4, <3>2, <3>3, SkipCodeBudget
    <2> QED
      BY <2>1, <2>2
  <1> HIDE DEF j
  <1>6. job' = [job EXCEPT ![i] = j] /\ \A c \in coupons' : c \in coupons \/ c[2] = n
    BY <1>2 DEF j
  <1>7. n > 0 /\ uncounted \subseteq uncounted'
    BY <1>1, <1>2, <1>3, <1>4 DEF Budget
  <1> QED
    BY <1>1, <1>3, <1>5, <1>6, <1>7, QuotaMoves

\* Every step keeps every instance within its budget.
LEMMA QuotaStep == TypeOK /\ TypeOK' /\ QuotaInv /\ [Next]_vars => QuotaInv'
  <1> SUFFICES ASSUME TypeOK, TypeOK', QuotaInv, [Next]_vars PROVE QuotaInv'
    OBVIOUS
  <1>0. \A i \in Instances : job[i] \in Jobs
    BY DEF TypeOK
  <1>1. ASSUME NEW r \in Reservations, Reserve(r) PROVE QuotaInv'
    BY <1>1, QuotaKept DEF Reserve
  <1>2. CASE ClockTick
    BY <1>2, QuotaKept DEF ClockTick, database
  <1>3. ASSUME NEW i \in Instances, StartBatch(i) PROVE QuotaInv'
    <2>a. PICK batch \in SUBSET job[i].rest : \E winners \in SUBSET batch :
             \E failed \in SUBSET winners :
                /\ IsLowest(winners, job[i].numCoupons, batch)
                /\ job' = [job EXCEPT ![i] = InBatch(@, batch, winners, failed)]
      BY <1>3, Zenon DEF StartBatch
    <2>b. PICK winners \in SUBSET batch : \E failed \in SUBSET winners :
                /\ IsLowest(winners, job[i].numCoupons, batch)
                /\ job' = [job EXCEPT ![i] = InBatch(@, batch, winners, failed)]
      BY <2>a, Zenon
    <2>1. PICK failed \in SUBSET winners :
                /\ IsLowest(winners, job[i].numCoupons, batch)
                /\ job' = [job EXCEPT ![i] = InBatch(@, batch, winners, failed)]
      BY <2>b, Zenon
    <2>2. job[i].pc = "batch" /\ UNCHANGED <<coupons, uncounted, cycles>>
      BY <1>3 DEF StartBatch, database
    <2>3. InBatch(job[i], batch, winners, failed) \in Jobs
      BY <1>0, InBatchType
    <2>4. \A k \in Nat : Budget(job[i], k) =>
              /\ Budget(InBatch(job[i], batch, winners, failed), k)
              /\ InBatch(job[i], batch, winners, failed).cycle = job[i].cycle
      BY <1>0, <2>1, <2>2, InBatchBudget
    <2> QED
      BY <2>1, <2>2, <2>3, <2>4, QuotaIssuesNothing
  <1>4. ASSUME NEW i \in Instances, MarkCreated(i) PROVE QuotaInv'
    <2>1. PICK r \in job[i].pending : job' = [job EXCEPT ![i] = AfterMark(@, r)]
      BY <1>4 DEF MarkCreated
    <2>2. job[i].pc = "mark" /\ UNCHANGED <<coupons, uncounted, cycles>>
      BY <1>4 DEF MarkCreated
    <2>3. \A k \in Nat : Budget(job[i], k) =>
              Budget(AfterMark(job[i], r), k) /\ AfterMark(job[i], r).cycle = job[i].cycle
      BY <1>0, <2>2, AfterMarkBudget
    <2> QED
      BY <1>0, <2>1, <2>2, <2>3, LoopTypes, QuotaIssuesNothing
  <1>5. ASSUME NEW i \in Instances, MarkNonWinners(i) PROVE QuotaInv'
    <2>1. PICK ok \in BOOLEAN : job' = [job EXCEPT ![i] = AfterNonWinners(@, ok)]
      BY <1>5 DEF MarkNonWinners
    <2>2. job[i].pc = "nonwinners" /\ UNCHANGED <<coupons, uncounted, cycles>>
      BY <1>5 DEF MarkNonWinners
    <2>3. AfterNonWinners(job[i], ok) \in Jobs
      BY <1>0, LoopTypes
    <2>4. \A k \in Nat : Budget(job[i], k) =>
              Budget(AfterNonWinners(job[i], ok), k) /\ AfterNonWinners(job[i], ok).cycle = job[i].cycle
      BY <1>0, <2>2, NonWinnersBudget
    <2> QED
      BY <2>1, <2>2, <2>3, <2>4, QuotaIssuesNothing
  <1>6. ASSUME NEW i \in Instances, MarkEachNonWinner(i) PROVE QuotaInv'
    <2>1. PICK r : job' = [job EXCEPT ![i] = AfterNonWinner(@, r)]
      BY <1>6 DEF MarkEachNonWinner
    <2>2. job[i].pc = "eachNonWinner" /\ UNCHANGED <<coupons, uncounted, cycles>>
      BY <1>6 DEF MarkEachNonWinner
    <2>3. AfterNonWinner(job[i], r) \in Jobs
      BY <1>0, LoopTypes
    <2>4. \A k \in Nat : Budget(job[i], k) =>
              Budget(AfterNonWinner(job[i], r), k) /\ AfterNonWinner(job[i], r).cycle = job[i].cycle
      BY <1>0, <2>2, NonWinnersBudget
    <2> QED
      BY <2>1, <2>2, <2>3, <2>4, QuotaIssuesNothing
  <1>7. ASSUME NEW i \in Instances, Crash(i) PROVE QuotaInv'
    <2>1. job' = [job EXCEPT ![i] = NoJob] /\ UNCHANGED <<coupons, uncounted, cycles>>
      BY <1>7 DEF Crash, database
    <2>2. /\ job'[i] = NoJob /\ \A k \in Instances : k # i => job'[k] = job[k]
          /\ \A m \in Nat : Spent(m)' = Spent(m)
      BY <2>1 DEF TypeOK, Spent, Counted, CouponsOfCycle
    <2>3. Spent(0) = 0 /\ cycles \in Nat
      <3>1. Counted(0) = {}
        BY DEF QuotaInv, Counted, CouponsOfCycle
      <3> QED
        BY <3>1, FS_EmptySet DEF Spent, TypeOK
    <2>4. ASSUME NEW k \in Instances, NEW m \in Nat, job'[k].cycle = m
          PROVE  Budget(job'[k], Spent(m)')
      BY <2>2, <2>3, <2>4, NoJobBudget DEF QuotaInv
    <2>5. \A k \in Instances : job'[k].cycle <= cycles'
      BY <2>1, <2>2, <2>3, NoJobBudget DEF QuotaInv
    <2>6. \A k, l \in Instances : k # l /\ job'[k].cycle = job'[l].cycle => job'[k].cycle = 0
      BY <2>2, NoJobBudget DEF QuotaInv
    <2> QED
      BY <2>1, <2>4, <2>5, <2>6 DEF QuotaInv
  <1>8. CASE UNCHANGED vars
    BY <1>8, QuotaKept DEF vars
  <1> QED
    BY <1>1, <1>2, <1>3, <1>4, <1>5, <1>6, <1>7, <1>8, QuotaList, QuotaTx, QuotaCreate
       DEF Next, Step

\* One invocation of handleReservations issues at most one coupon for each
\* WinnerRatio rows it listed, whichever calls fail and wherever instances
\* crash, but for coupons whose insert lost its reply.
THEOREM CycleWithinQuota == Spec => []CycleQuota
  <1>1. TypeOK /\ QuotaInv => CycleQuota
    <2> SUFFICES ASSUME TypeOK, QuotaInv, NEW i \in Instances
                 PROVE  Spent(job[i].cycle) * WinnerRatio <= job[i].listed
      BY DEF CycleQuota, Spent, Counted
    <2>1. PICK n \in Nat : job[i].cycle = n
      BY JobNumbers DEF TypeOK
    <2>2. PICK q \in Nat : Quota(job[i].listed) = q
      BY JobNumbers DEF TypeOK
    <2>3. q * WinnerRatio <= job[i].listed /\ WinnerRatio \in Nat /\ job[i].listed \in Nat
      BY <2>2, JobNumbers, QuotaBound, SizesAssumption DEF TypeOK
    <2>4. Spent(n) \in Nat /\ Budget(job[i], Spent(n))
      BY <2>1, CountedFinite DEF QuotaInv
    <2>5. Spent(n) <= q
      <3>1. job[i].pending # {} => Cardinality(job[i].pending) > 0
        BY JobNumbers, RowsFinite, FS_EmptySet DEF TypeOK
      <3>2. job[i] \in Jobs
        BY DEF TypeOK
      <3> QED
        BY <2>2, <2>4, <3>1, <3>2, JobNumbers DEF Budget, InHand
    <2>6. Spent(n) * WinnerRatio <= q * WinnerRatio
      BY <2>3, <2>4, <2>5
    <2> QED
      BY <2>1, <2>3, <2>4, <2>6
  <1> QED
    BY <1>1, QuotaInit, QuotaStep, TypeCorrect, PTL DEF Spec

-----------------------------------------------------------------------------
(* The quota over all cycles.                                              *)

\* The rows an instance has listed and not yet settled.
Open(j) == j.rest \cup j.pending \cup j.nonWinners

\* Where an instance stands that has met no fault.
OnCourse(j) ==
    /\ j.pc \in {"idle", "batch", "tx", "nonwinners"}
    /\ j.pc = "idle" => j.rest = {}
    /\ j.pc \in {"idle", "batch"} => j.nonWinners = {}
    /\ j.pc # "tx" => j.pending = {}
    /\ j.pc # "nonwinners" => j.generated = 0
    /\ j.generated + Cardinality(j.pending) <= j.numCoupons

\* The coupons issued and those the cycle may still issue are within the share
\* of the rows that are settled and those the cycle will settle.
Share(j) ==
    WinnerRatio * (Cardinality(coupons) + (j.numCoupons - j.generated))
        <= Cardinality(processed \cup Open(j))

ShareInv ==
    /\ faultsLeft <= MaxFaults
    /\ faultsLeft = MaxFaults =>
          /\ IsFiniteSet(coupons)
          /\ processed \subseteq reserved
          /\ \A i \in Instances : OnCourse(job[i]) /\ Share(job[i]) /\ Open(job[i]) \subseteq reserved

OneInstance == \E i : Instances = {i}

\* The steps of an instance on its course: what they leave of numCoupons, and
\* that they neither take up rows nor drop any.
LEMMA InBatchOnCourse ==
    ASSUME NEW j \in Jobs, OnCourse(j), j.pc = "batch",
           NEW batch \in SUBSET j.rest, NEW winners \in SUBSET batch,
           IsLowest(winners, j.numCoupons, batch)
    PROVE  /\ OnCourse(InBatch(j, batch, winners, {}))
           /\ Open(InBatch(j, batch, winners, {})) = Open(j)
           /\ InBatch(j, batch, winners, {}).numCoupons = j.numCoupons
           /\ InBatch(j, batch, winners, {}).generated = j.generated
  <1> DEFINE q == InBatch(j, batch, winners, {})
  <1>1. /\ q.pc = IF winners = {} THEN "nonwinners" ELSE "tx"
        /\ q.rest = j.rest \ batch /\ q.pending = winners /\ q.nonWinners = batch \ winners
        /\ q.generated = 0 /\ q.numCoupons = j.numCoupons
    BY DEF InBatch, Jobs
  <1> HIDE DEF q
  <1>2. j.pending = {} /\ j.nonWinners = {} /\ j.generated = 0 /\ 0 <= j.numCoupons
    BY FS_EmptySet, JobNumbers DEF OnCourse
  <1>3. Cardinality(winners) \in Nat /\ Cardinality(batch) \in Nat
    BY RowsFinite, JobNumbers
  <1>4. Cardinality(winners) <= j.numCoupons
    BY <1>2, <1>3, JobNumbers DEF IsLowest
  <1>5. OnCourse(q)
    BY <1>1, <1>3, <1>4 DEF OnCourse
  <1>6. Open(q) = Open(j)
    BY <1>1, <1>2 DEF Open
  <1> QED
    BY <1>1, <1>2, <1>5, <1>6 DEF q

LEMMA AfterTxOnCourse ==
    ASSUME NEW j \in Jobs, OnCourse(j), j.pc = "tx"
    PROVE  /\ OnCourse(AfterTx(j, TRUE))
           /\ j.pending \cup Open(AfterTx(j, TRUE)) = Open(j)
           /\ AfterTx(j, TRUE).numCoupons = j.numCoupons
           /\ AfterTx(j, TRUE).generated = Cardinality(j.pending) /\ j.generated = 0
  <1> DEFINE q == AfterTx(j, TRUE)
  <1>1. /\ q.pc = "nonwinners" /\ q.rest = j.rest /\ q.pending = {}
        /\ q.nonWinners = j.nonWinners
        /\ q.generated = Cardinality(j.pending) /\ q.numCoupons = j.numCoupons
    BY DEF AfterTx, Jobs
  <1> HIDE DEF q
  <1>2. j.generated = 0 /\ Cardinality(j.pending) <= j.numCoupons /\ Cardinality({}) = 0
    BY FS_EmptySet, JobNumbers DEF OnCourse
  <1>3. OnCourse(q)
    BY <1>1, <1>2, JobNumbers DEF OnCourse
  <1> QED
    BY <1>1, <1>2, <1>3 DEF q, Open

LEMMA EndBatchOnCourse ==
    ASSUME NEW j \in Jobs, OnCourse(j), j.pc = "nonwinners"
    PROVE  /\ OnCourse(EndBatch(j))
           /\ j.nonWinners \cup Open(EndBatch(j)) = Open(j)
           /\ EndBatch(j).numCoupons = j.numCoupons - j.generated
           /\ EndBatch(j).generated = 0
  <1> DEFINE q == EndBatch(j)
  <1>1. /\ q.pc = IF j.rest = {} THEN "idle" ELSE "batch"
        /\ q.rest = j.rest /\ q.pending = j.pending /\ q.nonWinners = {}
        /\ q.generated = 0 /\ q.numCoupons = j.numCoupons - j.generated
    BY DEF EndBatch, Jobs
  <1> HIDE DEF q
  <1>2. j.pending = {} /\ j.generated <= j.numCoupons /\ Cardinality({}) = 0
    BY FS_EmptySet, JobNumbers DEF OnCourse
  <1>3. OnCourse(q)
    BY <1>1, <1>2, JobNumbers DEF OnCourse
  <1> QED
    BY <1>1, <1>2, <1>3 DEF q, Open

LEMMA NewJobOnCourse ==
    ASSUME NEW n, NEW rows \in SUBSET Reservations
    PROVE  /\ OnCourse(NewJob(n, rows)) /\ Open(NewJob(n, rows)) = rows
           /\ NewJob(n, rows).numCoupons = Quota(Cardinality(rows))
           /\ NewJob(n, rows).generated = 0
  <1> DEFINE q == NewJob(n, rows)
  <1>1. /\ q.pc = "batch" /\ q.rest = rows /\ q.pending = {} /\ q.nonWinners = {}
        /\ q.generated = 0 /\ q.numCoupons = Quota(Cardinality(rows))
    BY DEF NewJob, NoJob
  <1> HIDE DEF q
  <1>2. Quota(Cardinality(rows)) \in Nat /\ Cardinality({}) = 0
    BY RowsFinite, QuotaBound, FS_EmptySet
  <1>3. OnCourse(q)
    BY <1>1, <1>2 DEF OnCourse
  <1> QED
    BY <1>1, <1>3 DEF q, Open

LEMMA NoJobOnCourse ==
    /\ OnCourse(NoJob) /\ Open(NoJob) = {}
    /\ NoJob.numCoupons = 0 /\ NoJob.generated = 0
  <1>1. /\ NoJob.pc = "idle" /\ NoJob.rest = {} /\ NoJob.pending = {} /\ NoJob.nonWinners = {}
        /\ NoJob.generated = 0 /\ NoJob.numCoupons = 0
    BY DEF NoJob
  <1> QED
    BY <1>1, FS_EmptySet DEF OnCourse, Open

LEMMA ShareInit == Init => ShareInv
  <1> SUFFICES ASSUME Init PROVE ShareInv
    OBVIOUS
  <1>1. IsFiniteSet({}) /\ Cardinality({}) = 0 /\ WinnerRatio \in Nat
    BY FS_EmptySet, SizesAssumption
  <1>2. ASSUME NEW i \in Instances PROVE OnCourse(job[i]) /\ Share(job[i]) /\ Open(job[i]) \subseteq reserved
    BY <1>1, NoJobOnCourse DEF Init, Share
  <1> QED
    BY <1>1, <1>2, FaultsAssumption DEF Init, ShareInv

\* Calls that use up no fault return ok.
LEMMA NoFaultMeansOk ==
    ASSUME TypeOK, NEW call, NEW out, Returns(call, out)
    PROVE  /\ faultsLeft' <= faultsLeft
           /\ faultsLeft' = faultsLeft => out = "ok"
  BY DEF Returns, UseFault, TypeOK

\* What is to be shown of a step of the one instance.
LEMMA ShareMoves ==
    ASSUME TypeOK, OneInstance, NEW i \in Instances, NEW j \in Jobs,
           job' = [job EXCEPT ![i] = j], faultsLeft' <= MaxFaults,
           IsFiniteSet(coupons'), processed' \subseteq reserved',
           OnCourse(j), Open(j) \subseteq reserved',
           WinnerRatio * (Cardinality(coupons') + (j.numCoupons - j.generated))
               <= Cardinality(processed' \cup Open(j))
    PROVE  ShareInv'
  <1>1. \A k \in Instances : k = i /\ job'[k] = j
    BY DEF OneInstance, TypeOK
  <1>2. \A k \in Instances : OnCourse(job'[k]) /\ Share(job[k])' /\ Open(job'[k]) \subseteq reserved'
    BY <1>1 DEF Share
  <1> QED
    BY <1>2 DEF ShareInv, OnCourse, Open

\* Faults are used up and never come back.
LEMMA FaultsGo ==
    ASSUME TypeOK, [Next]_vars
    PROVE  faultsLeft' <= faultsLeft /\ faultsLeft \in Nat /\ faultsLeft' \in Int /\ MaxFaults \in Nat
  <1>1. faultsLeft \in Nat /\ MaxFaults \in Nat
    BY FaultsAssumption DEF TypeOK
  <1>2. CASE UNCHANGED faultsLeft
    BY <1>1, <1>2
  <1>3. CASE UseFault
    BY <1>1, <1>3 DEF UseFault
  <1>4. ASSUME NEW call, NEW out, Returns(call, out)
        PROVE  UNCHANGED faultsLeft \/ UseFault
    BY <1>4 DEF Returns
  <1>5. (\E r \in Reservations : Reserve(r)) \/ ClockTick \/ UNCHANGED vars => UNCHANGED faultsLeft
    BY DEF Reserve, ClockTick, vars
  <1>6. ASSUME NEW i \in Instances, List(i) \/ StartBatch(i)
        PROVE  \E call, out : Returns(call, out)
    BY <1>6, Zenon DEF List, StartBatch
  <1>7. ASSUME NEW i \in Instances,
               \/ BatchCreateCouponsWithTx(i) \/ CreateCoupon(i) \/ MarkCreated(i)
               \/ MarkNonWinners(i) \/ MarkEachNonWinner(i)
        PROVE  \E call, out : Returns(call, out)
    BY <1>7, Zenon DEF BatchCreateCouponsWithTx, CreateCoupon, MarkCreated, MarkNonWinners,
                       MarkEachNonWinner
  <1>8. \A i \in Instances : Crash(i) => UseFault
    BY DEF Crash
  <1> QED
    BY <1>2, <1>3, <1>4, <1>5, <1>6, <1>7, <1>8 DEF Next, Step

LEMMA ShareStep ==
    ASSUME OneInstance, TypeOK, ShareInv, [Next]_vars
    PROVE  ShareInv'
  <1>0. faultsLeft' <= faultsLeft /\ faultsLeft \in Nat /\ faultsLeft' \in Int /\ MaxFaults \in Nat
    BY FaultsGo
  <1>1. CASE faultsLeft' # MaxFaults
    BY <1>0, <1>1 DEF ShareInv
  <1>2. CASE faultsLeft' = MaxFaults
    <2>0. /\ faultsLeft = MaxFaults /\ faultsLeft' = faultsLeft /\ ~ UseFault
          /\ IsFiniteSet(coupons) /\ processed \subseteq reserved
      BY <1>0, <1>2 DEF ShareInv, UseFault
    <2>1. \A i \in Instances : /\ job[i] \in Jobs /\ OnCourse(job[i]) /\ Share(job[i])
                               /\ Open(job[i]) \subseteq reserved
      BY <2>0 DEF ShareInv, TypeOK
    <2>2. \A call, out : Returns(call, out) => out = "ok"
      BY <2>0 DEF Returns
    <2>3. WinnerRatio \in Nat /\ Cardinality(coupons) \in Nat
      BY <2>0, SizesAssumption, FS_CardinalityType
    <2>4. \A S \in SUBSET Reservations : Cardinality(S) \in Nat /\ IsFiniteSet(S)
      BY RowsFinite
    <2>5. processed \subseteq Reservations /\ \A i \in Instances : Open(job[i]) \subseteq Reservations
      BY <2>1 DEF TypeOK
    <2>6. ASSUME UNCHANGED <<processed, coupons, job>>, reserved \subseteq reserved' PROVE ShareInv'
      <3>1. ShareInv' <=> /\ faultsLeft' <= MaxFaults
                          /\ faultsLeft' = MaxFaults =>
                               /\ IsFiniteSet(coupons) /\ processed \subseteq reserved'
                               /\ \A i \in Instances :
                                    OnCourse(job[i]) /\ Share(job[i]) /\ Open(job[i]) \subseteq reserved'
        BY <2>6 DEF ShareInv, Share, OnCourse, Open
      <3> QED
        BY <1>0, <2>0, <2>1, <2>6, <3>1
    <2>7. ASSUME NEW r \in Reservations, Reserve(r) PROVE ShareInv'
      BY <2>6, <2>7 DEF Reserve
    <2>8. CASE ClockTick
      BY <2>6, <2>8 DEF ClockTick, database
    <2>9. CASE UNCHANGED vars
      BY <2>6, <2>9 DEF vars
    <2>10. ASSUME NEW i \in Instances, List(i) PROVE ShareInv'
      <3>1. \E rows \in SUBSET Unprocessed : job' = [job EXCEPT ![i] = NewJob(cycles + 1, rows)]
        BY <2>2, <2>10, Zenon DEF List
      <3>2. PICK rows \in SUBSET Unprocessed : job' = [job EXCEPT ![i] = NewJob(cycles + 1, rows)]
        BY <3>1
      <3>3. UNCHANGED <<reserved, processed, coupons>> /\ job[i].pc = "idle"
        BY <2>10 DEF List, database
      <3>4. rows \subseteq Reservations /\ rows \subseteq reserved /\ rows \cap processed = {}
        BY <3>2 DEF Unprocessed, TypeOK
      <3> DEFINE j == NewJob(cycles + 1, rows)
                 q == Quota(Cardinality(rows))
      <3>5. /\ OnCourse(j) /\ Open(j) = rows /\ j.numCoupons = q /\ j.generated = 0 /\ j \in Jobs
        BY <3>4, NewJobOnCourse, NewJobType DEF TypeOK
      <3> HIDE DEF j
      <3>6. /\ Cardinality(processed \cup rows) = Cardinality(processed) + Cardinality(rows)
            /\ Cardinality(processed) \in Nat /\ Cardinality(rows) \in Nat
        BY <2>4, <2>5, <3>4, FS_Union, FS_EmptySet
      <3>7. WinnerRatio * Cardinality(coupons) <= Cardinality(processed)
        <4>1. Open(job[i]) = {} /\ job[i].generated = 0
          BY <2>1, <3>3 DEF OnCourse, Open
        <4>2. processed \cup Open(job[i]) = processed
          BY <4>1
        <4>3. 0 <= job[i].numCoupons /\ job[i].numCoupons \in Int
          BY <2>1, <4>1, JobNumbers DEF OnCourse
        <4> DEFINE x == Cardinality(coupons) + (job[i].numCoupons - job[i].generated)
        <4>4. Cardinality(coupons) <= x /\ x \in Nat
          BY <2>3, <4>1, <4>3
        <4>5. WinnerRatio * x <= Cardinality(processed)
          BY <2>1, <4>2 DEF Share
        <4> HIDE DEF x
        <4>6. WinnerRatio * Cardinality(coupons) <= WinnerRatio * x
          BY <2>3, <4>4
        <4>7. WinnerRatio * Cardinality(coupons) \in Nat /\ WinnerRatio * x \in Nat
          BY <2>3, <4>4
        <4> QED
          BY <3>6, <4>5, <4>6, <4>7
      <3>8. q \in Nat /\ q * WinnerRatio <= Cardinality(rows)
        BY <3>6, QuotaBound
      <3> HIDE DEF q
      <3>9. WinnerRatio * (Cardinality(coupons) + (q - 0)) <= Cardinality(processed \cup rows)
        <4>1. WinnerRatio * (Cardinality(coupons) + q)
                = WinnerRatio * Cardinality(coupons) + q * WinnerRatio
          BY <2>3, <3>8
        <4>2. WinnerRatio * Cardinality(coupons) \in Nat /\ q * WinnerRatio \in Nat
          BY <2>3, <3>8
        <4>3. q - 0 = q
          BY <3>8
        <4> QED
          BY <3>6, <3>7, <3>8, <4>1, <4>2, <4>3
      <3>10. job' = [job EXCEPT ![i] = j]
        BY <3>2 DEF j
      <3> QED
        BY <1>0, <2>0, <3>3, <3>4, <3>5, <3>9, <3>10, ShareMoves
    <2>11. ASSUME NEW i \in Instances, StartBatch(i) PROVE ShareInv'
      <3>a. PICK batch \in SUBSET job[i].rest : \E winners \in SUBSET batch :
               \E failed \in SUBSET winners :
                  /\ IsLowest(winners, job[i].numCoupons, batch)
                  /\ Returns("code", IF failed = {} THEN "ok" ELSE "fail")
                  /\ job' = [job EXCEPT ![i] = InBatch(@, batch, winners, failed)]
        BY <2>11, Zenon DEF StartBatch
      <3>b. PICK winners \in SUBSET batch : \E failed \in SUBSET winners :
                  /\ IsLowest(winners, job[i].numCoupons, batch)
                  /\ Returns("code", IF failed = {} THEN "ok" ELSE "fail")
                  /\ job' = [job EXCEPT ![i] = InBatch(@, batch, winners, failed)]
        BY <3>a, Zenon
      <3>1. PICK failed \in SUBSET winners :
                  /\ IsLowest(winners, job[i].numCoupons, batch)
                  /\ Returns("code", IF failed = {} THEN "ok" ELSE "fail")
                  /\ job' = [job EXCEPT ![i] = InBatch(@, batch, winners, failed)]
        BY <3>b, Zenon
      <3>2. failed = {}
        <4>1. (IF failed = {} THEN "ok" ELSE "fail") = "ok"
          BY <2>2, <3>1
        <4> QED
          BY <4>1
      <3>3. UNCHANGED <<reserved, processed, coupons>> /\ job[i].pc = "batch"
        BY <2>11 DEF StartBatch, database
      <3> DEFINE j == InBatch(job[i], batch, winners, {})
      <3>4. /\ OnCourse(j) /\ Open(j) = Open(job[i]) /\ j \in Jobs
            /\ j.numCoupons = job[i].numCoupons /\ j.generated = job[i].generated
        BY <2>1, <3>1, <3>3, InBatchOnCourse, InBatchType
      <3>5. job' = [job EXCEPT ![i] = j]
        BY <3>1, <3>2
      <3> HIDE DEF j
      <3>6. WinnerRatio * (Cardinality(coupons) + (j.numCoupons - j.generated))
                <= Cardinality(processed \cup Open(j))
        BY <2>1, <3>4 DEF Share
      <3> QED
        BY <1>0, <2>0, <2>1, <3>3, <3>4, <3>5, <3>6, ShareMoves
    <2>12. ASSUME NEW i \in Instances, BatchCreateCouponsWithTx(i) PROVE ShareInv'
      <3> DEFINE p == job[i].pending
                 j == AfterTx(job[i], TRUE)
      <3>1. PICK out \in Outcomes :
               /\ Returns("tx", out)
               /\ out = "ok" => /\ coupons' = coupons \cup (p \X {job[i].cycle})
                                /\ processed' = processed \cup p
               /\ job' = [job EXCEPT ![i] = AfterTx(@, out = "ok")]
        BY <2>12 DEF BatchCreateCouponsWithTx, TxMarks
      <3>2. /\ coupons' = coupons \cup (p \X {job[i].cycle}) /\ processed' = processed \cup p
            /\ job' = [job EXCEPT ![i] = j] /\ reserved' = reserved /\ job[i].pc = "tx"
        BY <2>2, <2>12, <3>1 DEF BatchCreateCouponsWithTx
      <3>3. /\ OnCourse(j) /\ p \cup Open(j) = Open(job[i]) /\ j.numCoupons = job[i].numCoupons
            /\ j.generated = Cardinality(p) /\ job[i].generated = 0 /\ j \in Jobs
        BY <2>1, <3>2, AfterTxOnCourse, LoopTypes
      <3>4. job[i].numCoupons \in Int /\ Cardinality(p) \in Nat /\ p \subseteq Reservations
        BY <2>1, JobNumbers
      <3> HIDE DEF j
      <3>5. processed' \cup Open(j) = processed \cup Open(job[i])
        BY <3>2, <3>3
      <3>6. IsFiniteSet(coupons') /\ Cardinality(coupons') <= Cardinality(coupons) + Cardinality(p)
            /\ Cardinality(coupons') \in Nat
        <4>1. IsFiniteSet(p \X {job[i].cycle})
              /\ Cardinality(p \X {job[i].cycle}) = Cardinality(p) * Cardinality({job[i].cycle})
          BY <2>4, <3>4, FS_Product, FS_Singleton
        <4>2. Cardinality({job[i].cycle}) = 1
          BY FS_Singleton
        <4>3. Cardinality(p) * Cardinality({job[i].cycle}) = Cardinality(p)
          BY <3>4, <4>2
        <4>4. coupons' \subseteq coupons \cup (p \X {job[i].cycle}) /\ IsFiniteSet(coupons)
          BY <2>0, <3>2
        <4>5. /\ IsFiniteSet(coupons') /\ Cardinality(coupons') \in Nat
              /\ Cardinality(coupons')
                   <= Cardinality(coupons) + Cardinality(p \X {job[i].cycle})
          BY <4>1, <4>4, WithinUnion
        <4> QED
          BY <4>1, <4>3, <4>5
      <3> DEFINE x == Cardinality(coupons) + (job[i].numCoupons - job[i].generated)
                 y == Cardinality(coupons') + (j.numCoupons - j.generated)
      <3>7. x \in Int /\ y \in Int /\ y <= x
        BY <2>3, <3>3, <3>4, <3>6
      <3>8. WinnerRatio * x <= Cardinality(processed \cup Open(job[i]))
        BY <2>1 DEF Share
      <3>9. Cardinality(processed \cup Open(job[i])) \in Nat
        BY <2>4, <2>5
      <3> HIDE DEF x, y
      <3>10. WinnerRatio * y <= WinnerRatio * x /\ WinnerRatio * y \in Int /\ WinnerRatio * x \in Int
        BY <2>3, <3>7
      <3> DEFINE n == Cardinality(processed \cup Open(job[i]))
      <3> HIDE DEF n
      <3>11. WinnerRatio * y <= n
        BY <3>8, <3>9, <3>10 DEF n
      <3>12. WinnerRatio * y <= Cardinality(processed' \cup Open(j))
        BY <3>5, <3>11 DEF n
      <3>13. processed' \subseteq reserved' /\ Open(j) \subseteq reserved'
        BY <2>0, <2>1, <3>2, <3>3
      <3> QED
        BY <1>0, <2>0, <3>2, <3>3, <3>6, <3>12, <3>13, ShareMoves DEF y
    <2>13. ASSUME NEW i \in Instances, MarkNonWinners(i) PROVE ShareInv'
      <3> DEFINE j == EndBatch(job[i])
      <3>1. PICK out \in Outcomes :
               /\ Returns("nonwinners", out)
               /\ processed' = IF out = "fail" THEN processed ELSE processed \cup job[i].nonWinners
               /\ job' = [job EXCEPT ![i] = AfterNonWinners(@, out = "ok")]
        BY <2>13 DEF MarkNonWinners
      <3>2. /\ processed' = processed \cup job[i].nonWinners /\ job' = [job EXCEPT ![i] = j]
            /\ UNCHANGED <<reserved, coupons>> /\ job[i].pc = "nonwinners"
        BY <2>2, <2>13, <3>1 DEF MarkNonWinners, AfterNonWinners
      <3>3. /\ OnCourse(j) /\ job[i].nonWinners \cup Open(j) = Open(job[i])
            /\ j.numCoupons = job[i].numCoupons - job[i].generated
            /\ j.generated = 0 /\ j \in Jobs
        BY <2>1, <3>2, EndBatchOnCourse, LoopTypes
      <3>4. job[i].numCoupons \in Int /\ job[i].generated \in Nat
        BY <2>1, JobNumbers
      <3> HIDE DEF j
      <3>5. processed' \cup Open(j) = processed \cup Open(job[i])
        BY <3>2, <3>3
      <3>6. j.numCoupons - j.generated = job[i].numCoupons - job[i].generated
        BY <3>3, <3>4
      <3>7. WinnerRatio * (Cardinality(coupons') + (j.numCoupons - j.generated))
                <= Cardinality(processed' \cup Open(j))
        BY <2>1, <3>2, <3>5, <3>6 DEF Share
      <3>8. processed' \subseteq reserved' /\ Open(j) \subseteq reserved'
        BY <2>0, <2>1, <3>2, <3>3 DEF Open
      <3> QED
        BY <1>0, <2>0, <3>2, <3>3, <3>7, <3>8, ShareMoves
    <2>14. ASSUME NEW i \in Instances, CreateCoupon(i) \/ MarkCreated(i) \/ MarkEachNonWinner(i)
           PROVE  ShareInv'
      BY <2>1, <2>14 DEF CreateCoupon, MarkCreated, MarkEachNonWinner, OnCourse
    <2>15. ASSUME NEW i \in Instances, Crash(i) PROVE ShareInv'
      BY <2>0, <2>15 DEF Crash
    <2> QED
      BY <2>7, <2>8, <2>9, <2>10, <2>11, <2>12, <2>13, <2>14, <2>15 DEF Next, Step
  <1> QED
    BY <1>1, <1>2

\* Its share bounds what the instance has issued.
LEMMA ShareMeansQuota ==
    ASSUME OneInstance
    PROVE  TypeOK /\ ShareInv => TotalQuotaWithoutFaults
  <1> SUFFICES ASSUME TypeOK, ShareInv, faultsLeft = MaxFaults
               PROVE  Cardinality(coupons) * WinnerRatio <= Cardinality(reserved)
    BY DEF TotalQuotaWithoutFaults
  <1>1. PICK i \in Instances : job[i] \in Jobs /\ OnCourse(job[i]) /\ Share(job[i])
                               /\ Open(job[i]) \subseteq reserved
    BY DEF OneInstance, ShareInv, TypeOK
  <1> DEFINE x == Cardinality(coupons) + (job[i].numCoupons - job[i].generated)
             S == processed \cup Open(job[i])
  <1>2. S \subseteq reserved /\ reserved \subseteq Reservations /\ IsFiniteSet(coupons)
    BY <1>1 DEF ShareInv, TypeOK
  <1>3. /\ Cardinality(S) <= Cardinality(reserved) /\ Cardinality(S) \in Nat
        /\ Cardinality(reserved) \in Nat /\ Cardinality(coupons) \in Nat /\ WinnerRatio \in Nat
    BY <1>2, RowsFinite, FS_Subset, FS_CardinalityType, SizesAssumption
  <1>4. job[i].numCoupons - job[i].generated \in Nat
    BY <1>1, JobNumbers DEF OnCourse
  <1>5. Cardinality(coupons) <= x /\ x \in Nat
    BY <1>3, <1>4
  <1>6. WinnerRatio * x <= Cardinality(S)
    BY <1>1 DEF Share
  <1> HIDE DEF x, S
  <1>7. /\ Cardinality(coupons) * WinnerRatio <= WinnerRatio * x
        /\ Cardinality(coupons) * WinnerRatio \in Nat /\ WinnerRatio * x \in Nat
    BY <1>3, <1>5
  <1> QED
    BY <1>3, <1>6, <1>7

\* With one instance of the server and while nothing fails, all cycles together
\* issue at most one coupon for each WinnerRatio reservations ever made.
THEOREM AllCyclesWithinQuota ==
    ASSUME OneInstance
    PROVE  Spec => []TotalQuotaWithoutFaults
  <1>1. TypeOK /\ ShareInv => TotalQuotaWithoutFaults
    BY ShareMeansQuota
  <1>2. TypeOK /\ ShareInv /\ [Next]_vars => ShareInv'
    BY ShareStep
  <1> QED
    BY <1>1, <1>2, ShareInit, TypeCorrect, PTL DEF Spec

-----------------------------------------------------------------------------
(* What the quotas of the cycles withhold.                                 *)

\* After n cycles c coupons are what p settled reservations call for, but for
\* the fraction of each cycle.
Enough(p, c, n) == p + n <= (c + n) * WinnerRatio

LEMMA EnoughBoth ==
    ASSUME NEW p \in Nat, NEW c \in Nat, NEW n \in Nat, NEW k \in Nat,
           Enough(p, c, n), NEW m \in Nat, m <= p + k
    PROVE  Enough(m, c + k, n)
  <1> DEFINE a == c + n
             A == a * WinnerRatio
             K == k * WinnerRatio
  <1>1. WinnerRatio \in Nat /\ WinnerRatio >= 1 /\ a \in Nat
    BY SizesAssumption
  <1>2. A \in Nat /\ K \in Nat /\ k <= K
    BY <1>1
  <1>3. (a + k) * WinnerRatio = A + K
    BY <1>1
  <1>4. p + n <= A
    BY DEF Enough
  <1>5. (c + k) + n = a + k
    OBVIOUS
  <1> HIDE DEF a, A, K
  <1>6. m + n <= A + K
    BY <1>1, <1>2, <1>4
  <1> QED
    BY <1>3, <1>5, <1>6 DEF Enough

LEMMA EnoughLess ==
    ASSUME NEW p \in Nat, NEW c \in Nat, NEW n \in Nat, Enough(p, c, n), NEW m \in Nat, m <= p
    PROVE  Enough(m, c, n)
  <1>1. WinnerRatio \in Nat /\ (c + n) * WinnerRatio \in Nat
    BY SizesAssumption
  <1> QED
    BY <1>1 DEF Enough

\* A cycle that lists l rows cuts less than one coupon off its quota.
LEMMA EnoughCycle ==
    ASSUME NEW p \in Nat, NEW c \in Nat, NEW n \in Nat, Enough(p, c, n), NEW l \in Nat
    PROVE  Enough(p + l, c + Quota(l), n + 1)
  <1> DEFINE q == Quota(l)
             a == c + n
             A == a * WinnerRatio
             Q == q * WinnerRatio
  <1>1. WinnerRatio \in Nat /\ WinnerRatio >= 1 /\ a \in Nat
    BY SizesAssumption
  <1>2. q \in Nat /\ l + 1 <= Q + WinnerRatio
    BY <1>1, QuotaBound DEF Quota
  <1>3. A \in Nat /\ Q \in Nat
    BY <1>1, <1>2
  <1>4. (a + q + 1) * WinnerRatio = A + Q + WinnerRatio
    BY <1>1, <1>2
  <1>5. p + n <= A
    BY DEF Enough
  <1>6. (c + q) + (n + 1) = a + q + 1
    BY <1>2
  <1> HIDE DEF a, A, Q, q
  <1>7. (p + l) + (n + 1) <= A + Q + WinnerRatio
    BY <1>1, <1>2, <1>3, <1>5
  <1> QED
    BY <1>4, <1>6, <1>7 DEF Enough, q

\* The coupons an instance on its course has still to issue in its cycle.
Due(j) == j.numCoupons - j.generated

\* It has rows for all of them, and passes over rows only for want of coupons.
Sparing(j) ==
    /\ j.rest \cap j.pending = {} /\ j.rest \cap j.nonWinners = {}
    /\ j.pending \cap j.nonWinners = {}
    /\ Due(j) - Cardinality(j.pending) <= Cardinality(j.rest)
    /\ j.nonWinners # {} => Due(j) = Cardinality(j.pending)

\* So it is now, and will be when the running cycle has ended.
WithheldOf(j) ==
    /\ Sparing(j) /\ Open(j) \cap processed = {}
    /\ Enough(Cardinality(processed \cup Open(j)), Cardinality(coupons) + Due(j), cycles)

WithheldInv ==
    faultsLeft = MaxFaults =>
        /\ \A c \in coupons : c[1] \in processed
        /\ Enough(Cardinality(processed), Cardinality(coupons), cycles)
        /\ \A i \in Instances : WithheldOf(job[i])

LEMMA NoJobSparing == Sparing(NoJob) /\ Due(NoJob) = 0
  <1>1. /\ NoJob.rest = {} /\ NoJob.pending = {} /\ NoJob.nonWinners = {}
        /\ NoJob.generated = 0 /\ NoJob.numCoupons = 0
    BY DEF NoJob
  <1> QED
    BY <1>1, FS_EmptySet DEF Sparing, Due

\* What an instance on its course has still to issue.
LEMMA DueNumber ==
    ASSUME NEW j \in Jobs, OnCourse(j)
    PROVE  /\ Due(j) \in Nat /\ Cardinality(j.pending) \in Nat /\ Cardinality(j.rest) \in Nat
           /\ Cardinality(j.pending) <= Due(j)
           /\ j.pc = "idle" /\ Sparing(j) => Due(j) = 0 /\ Open(j) = {}
  <1>1. /\ j.generated \in Nat /\ j.numCoupons \in Int
        /\ Cardinality(j.pending) \in Nat /\ Cardinality(j.rest) \in Nat
    BY JobNumbers, RowsFinite
  <1>2. Due(j) \in Nat /\ Cardinality(j.pending) <= Due(j)
    BY <1>1 DEF OnCourse, Due
  <1>3. ASSUME j.pc = "idle", Sparing(j) PROVE Due(j) = 0 /\ Open(j) = {}
    <2>1. j.rest = {} /\ j.pending = {} /\ j.nonWinners = {}
      BY <1>3 DEF OnCourse
    <2> QED
      BY <1>2, <1>3, <2>1, FS_EmptySet DEF Sparing, Open
  <1> QED
    BY <1>1, <1>2, <1>3

LEMMA NewJobSparing ==
    ASSUME NEW n, NEW rows \in SUBSET Reservations
    PROVE  /\ Sparing(NewJob(n, rows))
           /\ Due(NewJob(n, rows)) = Quota(Cardinality(rows))
  <1> DEFINE q == NewJob(n, rows)
             m == Cardinality(rows)
  <1>1. /\ q.pc = "batch" /\ q.rest = rows /\ q.pending = {} /\ q.nonWinners = {}
        /\ q.generated = 0 /\ q.numCoupons = Quota(m)
    BY DEF NewJob, NoJob
  <1> HIDE DEF q
  <1>2. m \in Nat /\ Cardinality({}) = 0 /\ Quota(m) \in Nat
    BY RowsFinite, QuotaBound, FS_EmptySet
  <1> HIDE DEF m
  <1>3. Quota(m) <= m
    <2> DEFINE k == Quota(m)
    <2>1. k * WinnerRatio <= m /\ WinnerRatio \in Nat /\ WinnerRatio >= 1 /\ k \in Nat
      BY <1>2, QuotaBound, SizesAssumption
    <2> HIDE DEF k
    <2>2. k <= k * WinnerRatio /\ k * WinnerRatio \in Nat
      BY <2>1
    <2> QED
      BY <1>2, <2>1, <2>2 DEF k
  <1>4. Due(q) = Quota(m)
    BY <1>1, <1>2 DEF Due
  <1>5. Sparing(q)
    BY <1>1, <1>2, <1>3, <1>4 DEF Sparing, m
  <1> QED
    BY <1>4, <1>5 DEF q, m

LEMMA InBatchSparing ==
    ASSUME NEW j \in Jobs, OnCourse(j), Sparing(j), j.pc = "batch",
           NEW batch \in SUBSET j.rest, NEW winners \in SUBSET batch,
           IsLowest(winners, j.numCoupons, batch)
    PROVE  /\ Sparing(InBatch(j, batch, winners, {}))
           /\ Due(InBatch(j, batch, winners, {})) = Due(j)
  <1> DEFINE q == InBatch(j, batch, winners, {})
  <1>1. /\ q.rest = j.rest \ batch /\ q.pending = winners /\ q.nonWinners = batch \ winners
        /\ q.generated = 0 /\ q.numCoupons = j.numCoupons
    BY DEF InBatch, Jobs
  <1> HIDE DEF q
  <1>2. j.pending = {} /\ j.generated = 0 /\ Cardinality({}) = 0
    BY FS_EmptySet DEF OnCourse
  <1>3. Due(q) = j.numCoupons /\ Due(j) = j.numCoupons /\ j.numCoupons \in Nat
    BY <1>1, <1>2, DueNumber, JobNumbers DEF Due
  <1>4. /\ Cardinality(winners) \in Nat /\ Cardinality(batch) \in Nat
        /\ Cardinality(j.rest) \in Nat /\ Cardinality(q.rest) \in Nat
        /\ IsFiniteSet(batch) /\ IsFiniteSet(j.rest)
    BY <1>1, RowsFinite, JobNumbers
  <1>5. Cardinality(winners) = IF Cardinality(batch) < j.numCoupons
                               THEN Cardinality(batch) ELSE j.numCoupons
    BY <1>3 DEF IsLowest
  <1>6. Cardinality(q.rest) = Cardinality(j.rest) - Cardinality(batch)
    <2>1. /\ Cardinality(q.rest \cup batch)
               = Cardinality(q.rest) + Cardinality(batch) - Cardinality(q.rest \cap batch)
          /\ q.rest \cup batch = j.rest /\ q.rest \cap batch = {}
      BY <1>1, <1>4, RowsFinite, JobNumbers, FS_Union
    <2>2. Cardinality(q.rest \cap batch) = 0
      BY <1>2, <2>1
    <2>3. Cardinality(j.rest) = Cardinality(q.rest) + Cardinality(batch) - 0
      BY <2>1, <2>2
    <2> QED
      BY <1>4, <2>3
  <1>7. j.numCoupons <= Cardinality(j.rest)
    BY <1>2, <1>3, <1>4 DEF Sparing
  <1>8. q.nonWinners # {} => Cardinality(winners) = j.numCoupons
    <2> SUFFICES ASSUME winners # batch PROVE Cardinality(winners) = j.numCoupons
      BY <1>1
    <2>1. Cardinality(winners) # Cardinality(batch)
      BY <1>4, FS_Subset
    <2> QED
      BY <1>5, <2>1
  <1>9. Sparing(q)
    BY <1>1, <1>3, <1>4, <1>5, <1>6, <1>7, <1>8 DEF Sparing
  <1> QED
    BY <1>3, <1>9 DEF q

LEMMA AfterTxSparing ==
    ASSUME NEW j \in Jobs, OnCourse(j), Sparing(j), j.pc = "tx"
    PROVE  /\ Sparing(AfterTx(j, TRUE))
           /\ Due(AfterTx(j, TRUE)) + Cardinality(j.pending) = Due(j)
           /\ Open(AfterTx(j, TRUE)) \cap j.pending = {}
  <1> DEFINE q == AfterTx(j, TRUE)
             p == Cardinality(j.pending)
  <1>1. /\ q.rest = j.rest /\ q.pending = {} /\ q.nonWinners = j.nonWinners
        /\ q.generated = p /\ q.numCoupons = j.numCoupons
    BY DEF AfterTx, Jobs
  <1>2. /\ p \in Nat /\ j.numCoupons \in Int /\ j.generated = 0 /\ Cardinality({}) = 0
        /\ Cardinality(j.rest) \in Nat
    BY FS_EmptySet, JobNumbers, RowsFinite DEF OnCourse
  <1> HIDE DEF q
  <1>3. Due(q) + p = Due(j) /\ Due(q) \in Int /\ Due(j) \in Int
    BY <1>1, <1>2 DEF Due
  <1>4. Due(q) <= Cardinality(j.rest) /\ (j.nonWinners # {} => Due(q) = 0)
    BY <1>2, <1>3 DEF Sparing
  <1>5. Sparing(q)
    <2>1. Cardinality(q.pending) = 0 /\ Cardinality(q.rest) = Cardinality(j.rest)
      BY <1>1, <1>2
    <2>2. Due(q) - Cardinality(q.pending) <= Cardinality(q.rest)
      BY <1>2, <1>3, <1>4, <2>1
    <2>3. q.nonWinners # {} => Due(q) = Cardinality(q.pending)
      BY <1>1, <1>4, <2>1
    <2> QED
      BY <1>1, <2>2, <2>3 DEF Sparing
  <1>6. Open(q) \cap j.pending = {}
    BY <1>1 DEF Sparing, Open
  <1> QED
    BY <1>3, <1>5, <1>6 DEF q, p

LEMMA EndBatchSparing ==
    ASSUME NEW j \in Jobs, OnCourse(j), Sparing(j), j.pc = "nonwinners"
    PROVE  /\ Sparing(EndBatch(j)) /\ Due(EndBatch(j)) = Due(j)
           /\ Open(EndBatch(j)) \cap j.nonWinners = {}
           /\ j.nonWinners # {} => Due(j) = 0
  <1> DEFINE q == EndBatch(j)
  <1>1. /\ q.rest = j.rest /\ q.pending = j.pending /\ q.nonWinners = {}
        /\ q.generated = 0 /\ q.numCoupons = j.numCoupons - j.generated
    BY DEF EndBatch, Jobs
  <1> HIDE DEF q
  <1>2. /\ j.generated \in Nat /\ j.numCoupons \in Int /\ j.pending = {} /\ Cardinality({}) = 0
    BY FS_EmptySet, JobNumbers DEF OnCourse
  <1>3. Due(q) = Due(j)
    BY <1>1, <1>2 DEF Due
  <1>4. Sparing(q)
    BY <1>1, <1>3 DEF Sparing
  <1> QED
    BY <1>1, <1>2, <1>3, <1>4 DEF Sparing, Open, q

\* What is to be shown of a step of the one instance.
LEMMA WithheldMoves ==
    ASSUME TypeOK, OneInstance, NEW i \in Instances, NEW j \in Jobs,
           job' = [job EXCEPT ![i] = j], \A c \in coupons' : c[1] \in processed',
           Enough(Cardinality(processed'), Cardinality(coupons'), cycles'),
           Sparing(j), Open(j) \cap processed' = {},
           Enough(Cardinality(processed' \cup Open(j)), Cardinality(coupons') + Due(j), cycles')
    PROVE  WithheldInv'
  <1>1. \A k \in Instances : k = i /\ job'[k] = j
    BY DEF OneInstance, TypeOK
  <1>2. \A k \in Instances : WithheldOf(job[k])'
    BY <1>1 DEF WithheldOf, Sparing, Open, Due, Enough
  <1> QED
    BY <1>2 DEF WithheldInv, Enough

LEMMA WithheldInit == Init => WithheldInv
  <1> SUFFICES ASSUME Init PROVE WithheldInv
    OBVIOUS
  <1>1. /\ processed = {} /\ coupons = {} /\ cycles = 0 /\ Cardinality({}) = 0
        /\ \A i \in Instances : job[i] = NoJob
    BY FS_EmptySet DEF Init
  <1>2. Enough(0, 0, 0)
    BY SizesAssumption DEF Enough
  <1>3. Open(NoJob) = {}
    BY NoJobOnCourse
  <1>4. WithheldOf(NoJob)
    BY <1>1, <1>2, <1>3, NoJobSparing DEF WithheldOf
  <1> QED
    BY <1>1, <1>2, <1>4 DEF WithheldInv

LEMMA WithheldStep ==
    ASSUME OneInstance, TypeOK, ShareInv, WithheldInv, [Next]_vars
    PROVE  WithheldInv'
  <1>0. /\ faultsLeft' <= faultsLeft /\ faultsLeft \in Nat /\ faultsLeft' \in Int
        /\ MaxFaults \in Nat /\ faultsLeft <= MaxFaults
    BY FaultsGo DEF ShareInv
  <1>1. CASE faultsLeft' # MaxFaults
    BY <1>1 DEF WithheldInv
  <1>2. CASE faultsLeft' = MaxFaults
    <2>0. /\ faultsLeft = MaxFaults /\ ~ UseFault /\ IsFiniteSet(coupons)
          /\ \A c \in coupons : c[1] \in processed
          /\ Enough(Cardinality(processed), Cardinality(coupons), cycles)
      BY <1>0, <1>2 DEF ShareInv, WithheldInv, UseFault
    <2>1. \A i \in Instances : /\ job[i] \in Jobs /\ OnCourse(job[i])
                               /\ Sparing(job[i]) /\ Open(job[i]) \cap processed = {}
                               /\ Enough(Cardinality(processed \cup Open(job[i])),
                                         Cardinality(coupons) + Due(job[i]), cycles)
      BY <2>0 DEF ShareInv, TypeOK, WithheldInv, WithheldOf
    <2>2. \A call, out : Returns(call, out) => out = "ok"
      BY <2>0 DEF Returns
    <2>3. \A S \in SUBSET Reservations : Cardinality(S) \in Nat /\ IsFiniteSet(S)
      BY RowsFinite
    <2>4. /\ Cardinality(coupons) \in Nat /\ cycles \in Nat /\ Cardinality(processed) \in Nat
          /\ processed \subseteq Reservations
          /\ \A i \in Instances : /\ Open(job[i]) \subseteq Reservations
                                  /\ processed \cup Open(job[i]) \subseteq Reservations
      BY <2>0, <2>1, <2>3, JobNumbers, FS_CardinalityType DEF TypeOK, Open
    <2>5. ASSUME UNCHANGED <<processed, coupons, cycles, job>> PROVE WithheldInv'
      <3>1. \A i \in Instances : WithheldOf(job[i])'
        BY <2>1, <2>5 DEF WithheldOf, Sparing, Open, Due, Enough
      <3> QED
        BY <2>0, <2>5, <3>1 DEF WithheldInv, Enough
    <2>6. ASSUME NEW r \in Reservations, Reserve(r) PROVE WithheldInv'
      BY <2>5, <2>6 DEF Reserve
    <2>7. CASE ClockTick \/ UNCHANGED vars
      BY <2>5, <2>7 DEF ClockTick, vars, database
    <2>8. ASSUME NEW i \in Instances, List(i) PROVE WithheldInv'
      <3>1. /\ \E rows \in SUBSET Unprocessed : job' = [job EXCEPT ![i] = NewJob(cycles + 1, rows)]
            /\ cycles' = cycles + 1
        BY <2>2, <2>8, Zenon DEF List
      <3>2. PICK rows \in SUBSET Unprocessed : job' = [job EXCEPT ![i] = NewJob(cycles + 1, rows)]
        BY <3>1
      <3>3. UNCHANGED <<processed, coupons>> /\ job[i].pc = "idle"
        BY <2>8 DEF List, database
      <3>4. rows \subseteq Reservations /\ rows \cap processed = {}
        BY <3>2 DEF Unprocessed, TypeOK
      <3> DEFINE j == NewJob(cycles + 1, rows)
                 l == Cardinality(rows)
      <3>5. /\ Sparing(j) /\ Open(j) = rows /\ Due(j) = Quota(l) /\ j \in Jobs
        BY <2>4, <3>4, NewJobSparing, NewJobOnCourse, NewJobType
      <3> HIDE DEF j
      <3>6. Cardinality(processed \cup rows) = Cardinality(processed) + l /\ l \in Nat
        <4>1. l \in Nat /\ IsFiniteSet(rows) /\ IsFiniteSet(processed)
          BY <2>3, <2>4, <3>4
        <4>2. Cardinality(processed \cup rows)
                = Cardinality(processed) + l - Cardinality(processed \cap rows)
          BY <4>1, FS_Union
        <4>3. processed \cap rows = {} /\ Cardinality({}) = 0
          BY <3>4, FS_EmptySet
        <4> HIDE DEF l
        <4>4. Cardinality(processed \cup rows) = Cardinality(processed) + l - 0
          BY <4>2, <4>3
        <4> QED
          BY <2>4, <4>1, <4>4
      <3> HIDE DEF l
      <3>7. Enough(Cardinality(processed) + l, Cardinality(coupons) + Quota(l), cycles + 1)
        BY <2>0, <2>4, <3>6, EnoughCycle
      <3>8. Enough(Cardinality(processed), Cardinality(coupons), cycles + 1)
        <4>1. Quota(0) = 0
          BY SizesAssumption DEF Quota
        <4>2. Enough(Cardinality(processed) + 0, Cardinality(coupons) + Quota(0), cycles + 1)
          BY <2>0, <2>4, EnoughCycle
        <4>3. Cardinality(processed) + 0 = Cardinality(processed)
              /\ Cardinality(coupons) + 0 = Cardinality(coupons)
          BY <2>4
        <4> QED
          BY <4>1, <4>2, <4>3
      <3>9. job' = [job EXCEPT ![i] = j]
        BY <3>2 DEF j
      <3> QED
        BY <2>0, <3>1, <3>3, <3>4, <3>5, <3>6, <3>7, <3>8, <3>9, WithheldMoves
    <2>9. ASSUME NEW i \in Instances, StartBatch(i) PROVE WithheldInv'
      <3>a. PICK batch \in SUBSET job[i].rest : \E winners \in SUBSET batch :
               \E failed \in SUBSET winners :
                  /\ IsLowest(winners, job[i].numCoupons, batch)
                  /\ Returns("code", IF failed = {} THEN "ok" ELSE "fail")
                  /\ job' = [job EXCEPT ![i] = InBatch(@, batch, winners, failed)]
        BY <2>9, Zenon DEF StartBatch
      <3>b. PICK winners \in SUBSET batch : \E failed \in SUBSET winners :
                  /\ IsLowest(winners, job[i].numCoupons, batch)
                  /\ Returns("code", IF failed = {} THEN "ok" ELSE "fail")
                  /\ job' = [job EXCEPT ![i] = InBatch(@, batch, winners, failed)]
        BY <3>a, Zenon
      <3>1. PICK failed \in SUBSET winners :
                  /\ IsLowest(winners, job[i].numCoupons, batch)
                  /\ Returns("code", IF failed = {} THEN "ok" ELSE "fail")
                  /\ job' = [job EXCEPT ![i] = InBatch(@, batch, winners, failed)]
        BY <3>b, Zenon
      <3>2. failed = {}
        <4>1. (IF failed = {} THEN "ok" ELSE "fail") = "ok"
          BY <2>2, <3>1
        <4> QED
          BY <4>1
      <3>3. UNCHANGED <<processed, coupons, cycles>> /\ job[i].pc = "batch"
        BY <2>9 DEF StartBatch, database
      <3> DEFINE j == InBatch(job[i], batch, winners, {})
      <3>4. /\ Sparing(j) /\ Open(j) = Open(job[i]) /\ Due(j) = Due(job[i]) /\ j \in Jobs
        BY <2>1, <3>1, <3>3, InBatchSparing, InBatchOnCourse, InBatchType
      <3>5. job' = [job EXCEPT ![i] = j]
        BY <3>1, <3>2
      <3> HIDE DEF j
      <3> QED
        BY <2>0, <2>1, <3>3, <3>4, <3>5, WithheldMoves
    <2>10. ASSUME NEW i \in Instances, BatchCreateCouponsWithTx(i) PROVE WithheldInv'
      <3> DEFINE p == job[i].pending
                 j == AfterTx(job[i], TRUE)
                 new == p \X {job[i].cycle}
      <3>1. PICK out \in Outcomes :
               /\ Returns("tx", out)
               /\ out = "ok" => /\ coupons' = coupons \cup (p \X {job[i].cycle})
                                /\ processed' = processed \cup p
               /\ job' = [job EXCEPT ![i] = AfterTx(@, out = "ok")]
        BY <2>10 DEF BatchCreateCouponsWithTx, TxMarks
      <3>2. /\ coupons' = coupons \cup new /\ processed' = processed \cup p
            /\ job' = [job EXCEPT ![i] = j] /\ cycles' = cycles /\ job[i].pc = "tx"
        BY <2>2, <2>10, <3>1 DEF BatchCreateCouponsWithTx
      <3>3. /\ Sparing(j) /\ Due(j) + Cardinality(p) = Due(job[i]) /\ Open(j) \cap p = {}
            /\ p \cup Open(j) = Open(job[i]) /\ j \in Jobs /\ OnCourse(j)
        BY <2>1, <3>2, AfterTxSparing, AfterTxOnCourse, LoopTypes
      <3>4. Cardinality(p) \in Nat /\ IsFiniteSet(p) /\ p \subseteq Open(job[i]) /\ Due(j) \in Nat
            /\ p \subseteq Reservations
        BY <2>1, <2>3, <3>3, JobNumbers, DueNumber DEF Open
      <3> HIDE DEF j
      <3>5. /\ IsFiniteSet(coupons') /\ Cardinality(coupons') = Cardinality(coupons) + Cardinality(p)
        <4>1. IsFiniteSet(new) /\ Cardinality(new) = Cardinality(p) * Cardinality({job[i].cycle})
          BY <3>4, FS_Product, FS_Singleton
        <4>2. Cardinality({job[i].cycle}) = 1
          BY FS_Singleton
        <4>3. Cardinality(new) = Cardinality(p)
          BY <3>4, <4>1, <4>2
        <4>4. coupons \cap new = {}
          BY <2>0, <2>1, <3>4
        <4> HIDE DEF new
        <4>5. /\ IsFiniteSet(coupons \cup new)
              /\ Cardinality(coupons \cup new)
                   = Cardinality(coupons) + Cardinality(new) - Cardinality({})
          BY <2>0, <4>1, <4>4, FS_Union
        <4>6. Cardinality({}) = 0
          BY FS_EmptySet
        <4>7. Cardinality(coupons \cup new) = Cardinality(coupons) + Cardinality(p) - 0
          BY <4>3, <4>5, <4>6
        <4> QED
          BY <2>4, <3>2, <3>4, <4>5, <4>7
      <3>6. \A c \in coupons' : c[1] \in processed'
        BY <2>0, <3>2
      <3>7. Cardinality(processed') <= Cardinality(processed) + Cardinality(p)
            /\ Cardinality(processed') \in Nat
        BY <2>3, <2>4, <3>2, <3>4, WithinUnion
      <3>8. Enough(Cardinality(processed'), Cardinality(coupons'), cycles')
        <4>1. Enough(Cardinality(processed), Cardinality(coupons), cycles)
          BY <2>0
        <4>2. Enough(Cardinality(processed'), Cardinality(coupons) + Cardinality(p), cycles)
          BY <2>4, <3>4, <3>7, <4>1, EnoughBoth
        <4> QED
          BY <3>2, <3>5, <4>2
      <3>9. /\ processed' \cup Open(j) = processed \cup Open(job[i])
            /\ Open(j) \cap processed' = {}
        BY <2>1, <3>2, <3>3
      <3>10. Cardinality(coupons') + Due(j) = Cardinality(coupons) + Due(job[i])
        BY <2>4, <3>3, <3>4, <3>5
      <3>11. Enough(Cardinality(processed' \cup Open(j)), Cardinality(coupons') + Due(j), cycles')
        BY <2>1, <3>2, <3>9, <3>10
      <3> QED
        BY <3>2, <3>3, <3>6, <3>8, <3>9, <3>11, WithheldMoves
    <2>11. ASSUME NEW i \in Instances, MarkNonWinners(i) PROVE WithheldInv'
      <3> DEFINE j == EndBatch(job[i])
                 n == job[i].nonWinners
      <3>1. PICK out \in Outcomes :
               /\ Returns("nonwinners", out)
               /\ processed' = IF out = "fail" THEN processed ELSE processed \cup job[i].nonWinners
               /\ job' = [job EXCEPT ![i] = AfterNonWinners(@, out = "ok")]
        BY <2>11 DEF MarkNonWinners
      <3>2. /\ processed' = processed \cup n /\ job' = [job EXCEPT ![i] = j]
            /\ UNCHANGED <<coupons, cycles>> /\ job[i].pc = "nonwinners"
        BY <2>2, <2>11, <3>1 DEF MarkNonWinners, AfterNonWinners
      <3>3. /\ Sparing(j) /\ Due(j) = Due(job[i]) /\ Open(j) \cap n = {}
            /\ n # {} => Due(job[i]) = 0
            /\ n \cup Open(j) = Open(job[i]) /\ j \in Jobs
        BY <2>1, <3>2, EndBatchSparing, EndBatchOnCourse, LoopTypes
      <3> HIDE DEF j, n
      <3>4. /\ processed' \cup Open(j) = processed \cup Open(job[i])
            /\ Open(j) \cap processed' = {} /\ processed' \subseteq processed \cup Open(job[i])
        BY <2>1, <3>2, <3>3
      <3>5. Enough(Cardinality(processed'), Cardinality(coupons'), cycles')
        <4>1. CASE n = {}
          <5>1. processed' = processed
            BY <3>2, <4>1
          <5> QED
            BY <2>0, <3>2, <5>1
        <4>2. CASE n # {}
          <5> DEFINE S == processed \cup Open(job[i])
          <5>1. /\ IsFiniteSet(S) /\ Cardinality(S) \in Nat /\ Cardinality(processed') \in Nat
                /\ Cardinality(processed') <= Cardinality(S)
            BY <2>3, <2>4, <3>4, FS_Subset, FS_CardinalityType
          <5>2. Enough(Cardinality(S), Cardinality(coupons), cycles)
            <6>1. Cardinality(coupons) + Due(job[i]) = Cardinality(coupons)
              BY <2>4, <3>3, <4>2
            <6> QED
              BY <2>1, <6>1
          <5> HIDE DEF S
          <5> QED
            BY <2>4, <3>2, <5>1, <5>2, EnoughLess
        <4> QED
          BY <4>1, <4>2
      <3>6. \A c \in coupons' : c[1] \in processed'
        BY <2>0, <3>2
      <3>7. Enough(Cardinality(processed' \cup Open(j)), Cardinality(coupons') + Due(j), cycles')
        BY <2>1, <3>2, <3>3, <3>4
      <3> QED
        BY <3>2, <3>3, <3>4, <3>5, <3>6, <3>7, WithheldMoves
    <2>12. ASSUME NEW i \in Instances, CreateCoupon(i) \/ MarkCreated(i) \/ MarkEachNonWinner(i)
           PROVE  WithheldInv'
      BY <2>1, <2>12 DEF CreateCoupon, MarkCreated, MarkEachNonWinner, OnCourse
    <2>13. ASSUME NEW i \in Instances, Crash(i) PROVE WithheldInv'
      BY <2>0, <2>13 DEF Crash
    <2> QED
      BY <2>6, <2>7, <2>8, <2>9, <2>10, <2>11, <2>12, <2>13 DEF Next, Step
  <1> QED
    BY <1>1, <1>2

\* With one instance of the server and while nothing fails, the settled
\* reservations have all the coupons they call for but less than one for each
\* cycle, whatever the sizes of tables, listings and batches (handleReservations;
\* WithheldIsCutOff).
THEOREM OnlyFractionsWithheld ==
    ASSUME OneInstance
    PROVE  Spec => []WithheldIsCutOff
  <1>1. WithheldInv => WithheldIsCutOff
    BY DEF WithheldInv, WithheldIsCutOff, Enough
  <1>2. TypeOK /\ ShareInv /\ WithheldInv /\ [Next]_vars => WithheldInv'
    BY WithheldStep
  <1>3. TypeOK /\ ShareInv /\ [Next]_vars => ShareInv'
    BY ShareStep
  <1> QED
    BY <1>1, <1>2, <1>3, ShareInit, WithheldInit, TypeCorrect, PTL DEF Spec
=============================================================================
