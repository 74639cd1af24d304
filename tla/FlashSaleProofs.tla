-------------------------- MODULE FlashSaleProofs --------------------------
(***************************************************************************)
(* What holds of FlashSale with one process, for any number of users,      *)
(* handlers and faults.  Every step is one of the listener, one of the     *)
(* grab, or one of both, and keeps what either proved of its own steps; a  *)
(* step of only one of them leaves the rows of the other alone.            *)
(***************************************************************************)
EXTENDS FlashSale, FiniteSetTheorems, TLAPS

IP == INSTANCE IssueQuotaProofs WITH
    Reservations <- Users, Instances <- Servers, window <- Window,
    Failing <- IssueFailing, Losing <- IssueLosing

GP == INSTANCE CouponGrabProofs WITH
    Coupons <- Users, status <- Status, Failing <- GrabFailing, Losing <- GrabLosing

-----------------------------------------------------------------------------
(* The two parts and the assumptions of their proofs.                      *)

LEMMA IssueAssumptions ==
    IP!ReservationsAssumption /\ IP!SizesAssumption /\ IP!FaultsAssumption
  <1>1. IP!ReservationsAssumption
    BY UsersAssumption DEF IP!ReservationsAssumption, IsFiniteSet, IP!IsFiniteSet
  <1>2. IP!SizesAssumption
    BY SizesAssumption DEF IP!SizesAssumption
  <1>3. IP!FaultsAssumption
    BY FaultsAssumption DEF IP!FaultsAssumption, IP!Calls, IP!Points, Issue!Calls, Issue!Points
  <1> QED
    BY <1>1, <1>2, <1>3

LEMMA GrabAssumptions ==
    GP!RowsAssumption /\ GP!SizesAssumption /\ GP!FaultsAssumption /\ GP!HashAssumption
  <1>1. GP!RowsAssumption
    BY UsersAssumption DEF GP!RowsAssumption
  <1>2. GP!SizesAssumption
    BY UsersAssumption, SizesAssumption DEF GP!SizesAssumption, IsFiniteSet, GP!IsFiniteSet
  <1>3. GP!FaultsAssumption
    BY FaultsAssumption DEF GP!FaultsAssumption
  <1>4. GP!HashAssumption
    BY UsersAssumption DEF GP!HashAssumption
  <1> QED
    BY <1>1, <1>2, <1>3, <1>4
-----------------------------------------------------------------------------
(* The steps of FlashSale are steps of the two parts.                      *)

\* The steps of the listener.
LEMMA IssueSteps ==
    ASSUME NEW s \in Servers
    PROVE  /\ Issue!List(s) => IP!List(s)
           /\ Issue!StartBatch(s) => IP!StartBatch(s)
           /\ Issue!BatchCreateCouponsWithTx(s) => IP!BatchCreateCouponsWithTx(s)
           /\ Issue!CreateCoupon(s) => IP!CreateCoupon(s)
           /\ Issue!MarkCreated(s) => IP!MarkCreated(s)
           /\ Issue!MarkNonWinners(s) => IP!MarkNonWinners(s)
           /\ Issue!MarkEachNonWinner(s) => IP!MarkEachNonWinner(s)
           /\ Issue!Crash(s) => IP!Crash(s)
  <1>1. Issue!List(s) => IP!List(s)
    BY DEF Issue!List, IP!List, Issue!Returns, IP!Returns, Issue!UseFault, IP!UseFault,
           Issue!Unprocessed, IP!Unprocessed, Issue!IsLowest, IP!IsLowest,
           Issue!LockedByOthers, IP!LockedByOthers, Issue!Locked, IP!Locked,
           Issue!IsNext, IP!IsNext, Issue!NewJob, IP!NewJob,
           Issue!NoJob, IP!NoJob, Issue!Quota, IP!Quota, Issue!database, IP!database,
           Issue!Cardinality, IP!Cardinality
  <1>2. Issue!StartBatch(s) => IP!StartBatch(s)
    BY DEF Issue!StartBatch, IP!StartBatch, Issue!Returns, IP!Returns, Issue!UseFault, IP!UseFault,
           Issue!IsLowest, IP!IsLowest, Issue!InBatch, IP!InBatch, Issue!database, IP!database,
           Issue!Cardinality, IP!Cardinality
  <1>3. Issue!BatchCreateCouponsWithTx(s) => IP!BatchCreateCouponsWithTx(s)
    BY DEF Issue!BatchCreateCouponsWithTx, IP!BatchCreateCouponsWithTx, Issue!Outcomes, IP!Outcomes,
           Issue!Returns, IP!Returns, Issue!UseFault, IP!UseFault, Issue!TxMarks, IP!TxMarks,
           Issue!AfterTx, IP!AfterTx, Issue!Cardinality, IP!Cardinality
  <1>4. Issue!CreateCoupon(s) => IP!CreateCoupon(s)
    BY DEF Issue!CreateCoupon, IP!CreateCoupon, Issue!Outcomes, IP!Outcomes,
           Issue!Returns, IP!Returns, Issue!UseFault, IP!UseFault, Issue!IsNext, IP!IsNext,
           Issue!AfterCreate, IP!AfterCreate, Issue!SkipCode, IP!SkipCode
  <1>5. Issue!MarkCreated(s) => IP!MarkCreated(s)
    BY DEF Issue!MarkCreated, IP!MarkCreated, Issue!Outcomes, IP!Outcomes,
           Issue!Returns, IP!Returns, Issue!UseFault, IP!UseFault, Issue!IsNext, IP!IsNext,
           Issue!AfterMark, IP!AfterMark, Issue!SkipCode, IP!SkipCode
  <1>6. Issue!MarkNonWinners(s) => IP!MarkNonWinners(s)
    BY DEF Issue!MarkNonWinners, IP!MarkNonWinners, Issue!Outcomes, IP!Outcomes,
           Issue!Returns, IP!Returns, Issue!UseFault, IP!UseFault,
           Issue!AfterNonWinners, IP!AfterNonWinners, Issue!EndBatch, IP!EndBatch
  <1>7. Issue!MarkEachNonWinner(s) => IP!MarkEachNonWinner(s)
    BY DEF Issue!MarkEachNonWinner, IP!MarkEachNonWinner, Issue!Outcomes, IP!Outcomes,
           Issue!Returns, IP!Returns, Issue!UseFault, IP!UseFault, Issue!IsNext, IP!IsNext,
           Issue!AfterNonWinner, IP!AfterNonWinner, Issue!EndBatch, IP!EndBatch
  <1>8. Issue!Crash(s) => IP!Crash(s)
    BY DEF Issue!Crash, IP!Crash, Issue!UseFault, IP!UseFault, Issue!NoJob, IP!NoJob,
           Issue!database, IP!database
  <1> QED
    BY <1>1, <1>2, <1>3, <1>4, <1>5, <1>6, <1>7, <1>8

\* The steps of the handlers.
LEMMA HandlerSteps ==
    ASSUME NEW q \in Requests
    PROVE  /\ Grab!Lookup(q) => GP!Lookup(q)
           /\ Grab!Send(q) => GP!Send(q)
           /\ Grab!AddBloom(q) => GP!AddBloom(q)
           /\ \A s \in Servers, u \in Users : Grab!TestBloom(q, s, u) => GP!TestBloom(q, s, u)
  <1>1. Grab!Lookup(q) => GP!Lookup(q)
    BY DEF Grab!Lookup, GP!Lookup, Grab!Returns, GP!Returns, Grab!UseFault, GP!UseFault,
           Grab!MayGrab, GP!MayGrab, Grab!NoRequest, GP!NoRequest, Grab!rows, GP!rows,
           Grab!history, GP!history, Grab!pool, GP!pool, Grab!world, GP!world
  <1>2. Grab!Send(q) => GP!Send(q)
    BY DEF Grab!Send, GP!Send, Grab!Room, GP!Room, Grab!NoRequest, GP!NoRequest,
           Grab!Cardinality, GP!Cardinality, Grab!rows, GP!rows,
           Grab!history, GP!history, Grab!pool, GP!pool, Grab!world, GP!world
  <1>3. Grab!AddBloom(q) => GP!AddBloom(q)
    BY DEF Grab!AddBloom, GP!AddBloom, Grab!FilterAfterSend, GP!FilterAfterSend,
           Grab!Add, GP!Add, Grab!NoRequest, GP!NoRequest, Grab!rows, GP!rows,
           Grab!history, GP!history, Grab!pool, GP!pool, Grab!world, GP!world
  <1>4. ASSUME NEW s \in Servers, NEW u \in Users, Grab!TestBloom(q, s, u)
        PROVE  GP!TestBloom(q, s, u)
    BY <1>4 DEF Grab!TestBloom, GP!TestBloom, Grab!Admitted, GP!Admitted, Grab!Test, GP!Test,
           Grab!rows, GP!rows,
           Grab!history, GP!history, Grab!pool, GP!pool, Grab!world, GP!world
  <1> QED
    BY <1>1, <1>2, <1>3, <1>4

\* The steps of the loop and of its goroutines.
LEMMA RoundSteps ==
    ASSUME NEW s \in Servers
    PROVE  /\ Grab!ListCoupons(s) => GP!ListCoupons(s)
           /\ Grab!Receive(s) => GP!Receive(s)
           /\ Grab!ReceiveTimeout(s) => GP!ReceiveTimeout(s)
           /\ Grab!BatchAssign(s) => GP!BatchAssign(s)
           /\ Grab!EndFallback(s) => GP!EndFallback(s)
           /\ \A c \in Users : Grab!TakeToken(s, c) => GP!TakeToken(s, c)
           /\ \A c \in Users : Grab!UpdateCoupon(s, c) => GP!UpdateCoupon(s, c)
  <1>0. Grab!NoRound = GP!NoRound /\ Grab!Available = GP!Available
    BY DEF Grab!NoRound, GP!NoRound, Grab!NoPairs, GP!NoPairs, Grab!Available, GP!Available
  <1>1. Grab!ListCoupons(s) => GP!ListCoupons(s)
    BY <1>0 DEF Grab!ListCoupons, GP!ListCoupons, Grab!rows, GP!rows,
           Grab!history, GP!history, Grab!pool, GP!pool, Grab!world, GP!world
  <1>2. Grab!Receive(s) => GP!Receive(s)
    BY DEF Grab!Receive, GP!Receive, Grab!Cardinality, GP!Cardinality, Grab!rows, GP!rows,
           Grab!history, GP!history, Grab!pool, GP!pool, Grab!world, GP!world
  <1>3. Grab!ReceiveTimeout(s) => GP!ReceiveTimeout(s)
    BY <1>0 DEF Grab!ReceiveTimeout, GP!ReceiveTimeout, Grab!AfterRound, GP!AfterRound,
           Grab!rows, GP!rows,
           Grab!history, GP!history, Grab!pool, GP!pool, Grab!world, GP!world
  <1>4. Grab!BatchAssign(s) => GP!BatchAssign(s)
    BY <1>0, ZenonT(60) DEF Grab!BatchAssign, GP!BatchAssign, Grab!AfterRound, GP!AfterRound,
           Grab!Pairings, GP!Pairings, Grab!Outcomes, GP!Outcomes, Grab!Returns, GP!Returns,
           Grab!UseFault, GP!UseFault, Grab!Updated, GP!Updated, Grab!Violates, GP!Violates,
           Grab!history, GP!history, Grab!world, GP!world
  <1>5. Grab!EndFallback(s) => GP!EndFallback(s)
    BY <1>0 DEF Grab!EndFallback, GP!EndFallback, Grab!AfterRound, GP!AfterRound,
           Grab!rows, GP!rows,
           Grab!history, GP!history, Grab!pool, GP!pool, Grab!world, GP!world
  <1>6. ASSUME NEW c \in Users, Grab!TakeToken(s, c) PROVE GP!TakeToken(s, c)
    BY <1>6 DEF Grab!TakeToken, GP!TakeToken, Grab!rows, GP!rows, Grab!world, GP!world
  <1>7. ASSUME NEW c \in Users, Grab!UpdateCoupon(s, c) PROVE GP!UpdateCoupon(s, c)
    BY <1>7 DEF Grab!UpdateCoupon, GP!UpdateCoupon, Grab!Outcomes, GP!Outcomes,
           Grab!Returns, GP!Returns, Grab!UseFault, GP!UseFault,
           Grab!TokensAfter, GP!TokensAfter, Grab!world, GP!world
  <1> QED
    BY <1>1, <1>2, <1>3, <1>4, <1>5, <1>6, <1>7

\* What happens to the rows and to the server.
LEMMA OtherSteps ==
    /\ \A u \in Users : Issue!Reserve(u) => IP!Reserve(u)
    /\ \A u \in Users : Grab!Reserve(u) => GP!Reserve(u)
    /\ \A c \in Users : Grab!Expire(c) => GP!Expire(c)
    /\ Grab!ClockTick => GP!ClockTick
    /\ \A s \in Servers : Grab!ResetBloom(s) => GP!ResetBloom(s)
    /\ \A s \in Servers : Grab!Crash(s) => GP!Crash(s)
  <1>1. ASSUME NEW u \in Users, Issue!Reserve(u) PROVE IP!Reserve(u)
    BY <1>1 DEF Issue!Reserve, IP!Reserve
  <1>2. ASSUME NEW u \in Users, Grab!Reserve(u) PROVE GP!Reserve(u)
    BY <1>2 DEF Grab!Reserve, GP!Reserve,
           Grab!history, GP!history, Grab!pool, GP!pool, Grab!world, GP!world
  <1>3. ASSUME NEW c \in Users, Grab!Expire(c) PROVE GP!Expire(c)
    BY <1>3 DEF Grab!Expire, GP!Expire,
           Grab!history, GP!history, Grab!pool, GP!pool, Grab!world, GP!world
  <1>4. Grab!ClockTick => GP!ClockTick
    BY DEF Grab!ClockTick, GP!ClockTick, Grab!NextPhase, GP!NextPhase, Grab!rows, GP!rows,
           Grab!history, GP!history, Grab!pool, GP!pool
  <1>5. ASSUME NEW s \in Servers, Grab!ResetBloom(s) PROVE GP!ResetBloom(s)
    BY <1>5 DEF Grab!ResetBloom, GP!ResetBloom, Grab!Admitted, GP!Admitted,
           Grab!Cleared, GP!Cleared, Grab!NothingAccepted, GP!NothingAccepted,
           Grab!rows, GP!rows, Grab!pool, GP!pool, Grab!world, GP!world
  <1>6. ASSUME NEW s \in Servers, Grab!Crash(s) PROVE GP!Crash(s)
    BY <1>6 DEF Grab!Crash, GP!Crash, Grab!UseFault, GP!UseFault, Grab!NoRequest, GP!NoRequest,
           Grab!Cleared, GP!Cleared, Grab!NothingAccepted, GP!NothingAccepted,
           Grab!NoRound, GP!NoRound, Grab!NoPairs, GP!NoPairs, Grab!QueuedAt, GP!QueuedAt,
           Grab!InRoundOf, GP!InRoundOf, Grab!rows, GP!rows
  <1> QED
    BY <1>1, <1>2, <1>3, <1>4, <1>5, <1>6
-----------------------------------------------------------------------------
(* What holds of either part holds of both together.                       *)

IssueIdle == UNCHANGED <<reserved, issueVars>>
GrabIdle == UNCHANGED <<reserved, grabVars>>

\* A step of the grab leaves what the listener keeps alone.
LEMMA GrabSteps ==
    ASSUME GrabStep
    PROVE  IssueIdle /\ GP!Next
  <1>1. CASE Grab!ClockTick
    <2>1. GP!ClockTick
      BY <1>1, OtherSteps
    <2> QED
      BY <2>1 DEF GP!Next, GrabStep, IssueIdle, GP!ClockTick, GP!rows
  <1>2. ASSUME NEW q \in Requests, Grab!Handle(q) PROVE IssueIdle /\ GP!Next
    <2>1. GP!Handle(q)
      BY <1>2, HandlerSteps DEF Grab!Handle, GP!Handle
    <2> QED
      BY <2>1 DEF GP!Next, GrabStep, IssueIdle, GP!Handle, GP!Lookup, GP!Send,
             GP!AddBloom, GP!rows
  <1>3. ASSUME NEW q \in Requests, NEW s \in Servers, NEW u \in Users, Grab!TestBloom(q, s, u)
        PROVE  IssueIdle /\ GP!Next
    <2>1. GP!TestBloom(q, s, u)
      BY <1>3, HandlerSteps
    <2> QED
      BY <2>1 DEF GP!Next, GrabStep, IssueIdle, GP!TestBloom, GP!rows
  <1>4. ASSUME NEW s \in Servers, Grab!ListCoupons(s) \/ Grab!Round(s) \/ Grab!ResetBloom(s)
        PROVE  IssueIdle /\ GP!Next
    <2>1. GP!ListCoupons(s) \/ GP!Round(s) \/ GP!ResetBloom(s)
      BY <1>4, RoundSteps, OtherSteps DEF Grab!Round, GP!Round
    <2> QED
      BY <2>1 DEF GP!Next, GrabStep, IssueIdle, GP!ListCoupons, GP!Round, GP!ResetBloom,
             GP!Receive, GP!ReceiveTimeout, GP!BatchAssign, GP!EndFallback, GP!rows
  <1>5. ASSUME NEW s \in Servers, NEW c \in Users, Grab!Work(s, c)
        PROVE  IssueIdle /\ GP!Next
    <2>1. GP!Work(s, c)
      BY <1>5, RoundSteps DEF Grab!Work, GP!Work
    <2> QED
      BY <2>1 DEF GP!Next, GrabStep, IssueIdle, GP!Work, GP!TakeToken, GP!UpdateCoupon,
             GP!rows
  <1> QED
    BY <1>1, <1>2, <1>3, <1>4, <1>5 DEF GrabStep

\* A step is one of the listener, of the grab, or of both.
LEMMA Sides ==
    ASSUME [Next]_vars
    PROVE  /\ IP!Next \/ IssueIdle
           /\ GP!Next \/ GrabIdle
           /\ IP!Next \/ GP!Next \/ UNCHANGED faultsLeft
  <1>1. ASSUME NEW u \in Users, Reserve(u) PROVE IP!Next /\ GP!Next
    <2>1. IP!Reserve(u) /\ GP!Reserve(u)
      BY <1>1, OtherSteps DEF Reserve
    <2> QED
      BY <2>1 DEF IP!Next, GP!Next
  <1>2. ASSUME NEW s \in Servers, IssueStep(s) PROVE IP!Next /\ GrabIdle
    <2>1. IP!List(s) \/ IP!Step(s)
      BY <1>2, IssueSteps DEF IssueStep, Issue!Step, IP!Step
    <2>2. UNCHANGED reserved
      BY <1>2 DEF IssueStep, Issue!List, Issue!Step, Issue!StartBatch,
             Issue!BatchCreateCouponsWithTx, Issue!CreateCoupon, Issue!MarkCreated,
             Issue!MarkNonWinners, Issue!MarkEachNonWinner, Issue!database
    <2> QED
      BY <1>2, <2>1, <2>2 DEF IP!Next, IssueStep, GrabIdle
  <1>3. ASSUME NEW c \in Users, Expire(c) PROVE IssueIdle /\ GP!Next
    <2>1. GP!Expire(c)
      BY <1>3, OtherSteps DEF Expire
    <2> QED
      BY <1>3, <2>1 DEF GP!Next, Expire, IssueIdle, GP!Expire
  <1>4. CASE GrabStep
    BY <1>4, GrabSteps
  <1>5. ASSUME NEW s \in Servers, Crash(s) PROVE IP!Next /\ GP!Next
    <2>1. IP!Crash(s) /\ GP!Crash(s)
      BY <1>5, IssueSteps, OtherSteps DEF Crash
    <2> QED
      BY <2>1 DEF IP!Next, GP!Next
  <1>6. CASE UNCHANGED vars
    BY <1>6 DEF vars, IssueIdle, GrabIdle
  <1> QED
    BY <1>1, <1>2, <1>3, <1>4, <1>5, <1>6 DEF Next
\* Coupons were minted for these reservations.
Issued == {c[1] : c \in coupons}

LEMMA StatusOfIssued == \A c \in Users : Status[c] # "unissued" <=> c \in Issued
  BY DEF Status, Issued

\* What the listener and the grab keep, whoever takes the step.
PartsInv ==
    /\ IP!TypeOK /\ IP!RowsReserved
    /\ GP!TypeOK /\ GP!FlowInv /\ GP!StockInv

LEMMA PartsInit == Init => PartsInv
  <1> SUFFICES ASSUME Init PROVE PartsInv
    OBVIOUS
  <1>1. IP!Init
    BY DEF Init, IP!Init, Grab!Init, Window, Issue!NoJob, IP!NoJob
  <1>2. GP!Init
    BY DEF Init, Grab!Init, GP!Init, Grab!NoRequest, GP!NoRequest, Grab!NothingAccepted,
           GP!NothingAccepted, Grab!NoRound, GP!NoRound, Grab!NoPairs, GP!NoPairs,
           Grab!Cleared, GP!Cleared
  <1>3. IP!TypeOK /\ IP!RowsReserved
    BY <1>1, IssueAssumptions, IP!TypeInit, IP!RowsReservedInit
  <1>4. GP!TypeOK /\ GP!FlowInv
    BY <1>2, GrabAssumptions, GP!FlowInit
  <1>5. GP!StockInv
    BY <1>2, GrabAssumptions, GP!StockInit
  <1> QED
    BY <1>3, <1>4, <1>5 DEF PartsInv

\* The rows of coupons are only added to, and belong to reservations.
LEMMA CouponsStep ==
    ASSUME PartsInv, [Next]_vars
    PROVE  coupons \subseteq coupons' /\ Issued \subseteq Issued' /\ Issued' \subseteq reserved'
  <1>1. CASE IP!Next
    <2>1. coupons \subseteq coupons' /\ IP!RowsReserved'
      BY <1>1, IssueAssumptions, IP!RowsReservedStep DEF PartsInv
    <2> QED
      BY <2>1 DEF Issued, IP!RowsReserved
  <1>2. CASE IssueIdle
    BY <1>2 DEF IssueIdle, issueVars, Issued, PartsInv, IP!RowsReserved
  <1> QED
    BY <1>1, <1>2, Sides

LEMMA PartsStep == PartsInv /\ [Next]_vars => PartsInv'
  <1> SUFFICES ASSUME PartsInv, [Next]_vars PROVE PartsInv'
    OBVIOUS
  <1>1. ASSUME IP!Next PROVE IP!TypeOK' /\ IP!RowsReserved'
    BY <1>1, IssueAssumptions, IP!TypeStep, IP!RowsReservedStep DEF PartsInv
  <1>2. ASSUME GP!Next PROVE GP!TypeOK' /\ GP!FlowInv' /\ GP!StockInv'
    BY <1>2, GrabAssumptions, GP!FlowStep, GP!StockStep DEF PartsInv
  <1>3. faultsLeft' \in Nat
    BY <1>1, <1>2, Sides DEF IP!TypeOK, GP!TypeOK, PartsInv
  <1>4. ASSUME IssueIdle PROVE IP!TypeOK' /\ IP!RowsReserved'
    BY <1>3, <1>4 DEF PartsInv, IssueIdle, issueVars, IP!TypeOK, IP!RowsReserved, Window
  <1>5. ASSUME GrabIdle PROVE GP!TypeOK' /\ GP!FlowInv' /\ GP!StockInv'
    <2>1. GP!TypeOK'
      BY <1>3, <1>5 DEF PartsInv, GrabIdle, grabVars, GP!TypeOK, Status
    <2>2. GP!FlowInv'
      BY <1>5 DEF PartsInv, GrabIdle, grabVars, GP!FlowInv, GP!Known
    <2>3. \A c \in Users : Status[c] # "unissued" => Status'[c] # "unissued"
      BY CouponsStep DEF Status
    <2>4. GP!StockInv'
      BY <1>5, <2>3 DEF PartsInv, GrabIdle, grabVars, GP!StockInv, GP!RoundIssued
    <2> QED
      BY <2>1, <2>2, <2>4
  <1> QED
    BY <1>1, <1>2, <1>4, <1>5, Sides DEF PartsInv

\* The service runs as one process.
OneServer == \E s : Servers = {s}

\* And what they keep as long as only one process runs them.
SaleInv == PartsInv /\ GP!FreeInv /\ IP!ShareInv

LEMMA SaleInit == Init => SaleInv
  <1> SUFFICES ASSUME Init PROVE SaleInv
    OBVIOUS
  <1>1. IP!Init
    BY DEF Init, IP!Init, Grab!Init, Window, Issue!NoJob, IP!NoJob
  <1>2. \A s \in Servers : grabber[s] = GP!NoRound
    BY DEF Init, Grab!Init, Grab!NoRound, GP!NoRound, Grab!NoPairs, GP!NoPairs
  <1>3. IP!ShareInv
    BY <1>1, IssueAssumptions, IP!ShareInit
  <1>4. GP!FreeInv
    BY <1>2, GrabAssumptions, GP!FreeNoRound DEF GP!FreeInv
  <1> QED
    BY <1>3, <1>4, PartsInit DEF SaleInv

LEMMA SaleStep ==
    ASSUME OneServer
    PROVE  SaleInv /\ [Next]_vars => SaleInv'
  <1> SUFFICES ASSUME SaleInv, [Next]_vars PROVE SaleInv'
    OBVIOUS
  <1>1. PartsInv /\ PartsInv' /\ GP!FreeInv /\ IP!ShareInv
    BY PartsStep DEF SaleInv
  <1>2. IP!OneInstance /\ GP!OneServer
    BY DEF OneServer, IP!OneInstance, GP!OneServer
  <1>3. IP!ShareInv'
    <2>1. CASE IP!Next
      BY <1>1, <1>2, <2>1, IssueAssumptions, IP!ShareStep DEF PartsInv
    <2>2. CASE IssueIdle /\ ~ IP!Next
      <3>1. faultsLeft' <= faultsLeft /\ {faultsLeft, faultsLeft', MaxFaults} \subseteq Nat
        <4>1. CASE GP!Next
          BY <1>1, <4>1, FaultsAssumption, GrabAssumptions, GP!FaultsFall
             DEF PartsInv, GP!TypeOK
        <4>2. CASE UNCHANGED faultsLeft
          BY <1>1, <4>2, FaultsAssumption DEF PartsInv, GP!TypeOK
        <4> QED
          BY <2>2, <4>1, <4>2, Sides
      <3>2. faultsLeft' <= MaxFaults /\ (faultsLeft' = MaxFaults => faultsLeft = MaxFaults)
        BY <1>1, <3>1 DEF IP!ShareInv
      <3> QED
        BY <1>1, <2>2, <3>2 DEF IssueIdle, issueVars, IP!ShareInv, IP!OnCourse, IP!Share, IP!Open
    <2> QED
      BY <2>1, <2>2, Sides
  <1>4. GP!FreeInv'
    <2>1. CASE GP!Next
      BY <1>1, <1>2, <2>1, GrabAssumptions, GP!FreeStep DEF PartsInv
    <2>2. CASE GrabIdle
      BY <1>1, <2>2 DEF GrabIdle, grabVars, GP!FreeInv, GP!RoundFree
    <2> QED
      BY <2>1, <2>2, Sides
  <1> QED
    BY <1>1, <1>3, <1>4 DEF SaleInv

LEMMA SaleCorrect ==
    ASSUME OneServer
    PROVE  Spec => []SaleInv
  <1>1. SaleInv /\ [Next]_vars => SaleInv'
    BY SaleStep
  <1> QED
    BY <1>1, SaleInit, PTL DEF Spec

-----------------------------------------------------------------------------
(* The theorems.                                                           *)

\* While nothing fails, one process sells at most one coupon for each
\* WinnerRatio reservations, for any number of users and handlers, and however
\* cycles, rounds and days overlap (SoldWithinShare).
THEOREM SoldIsWithinShare ==
    ASSUME OneServer
    PROVE  Spec => []SoldWithinShare
  <1>1. SaleInv => SoldWithinShare
    <2> SUFFICES ASSUME SaleInv, faultsLeft = MaxFaults
                 PROVE  Cardinality(Sold) * WinnerRatio <= Cardinality(reserved)
      BY DEF SoldWithinShare
    <2>1. Cardinality(coupons) * WinnerRatio <= Cardinality(reserved) /\ IsFiniteSet(coupons)
      <3>1. IP!TotalQuotaWithoutFaults /\ IP!IsFiniteSet(coupons)
        BY IssueAssumptions, IP!ShareMeansQuota
           DEF SaleInv, PartsInv, OneServer, IP!OneInstance, IP!ShareInv
      <3> QED
        BY <3>1 DEF IP!TotalQuotaWithoutFaults, IP!Cardinality, Cardinality,
           IP!IsFiniteSet, IsFiniteSet
    <2>2. Sold \subseteq Issued
      BY StatusOfIssued DEF SaleInv, PartsInv, GP!StockInv, Sold
    <2>3. IsFiniteSet(Issued) /\ Cardinality(Issued) <= Cardinality(coupons)
      <3> DEFINE f == [c \in coupons |-> c[1]]
      <3>1. f \in Surjection(coupons, Issued)
        BY DEF Surjection, Issued
      <3> QED
        BY <2>1, <3>1, FS_Surjection
    <2>4. /\ Cardinality(Sold) <= Cardinality(coupons)
          /\ Cardinality(Sold) \in Nat /\ Cardinality(coupons) \in Nat
      BY <2>1, <2>2, <2>3, FS_Subset, FS_CardinalityType
    <2>5. reserved \subseteq Users /\ Cardinality(reserved) \in Nat
      BY UsersAssumption, FS_Subset, FS_CardinalityType DEF SaleInv, PartsInv, GP!TypeOK
    <2>6. WinnerRatio \in Nat
      BY SizesAssumption
    <2>7. /\ Cardinality(Sold) * WinnerRatio <= Cardinality(coupons) * WinnerRatio
          /\ Cardinality(Sold) * WinnerRatio \in Nat /\ Cardinality(coupons) * WinnerRatio \in Nat
      BY <2>4, <2>6
    <2> QED
      BY <2>1, <2>5, <2>7
  <1> QED
    BY <1>1, SaleCorrect, PTL

\* What a step is to the sale: a reservation, coupons issued, coupons sold, or
\* nothing.
LEMMA PromiseStep ==
    ASSUME OneServer, SaleInv, [Next]_vars
    PROVE  [Promise!Next]_<<reserved, Issued, owner>>
  <1>0. PartsInv /\ GP!FreeInv
    BY DEF SaleInv
  <1>1. ASSUME NEW u \in Users, Reserve(u) PROVE Promise!Next
    <2>1. Promise!Reserve(u)
      BY <1>1 DEF Reserve, Issue!Reserve, grabVars, Promise!Reserve
    <2> QED
      BY <2>1 DEF Promise!Next
  <1>2. ASSUME NEW s \in Servers, IssueStep(s) PROVE Promise!Next
    <2>1. owner' = owner /\ reserved' = reserved
      BY <1>2 DEF IssueStep, grabVars, Issue!List, Issue!Step, Issue!StartBatch,
             Issue!BatchCreateCouponsWithTx, Issue!CreateCoupon, Issue!MarkCreated,
             Issue!MarkNonWinners, Issue!MarkEachNonWinner, Issue!database
    <2>2. Issued \subseteq Issued' /\ Issued' \subseteq reserved
      BY <1>0, <2>1, CouponsStep
    <2>3. reserved \subseteq Users
      BY <1>0 DEF PartsInv, GP!TypeOK
    <2>4. PICK S \in SUBSET Users : S = Issued' \ Issued
      BY <2>2, <2>3
    <2>5. Promise!Issue(S)
      BY <2>1, <2>2, <2>4 DEF Promise!Issue, Issued
    <2> QED
      BY <2>5 DEF Promise!Next
  <1>3. ASSUME NEW c \in Users, Expire(c) PROVE UNCHANGED <<reserved, Issued, owner>>
    BY <1>3 DEF Expire, issueVars, Grab!Expire, Issued
  <1>4. CASE GrabStep
    <2>1. IssueIdle /\ GP!Next
      BY <1>4, GrabSteps
    <2>2. Issued' = Issued /\ reserved' = reserved
      BY <2>1 DEF IssueIdle, issueVars, Issued
    <2>3. \E S \in SUBSET Users : \E to \in [S -> reserved] : GP!SoldTo(S, to)
      <3>1. GP!OneServer
        BY DEF OneServer, GP!OneServer
      <3> QED
        BY <1>0, <2>1, <3>1, GrabAssumptions, GP!SellStep DEF PartsInv
    <2>4. PICK S \in SUBSET Users : \E to \in [S -> reserved] : GP!SoldTo(S, to)
      BY <2>3, Zenon
    <2>5. PICK to \in [S -> reserved] : GP!SoldTo(S, to)
      BY <2>4, Zenon
    <2>6. /\ \A c \in S : owner[c] = NoUser
          /\ \A c, d \in S : to[c] = to[d] => c = d
          /\ \A c \in S, d \in Users : owner[d] # to[c]
          /\ owner' = [c \in Users |-> IF c \in S THEN to[c] ELSE owner[c]]
      BY <2>5 DEF GP!SoldTo
    <2>7. \A c \in S : c \in Issued
      <3> SUFFICES ASSUME NEW c \in S PROVE c \in Issued'
        BY <2>2
      <3>1. c \in Users /\ to[c] \in Users /\ owner'[c] = to[c]
        BY <1>0, <2>6 DEF PartsInv, GP!TypeOK
      <3>2. GP!StockInv'
        BY <1>0, PartsStep DEF PartsInv
      <3>3. Status'[c] # "unissued"
        BY <3>1, <3>2, UsersAssumption DEF GP!StockInv
      <3> QED
        BY <3>1, <3>3 DEF Status, Issued
    <2>8. to \in [S -> reserved \ Promise!Buyers]
      BY <2>5, <2>6 DEF Promise!Buyers
    <2>9. Promise!Sell(S)
      BY <2>2, <2>6, <2>7, <2>8, Zenon DEF Promise!Sell, Issued
    <2> QED
      BY <2>4, <2>9 DEF Promise!Next
  <1>5. ASSUME NEW s \in Servers, Crash(s) PROVE UNCHANGED <<reserved, Issued, owner>>
    BY <1>5 DEF Crash, Issue!Crash, Issue!database, Grab!Crash, Grab!rows, Issued
  <1>6. CASE UNCHANGED vars
    BY <1>6 DEF vars, issueVars, grabVars, Issued
  <1> QED
    BY <1>1, <1>2, <1>3, <1>4, <1>5, <1>6 DEF Next

\* One process implements the sale, for any number of users, handlers, failing
\* statements and crashes: what it sells was issued, to users who reserved and
\* own nothing else, and for good (ImplementsSale).
THEOREM SaleIsImplemented ==
    ASSUME OneServer
    PROVE  Spec => ImplementsSale
  <1>1. Init => Promise!Init
    BY DEF Init, Grab!Init, Promise!Init
  <1>2. SaleInv /\ [Next]_vars => [Promise!Next]_<<reserved, {c[1] : c \in coupons}, owner>>
    BY PromiseStep DEF Issued
  <1>3. Spec => []SaleInv
    BY SaleCorrect
  <1> QED
    BY <1>1, <1>2, <1>3, PTL DEF Spec, ImplementsSale, Promise!Spec

=============================================================================
