----------------------- MODULE ReserveAdmissionProofs -----------------------
(***************************************************************************)
(* What holds of ReserveAdmission for any number of users, handlers, days  *)
(* and faults.                                                             *)
(***************************************************************************)
EXTENDS ReserveAdmission, TLAPS

\* An idle handler is in a local state.
LEMMA NoRequestType == NoRequest \in Handlers
  <1>1. (CHOOSE u \in Users : TRUE) \in Users
    BY UsersAssumption
  <1> QED
    BY <1>1 DEF NoRequest, Handlers

\* The budget of faults never becomes negative.
LEMMA FaultType ==
    ASSUME faultsLeft \in Nat,
           UseFault \/ \E call, out : Returns(call, out)
    PROVE  faultsLeft' \in Nat
  BY DEF UseFault, Returns

LEMMA TypeStep == TypeOK /\ [Next]_vars => TypeOK'
  <1> SUFFICES ASSUME TypeOK, [Next]_vars PROVE TypeOK'
    OBVIOUS
  <1> USE DEF TypeOK
  <1>1. ASSUME NEW q \in Requests, NEW u \in Users, TestBloom(q, u) PROVE TypeOK'
    <2>1. [pc |-> "insert", user |-> u] \in Handlers
      BY DEF Handlers
    <2>2. <<u, day>> \in Users \X (1..MaxDay)
      OBVIOUS
    <2> QED
      BY <1>1, <2>1, <2>2 DEF TestBloom
  <1>2. ASSUME NEW q \in Requests, Insert(q) PROVE TypeOK'
    <2>1. req[q] \in Handlers /\ req[q].user \in Users /\ day \in 0..MaxDay
      BY BoundsAssumption DEF Handlers
    <2>2. \A out, dup : [req[q] EXCEPT !.pc = AfterInsert(out, dup)] \in Handlers
      BY <2>1 DEF AfterInsert, Handlers
    <2>3. reservedOn' \in [Users -> 0..MaxDay]
      BY <1>2, <2>1 DEF Insert
    <2>4. req' \in [Requests -> Handlers]
      BY <1>2, <2>2 DEF Insert
    <2>5. faultsLeft' \in Nat
      BY <1>2, FaultType DEF Insert
    <2> QED
      BY <1>2, <2>3, <2>4, <2>5 DEF Insert
  <1>3. ASSUME NEW q \in Requests, AddBloom(q) PROVE TypeOK'
    <2>1. req[q].user \in Users
      BY DEF Handlers
    <2>2. Add(bloom, req[q].user) \subseteq Bits
      BY <2>1, HashAssumption DEF Add
    <2>3. req' \in [Requests -> Handlers]
      BY <1>3, NoRequestType DEF AddBloom
    <2>4. granted' \in [Users -> 0..2]
      BY <1>3, <2>1 DEF AddBloom
    <2>5. refused' \subseteq Users \X (1..MaxDay)
      BY <1>3, <2>1 DEF AddBloom
    <2> QED
      BY <1>3, <2>2, <2>3, <2>4, <2>5 DEF AddBloom
  <1>4. CASE NextDay
    BY <1>4, BoundsAssumption DEF NextDay, Cleared
  <1>5. CASE ResetBloom
    BY <1>5 DEF ResetBloom, Cleared
  <1>6. CASE Crash
    BY <1>6, NoRequestType, FaultType DEF Crash, Cleared
  <1>7. CASE UNCHANGED vars
    BY <1>7 DEF vars
  <1>8. ASSUME NEW u \in Users, CreateUser(u) PROVE TypeOK'
    BY <1>8 DEF CreateUser
  <1> QED
    BY <1>1, <1>2, <1>3, <1>4, <1>5, <1>6, <1>7, <1>8 DEF Next, Handle

\* The variables keep their types.
THEOREM TypeCorrect == Spec => []TypeOK
  <1>1. Init => TypeOK
    BY BoundsAssumption, NoRequestType DEF Init, TypeOK, Cleared
  <1> QED
    BY <1>1, TypeStep, PTL DEF Spec

-----------------------------------------------------------------------------
(* At most one reservation is made for a user.                             *)

Creating(q, u) == req[q].pc = "created" /\ req[q].user = u

\* Between the insert and the answer, one handler at most is about to grant a
\* user the reservation, and none once it was granted.
OnceInv ==
    /\ ReservedOnce
    /\ \A q \in Requests, u \in Users : Creating(q, u) => HasRow(u) /\ granted[u] = 0
    /\ \A q, p \in Requests, u \in Users : Creating(q, u) /\ Creating(p, u) => q = p

LEMMA OnceStep == TypeOK /\ OnceInv /\ [Next]_vars => OnceInv'
  <1> SUFFICES ASSUME TypeOK, OnceInv, [Next]_vars PROVE OnceInv'
    OBVIOUS
  <1>0. req \in [Requests -> Handlers]
    BY DEF TypeOK
  <1>1. ASSUME UNCHANGED <<reservedOn, granted>>,
               \A q \in Requests, u \in Users : Creating(q, u)' => Creating(q, u)
        PROVE  OnceInv'
    BY <1>1 DEF OnceInv, ReservedOnce, HasRow
  <1>2. ASSUME NEW q \in Requests, NEW u \in Users, TestBloom(q, u) PROVE OnceInv'
    BY <1>0, <1>1, <1>2 DEF TestBloom, Creating
  <1>3. ASSUME NEW q \in Requests, Insert(q) PROVE OnceInv'
    <2> DEFINE u == req[q].user
    <2>1. u \in Users /\ day # 0
      BY <1>0 DEF Handlers, TypeOK
    <2>2. PICK out \in Outcomes :
             /\ reservedOn' = IF out = "fail" \/ Duplicate(u) THEN reservedOn
                                                 ELSE [reservedOn EXCEPT ![u] = day]
             /\ req' = [req EXCEPT ![q].pc = AfterInsert(out, Duplicate(u))]
             /\ UNCHANGED granted
      BY <1>3 DEF Insert
    <2>3. \A v \in Users : HasRow(v) => HasRow(v)'
      BY <2>1, <2>2 DEF HasRow, Duplicate, TypeOK
    <2>4. \A p \in Requests, v \in Users : p # q => (Creating(p, v)' <=> Creating(p, v))
      BY <1>0, <2>2 DEF Creating
    <2>5. CASE out = "ok" /\ ~ HasRow(u)
      <3>1. HasRow(u)'
        BY <2>1, <2>2, <2>5 DEF HasRow, Duplicate, TypeOK
      <3>2. \A v \in Users : Creating(q, v)' => v = u
        BY <1>0, <2>2 DEF Creating
      <3>3. \A p \in Requests : ~ Creating(p, u)
        BY <2>1, <2>5 DEF OnceInv
      <3>4. granted[u] = 0
        BY <2>1, <2>5 DEF OnceInv, ReservedOnce, TypeOK
      <3> QED
        BY <2>1, <2>2, <2>3, <2>4, <3>1, <3>2, <3>3, <3>4 DEF OnceInv, ReservedOnce
    <2>6. CASE ~ (out = "ok" /\ ~ HasRow(u))
      <3>1. \A v \in Users : ~ Creating(q, v)'
        BY <1>0, <2>2, <2>6 DEF Creating, AfterInsert, Duplicate
      <3> QED
        BY <2>2, <2>3, <2>4, <3>1 DEF OnceInv, ReservedOnce
    <2> QED
      BY <2>5, <2>6
  <1>4. ASSUME NEW q \in Requests, AddBloom(q) PROVE OnceInv'
    <2> DEFINE u == req[q].user
    <2>1. u \in Users
      BY <1>0 DEF Handlers
    <2>2. /\ \A v \in Users : ~ Creating(q, v)'
          /\ \A p \in Requests, v \in Users : p # q => (Creating(p, v)' <=> Creating(p, v))
      BY <1>0, <1>4 DEF AddBloom, Creating, NoRequest
    <2>3. CASE req[q].pc = "created"
      <3>1. HasRow(u) /\ granted[u] = 0 /\ \A p \in Requests : Creating(p, u) => p = q
        BY <2>1, <2>3 DEF OnceInv, Creating
      <3>2. granted' = [granted EXCEPT ![u] = 1] /\ UNCHANGED reservedOn
        BY <1>4, <2>1, <2>3, <3>1 DEF AddBloom, TypeOK
      <3>3. ReservedOnce'
        BY <2>1, <3>1, <3>2 DEF OnceInv, ReservedOnce, HasRow, TypeOK
      <3>4. \A p \in Requests, v \in Users :
               Creating(p, v)' => HasRow(v)' /\ granted'[v] = 0
        BY <2>1, <2>2, <3>1, <3>2 DEF OnceInv, HasRow, TypeOK
      <3> QED
        BY <2>2, <3>3, <3>4 DEF OnceInv
    <2>4. CASE req[q].pc # "created"
      <3>1. UNCHANGED <<reservedOn, granted>>
        BY <1>4, <2>4 DEF AddBloom
      <3> QED
        BY <1>1, <2>2, <3>1
    <2> QED
      BY <2>3, <2>4
  <1>5. CASE NextDay
    BY <1>1, <1>5 DEF NextDay, Creating
  <1>6. CASE ResetBloom
    BY <1>1, <1>6 DEF ResetBloom, Creating
  <1>7. CASE Crash
    BY <1>1, <1>7 DEF Crash, Creating, NoRequest
  <1>8. CASE UNCHANGED vars
    BY <1>1, <1>8 DEF vars, Creating
  <1>9. ASSUME NEW u \in Users, CreateUser(u) PROVE OnceInv'
    BY <1>1, <1>9 DEF CreateUser, Creating
  <1> QED
    BY <1>2, <1>3, <1>4, <1>5, <1>6, <1>7, <1>8, <1>9 DEF Next, Handle

\* A user is granted a reservation at most once, and then has a row, however
\* requests race, replies are lost and the filter is cleared.
THEOREM OneReservation == Spec => []ReservedOnce
  <1>1. Init => OnceInv
    BY DEF Init, OnceInv, ReservedOnce, Creating, NoRequest
  <1>2. OnceInv => ReservedOnce
    BY DEF OnceInv
  <1> QED
    BY <1>1, <1>2, TypeCorrect, OnceStep, PTL DEF Spec

-----------------------------------------------------------------------------
(* Nobody is refused for a reservation that failed.                        *)

\* The filter holds no bit but those of users with a row, and a handler about
\* to add a user has seen the row.
FilterInv ==
    /\ RefusedByRows
    /\ bloom \subseteq RowHashes
    /\ \A q \in Requests : req[q].pc \in {"created", "duplicate"} => HasRow(req[q].user)

\* Rows stay, so what the filter may hold only grows.
LEMMA RowHashesGrow ==
    ASSUME \A v \in Users : HasRow(v) => HasRow(v)'
    PROVE  RowHashes \subseteq RowHashes'
  BY DEF RowHashes

LEMMA FilterStep ==
    ASSUME TypeOK, FilterInv, [Next]_vars
    PROVE  FilterInv'
  <1>0. req \in [Requests -> Handlers]
    BY DEF TypeOK
  <1>1. ASSUME UNCHANGED <<reservedOn, refused>>, bloom' \subseteq bloom,
               \A q \in Requests : req'[q] = req[q] \/ req'[q].pc \in {"idle", "insert"}
        PROVE  FilterInv'
    <2>1. RowHashes' = RowHashes
      BY <1>1 DEF RowHashes, HasRow
    <2> QED
      BY <1>1, <2>1 DEF FilterInv, RefusedByRows, HasRow
  <1>2. ASSUME NEW q \in Requests, NEW u \in Users, TestBloom(q, u) PROVE FilterInv'
    <2>1. CASE Test(bloom, u)
      <3>1. Hash[u] \subseteq RowHashes
        BY <2>1 DEF Test, FilterInv
      <3>2. refused' = refused \cup {<<u, day>>} /\ UNCHANGED <<reservedOn, bloom, req>>
        BY <1>2, <2>1 DEF TestBloom
      <3>3. RowHashes' = RowHashes
        BY <3>2 DEF RowHashes, HasRow
      <3> QED
        BY <3>1, <3>2, <3>3 DEF FilterInv, RefusedByRows, HasRow
    <2>2. CASE ~ Test(bloom, u)
      BY <1>0, <1>1, <1>2, <2>2 DEF TestBloom
    <2> QED
      BY <2>1, <2>2
  <1>3. ASSUME NEW q \in Requests, Insert(q) PROVE FilterInv'
    <2> DEFINE u == req[q].user
    <2>1. u \in Users /\ day # 0
      BY <1>0 DEF Handlers, TypeOK
    <2>2. PICK out \in Outcomes :
             /\ reservedOn' = IF out = "fail" \/ Duplicate(u) THEN reservedOn
                                                 ELSE [reservedOn EXCEPT ![u] = day]
             /\ req' = [req EXCEPT ![q].pc = AfterInsert(out, Duplicate(u))]
             /\ UNCHANGED <<bloom, refused>>
      BY <1>3 DEF Insert
    <2>3. \A v \in Users : HasRow(v) => HasRow(v)'
      BY <2>1, <2>2 DEF HasRow, Duplicate, TypeOK
    <2>4. (req[q].pc \in {"created", "duplicate"} => HasRow(req[q].user))'
      BY <1>0, <2>1, <2>2 DEF AfterInsert, HasRow, Duplicate, TypeOK, Handlers
    <2>5. \A p \in Requests : p # q => req'[p] = req[p] /\ req[p].user \in Users
      BY <1>0, <2>2 DEF Handlers
    <2>6. \A p \in Requests : (req[p].pc \in {"created", "duplicate"} => HasRow(req[p].user))'
      BY <2>3, <2>4, <2>5 DEF FilterInv, HasRow
    <2>7. bloom' \subseteq RowHashes'
      BY <2>2, <2>3, RowHashesGrow DEF FilterInv
    <2>8. RefusedByRows'
      BY <2>2, <2>3, RowHashesGrow DEF FilterInv, RefusedByRows, TypeOK
    <2> QED
      BY <2>6, <2>7, <2>8 DEF FilterInv
  <1>4. ASSUME NEW q \in Requests, AddBloom(q) PROVE FilterInv'
    <2> DEFINE u == req[q].user
    <2>1. u \in Users /\ HasRow(u)
      BY <1>0, <1>4 DEF Handlers, FilterInv, AddBloom
    <2>2. /\ bloom' = bloom \cup Hash[u]
          /\ refused' \subseteq refused \cup {<<u, day>>}
          /\ req' = [req EXCEPT ![q] = NoRequest]
          /\ UNCHANGED reservedOn
      BY <1>4 DEF AddBloom, Add
    <2>3. RowHashes' = RowHashes /\ Hash[u] \subseteq RowHashes
      BY <2>1, <2>2 DEF RowHashes, HasRow
    <2>4. RefusedByRows'
      BY <2>1, <2>2, <2>3 DEF FilterInv, RefusedByRows, HasRow
    <2>5. \A p \in Requests : req'[p] = req[p] \/ req'[p].pc = "idle"
      BY <1>0, <2>2 DEF NoRequest
    <2> QED
      BY <2>2, <2>3, <2>4, <2>5 DEF FilterInv, HasRow
  <1>5. CASE NextDay
    BY <1>1, <1>5 DEF NextDay, Cleared
  <1>6. CASE ResetBloom
    BY <1>1, <1>6 DEF ResetBloom, Cleared
  <1>7. CASE Crash
    BY <1>1, <1>7 DEF Crash, Cleared, NoRequest
  <1>8. CASE UNCHANGED vars
    BY <1>1, <1>8 DEF vars
  <1>9. ASSUME NEW u \in Users, CreateUser(u) PROVE FilterInv'
    BY <1>1, <1>9 DEF CreateUser
  <1> QED
    BY <1>2, <1>3, <1>4, <1>5, <1>6, <1>7, <1>8, <1>9 DEF Next, Handle

\* Whoever is told "user already reserved" has a row or has all bits set by
\* users with one, for every hash: the filter never locks out anybody for an
\* insert that failed.
THEOREM RefusalsAreExplained == Spec => []RefusedByRows
  <1>1. Init => FilterInv
    BY DEF Init, FilterInv, RefusedByRows, NoRequest, Cleared
  <1>2. FilterInv => RefusedByRows
    BY DEF FilterInv
  <1>3. TypeOK /\ FilterInv /\ [Next]_vars => FilterInv'
    BY FilterStep
  <1> QED
    BY <1>1, <1>2, <1>3, TypeCorrect, PTL DEF Spec
=============================================================================
