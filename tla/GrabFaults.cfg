SPECIFICATION Spec
CONSTANTS
    Users = {u1, u2}
    Bits = {u1, u2}
    Hash <- MCHash
    Coupons <- MCCoupons
    NumCoupons = 2
    NoUser = NoUser
    Servers = {s}
    Requests = {q1, q2}
    ChanCap = 2
    NumWorkers = 1
    MaxFaults = 1
    Failing = {"lookup", "assign", "update"}
    Losing = {"assign", "update"}
    Disruptions = {"crash", "signal", "reset"}
INVARIANTS
    TypeOK
    AcceptedServed
    DuplicatesBounded
    WorkersConserved
    OwnersReserved
PROPERTY OwnerStable
SYMMETRY Symmetry
