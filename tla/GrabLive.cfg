SPECIFICATION FairSpec
CONSTANTS
    Users = {u1, u2}
    Bits = {u1, u2}
    Hash <- MCHash
    Coupons <- MCCoupons
    NumCoupons = 2
    NoUser = NoUser
    Servers = {s}
    Requests = {q1}
    ChanCap = 2
    NumWorkers = 1
    MaxFaults = 2
    Failing = {"assign", "update"}
    Losing = {"assign"}
    Disruptions = {"signal"}
PROPERTIES
    RoundEnds
    AskedIsServed
