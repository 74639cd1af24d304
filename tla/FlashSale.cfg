SPECIFICATION Spec
CONSTANTS
    Users <- MCUsers
    NumUsers = 3
    NoUser = 0
    Servers = {s}
    Requests = {q1}
    WinnerRatio = 2
    BatchSize = 2
    MaxPerCycle = 3
    ChanCap = 1
    NumWorkers = 1
    Bits <- MCUsers
    Hash <- MCHash
    IssueFailing = {}
    IssueLosing = {"tx"}
    CrashPoints = {"idle", "batch", "create"}
    GrabFailing = {"assign"}
    GrabLosing = {"assign"}
    Disruptions = {"crash", "reset"}
    MaxFaults = 1
INVARIANT SoldWithinShare
PROPERTY ImplementsSale
