SPECIFICATION Spec
CONSTANTS
    Users = {u1, u2, u3}
    Bits <- OwnBits
    Hash <- OwnHash
    Requests = {q1, q2}
    Failing = {}
    Losing = {}
    Disruptions = {}
    MaxFaults = 0
    MaxDay = 2
INVARIANT RefusedReservedToday
