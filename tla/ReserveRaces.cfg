SPECIFICATION Spec
CONSTANTS
    Users = {u1, u2, u3}
    Bits <- SharedBits
    Hash <- SharedHash
    Requests = {q1, q2}
    Failing = {"insert"}
    Losing = {"insert"}
    Disruptions = {"crash", "reset", "skip"}
    MaxFaults = 2
    MaxDay = 2
INVARIANTS
    TypeOK
    ReservedOnce
    RefusedByRows
SYMMETRY Symmetry
