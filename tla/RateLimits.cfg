SPECIFICATION Spec
CONSTANTS
    IPs = {x, y}
    Rate = 2
    Window = 2
    MaxTime = 7
INVARIANTS
    TypeOK
    RateBound
    EntriesExpire
PROPERTY ImplementsRunLimit
