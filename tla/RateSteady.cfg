SPECIFICATION Spec
CONSTANTS
    IPs = {x}
    Rate = 2
    Window = 2
    MaxTime = 7
INVARIANT RefusedWithinRate
