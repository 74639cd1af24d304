SPECIFICATION Spec
CONSTANTS
    Reservations <- MCReservations
    NumReservations = 2
    Instances = {a, b}
    WinnerRatio = 2
    BatchSize = 2
    MaxPerCycle = 3
    MaxFaults = 0
    Failing = {}
    Losing = {}
    CrashPoints = {}
INVARIANT NoDoubleIssue
