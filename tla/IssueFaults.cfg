SPECIFICATION Spec
CONSTANTS
    Reservations <- MCReservations
    NumReservations = 4
    Instances = {a, b}
    WinnerRatio = 2
    BatchSize = 3
    MaxPerCycle = 4
    MaxFaults = 2
    Failing <- AllFailing
    Losing <- AllLosing
    CrashPoints <- AllPoints
INVARIANTS
    TypeOK
    ProcessedHasCause
    HalfDoneByFaults
    CycleQuota
SYMMETRY Symmetry
