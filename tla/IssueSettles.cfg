SPECIFICATION FairSpec
CONSTANTS
    Reservations <- MCReservations
    NumReservations = 4
    Instances = {a}
    WinnerRatio = 2
    BatchSize = 2
    MaxPerCycle = 3
    MaxFaults = 2
    Failing = {"list", "code", "tx", "create", "nonwinners"}
    Losing = {"tx", "mark", "nonwinners"}
    CrashPoints = {"batch", "tx", "create", "nonwinners", "eachNonWinner"}
INVARIANTS
    NoDoubleIssue
    TotalQuotaWithoutFaults
    WithheldIsCutOff
PROPERTIES
    EveryReservationSettled
    ImplementsLedger
