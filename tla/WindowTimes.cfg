SPECIFICATION Spec
CONSTANTS
    DayLen = 16
    Zones <- MCZones
    Begin <- MCBegin
    Length <- MCLength
    ResetAt = 14
    Refresh = 2
    Lag = 1
    MaxDay = 4
INVARIANTS
    TypeOK
    PassedInWindow
    OpenWhenDue
    FilterOfTodayOnceSettled
