SPECIFICATION Spec
CONSTANTS
    DayLen = 16
    Zones = {0}
    Begin <- MCBegin
    Length <- MCLength
    ResetAt = 14
    Refresh = 2
    Lag = 0
    MaxDay = 3
INVARIANT FilterOfToday
