SPECIFICATION Spec
CONSTANTS
    Seconds = 2
    Minutes = 2
    Hours = 2
    MonthStart <- MCMonthStart
    YearDays = 5
    MaxInt = 63
    Years = {0, 1, 2}
    StartClock = 30
    MaxClock = 40
INVARIANTS
    TypeOK
    ShownCurrent
    SettingKept
PROPERTIES
    PickedDateSet
