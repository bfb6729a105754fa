SPECIFICATION FairSpec
CONSTANTS
    j1 = j1  j2 = j2
    Jobs = {j1, j2}
    Calendar <- SmallCalendar
    Limits <- SmallLimits
    Horizon = 5
    Exprs <- SomeExprs
    MaxTime = 4
    MaxRuns = 1
INVARIANT
    FiringsSound
PROPERTIES
    ArmedKept
    ReminderFires
