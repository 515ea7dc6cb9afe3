SPECIFICATION Spec
CONSTANTS
    Day = 4
    Zones <- MCZones
    FirstInstant = 10
    LastInstant = 24
    MaxLate = 1
    StepsBack = {2}
    MaxSteps = 1
    DaysInWeek = 3
    MonthsInYear = 2
    LastMonth = 7
    MonthStart <- MCMonthStart
    Schedules <- MCSchedules
    Times <- MCTimes
    LatestStart = 13
    Clients = {c1, c2}
    MaxChanges = 1
SYMMETRY Symmetry
INVARIANT FiresOnEachDate
INVARIANT YearOfTheOccurrence
INVARIANT NoDeviceLeftOut
CHECK_DEADLOCK FALSE
