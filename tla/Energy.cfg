SPECIFICATION Spec
CONSTANTS
    Day = 6
    Zones <- MCZones
    FirstInstant = 0
    LastInstant = 24
    MaxLate = 1
    StepsBack = {1, 3}
    MaxSteps = 1
    Starts <- Times
    Ends <- Times
    NoTime = NoTime
INVARIANT AgreesWithRestart
INVARIANT BoundaryFound
INVARIANT CivilTimesResolve
INVARIANT MidnightIsNextDay
PROPERTY DueAdvances
CHECK_DEADLOCK FALSE
