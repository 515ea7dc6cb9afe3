SPECIFICATION Spec
CONSTANTS
    Day = 6
    Zones <- MCZones
    Suns <- MatchingSuns
    NoSun = NoSun
    FirstInstant = 0
    LastInstant = 20
    MaxLate = 1
    StepsBack = {1, 3}
    MaxSteps = 1
INVARIANT AgreesWithRestart
PROPERTY DueAdvances
CHECK_DEADLOCK FALSE
