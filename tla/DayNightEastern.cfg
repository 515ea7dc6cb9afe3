SPECIFICATION Spec
CONSTANTS
    Day = 6
    Zones <- UTC
    Suns <- EasternSuns
    NoSun = NoSun
    FirstInstant = 0
    LastInstant = 20
    MaxLate = 0
    StepsBack = {}
    MaxSteps = 0
PROPERTY DueAdvances
CHECK_DEADLOCK FALSE
