SPECIFICATION Spec
CONSTANTS
    NoValue = NoValue
    Config <- MCConfig
    Clients = {c1}
    Forecasts <- Lasting
    PollInterval = 1
    RepeatInterval = 4
    StaleTtl = 5
    InactiveAfter = 2
    NoBatch = NoBatch
    MaxTime = 4
    MaxLate = 1
    MaxConnects = 1
    MaxFaults = 0
PROPERTY NotNotifiedMoreOften
CHECK_DEADLOCK FALSE
