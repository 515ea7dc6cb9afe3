SPECIFICATION Spec
CONSTANTS
    NoValue = NoValue
    Config <- MCConfig
    Clients = {c1}
    Forecasts <- MCForecasts
    PollInterval = 1
    RepeatInterval = 2
    StaleTtl = 2
    InactiveAfter = 2
    NoBatch = NoBatch
    MaxTime = 2
    MaxLate = 1
    MaxConnects = 2
    MaxFaults = 1
INVARIANT WarningsReachEveryDevice
INVARIANT BatchIsTheLatest
INVARIANT NeverOverdue
INVARIANT WarningsAreRetold
INVARIANT OverlayIsShown
CHECK_DEADLOCK FALSE
