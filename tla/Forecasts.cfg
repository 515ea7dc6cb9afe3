SPECIFICATION ForecastsSpec
CONSTANTS
    NoValue = NoValue
    Config <- MCConfig
    Steps <- MCSteps
    Instants = {0, 1, 2, 3}
    Codes = {0, 45, 66, 75, 82, 99}
    MaxPoints = 2
INVARIANT OverlayIgnoresOrder
INVARIANT OverlaysAreWarned
INVARIANT StableUntilStart
INVARIANT MissingIsNotZero
CHECK_DEADLOCK FALSE
