SPECIFICATION FairSpec
CONSTANTS
    NoValue = NoValue
    Empty = Empty
    Malformed = Malformed
    NoError = NoError
    Inputs <- MCInputs
    Width = 5
    Precision = 4
    Invalid = Invalid
    Sessions = {s1, s2}
    Budget = 2
    Grace = 1
    NoCode = NoCode
    Unset = Unset
    Zero = Zero
INVARIANT ExitsInTime
INVARIANT FailedStartMeetsNoDevice
INVARIANT NoJobOutlivesTheRun
INVARIANT KeptEntriesAreScheduled
INVARIANT ScanAgreesWithClap
INVARIANT NumbersMeanTheSame
INVARIANT FlagsReachTheDevice
INVARIANT LogsWhatSlogWould
PROPERTY FailureGivesCode2
PROPERTY StopEndsTheRun
CHECK_DEADLOCK FALSE
