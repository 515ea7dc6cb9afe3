SPECIFICATION Spec
CONSTANTS
    device = device
    Clients = {device}
    Sessions = {s1, s2}
    ClientOf <- OneDevice
    NoSession = NoSession
    NoError = NoError
SYMMETRY SessionSymmetry
INVARIANT RegisteredWhileCurrent
CHECK_DEADLOCK FALSE
