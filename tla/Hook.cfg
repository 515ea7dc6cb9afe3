SPECIFICATION FairSpec
CONSTANTS
    device = device
    Clients = {device}
    Sessions = {s1, s2}
    ClientOf <- OneDevice
    NoSession = NoSession
    NoError = NoError
INVARIANT HookInv
INVARIANT NoGhostDevice
INVARIANT ReadyIsOwnAndOnce
INVARIANT OnlyOverlapUnregisters
PROPERTY StatsLeadToReady
PROPERTY ProvidesPresence
CHECK_DEADLOCK FALSE
