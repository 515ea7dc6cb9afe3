SPECIFICATION FairSpec
CONSTANTS
    Clients = {c1}
    Handlers = {h1, h2}
    Poll = poll
    Overlays = {Unset, rain}
    Unset = Unset
    Zero = Zero
    NoSettings = NoSettings
    NoClient = NoClient
    NoError = NoError
    MaxChanges = 1
    MaxConnects = 2
    MaxFaults = 1
    MaxTroubles = 2
INVARIANT DispatchInv
INVARIANT SentWhenQuiescent
INVARIANT RetainedIsSelfContained
PROPERTY PushesCatchUp
CHECK_DEADLOCK FALSE
