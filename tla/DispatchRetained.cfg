SPECIFICATION Spec
CONSTANTS
    Clients = {c1}
    Handlers = {h1, h2}
    Poll = poll
    Overlays = {Unset, rain}
    Unset = Unset
    Zero = Zero
    NoSettings = NoSettings
    NoClient = NoClient
    NoError = NoError
    MaxChanges = 2
    MaxConnects = 1
    MaxFaults = 0
    MaxTroubles = 1
SYMMETRY Symmetry
INVARIANT RetainedWhenQuiescent
CHECK_DEADLOCK FALSE
