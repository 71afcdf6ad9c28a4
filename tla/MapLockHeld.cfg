SPECIFICATION Spec
CONSTANTS
    Calls = {c1, c2, c3}
    NoCall = NoCall
    Sids = {s1}
    MaxSessions = 1
    StrayKinds = {}
    MaxStray = 0
    Cancellable = FALSE
INVARIANT MapLockShort
