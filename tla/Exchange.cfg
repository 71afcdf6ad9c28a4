SPECIFICATION Spec
SYMMETRY Symmetry
CONSTANTS
    Calls = {c1, c2, c3}
    NoCall = NoCall
    Sids = {s1, s2}
    MaxSessions = 1
    StrayKinds = {}
    MaxStray = 0
    Cancellable = FALSE
INVARIANTS
    ReplyPairs
    FailedSessionGone
    KilledSessionRetiring
    IInv
PROPERTY DirectorySpec
