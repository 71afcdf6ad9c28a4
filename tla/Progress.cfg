SPECIFICATION FairSpec

CONSTANTS
    Calls = {c1, c2}
    NoCall = NoCall
    Sids = {s1, s2}
    MaxSessions = 1
    StrayKinds = {"junk"}
    MaxStray = 1
    Cancellable = TRUE
PROPERTIES
    CallsReturn
    DirectorySpec
    WorkersReclaimed
    ResetReleases
