SPECIFICATION Spec
SYMMETRY Symmetry
VIEW View
CONSTANTS
    Calls = {c1, c2, c3}
    NoCall = NoCall
    Sids = {s1, s2}
    MaxSessions = 1
    StrayKinds = {"json"}
    MaxStray = 1
    Cancellable = TRUE
INVARIANTS
    SessionLimit
    SessionMutex
    NoCircularWait
    SessionIsolation
    IsolationInv
    UnmappedWorkersInUse
    WorkdirsAccounted
PROPERTIES
    BusyNeverReaped
