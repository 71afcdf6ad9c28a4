SPECIFICATION LifetimeSpec
CHECK_DEADLOCK FALSE
CONSTANTS
    Objs = {o1, o2}
    Hosts <- Found
    Idle = 4
    Period = 3
    Timeout = 3
    Hold = 2
    MaxTime = 18
INVARIANTS
    RequiredNeverReplaced
    NothingLeft
    WorkerAsReported
    StartupInv
    ReapedInTime
    ClockInv
PROPERTIES
    ReapedIdle
