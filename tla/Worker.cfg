SPECIFICATION Spec
CHECK_DEADLOCK FALSE
CONSTANTS
    Names = {"a", "b", "_"}
    Requests <- Lines
    MaxRequests = 3
INVARIANTS
    TypeOK
    OneResponseEach
    OutputAccounted
    WorkerInv
PROPERTIES
    SessionSpec
