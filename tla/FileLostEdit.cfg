SPECIFICATION Spec
SYMMETRY Symmetry
CHECK_DEADLOCK FALSE
CONSTANTS
    Calls = {c1, c2}
    f1 = f1
    f2 = f2
    Files = {f1}
    FileOf <- OneName
    Requests <- ErasingRequests
    Texts <- ErasingTexts
    Outside = Outside
    Absent = Absent
    Unknown = Unknown
    Faults = 0
INVARIANTS
    EditsKept
