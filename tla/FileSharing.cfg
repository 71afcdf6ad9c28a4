SPECIFICATION Spec
SYMMETRY Symmetry
CHECK_DEADLOCK FALSE
CONSTANTS
    Calls = {c1, c2, c3}
    f1 = f1
    f2 = f2
    Files = {f1, f2}
    FileOf <- NameTable
    Requests <- SharingRequests
    Texts <- SharingTexts
    Outside = Outside
    Absent = Absent
    Unknown = Unknown
    Faults = 1
INVARIANTS
    TypeOK
    QuietFilesKeepPromises
    FileInv
