SPECIFICATION Spec
CONSTANTS
    Callers = {c1, c2, c3}
    MaxChanges = 5
    MaxRestarts = 2
    DiskMayFail = TRUE
    LoadMayFail = TRUE
    None = None
CHECK_DEADLOCK FALSE
SYMMETRY Symmetry
INVARIANTS
    TypeOK
    PathIsWhole
    AnsweredDurable
PROPERTIES
    ImplementsAtomicFile
