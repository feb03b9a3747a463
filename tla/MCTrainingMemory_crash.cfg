SPECIFICATION Spec
CONSTANTS
    Chats = {c1, c2}
    Publishes = {p1}
    Directs = {d1}
    Calls = {f1}
    None = None
    Sim = FALSE
    PgLog = TRUE
    FlushMayFail = TRUE
    LoadMayFail = TRUE
    NetworkMayFail = FALSE
    MaxEdits = 1
    MaxCrashes = 1
CHECK_DEADLOCK FALSE
SYMMETRY Symmetry
CONSTRAINT EditBesideOneKind
INVARIANTS
    TypeOK
    GrowthWithinMemories
    SampleHasTurn
    AnsweredTurnDurable
    ProofCoversSample
PROPERTIES
    ImplementsMemoryLog
