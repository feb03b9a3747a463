SPECIFICATION Spec
CONSTANTS
    Chats = {c1, c2}
    Publishes = {p1, p2}
    Directs = {}
    Calls = {f1, f2}
    None = None
    Sim = FALSE
    PgLog = FALSE
    FlushMayFail = FALSE
    LoadMayFail = FALSE
    NetworkMayFail = TRUE
    MaxEdits = 0
    MaxCrashes = 1
CHECK_DEADLOCK FALSE
SYMMETRY Symmetry
INVARIANTS
    ProofCoversSample
    CompletedIsUploaded
    SnapshotUnspent
