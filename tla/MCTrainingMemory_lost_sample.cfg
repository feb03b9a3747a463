SPECIFICATION Spec
CONSTANTS
    Chats = {c1, c2}
    Publishes = {p1}
    Directs = {}
    Calls = {f1}
    None = None
    Sim = FALSE
    PgLog = FALSE
    FlushMayFail = FALSE
    LoadMayFail = FALSE
    NetworkMayFail = FALSE
    MaxEdits = 0
    MaxCrashes = 0
CHECK_DEADLOCK FALSE
INVARIANT
    EveryTurnBecomesSample
