SPECIFICATION FairSpec
CONSTANTS
    Chats = {c1}
    Publishes = {p1}
    Directs = {d1}
    Calls = {f1}
    None = None
    Sim = FALSE
    PgLog = TRUE
    FlushMayFail = TRUE
    LoadMayFail = TRUE
    NetworkMayFail = TRUE
    MaxEdits = 0
    MaxCrashes = 1
CHECK_DEADLOCK FALSE
PROPERTY
    EveryRequestEnds
