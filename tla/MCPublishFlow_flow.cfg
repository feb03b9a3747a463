SPECIFICATION Spec
CONSTANTS
    Pages = {new, old}
    OldPages = {old}
    MaxPublishes = 2
    MaxAge = 1
    MaxTime = 3
    MaxRestarts = 1
    NetworkMayFail = TRUE
CHECK_DEADLOCK FALSE
INVARIANTS
    TypeOK
    HeldForItsTime
