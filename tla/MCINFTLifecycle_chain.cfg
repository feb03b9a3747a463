SPECIFICATION Spec
CONSTANTS
    MaxItems = 2
    FlushMayFail = FALSE
    LoadMayFail = FALSE
    Wallets = {w1, w2}
    Publishes = {p1, p2}
    Calls = {f1}
    Registers = {r1, r2}
    RegCalls = {g1}
    Distills = {d1}
    Viewers = {v1}
    None = None
    NetworkMayFail = FALSE
    MayExpire = FALSE
    MaxTransfers = 1
    MaxCrashes = 0
CHECK_DEADLOCK FALSE
SYMMETRY Symmetry
CONSTRAINT ChainScenarios
INVARIANTS
    ProvenanceChain
    OwnedShowsOwnContent
