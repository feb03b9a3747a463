SPECIFICATION Spec
CONSTANTS
    MaxItems = 2
    FlushMayFail = TRUE
    LoadMayFail = TRUE
    Wallets = {w1}
    Publishes = {p1, p2}
    Calls = {f1, f2}
    Registers = {r1}
    RegCalls = {g1}
    Distills = {}
    Viewers = {}
    None = None
    NetworkMayFail = TRUE
    MayExpire = TRUE
    MaxTransfers = 0
    MaxCrashes = 1
CHECK_DEADLOCK FALSE
SYMMETRY Symmetry
CONSTRAINT FaultScenarios
INVARIANTS
    TypeOK
    ProofIsOfOwnContent
    RegisteredOnChain
