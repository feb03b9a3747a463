SPECIFICATION Spec
CONSTANTS
    MaxItems = 1
    FlushMayFail = FALSE
    LoadMayFail = FALSE
    Wallets = {w1}
    Publishes = {p1, p2}
    Calls = {f1, f2}
    Registers = {r1}
    RegCalls = {g1}
    Distills = {}
    Viewers = {}
    None = None
    NetworkMayFail = FALSE
    MayExpire = FALSE
    MaxTransfers = 0
    MaxCrashes = 0
CHECK_DEADLOCK FALSE
SYMMETRY Symmetry
INVARIANTS
    RegistrationSticks
