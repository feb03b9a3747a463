SPECIFICATION Spec
CONSTANTS
    Tabs = {t1, t2}
    Addresses = {w1, w2}
    None = None
    NonceTTL = 1
    SessionTTL = 1
    SecretIsSet = FALSE
    MaxTime = 3
    MaxChallenges = 3
    MaxRestarts = 2
CHECK_DEADLOCK FALSE
SYMMETRY Symmetry
INVARIANTS
    TypeOK
    SignedInTime
    AcceptedFromThisRun
    ChallengeKept
