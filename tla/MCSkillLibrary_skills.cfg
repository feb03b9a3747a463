SPECIFICATION Spec
CONSTANTS
    MaxItems = 3
    FlushMayFail = TRUE
    LoadMayFail = TRUE
    Bases <- MCBases
    Kinds = {"upload", "import_github", "save_skills"}
    Batches <- MCBatches
    Creators = {c1, c2}
    Deleters = {d1, d2}
    Publishes = {p1, p2}
    Calls = {f1, f2}
    None = None
    NetworkMayFail = TRUE
    MayExpire = TRUE
    MaxCrashes = 1
    a = a
    b = b
    c1 = c1
    d1 = d1
CHECK_DEADLOCK FALSE
SYMMETRY Symmetry
CONSTRAINT Scenarios
INVARIANTS
    TypeOK
    SingleIsUploaded
    ProofCoversSkill
    FilenamesUnique
    DeletedStaysDeleted
