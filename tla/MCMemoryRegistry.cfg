SPECIFICATION Spec
CONSTANTS
    Addresses = {a1, a2, a3}
    NoOwner = NoOwner
    Contents = {good1, good2, bad}
    Malformed = {bad}
SYMMETRY Symmetry
INVARIANTS
    TypeOK
    IndexExact
PROPERTIES
    ImplementsHoldings
