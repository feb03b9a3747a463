--------------------------- MODULE AssetHoldings ---------------------------
(***************************************************************************)
(* What the MemoryRegistry contract promises of getAssetsByOwner: every    *)
(* address has a set of assets, a new asset goes to the address it was     *)
(* registered by, and an asset only ever moves from one address to another.*)
(***************************************************************************)
CONSTANTS
    Addresses,
    Assets,
    Creator        \* the address each asset may be registered by

VARIABLE holds     \* the assets of each address

Register(a) ==
    /\ \A o \in Addresses : a \notin holds[o]
    /\ holds' = [holds EXCEPT ![Creator[a]] = @ \cup {a}]

Transfer(a, from, to) ==
    /\ a \in holds[from]
    /\ from # to
    /\ holds' = [holds EXCEPT ![from] = @ \ {a}, ![to] = @ \cup {a}]

Init == holds = [o \in Addresses |-> {}]

Next ==
    \E a \in Assets :
        \/ Register(a)
        \/ \E from, to \in Addresses : Transfer(a, from, to)

Spec == Init /\ [][Next]_holds
=============================================================================
