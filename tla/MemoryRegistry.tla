--------------------------- MODULE MemoryRegistry ---------------------------
(***************************************************************************)
(* The contract MemoryRegistry.sol: iNFT assets registered on the 0G chain,*)
(* and for every owner the list of the assets it has.  A transaction is    *)
(* one action; one that reverts changes nothing and is not an action.      *)
(***************************************************************************)
EXTENDS Naturals, Sequences, Functions

CONSTANTS
    Addresses,     \* accounts that send transactions
    NoOwner,       \* address(0)
    Contents,      \* the fields of an asset: kind, rootHash, storageRef, name, parentAssetId
    Malformed      \* the contents _validate refuses

ASSUME RegistryAssumption ==
    /\ NoOwner \notin Addresses
    /\ Malformed \subseteq Contents

VARIABLES
    assets,        \* owner of each asset id, NoOwner before its registration
    ownerAssets    \* ids of the assets of each address, in the order of the array

vars == <<assets, ownerAssets>>

\* previewAssetId hashes the sender and the fields, so an id stands for both, and
\* the record kept under it has the fields of the id.
AssetIds == [creator : Addresses, content : Contents]

previewAssetId(sender, content) == [creator |-> sender, content |-> content]

TypeOK ==
    /\ assets \in [AssetIds -> Addresses \cup {NoOwner}]
    /\ ownerAssets \in [Addresses -> Seq(AssetIds)]

Init ==
    /\ assets = [id \in AssetIds |-> NoOwner]
    /\ ownerAssets = [o \in Addresses |-> << >>]

-----------------------------------------------------------------------------

validate(content) == content \notin Malformed

\* The creator of an asset cannot register it again while somebody else owns it.
registerAsset(sender, content) ==
    LET id == previewAssetId(sender, content) IN
    /\ validate(content)
    /\ assets[id] = NoOwner
    /\ assets' = [assets EXCEPT ![id] = sender]
    /\ ownerAssets' = [ownerAssets EXCEPT ![sender] = Append(@, id)]

\* The position where the loop of _removeOwnerAsset stops.
FirstIndex(list, id) ==
    CHOOSE i \in DOMAIN list :
        list[i] = id /\ \A j \in 1..(i - 1) : list[j] # id

\* A faulty variant of removeOwnerAsset: the last entry is popped, but not moved.
PopOwnerAsset(list, id) ==
    IF id \in Range(list) THEN SubSeq(list, 1, Len(list) - 1) ELSE list

\* Another one: the entry is deleted, which in an array of Solidity leaves a zero.
ZeroOwnerAsset(list, id) ==
    IF id \in Range(list) THEN [list EXCEPT ![FirstIndex(list, id)] = NoOwner] ELSE list

\* _removeOwnerAsset: the last entry takes the place of id and is popped; a list
\* without id stays as it is.
removeOwnerAsset(list, id) ==
    IF id \in Range(list)
    THEN [j \in 1..(Len(list) - 1) |->
              IF j = FirstIndex(list, id) THEN list[Len(list)] ELSE list[j]]
    ELSE list

\* A faulty variant of transferAsset: address(0) is a new owner like any other.
TransferToAnyone(sender, id, newOwner) ==
    /\ assets[id] = sender
    /\ newOwner # sender
    /\ ownerAssets' = [ownerAssets EXCEPT
           ![sender] = removeOwnerAsset(@, id), ![newOwner] = Append(@, id)]
    /\ assets' = [assets EXCEPT ![id] = newOwner]

\* Only the owner may transfer an asset, to another address that is not zero.
transferAsset(sender, id, newOwner) ==
    /\ newOwner # NoOwner
    /\ assets[id] = sender
    /\ newOwner # sender
    /\ ownerAssets' = [ownerAssets EXCEPT
           ![sender] = removeOwnerAsset(@, id), ![newOwner] = Append(@, id)]
    /\ assets' = [assets EXCEPT ![id] = newOwner]

Next ==
    \E sender \in Addresses :
        \/ \E content \in Contents : registerAsset(sender, content)
        \/ \E id \in AssetIds, newOwner \in Addresses \cup {NoOwner} :
               transferAsset(sender, id, newOwner)

Spec == Init /\ [][Next]_vars

-----------------------------------------------------------------------------

\* getAssetsByOwner lists exactly the assets whose record names the owner, each
\* once: the two mappings of the contract agree after any transfers, wherever in
\* the array the asset was.
IndexExact ==
    \A o \in Addresses :
        /\ IsInjective(ownerAssets[o])
        /\ \A id \in AssetIds : id \in Range(ownerAssets[o]) <=> assets[id] = o

\* The index implements one set of assets per address: registering adds an asset
\* nobody has and a transfer moves one, without touching any other.
Holdings == INSTANCE AssetHoldings
    WITH Assets <- AssetIds, Creator <- [id \in AssetIds |-> id.creator],
         holds <- [o \in Addresses |-> Range(ownerAssets[o])]

ImplementsHoldings == Holdings!Spec
=============================================================================
