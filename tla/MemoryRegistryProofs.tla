------------------------ MODULE MemoryRegistryProofs ------------------------
(***************************************************************************)
(* The two mappings of the contract agree, and the index implements a set  *)
(* of assets per address, for any number of addresses and assets.          *)
(***************************************************************************)
EXTENDS MemoryRegistry, TLAPS

-----------------------------------------------------------------------------
(***************************************************************************)
(* The two things that happen to an array of the index                     *)
(***************************************************************************)

LEMMA AppendedAsset ==
    ASSUME NEW S, NEW list \in Seq(S), IsInjective(list), NEW x \in S,
           x \notin Range(list)
    PROVE  /\ Append(list, x) \in Seq(S)
           /\ IsInjective(Append(list, x))
           /\ Range(Append(list, x)) = Range(list) \cup {x}
  <1> DEFINE new == Append(list, x)
             n == Len(list)
  <1>1. /\ new \in Seq(S) /\ n \in Nat /\ DOMAIN list = 1..n
        /\ DOMAIN new = 1..(n + 1) /\ new[n + 1] = x
        /\ \A i \in 1..n : new[i] = list[i]
    OBVIOUS
  <1>2. \A i \in 1..n : list[i] # x
    BY <1>1 DEF Range
  <1> HIDE DEF new, n
  <1>3. IsInjective(new)
    BY <1>1, <1>2 DEF IsInjective
  <1>4. \A y : y \in Range(new) <=> y \in Range(list) \cup {x}
    BY <1>1 DEF Range
  <1> QED
    BY <1>1, <1>3, <1>4 DEF new

\* With one occurrence of id, wherever it is, swapping with the last and popping
\* takes out id and nothing else.
LEMMA RemovedAsset ==
    ASSUME NEW S, NEW list \in Seq(S), IsInjective(list), NEW id \in Range(list)
    PROVE  /\ removeOwnerAsset(list, id) \in Seq(S)
           /\ IsInjective(removeOwnerAsset(list, id))
           /\ Range(removeOwnerAsset(list, id)) = Range(list) \ {id}
  <1> DEFINE n == Len(list)
             k == FirstIndex(list, id)
             new == removeOwnerAsset(list, id)
  <1>1. n \in Nat /\ DOMAIN list = 1..n /\ \A i \in 1..n : list[i] \in S
    OBVIOUS
  <1>2. k \in 1..n /\ list[k] = id
    <2>1. PICK i \in 1..n : list[i] = id
      BY <1>1 DEF Range
    <2>2. \A j \in 1..(i - 1) : list[j] # id
      BY <1>1, <2>1 DEF IsInjective
    <2> QED
      BY <1>1, <2>1, <2>2 DEF FirstIndex
  <1>3. new = [j \in 1..(n - 1) |-> IF j = k THEN list[n] ELSE list[j]]
    BY DEF removeOwnerAsset
  <1> HIDE DEF n, k, new
  <1>4. /\ DOMAIN new = 1..(n - 1)
        /\ \A j \in 1..(n - 1) : new[j] = IF j = k THEN list[n] ELSE list[j]
    BY <1>3
  <1>5. new \in Seq(S)
    <2>1. n - 1 \in Nat
      BY <1>1, <1>2
    <2>2. \A j \in 1..(n - 1) : new[j] \in S
      BY <1>1, <1>2, <1>4
    <2> QED
      BY <1>3, <2>1, <2>2
  <1>6. \A i, j \in 1..n : list[i] = list[j] => i = j
    BY <1>1 DEF IsInjective
  <1>7. IsInjective(new)
    BY <1>1, <1>2, <1>4, <1>6 DEF IsInjective
  <1>8. ASSUME NEW y \in Range(new)
        PROVE  y \in Range(list) \ {id}
    <2>1. PICK j \in 1..(n - 1) : y = new[j]
      BY <1>4 DEF Range
    <2>2. PICK m \in 1..n : y = list[m] /\ m # k
      BY <1>1, <1>2, <1>4, <2>1
    <2> QED
      BY <1>1, <1>2, <1>6, <2>2 DEF Range
  <1>9. ASSUME NEW y \in Range(list) \ {id}
        PROVE  y \in Range(new)
    <2>1. PICK m \in 1..n : y = list[m]
      BY <1>1 DEF Range
    <2>2. m # k
      BY <1>2, <2>1
    <2>3. \E j \in 1..(n - 1) : new[j] = y
      <3>1. CASE m = n
        BY <1>1, <1>2, <1>4, <2>1, <2>2, <3>1
      <3>2. CASE m # n
        BY <1>1, <1>4, <2>1, <2>2, <3>2
      <3> QED
        BY <3>1, <3>2
    <2> QED
      BY <1>4, <2>3 DEF Range
  <1> QED
    BY <1>5, <1>7, <1>8, <1>9 DEF new

-----------------------------------------------------------------------------
(***************************************************************************)
(* The invariant.  TypeOK alone is not inductive: that a removal leaves an *)
(* array of asset ids depends on the index being exact before.             *)
(***************************************************************************)

RegistryInv == TypeOK /\ IndexExact

LEMMA RegisterStep ==
    ASSUME RegistryInv, NEW sender \in Addresses, NEW content \in Contents,
           registerAsset(sender, content)
    PROVE  /\ RegistryInv'
           /\ LET id == previewAssetId(sender, content) IN
              /\ id \in AssetIds /\ id.creator = sender
              /\ \A o \in Addresses : id \notin Range(ownerAssets[o])
              /\ \A o \in Addresses :
                     Range(ownerAssets'[o]) =
                         IF o = sender THEN Range(ownerAssets[o]) \cup {id}
                         ELSE Range(ownerAssets[o])
  <1> DEFINE id == previewAssetId(sender, content)
  <1>1. id \in AssetIds /\ id.creator = sender
    BY DEF previewAssetId, AssetIds
  <1>2. /\ assets[id] = NoOwner
        /\ assets' = [assets EXCEPT ![id] = sender]
        /\ ownerAssets' = [ownerAssets EXCEPT ![sender] = Append(@, id)]
    BY DEF registerAsset
  <1> HIDE DEF id
  <1>3. /\ assets \in [AssetIds -> Addresses \cup {NoOwner}]
        /\ ownerAssets \in [Addresses -> Seq(AssetIds)] /\ NoOwner \notin Addresses
    BY RegistryAssumption DEF RegistryInv, TypeOK
  <1>4. \A o \in Addresses : id \notin Range(ownerAssets[o])
    BY <1>1, <1>2, <1>3 DEF RegistryInv, IndexExact
  <1>5. /\ assets'[id] = sender
        /\ \A x \in AssetIds \ {id} : assets'[x] = assets[x]
        /\ ownerAssets'[sender] = Append(ownerAssets[sender], id)
        /\ \A o \in Addresses \ {sender} : ownerAssets'[o] = ownerAssets[o]
    BY <1>1, <1>2, <1>3
  <1>6. /\ ownerAssets'[sender] \in Seq(AssetIds)
        /\ IsInjective(ownerAssets'[sender])
        /\ Range(ownerAssets'[sender]) = Range(ownerAssets[sender]) \cup {id}
    <2>1. ownerAssets[sender] \in Seq(AssetIds) /\ IsInjective(ownerAssets[sender])
      BY <1>3 DEF RegistryInv, IndexExact
    <2> QED
      BY <1>1, <1>4, <1>5, <2>1, AppendedAsset
  <1>7. TypeOK'
    BY <1>1, <1>2, <1>3, <1>5, <1>6 DEF TypeOK
  <1>8. IndexExact'
    BY <1>1, <1>2, <1>3, <1>5, <1>6 DEF RegistryInv, IndexExact
  <1> QED
    BY <1>1, <1>4, <1>5, <1>6, <1>7, <1>8 DEF RegistryInv, id

LEMMA TransferStep ==
    ASSUME RegistryInv, NEW sender \in Addresses, NEW id \in AssetIds,
           NEW newOwner \in Addresses \cup {NoOwner}, transferAsset(sender, id, newOwner)
    PROVE  /\ RegistryInv'
           /\ newOwner \in Addresses /\ newOwner # sender
           /\ id \in Range(ownerAssets[sender])
           /\ Range(ownerAssets'[sender]) = Range(ownerAssets[sender]) \ {id}
           /\ Range(ownerAssets'[newOwner]) = Range(ownerAssets[newOwner]) \cup {id}
           /\ \A o \in Addresses \ {sender, newOwner} : ownerAssets'[o] = ownerAssets[o]
  <1>1. /\ newOwner \in Addresses /\ newOwner # sender /\ assets[id] = sender
        /\ assets' = [assets EXCEPT ![id] = newOwner]
        /\ ownerAssets' = [ownerAssets EXCEPT
               ![sender] = removeOwnerAsset(@, id), ![newOwner] = Append(@, id)]
    BY DEF transferAsset
  <1>2. /\ assets \in [AssetIds -> Addresses \cup {NoOwner}]
        /\ ownerAssets \in [Addresses -> Seq(AssetIds)]
    BY DEF RegistryInv, TypeOK
  <1>3. /\ assets'[id] = newOwner
        /\ \A x \in AssetIds \ {id} : assets'[x] = assets[x]
        /\ ownerAssets'[sender] = removeOwnerAsset(ownerAssets[sender], id)
        /\ ownerAssets'[newOwner] = Append(ownerAssets[newOwner], id)
        /\ \A o \in Addresses \ {sender, newOwner} : ownerAssets'[o] = ownerAssets[o]
    BY <1>1, <1>2
  <1>4. /\ id \in Range(ownerAssets[sender]) /\ id \notin Range(ownerAssets[newOwner])
        /\ ownerAssets[sender] \in Seq(AssetIds) /\ IsInjective(ownerAssets[sender])
        /\ ownerAssets[newOwner] \in Seq(AssetIds) /\ IsInjective(ownerAssets[newOwner])
    BY <1>1, <1>2 DEF RegistryInv, IndexExact
  <1>5. /\ ownerAssets'[sender] \in Seq(AssetIds) /\ IsInjective(ownerAssets'[sender])
        /\ Range(ownerAssets'[sender]) = Range(ownerAssets[sender]) \ {id}
    BY <1>3, <1>4, RemovedAsset
  <1>6. /\ ownerAssets'[newOwner] \in Seq(AssetIds) /\ IsInjective(ownerAssets'[newOwner])
        /\ Range(ownerAssets'[newOwner]) = Range(ownerAssets[newOwner]) \cup {id}
    BY <1>3, <1>4, AppendedAsset
  <1>7. TypeOK'
    <2>1. assets' \in [AssetIds -> Addresses \cup {NoOwner}]
      BY <1>1, <1>2
    <2>2. \A o \in Addresses : ownerAssets'[o] \in Seq(AssetIds)
      BY <1>2, <1>3, <1>5, <1>6
    <2>3. ownerAssets' \in [Addresses -> Seq(AssetIds)]
      BY <1>1, <1>2, <2>2
    <2> QED
      BY <2>1, <2>3 DEF TypeOK
  <1>8. IndexExact'
    <2>1. ASSUME NEW o \in Addresses
          PROVE  /\ IsInjective(ownerAssets'[o])
                 /\ \A x \in AssetIds : x \in Range(ownerAssets'[o]) <=> assets'[x] = o
      <3>0. /\ IsInjective(ownerAssets[o])
            /\ \A x \in AssetIds : x \in Range(ownerAssets[o]) <=> assets[x] = o
        BY DEF RegistryInv, IndexExact
      <3>1. CASE o = sender
        BY <1>1, <1>3, <1>5, <3>0, <3>1
      <3>2. CASE o = newOwner
        BY <1>1, <1>3, <1>6, <3>0, <3>2
      <3>3. CASE o \notin {sender, newOwner}
        BY <1>1, <1>3, <3>0, <3>3
      <3> QED
        BY <3>1, <3>2, <3>3
    <2> QED
      BY <2>1 DEF IndexExact
  <1> QED
    BY <1>1, <1>3, <1>4, <1>5, <1>6, <1>7, <1>8 DEF RegistryInv

LEMMA RegistryInvariant == Spec => []RegistryInv
  <1>1. Init => RegistryInv
    <2> SUFFICES ASSUME Init PROVE RegistryInv
      OBVIOUS
    <2>1. \A o \in Addresses : /\ ownerAssets[o] = << >> /\ IsInjective(ownerAssets[o])
                               /\ Range(ownerAssets[o]) = {}
      BY DEF Init, IsInjective, Range
    <2> QED
      BY <2>1, RegistryAssumption DEF Init, RegistryInv, TypeOK, IndexExact
  <1>2. RegistryInv /\ [Next]_vars => RegistryInv'
    <2> SUFFICES ASSUME RegistryInv, [Next]_vars PROVE RegistryInv'
      OBVIOUS
    <2>1. CASE UNCHANGED vars
      BY <2>1 DEF vars, RegistryInv, TypeOK, IndexExact
    <2>2. CASE Next
      BY <2>2, RegisterStep, TransferStep DEF Next
    <2> QED
      BY <2>1, <2>2
  <1> QED
    BY <1>1, <1>2, PTL DEF Spec

\* The mappings keep their types: the index holds no zero entries.
THEOREM RegistryTypeCorrect == Spec => []TypeOK
  BY RegistryInvariant, PTL DEF RegistryInv

\* getAssetsByOwner never lists an asset twice, one of somebody else, or one too
\* few, after any registrations and transfers.
THEOREM IndexIsExact == Spec => []IndexExact
  BY RegistryInvariant, PTL DEF RegistryInv

-----------------------------------------------------------------------------

holdsNow == [o \in Addresses |-> Range(ownerAssets[o])]

\* The contract implements one set of assets per address.
THEOREM RegistryImplementsHoldings == Spec => ImplementsHoldings
  <1>1. Init => Holdings!Init
    <2> SUFFICES ASSUME Init PROVE Holdings!Init
      OBVIOUS
    <2>1. \A o \in Addresses : Range(ownerAssets[o]) = {}
      BY DEF Init, Range
    <2> QED
      BY <2>1 DEF Holdings!Init
  <1>2. RegistryInv /\ [Next]_vars => [Holdings!Next]_(holdsNow)
    <2> SUFFICES ASSUME RegistryInv, [Next]_vars
                 PROVE  Holdings!Next \/ UNCHANGED holdsNow
      OBVIOUS
    <2>1. ASSUME NEW sender \in Addresses, NEW content \in Contents,
                 registerAsset(sender, content)
          PROVE  Holdings!Next
      <3> DEFINE id == previewAssetId(sender, content)
      <3>1. /\ id \in AssetIds /\ id.creator = sender
            /\ \A o \in Addresses : id \notin Range(ownerAssets[o])
            /\ \A o \in Addresses :
                   Range(ownerAssets'[o]) =
                       IF o = sender THEN Range(ownerAssets[o]) \cup {id}
                       ELSE Range(ownerAssets[o])
        BY <2>1, RegisterStep
      <3> HIDE DEF id
      <3>2. holdsNow' = [holdsNow EXCEPT ![sender] = @ \cup {id}]
        BY <3>1 DEF holdsNow
      <3>3. Holdings!Register(id)
        BY <3>1, <3>2 DEF Holdings!Register, holdsNow
      <3> QED
        BY <3>1, <3>3 DEF Holdings!Next
    <2>2. ASSUME NEW sender \in Addresses, NEW id \in AssetIds,
                 NEW newOwner \in Addresses \cup {NoOwner},
                 transferAsset(sender, id, newOwner)
          PROVE  Holdings!Next
      <3>1. /\ newOwner \in Addresses /\ newOwner # sender
            /\ id \in Range(ownerAssets[sender])
            /\ Range(ownerAssets'[sender]) = Range(ownerAssets[sender]) \ {id}
            /\ Range(ownerAssets'[newOwner]) = Range(ownerAssets[newOwner]) \cup {id}
            /\ \A o \in Addresses \ {sender, newOwner} : ownerAssets'[o] = ownerAssets[o]
        BY <2>2, TransferStep
      <3>2. holdsNow' = [holdsNow EXCEPT ![sender] = @ \ {id}, ![newOwner] = @ \cup {id}]
        BY <3>1 DEF holdsNow
      <3>3. Holdings!Transfer(id, sender, newOwner)
        BY <3>1, <3>2 DEF Holdings!Transfer, holdsNow
      <3> QED
        BY <3>1, <3>3 DEF Holdings!Next
    <2>3. CASE UNCHANGED vars
      BY <2>3 DEF vars, holdsNow
    <2> QED
      BY <2>1, <2>2, <2>3 DEF Next
  <1> QED
    BY <1>1, <1>2, RegistryInvariant, PTL DEF Spec, ImplementsHoldings, Holdings!Spec, holdsNow
=============================================================================
