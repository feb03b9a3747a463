--------------------------- MODULE INFTLifecycle ---------------------------
(***************************************************************************)
(* The iNFTs of a bot: made from its training samples or from a distilled  *)
(* summary, published to 0G by the user's wallet, and then registered in   *)
(* the MemoryRegistry contract, which is composed in as it is.             *)
(*                                                                         *)
(* As in TrainingMemory a handler is a sequence of store calls without a   *)
(* lock around them; the slice it listed stays in its record until it is   *)
(* written back as a whole.                                                *)
(***************************************************************************)
EXTENDS SliceStore, FiniteSetsExt, Functions

CONSTANTS
    Wallets,        \* accounts of the users
    Publishes,      \* publish_prepare answers: one snapshot and one transaction each
    Calls,          \* bound on the publish_finalize requests that run at once
    Registers,      \* register_prepare requests: one snapshot and one transaction each
    RegCalls,       \* bound on the register_finalize requests that run at once
    Distills,       \* create_distilled requests
    Viewers,        \* GET infts/owned requests
    NetworkMayFail, \* TRUE when RPC nodes, storage nodes and transactions may fail
    MayExpire,      \* TRUE when 15 minutes may pass before a snapshot is used
    MaxTransfers,   \* bound on the transfers of registered assets
    MaxCrashes      \* bound on the crashes of the server

ASSUME INFTAssumption ==
    /\ None \notin Wallets \cup Publishes \cup Registers
    /\ Publishes \cap Registers = {}
    /\ NetworkMayFail \in BOOLEAN /\ MayExpire \in BOOLEAN
    /\ MaxTransfers \in Nat /\ MaxCrashes \in Nat

VARIABLES
    pub,        \* the publishes: their iNFT and their transaction
    reg,        \* the registrations: iNFT, copy read by prepare, predicted asset, transaction
    pending,    \* keys of the snapshot map
    final,      \* publish_finalize requests, idle when over
    uploader,   \* the goroutine each of them may have started
    regFinal,   \* register_finalize requests, idle when over
    confirmed,  \* iNFTs that a register_finalize was answered for without an error
    distill,    \* create_distilled requests
    owned,      \* GET infts/owned requests
    assets,     \* the contract: owner of each asset
    ownerAssets, \* the contract: assets of each owner
    transfers,
    crashes

chainVars == <<assets, ownerAssets>>
vars == <<items, file, made, pub, reg, pending, final, uploader, regFinal, confirmed, distill,
          owned, assets, ownerAssets, transfers, crashes>>

\* A storage reference names the Merkle root and the transaction of a publish.
\* The content of an iNFT never changes, so its root is the iNFT itself.
Refs == [root : Ids, tx : Publishes]

\* What registerAsset is called with; kind and name follow from the root.  Only
\* training iNFTs are parents, and they have none themselves.
Founders == [ref : Refs, parent : {None}]
Parents == [creator : Wallets, content : Founders]
Contents == [ref : Refs, parent : Parents \cup {None}]

Registry == INSTANCE MemoryRegistry
    WITH Addresses <- Wallets, NoOwner <- None, Malformed <- {}

AssetIds == [creator : Wallets, content : Contents]

\* The contract's ids are hashes of creator and content, and none of them is zero.
ASSUME NoAssetAssumption == None \notin AssetIds

\* What an iNFT is made of, and never changes; parent is 0 for an iNFT without one.
Origin == [kind : {"training", "distilled"}, parent : Nat]

\* Its other fields: ref stands for storedOn0G, storageRef, txHash and rootHash,
\* which are always set together, and asset for the fields registry* likewise.
INFT == [ref : Refs \cup {None}, asset : AssetIds \cup {None}]

Blank == [ref |-> None, asset |-> None]

\* An entry of the list of owned iNFTs; its iNFT is 0 when it is not one of the bot's.
Entries == [asset : AssetIds, inft : Ids \cup {0}, ref : Refs \cup {None}]

FinalPC == {"idle", "checking", "accepted", "listed"}
UploadPC == {"none", "waiting", "uploaded", "listed"}
RegPC == {"idle", "checking", "listed", "recorded"}
Over == {"done", "failed"}
TxStatus == {"none", "unsent", "pending", "success", "failed"}
Sent == {"pending", "success", "failed"}

\* A publish_finalize and its goroutine work on a publish of an iNFT; both keep the
\* slice they listed until they have written it back.
Job(PCs, Sources) ==
    [pc : PCs, source : Sources \cup {None}, inft : Ids \cup {0}, list : Slices(INFT)]

NoJob(pc) == [pc |-> pc, source |-> None, inft |-> 0, list |-> NoItems]

TypeOK ==
    /\ items \in Slices(INFT) /\ file \in Slices(INFT)
    /\ made \in Seq(Origin) /\ Len(made) <= MaxItems
    /\ pub \in [Publishes -> [inft : Ids \cup {0}, tx : TxStatus]]
    /\ reg \in [Registers -> [inft : Ids \cup {0}, copy : INFT, asset : AssetIds \cup {None},
                              tx : TxStatus \cup {"reading", "refused"}]]
    /\ pending \subseteq Publishes \cup Registers
    /\ final \in [Calls -> Job(FinalPC, Publishes)]
    /\ uploader \in [Calls -> Job(UploadPC, Publishes)]
    /\ regFinal \in [RegCalls -> Job(RegPC, Registers)]
    /\ confirmed \subseteq Ids
    /\ distill \in [Distills -> [pc : {"idle", "ready"} \cup Over, parent : Ids \cup {0}]]
    /\ owned \in [Viewers -> [pc : {"idle", "asked"} \cup Over, assets : SUBSET AssetIds,
                              shown : SUBSET Entries]]
    /\ Registry!TypeOK
    /\ transfers \in 0..MaxTransfers
    /\ crashes \in 0..MaxCrashes

Init ==
    /\ items = NoItems /\ file = NoItems /\ made = << >>
    /\ pub = [p \in Publishes |-> [inft |-> 0, tx |-> "none"]]
    /\ reg = [r \in Registers |-> [inft |-> 0, copy |-> Blank, asset |-> None, tx |-> "none"]]
    /\ pending = {}
    /\ final = [f \in Calls |-> NoJob("idle")]
    /\ uploader = [f \in Calls |-> NoJob("none")]
    /\ regFinal = [g \in RegCalls |-> NoJob("idle")]
    /\ confirmed = {}
    /\ distill = [d \in Distills |-> [pc |-> "idle", parent |-> 0]]
    /\ owned = [v \in Viewers |-> [pc |-> "idle", assets |-> {}, shown |-> {}]]
    /\ Registry!Init
    /\ transfers = 0
    /\ crashes = 0

-----------------------------------------------------------------------------
(***************************************************************************)
(* POST infts/create_training and infts/create_distilled                   *)
(***************************************************************************)

UnchangedByCreate ==
    UNCHANGED <<pub, reg, pending, final, uploader, regFinal, confirmed, owned, chainVars,
                transfers, crashes>>

\* CreateTrainingINFT: the samples it needs are read before, and are not changed.
CreateTrainingINFT ==
    /\ \E ok \in BOOLEAN : Save([kind |-> "training", parent |-> 0], Blank, ok)
    /\ UNCHANGED distill
    /\ UnchangedByCreate

\* The last training iNFT of the list, if it has one.
latestTrainingINFTID ==
    LET training == {x \in Listed(items) : made[x].kind = "training"} IN
    IF training = {} THEN 0 ELSE Max(training)

DistillReadParent(d) ==
    /\ distill[d].pc = "idle"
    /\ distill' = [distill EXCEPT ![d] = [pc |-> "ready", parent |-> latestTrainingINFTID]]
    /\ UNCHANGED sliceVars
    /\ UnchangedByCreate

DistillSave(d) ==
    /\ distill[d].pc = "ready"
    /\ \E ok \in BOOLEAN :
           /\ Save([kind |-> "distilled", parent |-> distill[d].parent], Blank, ok)
           /\ distill' = [distill EXCEPT ![d].pc = IF ok THEN "done" ELSE "failed"]
    /\ UnchangedByCreate

CreateDistilledINFT(d) == DistillReadParent(d) \/ DistillSave(d)

-----------------------------------------------------------------------------
(***************************************************************************)
(* Publish: publish_prepare, the transaction, publish_finalize, and the    *)
(* goroutine completeWalletINFTUpload (inft_service.go, asset_publish.go)  *)
(***************************************************************************)

UnchangedByPublish ==
    UNCHANGED <<made, reg, regFinal, confirmed, distill, owned, chainVars, transfers, crashes>>

\* GetINFT, then prepareAssetPublish of its content.  Any iNFT may be published,
\* also one that is published or registered already.
PrepareINFTPublish(p) ==
    /\ pub[p].tx = "none"
    /\ \E x \in Listed(items) : pub' = [pub EXCEPT ![p] = [inft |-> x, tx |-> "unsent"]]
    /\ pending' = pending \cup {p}
    /\ UNCHANGED <<items, file, final, uploader>>
    /\ UnchangedByPublish

SetPublishTx(p, status) ==
    /\ pub' = [pub EXCEPT ![p].tx = status]
    /\ UNCHANGED <<items, file, pending, final, uploader>>
    /\ UnchangedByPublish

WalletSendsPublish(p) == pub[p].tx = "unsent" /\ SetPublishTx(p, "pending")

ChainMinesPublish(p) ==
    /\ pub[p].tx = "pending"
    /\ \E status \in IF NetworkMayFail THEN {"success", "failed"} ELSE {"success"} :
           SetPublishTx(p, status)

FinalizeOver(f) == final' = [final EXCEPT ![f] = NoJob("idle")]

\* A faulty variant of SnapshotFits: the iNFT of the request is not compared.
SnapshotExists(k, x) == k \in pending /\ k \in Publishes

\* The snapshot k is one of a publish of the iNFT x.  Its root then is x's.
SnapshotFits(k, x) == k \in pending /\ k \in Publishes /\ pub[k].inft = x

\* The iNFT of a request is the one in its URL; the snapshot, which the body
\* names, must be of that iNFT.  A request that is refused here changes nothing.
FinalizeGetSnapshot(f) ==
    /\ final[f].pc = "idle"
    /\ uploader[f].pc = "none"
    /\ \E x \in 1..Len(made), k \in Publishes \cup Registers :
        /\ SnapshotFits(k, x)
        /\ pub[k].tx \in Sent
        /\ final' = [final EXCEPT ![f] = [@ EXCEPT !.pc = "checking", !.source = k, !.inft = x]]
    /\ UNCHANGED <<items, file, pub, pending, uploader>>
    /\ UnchangedByPublish

\* checkTxReceipt reports a failed transaction, or the RPC call errs; the browser
\* may try again.
FinalizeRejectTx(f) ==
    /\ final[f].pc = "checking"
    /\ pub[final[f].source].tx = "failed" \/ NetworkMayFail
    /\ FinalizeOver(f)
    /\ UNCHANGED <<items, file, pub, pending, uploader>>
    /\ UnchangedByPublish

\* It reports success, or no receipt yet.
FinalizeAcceptTx(f) ==
    /\ final[f].pc = "checking"
    /\ pub[final[f].source].tx # "failed"
    /\ pending' = pending \ {final[f].source}
    /\ uploader' = [uploader EXCEPT ![f] = [final[f] EXCEPT !.pc = "waiting"]]
    /\ final' = [final EXCEPT ![f].pc = "accepted"]
    /\ UNCHANGED <<items, file, pub>>
    /\ UnchangedByPublish

\* GetINFT and ListINFTs, neither of which changes anything: an iNFT that is gone
\* from the slice ends the request.
FinalizeListINFTs(f) ==
    /\ final[f].pc = "accepted"
    /\ IF final[f].inft \in Listed(items)
       THEN final' = [final EXCEPT ![f] = [@ EXCEPT !.pc = "listed", !.list = items]]
       ELSE FinalizeOver(f)
    /\ UNCHANGED <<items, file, pub, pending, uploader>>
    /\ UnchangedByPublish

\* A faulty variant of Published: the transaction is recorded for the reference.
PublishedTx(job) ==
    IF job.inft \in Listed(job.list) THEN [job.list EXCEPT ![job.inft].ref = job.source]
    ELSE job.list

\* The slice a job listed, with its publish recorded on its iNFT; without that
\* iNFT as it is.
Published(job) ==
    IF job.inft \in Listed(job.list)
    THEN [job.list EXCEPT ![job.inft].ref = [root |-> pub[job.source].inft, tx |-> job.source]]
    ELSE job.list

FinalizeUpdateINFTs(f) ==
    /\ final[f].pc = "listed"
    /\ \E ok \in BOOLEAN : Update(Published(final[f]), ok)
    /\ FinalizeOver(f)
    /\ UNCHANGED <<pub, pending, uploader>>
    /\ UnchangedByPublish

FinalizeINFTPublish(f) ==
    \/ FinalizeGetSnapshot(f) \/ FinalizeRejectTx(f) \/ FinalizeAcceptTx(f)
    \/ FinalizeListINFTs(f) \/ FinalizeUpdateINFTs(f)

UploadOver(f) == uploader' = [uploader EXCEPT ![f] = NoJob("none")]

\* The payload is the content alone, so all publishes of an iNFT have its root, and each
\* of them whose transaction is on the chain puts the file on the nodes.
FileOnNodes(x) == \E p \in Publishes : pub[p].inft = x /\ pub[p].tx = "success"

\* waitFileInfo waits for the root, not for the transaction, then the segments are uploaded;
\* or something of this errs, or the time is up.
UploadSegments(f) ==
    /\ uploader[f].pc = "waiting"
    /\ LET onNodes == FileOnNodes(pub[uploader[f].source].inft) IN
       \/ onNodes /\ uploader' = [uploader EXCEPT ![f].pc = "uploaded"]
       \/ (NetworkMayFail \/ ~onNodes) /\ UploadOver(f)
    /\ UNCHANGED <<items, file, pub, pending, final>>
    /\ UnchangedByPublish

UploadListINFTs(f) ==
    /\ uploader[f].pc = "uploaded"
    /\ uploader' = [uploader EXCEPT ![f] = [@ EXCEPT !.pc = "listed", !.list = items]]
    /\ UNCHANGED <<items, file, pub, pending, final>>
    /\ UnchangedByPublish

\* The list is written back also when the iNFT is not in it.
UploadUpdateINFTs(f) ==
    /\ uploader[f].pc = "listed"
    /\ \E ok \in BOOLEAN : Update(Published(uploader[f]), ok)
    /\ UploadOver(f)
    /\ UNCHANGED <<pub, pending, final>>
    /\ UnchangedByPublish

completeWalletINFTUpload(f) ==
    UploadSegments(f) \/ UploadListINFTs(f) \/ UploadUpdateINFTs(f)

-----------------------------------------------------------------------------
(***************************************************************************)
(* Register: register_prepare, registerAsset on the chain, and             *)
(* register_finalize (inft_registry.go)                                    *)
(***************************************************************************)

UnchangedByRegister ==
    UNCHANGED <<made, pub, final, uploader, distill, owned, transfers, crashes>>

\* GetINFT: the iNFT must be published and not registered, in the copy it returns.
RegisterGetINFT(r) ==
    /\ reg[r].tx = "none"
    /\ \E x \in Listed(items) :
        /\ items[x].ref # None
        /\ items[x].asset = None
        /\ reg' = [reg EXCEPT
               ![r] = [inft |-> x, copy |-> items[x], asset |-> None, tx |-> "reading"]]
    /\ UNCHANGED <<items, file, pending, regFinal, confirmed, chainVars>>
    /\ UnchangedByRegister

\* The asset the parent of x is registered as, or None.
ParentAsset(x) == IF made[x].parent = 0 THEN None ELSE items[made[x].parent].asset

\* A faulty variant of ParentReady: a parent that is not registered will do.
ParentExists(x) == made[x].parent # 0 => made[x].parent \in Listed(items)

\* A parent must still be in the slice, and registered.
ParentReady(x) ==
    made[x].parent # 0 =>
        made[x].parent \in Listed(items) /\ items[made[x].parent].asset # None

\* The calls of the RPC node, GetINFT of the parent, the prediction of the asset
\* id for the wallet, and the snapshot.  Prediction and transaction are made from
\* the copy read before.
PrepareINFTRegister(r) ==
    LET x == reg[r].inft
        content == [ref |-> reg[r].copy.ref, parent |-> ParentAsset(x)] IN
    /\ reg[r].tx = "reading"
    /\ \/ /\ ParentReady(x)
          /\ \E w \in Wallets : reg' = [reg EXCEPT
                 ![r] = [@ EXCEPT !.copy = Blank, !.tx = "unsent",
                                  !.asset = Registry!previewAssetId(w, content)]]
          /\ pending' = pending \cup {r}
       \/ /\ ~ParentReady(x) \/ NetworkMayFail
          /\ reg' = [reg EXCEPT ![r] = [@ EXCEPT !.copy = Blank, !.tx = "refused"]]
          /\ UNCHANGED pending
    /\ UNCHANGED <<items, file, regFinal, confirmed, chainVars>>
    /\ UnchangedByRegister

SetRegisterTx(r, status) ==
    /\ reg' = [reg EXCEPT ![r].tx = status]
    /\ UNCHANGED <<items, file, pending, regFinal, confirmed>>
    /\ UnchangedByRegister

WalletSendsRegister(r) ==
    reg[r].tx = "unsent" /\ SetRegisterTx(r, "pending") /\ UNCHANGED chainVars

\* The wallet that prepared the registration is the sender.  The contract reverts
\* when the asset is registered; a transaction may also run out of gas.
ChainMinesRegister(r) ==
    /\ reg[r].tx = "pending"
    /\ \/ /\ Registry!registerAsset(reg[r].asset.creator, reg[r].asset.content)
          /\ SetRegisterTx(r, "success")
       \/ /\ NetworkMayFail \/ assets[reg[r].asset] # None
          /\ SetRegisterTx(r, "failed") /\ UNCHANGED chainVars

\* An error ends a register_finalize, too, but its snapshot stays for another try.
RegFinalOver(g) == regFinal' = [regFinal EXCEPT ![g] = NoJob("idle")]

UnchangedByRegFinal == UNCHANGED <<reg, chainVars>> /\ UnchangedByRegister

RegSnapshotFits(k, x) == k \in pending /\ k \in Registers /\ reg[k].inft = x

RegFinalGetSnapshot(g) ==
    /\ regFinal[g].pc = "idle"
    /\ \E x \in 1..Len(made), k \in Publishes \cup Registers :
        /\ RegSnapshotFits(k, x)
        /\ reg[k].tx \in Sent
        /\ regFinal' = [regFinal EXCEPT
               ![g] = [@ EXCEPT !.pc = "checking", !.source = k, !.inft = x]]
    /\ UNCHANGED <<items, file, pending, confirmed>>
    /\ UnchangedByRegFinal

\* Unlike a publish, a registration without receipt is refused.
RegFinalRejectTx(g) ==
    /\ regFinal[g].pc = "checking"
    /\ reg[regFinal[g].source].tx # "success" \/ NetworkMayFail
    /\ RegFinalOver(g)
    /\ UNCHANGED <<items, file, pending, confirmed>>
    /\ UnchangedByRegFinal

\* A faulty variant of RegTxAccepted: no receipt yet is taken for success, as
\* FinalizeAcceptTx does.
RegTxNotFailed(r) == reg[r].tx # "failed"

RegTxAccepted(r) == reg[r].tx = "success"

\* The receipt says success, which it will say for ever, and ListINFTs.
RegFinalListINFTs(g) ==
    /\ regFinal[g].pc = "checking"
    /\ RegTxAccepted(regFinal[g].source)
    /\ IF regFinal[g].inft \in Listed(items)
       THEN regFinal' = [regFinal EXCEPT ![g] = [@ EXCEPT !.pc = "listed", !.list = items]]
       ELSE RegFinalOver(g)
    /\ UNCHANGED <<items, file, pending, confirmed>>
    /\ UnchangedByRegFinal

\* A faulty variant of Registered: every iNFT of the list gets the asset id.
RegisteredAll(job) ==
    [y \in Ids |-> IF y \in Listed(job.list)
                   THEN [job.list[y] EXCEPT !.asset = reg[job.source].asset] ELSE None]

\* The slice a job listed, which has its iNFT, with the predicted asset on that.
Registered(job) == [job.list EXCEPT ![job.inft].asset = reg[job.source].asset]

RegFinalUpdateINFTs(g) ==
    /\ regFinal[g].pc = "listed"
    /\ \E ok \in BOOLEAN :
           /\ Update(Registered(regFinal[g]), ok)
           /\ IF ok
              THEN regFinal' = [regFinal EXCEPT
                       ![g] = [@ EXCEPT !.pc = "recorded", !.list = NoItems]]
              ELSE RegFinalOver(g)
    /\ UNCHANGED <<pending, confirmed>>
    /\ UnchangedByRegFinal

RegFinalDeleteSnapshot(g) ==
    /\ regFinal[g].pc = "recorded"
    /\ pending' = pending \ {regFinal[g].source}
    /\ confirmed' = confirmed \cup {regFinal[g].inft}
    /\ RegFinalOver(g)
    /\ UNCHANGED <<items, file>>
    /\ UnchangedByRegFinal

FinalizeINFTRegister(g) ==
    \/ RegFinalGetSnapshot(g) \/ RegFinalRejectTx(g) \/ RegFinalListINFTs(g)
    \/ RegFinalUpdateINFTs(g) \/ RegFinalDeleteSnapshot(g)

-----------------------------------------------------------------------------
(***************************************************************************)
(* Transfers, and the iNFTs a wallet owns (GET infts/owned)                *)
(***************************************************************************)

\* The chat page transfers a registered asset to another account.
transferAsset ==
    /\ transfers < MaxTransfers
    /\ transfers' = transfers + 1
    /\ \E sender, newOwner \in Wallets, id \in AssetIds :
           Registry!transferAsset(sender, id, newOwner)
    /\ UNCHANGED <<items, file, made, pub, reg, pending, final, uploader, regFinal,
                   confirmed, distill, owned, crashes>>

UnchangedByList ==
    UNCHANGED <<sliceVars, pub, reg, pending, final, uploader, regFinal, confirmed, distill,
                chainVars, transfers, crashes>>

\* queryRegistryAssetIDsByOwner asks the chain; the RPC node may err.
OwnedQueryChain(v) ==
    /\ owned[v].pc = "idle"
    /\ \/ \E w \in Wallets : owned' = [owned EXCEPT
              ![v] = [@ EXCEPT !.pc = "asked", !.assets = Range(ownerAssets[w])]]
       \/ NetworkMayFail /\ owned' = [owned EXCEPT ![v].pc = "failed"]
    /\ UnchangedByList

\* What is shown of asset a: the last iNFT of the bot with its id, or else the
\* record of the contract, under an id that is none of an iNFT.
OwnedEntry(a) ==
    LET local == {x \in Listed(items) : items[x].asset = a} IN
    IF local = {} THEN [asset |-> a, inft |-> 0, ref |-> a.content.ref]
    ELSE [asset |-> a, inft |-> Max(local), ref |-> items[Max(local)].ref]

\* Then the slice is listed.  A record never changes but for its owner, so it does
\* not matter when it is read.
OwnedListINFTs(v) ==
    /\ owned[v].pc = "asked"
    /\ owned' = [owned EXCEPT ![v] =
           [pc |-> "done", assets |-> {}, shown |-> {OwnedEntry(a) : a \in owned[v].assets}]]
    /\ UnchangedByList

ListOwnedINFTsByWallet(v) == OwnedQueryChain(v) \/ OwnedListINFTs(v)

-----------------------------------------------------------------------------

Restarted(pc) == IF pc \in {"idle", "done"} THEN pc ELSE "failed"

\* Requests, goroutines and snapshots are gone, the slice is what the file holds.
Crash ==
    /\ crashes < MaxCrashes
    /\ crashes' = crashes + 1
    /\ Reload
    /\ pending' = {}
    /\ reg' = [r \in Registers |->
           IF reg[r].tx # "reading" THEN reg[r]
           ELSE [reg[r] EXCEPT !.copy = Blank, !.tx = "refused"]]
    /\ final' = [f \in Calls |-> NoJob("idle")]
    /\ uploader' = [f \in Calls |-> NoJob("none")]
    /\ regFinal' = [g \in RegCalls |-> NoJob("idle")]
    /\ distill' = [d \in Distills |-> [distill[d] EXCEPT !.pc = Restarted(@)]]
    /\ owned' = [v \in Viewers |-> [owned[v] EXCEPT !.pc = Restarted(@), !.assets = {}]]
    /\ UNCHANGED <<pub, confirmed, chainVars, transfers>>

\* getSnapshot removes a snapshot that is older than 15 minutes.
SnapshotExpires ==
    /\ MayExpire
    /\ \E k \in pending : pending' = pending \ {k}
    /\ UNCHANGED <<sliceVars, pub, reg, final, uploader, regFinal, confirmed, distill,
                   owned, chainVars, transfers, crashes>>

OtherWrite ==
    /\ FlushElsewhere
    /\ UNCHANGED <<pub, reg, pending, final, uploader, regFinal, confirmed, distill,
                   owned, chainVars, transfers, crashes>>

Next ==
    \/ CreateTrainingINFT \/ \E d \in Distills : CreateDistilledINFT(d)
    \/ \E p \in Publishes :
           PrepareINFTPublish(p) \/ WalletSendsPublish(p) \/ ChainMinesPublish(p)
    \/ \E f \in Calls : FinalizeINFTPublish(f) \/ completeWalletINFTUpload(f)
    \/ \E r \in Registers :
           \/ RegisterGetINFT(r) \/ PrepareINFTRegister(r)
           \/ WalletSendsRegister(r) \/ ChainMinesRegister(r)
    \/ \E g \in RegCalls : FinalizeINFTRegister(g)
    \/ transferAsset
    \/ \E v \in Viewers : ListOwnedINFTsByWallet(v)
    \/ SnapshotExpires
    \/ OtherWrite
    \/ Crash

Spec == Init /\ [][Next]_vars

-----------------------------------------------------------------------------
(***************************************************************************)
(* Properties                                                              *)
(***************************************************************************)

\* The root on an iNFT is the hash of its own content, and its transaction one
\* of a publish of this iNFT that the wallet sent, however many publishes of
\* several iNFTs are finalized at once and write whole slices back.
ProofIsOfOwnContent ==
    \A s \in {items, file} : \A x \in Listed(s) :
        LET ref == s[x].ref IN
        ref # None => ref.root = x /\ pub[ref.tx].inft = x /\ pub[ref.tx].tx \in Sent

\* An iNFT that the slice or the file says is registered is: the contract has the
\* asset, made from this iNFT's content, through any stale write, failed write,
\* transfer or restart.
RegisteredOnChain ==
    \A s \in {items, file} : \A x \in Listed(s) :
        LET a == s[x].asset IN
        a # None => assets[a] # None /\ a.content.ref.root = x

\* Every asset on the chain that names a parent names an asset that is on the
\* chain too and was made from the iNFT it is distilled from.
ProvenanceChain ==
    \A a \in AssetIds : assets[a] # None =>
        LET parent == made[a.content.ref.root].parent IN
        IF parent = 0 THEN a.content.parent = None
        ELSE /\ a.content.parent # None
             /\ assets[a.content.parent] # None
             /\ a.content.parent.content.ref.root = parent

\* The list of the iNFTs a wallet owns shows each asset with the data of the iNFT
\* it was made from, although chain and slice are read at different times.
OwnedShowsOwnContent ==
    \A v \in Viewers : \A e \in owned[v].shown :
        /\ assets[e.asset] # None
        /\ e.ref # None => e.ref.root = e.asset.content.ref.root
        /\ e.inft # 0 => e.inft = e.asset.content.ref.root

-----------------------------------------------------------------------------
(***************************************************************************)
(* What a page says, and does not hold.                                    *)
(***************************************************************************)

\* After register_finalize the page says that the iNFT is registered
\* (frontend/app.js:1887), and it stays so.  A goroutine of a publish that had
\* listed the slice before writes it back without the registration.
RegistrationSticks == \A x \in confirmed : x \in Listed(items) /\ items[x].asset # None
=============================================================================
