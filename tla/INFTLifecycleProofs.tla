------------------------- MODULE INFTLifecycleProofs -------------------------
(***************************************************************************)
(* What the slice, the chain and the list of a wallet's iNFTs say of an    *)
(* iNFT is about that iNFT, for any number of iNFTs, publishes,            *)
(* registrations, transfers and crashes.  What the contract keeps comes    *)
(* from MemoryRegistryProofs.                                              *)
(***************************************************************************)
EXTENDS INFTLifecycle, FiniteSetTheorems, SequenceTheorems, TLAPS

USE SliceAssumption, INFTAssumption
USE DEF Ids, Slices, NoItems, Listed, sliceVars, chainVars

RegistryProofs == INSTANCE MemoryRegistryProofs
    WITH Addresses <- Wallets, NoOwner <- None, Malformed <- {}

-----------------------------------------------------------------------------
(***************************************************************************)
(* What a slice says of its iNFTs, and what an asset says of its parent    *)
(***************************************************************************)

\* A slice lists iNFTs that were made.  A reference on one names its own root and a
\* publish of it that the wallet sent, and its asset is on the chain and made from it.
Sound(s, pubs, owners, n) ==
    \A x \in Listed(s) :
        /\ x <= n
        /\ LET ref == s[x].ref IN
           ref # None => ref.root = x /\ pubs[ref.tx].inft = x /\ pubs[ref.tx].tx \in Sent
        /\ LET a == s[x].asset IN
           a # None => owners[a] # None /\ a.content.ref.root = x

\* An asset was made from an iNFT, and names the asset of the parent of that, which
\* is on the chain, if it has one.
Founded(a, owners, makes) ==
    LET x == a.content.ref.root
        parent == makes[x].parent
        named == a.content.parent IN
    /\ x <= Len(makes)
    /\ IF parent = 0 THEN named = None
       ELSE named # None /\ owners[named] # None /\ named.content.ref.root = parent

\* A publish_finalize and its goroutine work on a publish of their iNFT that was sent.
PublishJob(job, over, pubs) ==
    job.pc # over =>
        /\ job.source \in Publishes
        /\ pubs[job.source].inft = job.inft /\ pubs[job.source].tx \in Sent

\* A register_finalize works on a registration of its iNFT, which was mined when it
\* goes on to list the slice.
RegisterJob(job, regs) ==
    job.pc # "idle" =>
        /\ job.source \in Registers /\ job.inft \in Ids
        /\ regs[job.source].inft = job.inft /\ regs[job.source].tx \in Sent
        /\ job.pc # "checking" => regs[job.source].tx = "success"
        /\ job.pc = "listed" => job.inft \in Listed(job.list)

\* A registration is of the iNFT that was read and published, and what is sent for it
\* is founded.
Registration(r, owners, makes) ==
    /\ r.tx = "reading" =>
           r.inft \in 1..Len(makes) /\ r.copy.ref \in Refs /\ r.copy.ref.root = r.inft
    /\ r.tx \in {"unsent"} \cup Sent =>
           /\ r.asset \in AssetIds /\ r.asset.content.ref.root = r.inft
           /\ Founded(r.asset, owners, makes)
    /\ r.tx = "success" => owners[r.asset] # None

\* Only training iNFTs are parents.
Lineage(makes) ==
    \A x \in 1..Len(makes) :
        /\ makes[x].kind = "training" => makes[x].parent = 0
        /\ LET parent == makes[x].parent IN
           parent # 0 => parent \in 1..Len(makes) /\ makes[parent].kind = "training"

-----------------------------------------------------------------------------
(***************************************************************************)
(* The inductive invariant: every part has the types of its variables      *)
(***************************************************************************)

MadeInv ==
    /\ made \in Seq(Origin) /\ Len(made) <= MaxItems
    /\ Lineage(made)

DistillInv ==
    /\ distill \in [Distills -> [pc : {"idle", "ready"} \cup Over, parent : Ids \cup {0}]]
    /\ \A d \in Distills : LET parent == distill[d].parent IN
           parent # 0 => parent <= Len(made) /\ made[parent].kind = "training"

SliceInv ==
    /\ items \in Slices(INFT) /\ file \in Slices(INFT)
    /\ Sound(items, pub, assets, Len(made)) /\ Sound(file, pub, assets, Len(made))

PubInv == pub \in [Publishes -> [inft : Ids \cup {0}, tx : TxStatus]]

FinalInv ==
    /\ final \in [Calls -> Job(FinalPC, Publishes)]
    /\ \A f \in Calls : /\ PublishJob(final[f], "idle", pub)
                        /\ Sound(final[f].list, pub, assets, Len(made))

UploadInv ==
    /\ uploader \in [Calls -> Job(UploadPC, Publishes)]
    /\ \A f \in Calls : /\ PublishJob(uploader[f], "none", pub)
                        /\ Sound(uploader[f].list, pub, assets, Len(made))

Reg == [inft : Ids \cup {0}, copy : INFT, asset : AssetIds \cup {None},
        tx : TxStatus \cup {"reading", "refused"}]

RegInv ==
    /\ reg \in [Registers -> Reg]
    /\ \A r \in Registers : Registration(reg[r], assets, made)

RegFinalInv ==
    /\ regFinal \in [RegCalls -> Job(RegPC, Registers)]
    /\ \A g \in RegCalls : /\ RegisterJob(regFinal[g], reg)
                           /\ Sound(regFinal[g].list, pub, assets, Len(made))

ChainInv ==
    /\ Registry!TypeOK /\ Registry!IndexExact
    /\ \A a \in AssetIds : assets[a] # None => Founded(a, assets, made)

OwnedInv ==
    /\ owned \in [Viewers -> [pc : {"idle", "asked"} \cup Over, assets : SUBSET AssetIds,
                              shown : SUBSET Entries]]
    /\ \A v \in Viewers : \A a \in owned[v].assets : assets[a] # None
    /\ OwnedShowsOwnContent

CountersInv ==
    /\ pending \subseteq Publishes \cup Registers
    /\ confirmed \subseteq Ids
    /\ transfers \in 0..MaxTransfers /\ crashes \in 0..MaxCrashes

INFTInv ==
    /\ MadeInv /\ DistillInv /\ SliceInv
    /\ PubInv /\ FinalInv /\ UploadInv
    /\ RegInv /\ RegFinalInv /\ ChainInv
    /\ OwnedInv /\ CountersInv

-----------------------------------------------------------------------------
(***************************************************************************)
(* Facts about values: maxima, lists, slices and assets                    *)
(***************************************************************************)

\* A set of ids has a largest one: the intervals from a member up to MaxItems are finite
\* sets, which strict inclusion orders well.
LEMMA MaxIsMember ==
    ASSUME NEW S \in SUBSET Ids, S # {}
    PROVE  Max(S) \in S
  <1> DEFINE Segments == {n..MaxItems : n \in S}
             R == StrictSubsetOrdering(Nat)
  <1>1. Segments \subseteq FiniteSubsetsOf(Nat)
    <2> SUFFICES ASSUME NEW n \in S PROVE n..MaxItems \in FiniteSubsetsOf(Nat)
      OBVIOUS
    <2>1. IsFiniteSet(n..MaxItems) /\ n..MaxItems \subseteq Nat
      BY FS_Interval
    <2> QED
      BY <2>1 DEF FiniteSubsetsOf
  <1>2. IsWellFoundedOn(R, FiniteSubsetsOf(Nat))
    BY FS_StrictSubsetOrderingWellFounded
  <1>3. Segments # {}
    OBVIOUS
  <1>4. PICK segment \in Segments : \A other \in Segments : <<other, segment>> \notin R
    <2> HIDE DEF Segments, R
    <2> QED
      BY <1>1, <1>2, <1>3, WFMin
  <1>5. PICK m \in S : segment = m..MaxItems
    OBVIOUS
  <1>6. \A y \in S : m >= y
    <2> SUFFICES ASSUME NEW y \in S, y > m PROVE FALSE
      OBVIOUS
    <2>1. /\ y..MaxItems \subseteq m..MaxItems /\ m \notin y..MaxItems /\ m \in m..MaxItems
          /\ y..MaxItems \in SUBSET Nat /\ m..MaxItems \in SUBSET Nat
      OBVIOUS
    <2>2. <<y..MaxItems, m..MaxItems>> \in R
      BY <2>1 DEF StrictSubsetOrdering
    <2> QED
      BY <1>4, <1>5, <2>2
  <1> QED
    BY <1>6 DEF Max

\* A parent is an asset, too.
LEMMA ParentsAreAssets ==
    /\ \A a \in AssetIds :
           /\ a.content \in Contents /\ a.content.ref.root \in Ids /\ a.creator \in Wallets
           /\ a.content.parent # None => a.content.parent \in Parents
    /\ Parents \subseteq AssetIds
  BY DEF AssetIds, Contents, Parents, Founders, Refs

\* A new iNFT gets the next id, and the iNFTs made before it stay what they are.
LEMMA AppendMade ==
    ASSUME NEW m \in Seq(Origin), NEW x \in Origin
    PROVE  /\ Append(m, x) \in Seq(Origin) /\ Len(Append(m, x)) = Len(m) + 1
           /\ Len(m) \in Nat /\ Append(m, x)[Len(m) + 1] = x
           /\ \A i \in 1..Len(m) : Append(m, x)[i] = m[i]
  BY AppendProperties, LenProperties

\* What never goes back: the publishes and registrations that were sent, the assets on
\* the chain, and what the iNFTs are made of.
PubsGrow(pubs, pubs2) ==
    \A p \in Publishes : pubs[p].tx \in Sent => pubs2[p].inft = pubs[p].inft /\ pubs2[p].tx \in Sent

RegsGrow(regs, regs2) ==
    \A r \in Registers : regs[r].tx \in Sent =>
        /\ regs2[r].inft = regs[r].inft /\ regs2[r].tx \in Sent
        /\ regs[r].tx = "success" => regs2[r].tx = "success"

OwnersGrow(owners, owners2) == \A a \in AssetIds : owners[a] # None => owners2[a] # None

MadeGrows(makes, makes2) ==
    /\ Len(makes) \in Nat /\ Len(makes2) \in Nat /\ Len(makes) <= Len(makes2)
    /\ \A x \in 1..Len(makes) : makes2[x] = makes[x]

\* What a slice says stays true when iNFTs are made, publishes sent and assets registered.
LEMMA SoundGrows ==
    ASSUME NEW s \in Slices(INFT), NEW pubs, NEW pubs2, NEW owners, NEW owners2,
           NEW m \in Nat, NEW n \in Nat, Sound(s, pubs, owners, m),
           PubsGrow(pubs, pubs2), OwnersGrow(owners, owners2), m <= n
    PROVE  Sound(s, pubs2, owners2, n)
  <1> SUFFICES ASSUME NEW x \in Listed(s)
               PROVE  /\ x <= n
                      /\ s[x].ref # None => /\ s[x].ref.root = x
                                            /\ pubs2[s[x].ref.tx].inft = x
                                            /\ pubs2[s[x].ref.tx].tx \in Sent
                      /\ s[x].asset # None => /\ owners2[s[x].asset] # None
                                              /\ s[x].asset.content.ref.root = x
    BY DEF Sound
  <1>1. /\ x <= m
        /\ s[x].ref # None => /\ s[x].ref.root = x /\ pubs[s[x].ref.tx].inft = x
                              /\ pubs[s[x].ref.tx].tx \in Sent
        /\ s[x].asset # None => /\ owners[s[x].asset] # None
                                /\ s[x].asset.content.ref.root = x
    BY DEF Sound
  <1>2. s[x] \in INFT
    OBVIOUS
  <1>3. s[x].ref \in Refs \cup {None} /\ s[x].asset \in AssetIds \cup {None}
    BY <1>2 DEF INFT
  <1>4. s[x].ref # None => s[x].ref.tx \in Publishes
    BY <1>3 DEF Refs
  <1> QED
    BY <1>1, <1>3, <1>4 DEF PubsGrow, OwnersGrow

\* An asset that was founded stays founded.
LEMMA FoundedGrows ==
    ASSUME NEW a \in AssetIds, NEW owners, NEW owners2, NEW makes, NEW makes2,
           Founded(a, owners, makes), OwnersGrow(owners, owners2), MadeGrows(makes, makes2)
    PROVE  Founded(a, owners2, makes2)
  <1>1. /\ a.content.ref.root \in 1..Len(makes)
        /\ a.content.parent # None => a.content.parent \in AssetIds
    BY ParentsAreAssets DEF Founded, MadeGrows
  <1> QED
    BY <1>1 DEF Founded, OwnersGrow, MadeGrows

\* A registration stays one of its iNFT.
LEMMA RegistrationGrows ==
    ASSUME NEW r \in Reg, NEW owners, NEW owners2, NEW makes, NEW makes2,
           Registration(r, owners, makes), OwnersGrow(owners, owners2), MadeGrows(makes, makes2)
    PROVE  Registration(r, owners2, makes2)
  <1>1. r.tx \in {"unsent"} \cup Sent => r.asset \in AssetIds /\ Founded(r.asset, owners2, makes2)
    BY FoundedGrows DEF Registration
  <1>2. r.tx = "success" => owners2[r.asset] # None
    BY DEF Registration, OwnersGrow, Sent
  <1> QED
    BY <1>1, <1>2 DEF Registration, MadeGrows

\* The empty list says nothing.
LEMMA NothingListed ==
    /\ NoItems \in Slices(INFT) /\ Blank \in INFT
    /\ \A pubs, owners, n : Sound(NoItems, pubs, owners, n)
  BY DEF Sound, Blank, INFT

\* A slice may get the iNFT that was created last.
LEMMA AddedSound ==
    ASSUME NEW s \in Slices(INFT), NEW pubs, NEW owners, NEW n \in Nat, n + 1 \in Ids,
           Sound(s, pubs, owners, n)
    PROVE  /\ [s EXCEPT ![n + 1] = Blank] \in Slices(INFT)
           /\ Sound([s EXCEPT ![n + 1] = Blank], pubs, owners, n + 1)
  <1> DEFINE t == [s EXCEPT ![n + 1] = Blank]
  <1>1. /\ t \in Slices(INFT) /\ t[n + 1] = Blank
        /\ \A x \in Ids \ {n + 1} : t[x] = s[x]
    BY NothingListed
  <1>2. Blank.ref = None /\ Blank.asset = None
    BY DEF Blank
  <1> HIDE DEF t
  <1>3. Sound(t, pubs, owners, n + 1)
    BY <1>1, <1>2 DEF Sound
  <1> QED
    BY <1>1, <1>3 DEF t

\* What a publish records is about the iNFT of the job.
LEMMA PublishedSound ==
    ASSUME PubInv, NEW job, NEW none, NEW owners, NEW n \in Nat,
           job.list \in Slices(INFT), job.pc # none, PublishJob(job, none, pub),
           Sound(job.list, pub, owners, n)
    PROVE  /\ Published(job) \in Slices(INFT)
           /\ Sound(Published(job), pub, owners, n)
  <1> DEFINE x == job.inft
             s == job.list
             ref == [root |-> pub[job.source].inft, tx |-> job.source]
             t == [s EXCEPT ![x] = [@ EXCEPT !.ref = ref]]
  <1>1. CASE x \notin Listed(s)
    BY <1>1 DEF Published
  <1>2. CASE x \in Listed(s)
    <2>1. Published(job) = t
      BY <1>2 DEF Published
    <2>2. /\ x \in Ids /\ s[x] \in INFT /\ job.source \in Publishes
          /\ pub[job.source].inft = x /\ pub[job.source].tx \in Sent
      BY <1>2 DEF PublishJob
    <2>3. ref \in Refs /\ ref.root = x /\ ref.tx = job.source
      BY <2>2 DEF Refs
    <2> HIDE DEF ref
    <2>4. /\ [s[x] EXCEPT !.ref = ref] \in INFT
          /\ [s[x] EXCEPT !.ref = ref].ref = ref
          /\ [s[x] EXCEPT !.ref = ref].asset = s[x].asset
      BY <2>2, <2>3 DEF INFT
    <2>5. /\ t \in Slices(INFT) /\ t[x].ref = ref /\ t[x].asset = s[x].asset
          /\ \A y \in Ids \ {x} : t[y] = s[y]
      BY <2>2, <2>4
    <2> HIDE DEF t, x, s
    <2>6. Sound(t, pub, owners, n)
      <3>1. \A y \in Listed(t) \ {x} : y \in Listed(s)
        BY <2>5
      <3>2. x \in Listed(s)
        BY <1>2
      <3> QED
        BY <2>2, <2>3, <2>5, <3>1, <3>2 DEF Sound, s
    <2> QED
      BY <2>1, <2>5, <2>6
  <1> QED
    BY <1>1, <1>2

\* What a registration records is about the iNFT of the job, and on the chain.
LEMMA RegisteredSound ==
    ASSUME RegInv, NEW job, NEW pubs, NEW n \in Nat,
           job.list \in Slices(INFT), job.pc = "listed", RegisterJob(job, reg),
           Sound(job.list, pubs, assets, n)
    PROVE  /\ Registered(job) \in Slices(INFT)
           /\ Sound(Registered(job), pubs, assets, n)
  <1> DEFINE x == job.inft
             s == job.list
             a == reg[job.source].asset
             t == [s EXCEPT ![x] = [@ EXCEPT !.asset = a]]
  <1>1. Registered(job) = t
    BY DEF Registered
  <1>2. /\ x \in Listed(s) /\ s[x] \in INFT /\ job.source \in Registers
        /\ reg[job.source].inft = x /\ reg[job.source].tx = "success"
    BY DEF RegisterJob
  <1>3. a \in AssetIds /\ a.content.ref.root = x /\ assets[a] # None
    BY <1>2 DEF RegInv, Registration, Sent
  <1> HIDE DEF a
  <1>4. /\ [s[x] EXCEPT !.asset = a] \in INFT
        /\ [s[x] EXCEPT !.asset = a].asset = a
        /\ [s[x] EXCEPT !.asset = a].ref = s[x].ref
    BY <1>2, <1>3 DEF INFT
  <1>5. /\ t \in Slices(INFT) /\ t[x].asset = a /\ t[x].ref = s[x].ref
        /\ \A y \in Ids \ {x} : t[y] = s[y]
    BY <1>2, <1>4
  <1>6. Sound(s, pubs, assets, n)
    OBVIOUS
  <1> HIDE DEF t, x, s
  <1>7. Sound(t, pubs, assets, n)
    <2>1. \A y \in Listed(t) \ {x} : y \in Listed(s)
      BY <1>5
    <2> QED
      BY <1>2, <1>3, <1>5, <1>6, <2>1 DEF Sound
  <1> QED
    BY <1>1, <1>5, <1>7

\* A slice that is written replaces the one in memory, and maybe the one in the file.
LEMMA UpdateSlices ==
    ASSUME SliceInv, NEW s \in Slices(INFT), NEW ok, Update(s, ok),
           NEW n \in Nat, Sound(s, pub, assets, n), Sound(file, pub, assets, n)
    PROVE  /\ items' \in Slices(INFT) /\ file' \in Slices(INFT)
           /\ Sound(items', pub, assets, n) /\ Sound(file', pub, assets, n)
  <1>1. items' = s /\ (file' = s \/ file' = file)
    BY DEF Update
  <1> QED
    BY <1>1 DEF SliceInv

-----------------------------------------------------------------------------
(***************************************************************************)
(* The parts of the invariant a step does not touch                        *)
(***************************************************************************)

\* What a step may do to the facts that the parts rest on.
StateGrows ==
    /\ PubsGrow(pub, pub') /\ RegsGrow(reg, reg')
    /\ OwnersGrow(assets, assets') /\ MadeGrows(made, made')

\* What stays the same has grown.
LEMMA NothingShrinks ==
    ASSUME INFTInv
    PROVE  /\ PubsGrow(pub, pub) /\ RegsGrow(reg, reg) /\ OwnersGrow(assets, assets)
           /\ MadeGrows(made, made)
  BY DEF PubsGrow, RegsGrow, OwnersGrow, MadeGrows, INFTInv, MadeInv

\* The parts of the invariant that an action leaves alone stay true when the state grows:
\* the two slices ...
LEMMA SlicesKept ==
    ASSUME SliceInv, StateGrows, UNCHANGED <<items, file>>
    PROVE  SliceInv'
  BY SoundGrows DEF SliceInv, StateGrows, MadeGrows

\* ... the finalize calls ...
LEMMA FinalKept == ASSUME FinalInv, StateGrows, UNCHANGED final PROVE FinalInv'
  <1>1. \A f \in Calls : final[f].list \in Slices(INFT)
    BY DEF FinalInv, Job
  <1>2. \A f \in Calls : Sound(final[f].list, pub', assets', Len(made'))
    BY <1>1, SoundGrows DEF FinalInv, StateGrows, MadeGrows
  <1>3. \A f \in Calls : PublishJob(final[f], "idle", pub')
    BY DEF FinalInv, PublishJob, StateGrows, PubsGrow
  <1> QED
    BY <1>2, <1>3 DEF FinalInv

\* ... their goroutines ...
LEMMA UploadKept == ASSUME UploadInv, StateGrows, UNCHANGED uploader PROVE UploadInv'
  <1>1. \A f \in Calls : uploader[f].list \in Slices(INFT)
    BY DEF UploadInv, Job
  <1>2. \A f \in Calls : Sound(uploader[f].list, pub', assets', Len(made'))
    BY <1>1, SoundGrows DEF UploadInv, StateGrows, MadeGrows
  <1>3. \A f \in Calls : PublishJob(uploader[f], "none", pub')
    BY DEF UploadInv, PublishJob, StateGrows, PubsGrow
  <1> QED
    BY <1>2, <1>3 DEF UploadInv

\* ... the finalize calls of registrations ...
LEMMA RegFinalKept == ASSUME RegFinalInv, StateGrows, UNCHANGED regFinal PROVE RegFinalInv'
  <1>1. \A g \in RegCalls : regFinal[g].list \in Slices(INFT)
    BY DEF RegFinalInv, Job
  <1>2. \A g \in RegCalls : Sound(regFinal[g].list, pub', assets', Len(made'))
    BY <1>1, SoundGrows DEF RegFinalInv, StateGrows, MadeGrows
  <1>3. \A g \in RegCalls : RegisterJob(regFinal[g], reg')
    BY DEF RegFinalInv, RegisterJob, StateGrows, RegsGrow
  <1> QED
    BY <1>2, <1>3 DEF RegFinalInv

\* ... the registrations ...
LEMMA RegKept == ASSUME RegInv, StateGrows, UNCHANGED reg PROVE RegInv'
  BY RegistrationGrows DEF RegInv, StateGrows

\* ... the lists of owned iNFTs ...
LEMMA OwnedKept == ASSUME OwnedInv, StateGrows, UNCHANGED owned PROVE OwnedInv'
  <1>1. /\ \A v \in Viewers : owned[v].assets \subseteq AssetIds
        /\ \A v \in Viewers : \A e \in owned[v].shown : e.asset \in AssetIds
    BY DEF OwnedInv, Entries
  <1> QED
    BY <1>1 DEF OwnedInv, OwnedShowsOwnContent, StateGrows, OwnersGrow

\* ... and the distills.
LEMMA DistillKept ==
    ASSUME DistillInv, StateGrows, UNCHANGED distill
    PROVE  DistillInv'
  <1>1. \A d \in Distills : distill[d].parent \in Ids \cup {0}
    BY DEF DistillInv
  <1>2. \A d \in Distills : LET parent == distill[d].parent IN
            parent # 0 => parent <= Len(made') /\ made'[parent].kind = "training"
    BY <1>1 DEF DistillInv, StateGrows, MadeGrows
  <1> QED
    BY <1>2 DEF DistillInv

\* An action that leaves the contract alone keeps what is true of it.
LEMMA ChainKept == ASSUME ChainInv, StateGrows, UNCHANGED chainVars PROVE ChainInv'
  <1>1. Registry!TypeOK' /\ Registry!IndexExact'
    BY DEF ChainInv, Registry!TypeOK, Registry!IndexExact
  <1>2. \A a \in AssetIds : assets'[a] # None => Founded(a, assets', made')
    BY FoundedGrows DEF ChainInv, StateGrows
  <1> QED
    BY <1>1, <1>2 DEF ChainInv

-----------------------------------------------------------------------------

\* The invariant holds of the empty server and chain.
LEMMA InitInv == Init => INFTInv
  <1> SUFFICES ASSUME Init PROVE INFTInv
    OBVIOUS
  <1> USE DEF Init
  <1>1. MadeInv /\ DistillInv /\ PubInv /\ CountersInv
    BY DEF MadeInv, DistillInv, PubInv, CountersInv, Lineage, TxStatus, Over
  <1>2. SliceInv
    BY NothingListed DEF SliceInv
  <1>3. FinalInv /\ UploadInv /\ RegFinalInv
    <2>1. /\ NoJob("idle") \in Job(FinalPC, Publishes) /\ NoJob("none") \in Job(UploadPC, Publishes)
          /\ NoJob("idle") \in Job(RegPC, Registers)
          /\ \A pc : NoJob(pc).pc = pc /\ NoJob(pc).list = NoItems
      BY NothingListed DEF NoJob, Job, FinalPC, UploadPC, RegPC
    <2> QED
      BY <2>1, NothingListed DEF FinalInv, UploadInv, RegFinalInv, PublishJob, RegisterJob
  <1>4. RegInv
    BY NothingListed DEF RegInv, Reg, Registration, TxStatus, Sent
  <1>5. ChainInv
    <2>1. /\ assets = [id \in AssetIds |-> None]
          /\ ownerAssets = [o \in Wallets |-> << >>]
      BY DEF Registry!Init, Registry!AssetIds, AssetIds
    <2>2. Registry!TypeOK
      BY <2>1 DEF Registry!TypeOK, Registry!AssetIds, AssetIds
    <2>3. Registry!IndexExact
      BY <2>1 DEF Registry!IndexExact, Registry!IsInjective, Registry!Range, Registry!AssetIds,
                  AssetIds
    <2> QED
      BY <2>1, <2>2, <2>3 DEF ChainInv
  <1>6. OwnedInv
    BY DEF OwnedInv, OwnedShowsOwnContent
  <1> QED
    BY <1>1, <1>2, <1>3, <1>4, <1>5, <1>6 DEF INFTInv

-----------------------------------------------------------------------------
(***************************************************************************)
(* Creating iNFTs                                                          *)
(***************************************************************************)

\* A training iNFT, or one distilled from a training iNFT, keeps the lineage.
LEMMA LineageAppended ==
    ASSUME NEW m \in Seq(Origin), Lineage(m), NEW fields \in Origin,
           fields.kind = "training" => fields.parent = 0,
           fields.parent # 0 => /\ fields.parent \in 1..Len(m)
                                /\ m[fields.parent].kind = "training"
    PROVE  Lineage(Append(m, fields))
  <1> DEFINE n == Len(m)
             m2 == Append(m, fields)
  <1>1. /\ n \in Nat /\ Len(m2) = n + 1 /\ m2[n + 1] = fields
        /\ \A i \in 1..n : m2[i] = m[i]
    BY AppendMade
  <1> HIDE DEF m2
  <1>2. \A x \in 1..(n + 1) : x \in 1..n \/ x = n + 1
    BY <1>1
  <1>3. Lineage(m2)
    BY <1>1, <1>2 DEF Lineage
  <1> QED
    BY <1>3 DEF m2

\* Saving an iNFT that was just made: the slice grows by an entry without references.
LEMMA SaveStep ==
    ASSUME INFTInv, NEW fields \in Origin, NEW ok \in BOOLEAN, Save(fields, Blank, ok),
           fields.kind = "training" => fields.parent = 0,
           fields.parent # 0 => /\ fields.parent <= Len(made)
                                /\ made[fields.parent].kind = "training",
           UNCHANGED <<pub, reg, assets>>
    PROVE  MadeInv' /\ SliceInv' /\ StateGrows
  <1> DEFINE s == [items EXCEPT ![Len(made) + 1] = Blank]
  <1>1. /\ Len(made) < MaxItems /\ made' = Append(made, fields) /\ Update(s, ok)
    BY DEF Save
  <1>2. MadeInv /\ SliceInv
    BY DEF INFTInv
  <1>3. /\ made' \in Seq(Origin) /\ Len(made) \in Nat /\ Len(made') = Len(made) + 1
        /\ \A i \in 1..Len(made) : made'[i] = made[i]
    BY <1>1, <1>2, AppendMade DEF MadeInv
  <1>4. fields.parent \in Nat
    BY DEF Origin
  <1>5. MadeInv'
    <2>1. fields.parent # 0 => fields.parent \in 1..Len(made)
      BY <1>3, <1>4
    <2>2. Lineage(made')
      BY <1>1, <1>2, <2>1, LineageAppended DEF MadeInv
    <2> QED
      BY <1>1, <1>3, <2>2 DEF MadeInv
  <1>6. StateGrows
    BY <1>3, NothingShrinks DEF StateGrows, MadeGrows
  <1>7. /\ s \in Slices(INFT) /\ Sound(s, pub, assets, Len(made'))
    <2>1. Len(made) + 1 \in Ids
      BY <1>1, <1>3
    <2>2. /\ items \in Slices(INFT) /\ Sound(items, pub, assets, Len(made))
      BY <1>2 DEF SliceInv
    <2>3. s \in Slices(INFT) /\ Sound(s, pub, assets, Len(made) + 1)
      BY <1>3, <2>1, <2>2, AddedSound
    <2> QED
      BY <1>3, <2>3
  <1>8. Sound(file, pub, assets, Len(made'))
    BY <1>2, <1>3, <1>6, SoundGrows, NothingShrinks DEF SliceInv
  <1> HIDE DEF s
  <1>9. SliceInv'
    <2>1. items' = s /\ file' \in {s, file}
      BY <1>1 DEF Update
    <2>2. file \in Slices(INFT) /\ UNCHANGED <<pub, assets>>
      BY <1>2 DEF SliceInv
    <2> HIDE DEF Slices
    <2> QED
      BY <1>7, <1>8, <2>1, <2>2 DEF SliceInv
  <1> QED
    BY <1>5, <1>6, <1>9

\* Creating changes nothing but the slice and the request.
LEMMA CreateKeeps ==
    ASSUME INFTInv, StateGrows, UnchangedByCreate, MadeInv', SliceInv', DistillInv'
    PROVE  INFTInv'
  <1>1. FinalInv' /\ UploadInv' /\ RegFinalInv' /\ RegInv' /\ OwnedInv' /\ ChainInv'
    BY FinalKept, UploadKept, RegFinalKept, RegKept, OwnedKept, ChainKept
    DEF INFTInv, UnchangedByCreate
  <1>2. PubInv' /\ CountersInv'
    BY DEF INFTInv, UnchangedByCreate, PubInv, CountersInv
  <1> QED
    BY <1>1, <1>2 DEF INFTInv

\* A training iNFT has no parent.
LEMMA CreateTrainingStep == ASSUME INFTInv, CreateTrainingINFT PROVE INFTInv'
  <1>1. PICK ok \in BOOLEAN : Save([kind |-> "training", parent |-> 0], Blank, ok)
    BY DEF CreateTrainingINFT
  <1>2. UNCHANGED distill /\ UnchangedByCreate
    BY DEF CreateTrainingINFT
  <1>3. [kind |-> "training", parent |-> 0] \in Origin
    BY DEF Origin
  <1>4. MadeInv' /\ SliceInv' /\ StateGrows
    BY <1>1, <1>2, <1>3, SaveStep DEF UnchangedByCreate
  <1>5. DistillInv'
    BY <1>2, <1>4, DistillKept DEF INFTInv
  <1> QED
    BY <1>2, <1>4, <1>5, CreateKeeps

\* The parent that is looked up is a training iNFT.
LEMMA LatestIsTraining ==
    ASSUME INFTInv
    PROVE  /\ latestTrainingINFTID \in Ids \cup {0}
           /\ latestTrainingINFTID # 0 => /\ latestTrainingINFTID <= Len(made)
                                          /\ made[latestTrainingINFTID].kind = "training"
  <1> DEFINE training == {x \in Listed(items) : made[x].kind = "training"}
  <1>1. CASE training = {}
    BY <1>1 DEF latestTrainingINFTID
  <1>2. CASE training # {}
    <2>1. latestTrainingINFTID = Max(training)
      BY <1>2 DEF latestTrainingINFTID
    <2>2. Max(training) \in training
      <3>1. training \in SUBSET Ids
        OBVIOUS
      <3> HIDE DEF training
      <3> QED
        BY <1>2, <3>1, MaxIsMember
    <2>3. \A x \in training : x \in Ids /\ x <= Len(made) /\ made[x].kind = "training"
      BY DEF INFTInv, SliceInv, Sound
    <2> QED
      BY <2>1, <2>2, <2>3
  <1> QED
    BY <1>1, <1>2

\* A distill reads the training iNFT it takes for its parent.
LEMMA DistillReadStep ==
    ASSUME INFTInv, NEW d \in Distills, DistillReadParent(d)
    PROVE  INFTInv'
  <1>1. /\ distill' = [distill EXCEPT ![d] = [pc |-> "ready", parent |-> latestTrainingINFTID]]
        /\ UNCHANGED <<items, file, made>> /\ UnchangedByCreate
    BY DEF DistillReadParent
  <1>2. StateGrows
    BY <1>1, NothingShrinks DEF UnchangedByCreate, StateGrows
  <1>3. MadeInv' /\ SliceInv'
    BY <1>1, <1>2, SlicesKept DEF INFTInv, MadeInv
  <1>4. DistillInv'
    <2>1. distill' \in [Distills -> [pc : {"idle", "ready"} \cup Over, parent : Ids \cup {0}]]
      BY <1>1, LatestIsTraining DEF INFTInv, DistillInv
    <2>2. /\ distill'[d].parent = latestTrainingINFTID
          /\ \A e \in Distills \ {d} : distill'[e] = distill[e]
      BY <1>1 DEF INFTInv, DistillInv
    <2> QED
      BY <1>1, <2>1, <2>2, LatestIsTraining DEF INFTInv, DistillInv
  <1> QED
    BY <1>1, <1>2, <1>3, <1>4, CreateKeeps

\* A distilled iNFT names the parent that was read.
LEMMA DistillSaveStep ==
    ASSUME INFTInv, NEW d \in Distills, DistillSave(d)
    PROVE  INFTInv'
  <1> DEFINE fields == [kind |-> "distilled", parent |-> distill[d].parent]
  <1>1. PICK ok \in BOOLEAN :
            /\ Save(fields, Blank, ok)
            /\ distill' = [distill EXCEPT ![d].pc = IF ok THEN "done" ELSE "failed"]
    BY DEF DistillSave
  <1>2. UnchangedByCreate
    BY DEF DistillSave
  <1>3. /\ distill[d].parent \in Ids \cup {0}
        /\ distill[d].parent # 0 => /\ distill[d].parent <= Len(made)
                                    /\ made[distill[d].parent].kind = "training"
    BY DEF INFTInv, DistillInv
  <1>4. fields \in Origin /\ fields.kind = "distilled" /\ fields.parent = distill[d].parent
    BY <1>3 DEF Origin
  <1> HIDE DEF fields
  <1>5. MadeInv' /\ SliceInv' /\ StateGrows
    BY <1>1, <1>2, <1>3, <1>4, SaveStep DEF UnchangedByCreate
  <1>6. DistillInv'
    <2>1. /\ distill' \in [Distills -> [pc : {"idle", "ready"} \cup Over, parent : Ids \cup {0}]]
          /\ \A e \in Distills : distill'[e].parent = distill[e].parent
      BY <1>1 DEF INFTInv, DistillInv, Over
    <2>2. \A e \in Distills : LET parent == distill[e].parent IN
              parent # 0 => parent <= Len(made') /\ made'[parent].kind = "training"
      BY <1>5 DEF INFTInv, DistillInv, StateGrows, MadeGrows
    <2> QED
      BY <2>1, <2>2 DEF DistillInv
  <1> QED
    BY <1>2, <1>5, <1>6, CreateKeeps

-----------------------------------------------------------------------------
(***************************************************************************)
(* Publishing: the snapshots and transactions                              *)
(***************************************************************************)

\* A step of the publishes keeps the transactions that were sent.
LEMMA PublishesStep ==
    ASSUME INFTInv, UnchangedByPublish, UNCHANGED <<items, file, final, uploader>>,
           PubInv', PubsGrow(pub, pub'), pending' \subseteq pending \cup Publishes
    PROVE  INFTInv'
  <1>1. StateGrows
    BY NothingShrinks DEF UnchangedByPublish, StateGrows
  <1>2. SliceInv' /\ FinalInv' /\ UploadInv' /\ RegFinalInv' /\ RegInv' /\ OwnedInv'
        /\ ChainInv' /\ DistillInv'
    BY <1>1, SlicesKept, FinalKept, UploadKept, RegFinalKept, RegKept, OwnedKept, ChainKept,
       DistillKept DEF INFTInv, UnchangedByPublish
  <1>3. MadeInv' /\ CountersInv'
    BY DEF INFTInv, UnchangedByPublish, MadeInv, CountersInv
  <1> QED
    BY <1>2, <1>3 DEF INFTInv

\* A publish is prepared for one listed iNFT.
LEMMA PreparePublishStep ==
    ASSUME INFTInv, NEW p \in Publishes, PrepareINFTPublish(p)
    PROVE  INFTInv'
  <1>1. PICK x \in Listed(items) : pub' = [pub EXCEPT ![p] = [inft |-> x, tx |-> "unsent"]]
    BY DEF PrepareINFTPublish
  <1>2. /\ pub[p].tx = "none" /\ pending' = pending \cup {p}
        /\ UNCHANGED <<items, file, final, uploader>> /\ UnchangedByPublish
    BY DEF PrepareINFTPublish
  <1>3. pub \in [Publishes -> [inft : Ids \cup {0}, tx : TxStatus]]
    BY DEF INFTInv, PubInv
  <1>4. PubInv'
    BY <1>1, <1>3 DEF PubInv, TxStatus
  <1>5. PubsGrow(pub, pub')
    BY <1>1, <1>2, <1>3 DEF PubsGrow, Sent
  <1> QED
    BY <1>2, <1>4, <1>5, PublishesStep

\* The wallet and the chain move a publish along, and never to another iNFT.
LEMMA PublishTxStep ==
    ASSUME INFTInv, NEW p \in Publishes, NEW status \in Sent,
           pub[p].tx \in {"unsent", "pending"}, SetPublishTx(p, status)
    PROVE  INFTInv'
  <1>1. /\ pub' = [pub EXCEPT ![p].tx = status]
        /\ UNCHANGED <<items, file, pending, final, uploader>> /\ UnchangedByPublish
    BY DEF SetPublishTx
  <1>2. pub \in [Publishes -> [inft : Ids \cup {0}, tx : TxStatus]]
    BY DEF INFTInv, PubInv
  <1>3. PubInv'
    BY <1>1, <1>2 DEF PubInv, TxStatus, Sent
  <1>4. PubsGrow(pub, pub')
    BY <1>1, <1>2 DEF PubsGrow, Sent
  <1> QED
    BY <1>1, <1>3, <1>4, PublishesStep

-----------------------------------------------------------------------------
(***************************************************************************)
(* Publishing: the requests and their goroutines                           *)
(***************************************************************************)

\* What a request or goroutine has: a publish of its iNFT, and a sound slice.
PublishJobNow(job, over) ==
    PublishJob(job, over, pub) /\ Sound(job.list, pub, assets, Len(made))

\* A call without a job works on nothing and has listed nothing.
LEMMA IdleJobs ==
    /\ NoJob("idle") \in Job(FinalPC, Publishes) /\ PublishJobNow(NoJob("idle"), "idle")
    /\ NoJob("none") \in Job(UploadPC, Publishes) /\ PublishJobNow(NoJob("none"), "none")
    /\ NoJob("idle") \in Job(RegPC, Registers) /\ NoJob("idle").pc = "idle"
    /\ NoJob("idle").list = NoItems
  <1>1. \A pc : NoJob(pc).pc = pc /\ NoJob(pc).list = NoItems
    BY DEF NoJob
  <1>2. /\ NoJob("idle") \in Job(FinalPC, Publishes) /\ NoJob("none") \in Job(UploadPC, Publishes)
        /\ NoJob("idle") \in Job(RegPC, Registers)
    BY NothingListed DEF NoJob, Job, FinalPC, UploadPC, RegPC
  <1> QED
    BY <1>1, <1>2, NothingListed DEF PublishJobNow, PublishJob

\* The steps of publish_finalize and of its goroutine: the slice stays sound, and each
\* goes on with a job that is.
LEMMA JobsStep ==
    ASSUME INFTInv, NEW f \in Calls, UnchangedByPublish, UNCHANGED pub, SliceInv',
           pending' \subseteq pending,
           NEW job \in Job(FinalPC, Publishes), PublishJobNow(job, "idle"),
           UNCHANGED final \/ final' = [final EXCEPT ![f] = job],
           NEW upload \in Job(UploadPC, Publishes), PublishJobNow(upload, "none"),
           UNCHANGED uploader \/ uploader' = [uploader EXCEPT ![f] = upload]
    PROVE  INFTInv'
  <1>1. StateGrows
    BY NothingShrinks DEF UnchangedByPublish, StateGrows
  <1>2. FinalInv'
    <2>1. CASE UNCHANGED final
      BY <1>1, <2>1, FinalKept DEF INFTInv
    <2>2. CASE final' = [final EXCEPT ![f] = job]
      <3>1. final \in [Calls -> Job(FinalPC, Publishes)]
        BY DEF INFTInv, FinalInv
      <3>2. /\ final' \in [Calls -> Job(FinalPC, Publishes)]
            /\ \A h \in Calls : final'[h] = IF h = f THEN job ELSE final[h]
        BY <2>2, <3>1
      <3>3. \A h \in Calls : PublishJobNow(final'[h], "idle")
        BY <3>2 DEF INFTInv, FinalInv, PublishJobNow
      <3> QED
        BY <3>2, <3>3 DEF FinalInv, PublishJobNow, UnchangedByPublish
    <2> QED
      BY <2>1, <2>2
  <1>3. UploadInv'
    <2>1. CASE UNCHANGED uploader
      BY <1>1, <2>1, UploadKept DEF INFTInv
    <2>2. CASE uploader' = [uploader EXCEPT ![f] = upload]
      <3>1. uploader \in [Calls -> Job(UploadPC, Publishes)]
        BY DEF INFTInv, UploadInv
      <3>2. /\ uploader' \in [Calls -> Job(UploadPC, Publishes)]
            /\ \A h \in Calls : uploader'[h] = IF h = f THEN upload ELSE uploader[h]
        BY <2>2, <3>1
      <3>3. \A h \in Calls : PublishJobNow(uploader'[h], "none")
        BY <3>2 DEF INFTInv, UploadInv, PublishJobNow
      <3> QED
        BY <3>2, <3>3 DEF UploadInv, PublishJobNow, UnchangedByPublish
    <2> QED
      BY <2>1, <2>2
  <1>4. RegFinalInv' /\ RegInv' /\ OwnedInv' /\ ChainInv' /\ DistillInv'
    BY <1>1, RegFinalKept, RegKept, OwnedKept, ChainKept, DistillKept
    DEF INFTInv, UnchangedByPublish
  <1>5. MadeInv' /\ PubInv' /\ CountersInv'
    BY DEF INFTInv, UnchangedByPublish, MadeInv, PubInv, CountersInv
  <1> QED
    BY <1>2, <1>3, <1>4, <1>5 DEF INFTInv

\* The steps that keep the slice.
LEMMA SliceStays ==
    ASSUME INFTInv, UNCHANGED <<items, file, pub, assets, made>>
    PROVE  SliceInv'
  BY DEF INFTInv, SliceInv

\* A finalize starts only for a publish that was sent.
LEMMA FinalizeSnapshotStep ==
    ASSUME INFTInv, NEW f \in Calls, FinalizeGetSnapshot(f)
    PROVE  INFTInv'
  <1>1. PICK x \in 1..Len(made), k \in Publishes \cup Registers :
            /\ SnapshotFits(k, x) /\ pub[k].tx \in Sent
            /\ final' = [final EXCEPT
                   ![f] = [@ EXCEPT !.pc = "checking", !.source = k, !.inft = x]]
    BY DEF FinalizeGetSnapshot
  <1>2. UNCHANGED <<items, file, pub, pending, uploader>> /\ UnchangedByPublish
    BY DEF FinalizeGetSnapshot
  <1>3. /\ x \in Ids /\ k \in Publishes /\ pub[k].inft = x
        /\ final \in [Calls -> Job(FinalPC, Publishes)]
        /\ Sound(final[f].list, pub, assets, Len(made))
    BY <1>1 DEF SnapshotFits, INFTInv, MadeInv, FinalInv
  <1> DEFINE job == [final[f] EXCEPT !.pc = "checking", !.source = k, !.inft = x]
  <1>4. /\ job \in Job(FinalPC, Publishes) /\ job.source = k /\ job.inft = x
        /\ job.list = final[f].list /\ final' = [final EXCEPT ![f] = job]
    BY <1>1, <1>3 DEF Job, FinalPC
  <1> HIDE DEF job
  <1>5. PublishJobNow(job, "idle")
    BY <1>1, <1>3, <1>4 DEF PublishJobNow, PublishJob
  <1>6. SliceInv'
    BY <1>2, SliceStays DEF UnchangedByPublish
  <1> QED
    BY <1>2, <1>4, <1>5, <1>6, IdleJobs, JobsStep

\* A call that ends leaves no work.
LEMMA FinalizeOverStep ==
    ASSUME INFTInv, NEW f \in Calls, FinalizeOver(f), SliceInv', UNCHANGED <<pub, uploader>>,
           pending' = pending, UnchangedByPublish
    PROVE  INFTInv'
  BY IdleJobs, JobsStep DEF FinalizeOver

\* The goroutine takes the publish of the call that started it.
LEMMA FinalizeAcceptStep ==
    ASSUME INFTInv, NEW f \in Calls, FinalizeAcceptTx(f)
    PROVE  INFTInv'
  <1> DEFINE job == [final[f] EXCEPT !.pc = "accepted"]
             upload == [final[f] EXCEPT !.pc = "waiting"]
  <1>1. /\ final[f].pc = "checking" /\ pending' = pending \ {final[f].source}
        /\ uploader' = [uploader EXCEPT ![f] = upload]
        /\ final' = [final EXCEPT ![f] = job]
        /\ UNCHANGED <<items, file, pub>> /\ UnchangedByPublish
    BY DEF FinalizeAcceptTx
  <1>2. final[f] \in Job(FinalPC, Publishes) /\ PublishJobNow(final[f], "idle")
    BY DEF INFTInv, FinalInv, PublishJobNow
  <1>3. /\ job \in Job(FinalPC, Publishes) /\ upload \in Job(UploadPC, Publishes)
        /\ job.source = final[f].source /\ upload.source = final[f].source
        /\ job.inft = final[f].inft /\ upload.inft = final[f].inft
        /\ job.list = final[f].list /\ upload.list = final[f].list
    BY <1>2 DEF Job, FinalPC, UploadPC
  <1> HIDE DEF job, upload
  <1>4. PublishJobNow(job, "idle") /\ PublishJobNow(upload, "none")
    BY <1>1, <1>2, <1>3 DEF PublishJobNow, PublishJob
  <1>5. SliceInv'
    BY <1>1, SliceStays DEF UnchangedByPublish
  <1> QED
    BY <1>1, <1>3, <1>4, <1>5, JobsStep

\* A call copies a sound slice, and the copy is sound.
LEMMA FinalizeListStep ==
    ASSUME INFTInv, NEW f \in Calls, FinalizeListINFTs(f)
    PROVE  INFTInv'
  <1> DEFINE job == [final[f] EXCEPT !.pc = "listed", !.list = items]
  <1>1. /\ final[f].pc = "accepted"
        /\ final' = [final EXCEPT ![f] = job] \/ FinalizeOver(f)
        /\ UNCHANGED <<items, file, pub, pending, uploader>> /\ UnchangedByPublish
    BY DEF FinalizeListINFTs
  <1>2. /\ final[f] \in Job(FinalPC, Publishes) /\ PublishJobNow(final[f], "idle")
        /\ items \in Slices(INFT) /\ Sound(items, pub, assets, Len(made))
    BY DEF INFTInv, FinalInv, SliceInv, PublishJobNow
  <1>3. /\ job \in Job(FinalPC, Publishes) /\ job.source = final[f].source
        /\ job.inft = final[f].inft /\ job.list = items
    BY <1>2 DEF Job, FinalPC
  <1> HIDE DEF job
  <1>4. PublishJobNow(job, "idle")
    BY <1>1, <1>2, <1>3 DEF PublishJobNow, PublishJob
  <1>5. SliceInv'
    BY <1>1, SliceStays DEF UnchangedByPublish
  <1> QED
    BY <1>1, <1>3, <1>4, <1>5, IdleJobs, JobsStep, FinalizeOverStep

\* The slice a job writes back is sound, and so is the file.
LEMMA PublishedStep ==
    ASSUME INFTInv, NEW job, NEW none, NEW ok, job.list \in Slices(INFT), job.pc # none,
           PublishJobNow(job, none), Update(Published(job), ok), UNCHANGED <<pub, assets, made>>
    PROVE  SliceInv'
  <1>1. PubInv /\ SliceInv /\ Len(made) \in Nat
    BY NothingShrinks DEF INFTInv, MadeGrows
  <1>2. Published(job) \in Slices(INFT) /\ Sound(Published(job), pub, assets, Len(made))
    BY <1>1, PublishedSound DEF PublishJobNow
  <1>3. Sound(file, pub, assets, Len(made))
    BY <1>1 DEF SliceInv
  <1> QED
    BY <1>1, <1>2, <1>3, UpdateSlices DEF SliceInv

\* The root and transaction that a call adds to its copy are those of its own publish.
LEMMA FinalizeUpdateStep ==
    ASSUME INFTInv, NEW f \in Calls, FinalizeUpdateINFTs(f)
    PROVE  INFTInv'
  <1>1. PICK ok \in BOOLEAN : Update(Published(final[f]), ok)
    BY DEF FinalizeUpdateINFTs
  <1>2. /\ final[f].pc = "listed" /\ FinalizeOver(f)
        /\ UNCHANGED <<pub, pending, uploader>> /\ UnchangedByPublish
    BY DEF FinalizeUpdateINFTs
  <1>3. final[f].list \in Slices(INFT) /\ PublishJobNow(final[f], "idle")
    BY DEF INFTInv, FinalInv, Job, PublishJobNow
  <1>4. SliceInv'
    BY <1>1, <1>2, <1>3, PublishedStep DEF UnchangedByPublish
  <1> QED
    BY <1>2, <1>4, FinalizeOverStep

\* Every action of a publish_finalize.
LEMMA FinalizeStep ==
    ASSUME INFTInv, NEW f \in Calls, FinalizeINFTPublish(f)
    PROVE  INFTInv'
  <1>1. CASE FinalizeRejectTx(f)
    BY <1>1, SliceStays, FinalizeOverStep DEF FinalizeRejectTx, UnchangedByPublish
  <1> QED
    BY <1>1, FinalizeSnapshotStep, FinalizeAcceptStep, FinalizeListStep, FinalizeUpdateStep
    DEF FinalizeINFTPublish

\* Every action of its goroutine: it lists the slice and saves its copy as the call does.
LEMMA UploadStep ==
    ASSUME INFTInv, NEW f \in Calls, completeWalletINFTUpload(f)
    PROVE  INFTInv'
  <1>1. /\ uploader[f] \in Job(UploadPC, Publishes) /\ PublishJobNow(uploader[f], "none")
        /\ uploader[f].list \in Slices(INFT)
    BY DEF INFTInv, UploadInv, Job, PublishJobNow
  <1>2. CASE UploadSegments(f)
    <2> DEFINE upload == [uploader[f] EXCEPT !.pc = "uploaded"]
    <2>1. /\ uploader[f].pc = "waiting"
          /\ uploader' = [uploader EXCEPT ![f] = upload] \/ UploadOver(f)
          /\ UNCHANGED <<items, file, pub, pending, final>> /\ UnchangedByPublish
      BY <1>2 DEF UploadSegments
    <2>2. /\ upload \in Job(UploadPC, Publishes) /\ upload.source = uploader[f].source
          /\ upload.inft = uploader[f].inft /\ upload.list = uploader[f].list
      BY <1>1 DEF Job, UploadPC
    <2> HIDE DEF upload
    <2>3. PublishJobNow(upload, "none")
      BY <1>1, <2>1, <2>2 DEF PublishJobNow, PublishJob
    <2>4. SliceInv'
      BY <2>1, SliceStays DEF UnchangedByPublish
    <2> QED
      BY <2>1, <2>2, <2>3, <2>4, IdleJobs, JobsStep DEF UploadOver
  <1>3. CASE UploadListINFTs(f)
    <2> DEFINE upload == [uploader[f] EXCEPT !.pc = "listed", !.list = items]
    <2>1. /\ uploader[f].pc = "uploaded"
          /\ uploader' = [uploader EXCEPT ![f] = upload]
          /\ UNCHANGED <<items, file, pub, pending, final>> /\ UnchangedByPublish
      BY <1>3 DEF UploadListINFTs
    <2>2. items \in Slices(INFT) /\ Sound(items, pub, assets, Len(made))
      BY DEF INFTInv, SliceInv
    <2>3. /\ upload \in Job(UploadPC, Publishes) /\ upload.source = uploader[f].source
          /\ upload.inft = uploader[f].inft /\ upload.list = items
      BY <1>1, <2>2 DEF Job, UploadPC
    <2> HIDE DEF upload
    <2>4. PublishJobNow(upload, "none")
      BY <1>1, <2>1, <2>2, <2>3 DEF PublishJobNow, PublishJob
    <2>5. SliceInv'
      BY <2>1, SliceStays DEF UnchangedByPublish
    <2> QED
      BY <2>1, <2>3, <2>4, <2>5, IdleJobs, JobsStep
  <1>4. CASE UploadUpdateINFTs(f)
    <2>1. PICK ok \in BOOLEAN : Update(Published(uploader[f]), ok)
      BY <1>4 DEF UploadUpdateINFTs
    <2>2. /\ uploader[f].pc = "listed" /\ UploadOver(f)
          /\ UNCHANGED <<pub, pending, final>> /\ UnchangedByPublish
      BY <1>4 DEF UploadUpdateINFTs
    <2>3. SliceInv'
      BY <1>1, <2>1, <2>2, PublishedStep DEF UnchangedByPublish
    <2> QED
      BY <2>2, <2>3, IdleJobs, JobsStep DEF UploadOver
  <1> QED
    BY <1>2, <1>3, <1>4 DEF completeWalletINFTUpload

-----------------------------------------------------------------------------
(***************************************************************************)
(* The contract                                                            *)
(***************************************************************************)

\* The contract's parameters satisfy what MemoryRegistryProofs assumes of them.
LEMMA RegistryHolds == RegistryProofs!RegistryAssumption
  BY DEF RegistryProofs!RegistryAssumption

\* The contract of INFTLifecycle is the one of MemoryRegistryProofs.
LEMMA SameRegistry ==
    /\ RegistryProofs!RegistryInv <=> Registry!TypeOK /\ Registry!IndexExact
    /\ RegistryProofs!RegistryInv' <=> Registry!TypeOK' /\ Registry!IndexExact'
  BY DEF RegistryProofs!RegistryInv, RegistryProofs!TypeOK, RegistryProofs!IndexExact,
         RegistryProofs!AssetIds, RegistryProofs!Range, RegistryProofs!IsInjective,
         Registry!TypeOK, Registry!IndexExact, Registry!AssetIds, Registry!Range,
         Registry!IsInjective

\* A registration puts the asset on the chain under its sender.
LEMMA RegisterEffect ==
    ASSUME ChainInv, NEW a \in AssetIds, Registry!registerAsset(a.creator, a.content)
    PROVE  /\ Registry!TypeOK' /\ Registry!IndexExact'
           /\ OwnersGrow(assets, assets') /\ assets'[a] # None
           /\ \A b \in AssetIds \ {a} : assets'[b] = assets[b]
  <1>1. a.creator \in Wallets /\ a.content \in Contents
    BY ParentsAreAssets
  <1>2. [creator |-> a.creator, content |-> a.content] = a
    BY DEF AssetIds
  <1>3. RegistryProofs!RegistryInv'
    <2>1. RegistryProofs!registerAsset(a.creator, a.content)
      BY DEF RegistryProofs!registerAsset, RegistryProofs!previewAssetId, RegistryProofs!validate,
             Registry!registerAsset, Registry!previewAssetId, Registry!validate
    <2>2. RegistryProofs!RegistryInv
      BY SameRegistry DEF ChainInv
    <2> QED
      BY <1>1, <2>1, <2>2, RegistryHolds, RegistryProofs!RegisterStep
  <1>4. assets' = [assets EXCEPT ![a] = a.creator]
    BY <1>2 DEF Registry!registerAsset, Registry!previewAssetId
  <1>5. assets \in [AssetIds -> Wallets \cup {None}]
    BY DEF ChainInv, Registry!TypeOK, Registry!AssetIds, AssetIds
  <1>6. /\ assets'[a] = a.creator /\ a.creator # None
        /\ \A b \in AssetIds \ {a} : assets'[b] = assets[b]
    BY <1>1, <1>4, <1>5
  <1> QED
    BY <1>3, <1>6, SameRegistry DEF OwnersGrow

\* A transfer leaves every asset on the chain, and puts none there.
LEMMA TransferEffect ==
    ASSUME ChainInv, NEW sender \in Wallets, NEW a \in AssetIds, NEW newOwner \in Wallets,
           Registry!transferAsset(sender, a, newOwner)
    PROVE  /\ Registry!TypeOK' /\ Registry!IndexExact'
           /\ OwnersGrow(assets, assets') /\ OwnersGrow(assets', assets)
  <1>1. RegistryProofs!RegistryInv'
    <2>1. RegistryProofs!transferAsset(sender, a, newOwner)
      BY DEF RegistryProofs!transferAsset, RegistryProofs!removeOwnerAsset,
             RegistryProofs!FirstIndex, RegistryProofs!Range,
             Registry!transferAsset, Registry!removeOwnerAsset, Registry!FirstIndex, Registry!Range
    <2>2. RegistryProofs!RegistryInv
      BY SameRegistry DEF ChainInv
    <2>3. a \in RegistryProofs!AssetIds
      BY DEF RegistryProofs!AssetIds, AssetIds
    <2> QED
      BY <2>1, <2>2, <2>3, RegistryHolds, RegistryProofs!TransferStep
  <1>2. assets[a] = sender /\ assets' = [assets EXCEPT ![a] = newOwner]
    BY DEF Registry!transferAsset
  <1>3. assets \in [AssetIds -> Wallets \cup {None}]
    BY DEF ChainInv, Registry!TypeOK, Registry!AssetIds, AssetIds
  <1> QED
    BY <1>1, <1>2, <1>3, SameRegistry DEF OwnersGrow

\* A transfer changes owners, and every asset on the chain keeps one.
LEMMA transferAssetStep == ASSUME INFTInv, transferAsset PROVE INFTInv'
  <1>1. PICK sender \in Wallets, newOwner \in Wallets, id \in AssetIds :
            Registry!transferAsset(sender, id, newOwner)
    BY DEF transferAsset
  <1>2. /\ transfers < MaxTransfers /\ transfers' = transfers + 1
        /\ UNCHANGED <<items, file, made, pub, reg, pending, final, uploader, regFinal,
                       confirmed, distill, owned, crashes>>
    BY DEF transferAsset
  <1>3. /\ Registry!TypeOK' /\ Registry!IndexExact'
        /\ OwnersGrow(assets, assets') /\ OwnersGrow(assets', assets)
    BY <1>1, TransferEffect DEF INFTInv
  <1>4. StateGrows
    BY <1>2, <1>3, NothingShrinks DEF StateGrows
  <1>5. ChainInv'
    <2>1. \A a \in AssetIds : assets'[a] # None => Founded(a, assets', made')
      BY <1>3, <1>4, FoundedGrows DEF INFTInv, ChainInv, OwnersGrow, StateGrows
    <2> QED
      BY <1>3, <2>1 DEF ChainInv
  <1>6. SliceInv' /\ FinalInv' /\ UploadInv' /\ RegFinalInv' /\ RegInv' /\ OwnedInv' /\ DistillInv'
    BY <1>2, <1>4, SlicesKept, FinalKept, UploadKept, RegFinalKept, RegKept, OwnedKept,
       DistillKept DEF INFTInv
  <1>7. MadeInv' /\ PubInv' /\ CountersInv'
    BY <1>2 DEF INFTInv, MadeInv, PubInv, CountersInv
  <1> QED
    BY <1>5, <1>6, <1>7 DEF INFTInv

-----------------------------------------------------------------------------
(***************************************************************************)
(* Registering: the snapshots and transactions                             *)
(***************************************************************************)

\* A registration goes on to the record rec.
LEMMA RegistrationStep ==
    ASSUME INFTInv, NEW r \in Registers, NEW rec \in Reg, reg' = [reg EXCEPT ![r] = rec],
           Registration(rec, assets', made),
           reg[r].tx \in Sent => /\ rec.inft = reg[r].inft /\ rec.tx \in Sent
                                 /\ reg[r].tx # "success",
           OwnersGrow(assets, assets'), ChainInv', pending' \subseteq pending \cup Registers,
           UNCHANGED <<items, file, regFinal, confirmed>>, UnchangedByRegister
    PROVE  INFTInv'
  <1>1. reg \in [Registers -> Reg]
    BY DEF INFTInv, RegInv
  <1>2. /\ reg' \in [Registers -> Reg]
        /\ \A q \in Registers : reg'[q] = IF q = r THEN rec ELSE reg[q]
    BY <1>1
  <1>3. StateGrows
    <2>1. RegsGrow(reg, reg')
      BY <1>2 DEF RegsGrow
    <2> QED
      BY <2>1, NothingShrinks DEF StateGrows, UnchangedByRegister
  <1>4. RegInv'
    <2>1. \A q \in Registers \ {r} : Registration(reg[q], assets', made')
      BY <1>1, <1>3, RegistrationGrows DEF INFTInv, RegInv, StateGrows
    <2> QED
      BY <1>2, <2>1 DEF RegInv, UnchangedByRegister
  <1>5. SliceInv' /\ FinalInv' /\ UploadInv' /\ RegFinalInv' /\ OwnedInv' /\ DistillInv'
    BY <1>3, SlicesKept, FinalKept, UploadKept, RegFinalKept, OwnedKept, DistillKept
    DEF INFTInv, UnchangedByRegister
  <1>6. MadeInv' /\ PubInv' /\ CountersInv'
    BY DEF INFTInv, UnchangedByRegister, MadeInv, PubInv, CountersInv
  <1> QED
    BY <1>4, <1>5, <1>6 DEF INFTInv

\* The steps that change nothing on the chain.
LEMMA ChainStays ==
    ASSUME INFTInv, UNCHANGED <<assets, ownerAssets, made>>
    PROVE  ChainInv' /\ OwnersGrow(assets, assets')
  BY NothingShrinks
  DEF INFTInv, ChainInv, Registry!TypeOK, Registry!IndexExact

\* A registration is prepared for a listed iNFT that has a reference.
LEMMA RegisterGetStep ==
    ASSUME INFTInv, NEW r \in Registers, RegisterGetINFT(r)
    PROVE  INFTInv'
  <1>1. PICK x \in Listed(items) :
            /\ items[x].ref # None
            /\ reg' = [reg EXCEPT
                   ![r] = [inft |-> x, copy |-> items[x], asset |-> None, tx |-> "reading"]]
    BY DEF RegisterGetINFT
  <1>2. /\ reg[r].tx = "none" /\ UNCHANGED <<items, file, pending, regFinal, confirmed, chainVars>>
        /\ UnchangedByRegister
    BY DEF RegisterGetINFT
  <1> DEFINE rec == [inft |-> x, copy |-> items[x], asset |-> None, tx |-> "reading"]
  <1>3. /\ x \in Ids /\ items[x] \in INFT /\ x <= Len(made) /\ items[x].ref.root = x
        /\ items[x].ref \in Refs /\ Len(made) \in Nat
    <2>1. x \in Ids /\ items[x] \in INFT /\ SliceInv /\ Len(made) \in Nat
      BY NothingShrinks DEF INFTInv, SliceInv, MadeGrows
    <2>2. items[x].ref \in Refs
      BY <1>1, <2>1 DEF INFT
    <2> QED
      BY <1>1, <2>1, <2>2 DEF SliceInv, Sound
  <1>4. rec \in Reg
    BY <1>3 DEF Reg
  <1>5. Registration(rec, assets', made)
    BY <1>3 DEF Registration, Sent
  <1>6. ChainInv' /\ OwnersGrow(assets, assets')
    BY <1>2, ChainStays DEF UnchangedByRegister
  <1> HIDE DEF rec
  <1>7. reg' = [reg EXCEPT ![r] = rec]
    BY <1>1 DEF rec
  <1> QED
    BY <1>2, <1>4, <1>5, <1>6, <1>7, RegistrationStep DEF Sent

\* The asset of a parent that is ready is one of a training iNFT, which has no parent.
LEMMA ParentFounded ==
    ASSUME INFTInv, NEW x \in 1..Len(made), ParentReady(x)
    PROVE  /\ ParentAsset(x) \in Parents \cup {None}
           /\ made[x].parent = 0 => ParentAsset(x) = None
           /\ made[x].parent # 0 => /\ ParentAsset(x) # None /\ assets[ParentAsset(x)] # None
                                    /\ ParentAsset(x).content.ref.root = made[x].parent
  <1>1. CASE made[x].parent = 0
    BY <1>1 DEF ParentAsset
  <1>2. CASE made[x].parent # 0
    <2> DEFINE y == made[x].parent
               b == items[y].asset
    <2>1. ParentAsset(x) = b /\ y \in Listed(items) /\ b # None
      BY <1>2 DEF ParentAsset, ParentReady
    <2>2. y \in 1..Len(made) /\ made[y].kind = "training" /\ made[y].parent = 0
      BY <1>2 DEF INFTInv, MadeInv, Lineage
    <2> HIDE DEF y
    <2>3. items[y] \in INFT
      BY <2>1 DEF INFTInv, SliceInv
    <2>4. b \in AssetIds
      BY <2>1, <2>3 DEF INFT
    <2>5. assets[b] # None /\ b.content.ref.root = y
      BY <2>1 DEF INFTInv, SliceInv, Sound
    <2> HIDE DEF b
    <2>6. b.content.parent = None
      BY <2>2, <2>4, <2>5 DEF INFTInv, ChainInv, Founded
    <2>7. b \in Parents
      BY <2>4, <2>6 DEF AssetIds, Contents, Parents, Founders
    <2> QED
      BY <1>2, <2>1, <2>5, <2>7 DEF y
  <1> QED
    BY <1>1, <1>2

\* The asset to register names the root that was read, and its parent's asset if it has one.
LEMMA PrepareRegisterStep ==
    ASSUME INFTInv, NEW r \in Registers, PrepareINFTRegister(r)
    PROVE  INFTInv'
  <1> DEFINE x == reg[r].inft
             content == [ref |-> reg[r].copy.ref, parent |-> ParentAsset(x)]
             refused == [reg[r] EXCEPT !.copy = Blank, !.tx = "refused"]
  <1>1. /\ reg[r].tx = "reading"
        /\ UNCHANGED <<items, file, regFinal, confirmed, chainVars>> /\ UnchangedByRegister
    BY DEF PrepareINFTRegister
  <1>2. ChainInv' /\ OwnersGrow(assets, assets') /\ UNCHANGED assets
    BY <1>1, ChainStays DEF UnchangedByRegister
  <1>3. /\ reg[r] \in Reg /\ x \in 1..Len(made)
        /\ reg[r].copy.ref \in Refs /\ reg[r].copy.ref.root = x
    BY <1>1 DEF INFTInv, RegInv, Registration
  <1>4. ASSUME ParentReady(x), NEW w \in Wallets, pending' = pending \cup {r},
               reg' = [reg EXCEPT ![r] = [@ EXCEPT !.copy = Blank, !.tx = "unsent",
                                          !.asset = Registry!previewAssetId(w, content)]]
        PROVE  INFTInv'
    <2> DEFINE a == [creator |-> w, content |-> content]
               rec == [reg[r] EXCEPT !.copy = Blank, !.tx = "unsent", !.asset = a]
    <2>1. reg' = [reg EXCEPT ![r] = rec]
      BY <1>4 DEF Registry!previewAssetId
    <2>2. content \in Contents /\ content.ref = reg[r].copy.ref /\ content.parent = ParentAsset(x)
      BY <1>3, <1>4, ParentFounded DEF Contents
    <2> HIDE DEF content
    <2>3. a \in AssetIds /\ a.content = content
      BY <2>2 DEF AssetIds
    <2> HIDE DEF a
    <2>4. Founded(a, assets, made)
      BY <1>3, <1>4, <2>2, <2>3, ParentFounded DEF Founded
    <2>5. /\ rec \in Reg /\ rec.inft = x /\ rec.asset = a /\ rec.tx = "unsent"
      BY <1>3, <2>3, NothingListed DEF Reg, TxStatus
    <2> HIDE DEF rec, x
    <2>6. Registration(rec, assets', made)
      BY <1>2, <1>3, <2>2, <2>3, <2>4, <2>5 DEF Registration
    <2> QED
      BY <1>1, <1>2, <1>4, <2>1, <2>5, <2>6, RegistrationStep DEF Sent
  <1>5. ASSUME pending' = pending, reg' = [reg EXCEPT ![r] = refused]
        PROVE  INFTInv'
    <2>1. refused \in Reg /\ refused.tx = "refused"
      BY <1>3, NothingListed DEF Reg
    <2> HIDE DEF refused
    <2>2. Registration(refused, assets', made)
      BY <2>1 DEF Registration, Sent
    <2> QED
      BY <1>1, <1>2, <1>5, <2>1, <2>2, RegistrationStep DEF Sent
  <1> HIDE DEF x, content
  <1> QED
    BY <1>4, <1>5 DEF PrepareINFTRegister, x, content

\* A registration that is sent or mined keeps the iNFT and the asset that were prepared.
LEMMA RegisterTxStep ==
    ASSUME INFTInv, NEW r \in Registers, NEW status \in Sent, reg[r].tx \in {"unsent", "pending"},
           SetRegisterTx(r, status), OwnersGrow(assets, assets'), ChainInv',
           status = "success" => assets'[reg[r].asset] # None
    PROVE  INFTInv'
  <1> DEFINE rec == [reg[r] EXCEPT !.tx = status]
  <1>1. /\ reg' = [reg EXCEPT ![r] = rec]
        /\ UNCHANGED <<items, file, pending, regFinal, confirmed>> /\ UnchangedByRegister
    BY DEF SetRegisterTx
  <1>2. reg[r] \in Reg /\ Registration(reg[r], assets, made)
    BY DEF INFTInv, RegInv
  <1>3. /\ rec \in Reg /\ rec.inft = reg[r].inft /\ rec.asset = reg[r].asset /\ rec.tx = status
    BY <1>2 DEF Reg, TxStatus, Sent
  <1> HIDE DEF rec
  <1>4. Registration(rec, assets', made)
    <2>1. /\ reg[r].asset \in AssetIds /\ reg[r].asset.content.ref.root = reg[r].inft
          /\ Founded(reg[r].asset, assets, made)
      BY <1>2 DEF Registration, Sent
    <2>2. Founded(reg[r].asset, assets', made)
      BY <2>1, FoundedGrows, NothingShrinks
    <2> QED
      BY <1>3, <2>1, <2>2 DEF Registration, Sent
  <1> QED
    BY <1>1, <1>3, <1>4, RegistrationStep DEF Sent

\* The contract takes a registration only with the asset that was prepared.
LEMMA ChainMinesRegisterStep ==
    ASSUME INFTInv, NEW r \in Registers, ChainMinesRegister(r)
    PROVE  INFTInv'
  <1>1. CASE SetRegisterTx(r, "failed") /\ UNCHANGED chainVars
    <2>1. made' = made
      BY <1>1 DEF SetRegisterTx, UnchangedByRegister
    <2>2. ChainInv' /\ OwnersGrow(assets, assets')
      BY <1>1, <2>1, ChainStays
    <2> QED
      BY <1>1, <2>2, RegisterTxStep DEF ChainMinesRegister, Sent
  <1>2. CASE /\ Registry!registerAsset(reg[r].asset.creator, reg[r].asset.content)
             /\ SetRegisterTx(r, "success")
    <2> DEFINE a == reg[r].asset
    <2>1. reg[r].tx = "pending" /\ made' = made
      BY <1>2 DEF ChainMinesRegister, SetRegisterTx, UnchangedByRegister
    <2>2. a \in AssetIds /\ Founded(a, assets, made)
      BY <2>1 DEF INFTInv, RegInv, Registration, Sent
    <2>3. /\ Registry!TypeOK' /\ Registry!IndexExact'
          /\ OwnersGrow(assets, assets') /\ assets'[a] # None
          /\ \A b \in AssetIds \ {a} : assets'[b] = assets[b]
      BY <1>2, <2>2, RegisterEffect DEF INFTInv
    <2> HIDE DEF a
    <2>4. ChainInv'
      <3>1. \A b \in AssetIds : assets'[b] # None => Founded(b, assets, made)
        BY <2>2, <2>3 DEF INFTInv, ChainInv
      <3>2. \A b \in AssetIds : assets'[b] # None => Founded(b, assets', made')
        BY <2>1, <2>3, <3>1, FoundedGrows, NothingShrinks
      <3> QED
        BY <2>3, <3>2 DEF ChainInv
    <2> QED
      BY <1>2, <2>1, <2>3, <2>4, RegisterTxStep DEF Sent, a
  <1> QED
    BY <1>1, <1>2 DEF ChainMinesRegister

\* The wallet sends a registration; the contract is not asked yet.
LEMMA WalletSendsRegisterStep ==
    ASSUME INFTInv, NEW r \in Registers, WalletSendsRegister(r)
    PROVE  INFTInv'
  <1>1. /\ reg[r].tx = "unsent" /\ SetRegisterTx(r, "pending")
        /\ UNCHANGED <<assets, ownerAssets, made>>
    BY DEF WalletSendsRegister, SetRegisterTx, UnchangedByRegister
  <1> QED
    BY <1>1, ChainStays, RegisterTxStep DEF Sent

-----------------------------------------------------------------------------
(***************************************************************************)
(* Registering: the requests that record it                                *)
(***************************************************************************)

RegisterJobNow(job) == RegisterJob(job, reg) /\ Sound(job.list, pub, assets, Len(made))

\* A register_finalize goes on with a job, and what it writes is sound.
LEMMA RegFinalStep ==
    ASSUME INFTInv, NEW g \in RegCalls, UnchangedByRegFinal, SliceInv',
           NEW job \in Job(RegPC, Registers), RegisterJobNow(job),
           regFinal' = [regFinal EXCEPT ![g] = job],
           pending' \subseteq pending, confirmed' \subseteq Ids
    PROVE  INFTInv'
  <1> USE DEF UnchangedByRegFinal, UnchangedByRegister
  <1>1. StateGrows
    BY NothingShrinks DEF StateGrows
  <1>2. RegFinalInv'
    <2>1. regFinal \in [RegCalls -> Job(RegPC, Registers)]
      BY DEF INFTInv, RegFinalInv
    <2>2. /\ regFinal' \in [RegCalls -> Job(RegPC, Registers)]
          /\ \A h \in RegCalls : regFinal'[h] = IF h = g THEN job ELSE regFinal[h]
      BY <2>1
    <2>3. \A h \in RegCalls : RegisterJobNow(regFinal'[h])
      BY <2>2 DEF INFTInv, RegFinalInv, RegisterJobNow
    <2> QED
      BY <2>2, <2>3 DEF RegFinalInv, RegisterJobNow
  <1>3. FinalInv' /\ UploadInv' /\ RegInv' /\ OwnedInv' /\ ChainInv' /\ DistillInv'
    BY <1>1, FinalKept, UploadKept, RegKept, OwnedKept, ChainKept, DistillKept DEF INFTInv
  <1>4. MadeInv' /\ PubInv' /\ CountersInv'
    BY DEF INFTInv, MadeInv, PubInv, CountersInv
  <1> QED
    BY <1>2, <1>3, <1>4 DEF INFTInv

\* A call that ends leaves no work.
LEMMA RegFinalOverStep ==
    ASSUME INFTInv, NEW g \in RegCalls, UnchangedByRegFinal, SliceInv', RegFinalOver(g),
           pending' \subseteq pending, confirmed' \subseteq Ids
    PROVE  INFTInv'
  <1>1. RegisterJobNow(NoJob("idle"))
    BY IdleJobs, NothingListed DEF RegisterJobNow, RegisterJob
  <1> QED
    BY <1>1, IdleJobs, RegFinalStep DEF RegFinalOver

\* A finalize starts only for a registration that was sent.
LEMMA RegFinalSnapshotStep ==
    ASSUME INFTInv, NEW g \in RegCalls, RegFinalGetSnapshot(g)
    PROVE  INFTInv'
  <1>1. PICK x \in 1..Len(made), k \in Publishes \cup Registers :
            /\ RegSnapshotFits(k, x) /\ reg[k].tx \in Sent
            /\ regFinal' = [regFinal EXCEPT
                   ![g] = [@ EXCEPT !.pc = "checking", !.source = k, !.inft = x]]
    BY DEF RegFinalGetSnapshot
  <1>2. UNCHANGED <<items, file, pending, confirmed>> /\ UnchangedByRegFinal
    BY DEF RegFinalGetSnapshot
  <1>3. /\ x \in Ids /\ k \in Registers /\ reg[k].inft = x
        /\ regFinal[g] \in Job(RegPC, Registers)
        /\ Sound(regFinal[g].list, pub, assets, Len(made))
    BY <1>1 DEF RegSnapshotFits, INFTInv, MadeInv, RegFinalInv
  <1> DEFINE job == [regFinal[g] EXCEPT !.pc = "checking", !.source = k, !.inft = x]
  <1>4. /\ job \in Job(RegPC, Registers) /\ job.pc = "checking" /\ job.source = k
        /\ job.inft = x /\ job.list = regFinal[g].list
        /\ regFinal' = [regFinal EXCEPT ![g] = job]
    BY <1>1, <1>3 DEF Job, RegPC
  <1> HIDE DEF job
  <1>5. RegisterJobNow(job)
    BY <1>1, <1>3, <1>4 DEF RegisterJobNow, RegisterJob
  <1>6. SliceInv' /\ confirmed' \subseteq Ids
    BY <1>2, SliceStays DEF UnchangedByRegFinal, UnchangedByRegister, INFTInv, CountersInv
  <1> QED
    BY <1>2, <1>4, <1>5, <1>6, RegFinalStep

\* A call copies a sound slice once its registration was mined.
LEMMA RegFinalListStep ==
    ASSUME INFTInv, NEW g \in RegCalls, RegFinalListINFTs(g)
    PROVE  INFTInv'
  <1> DEFINE job == [regFinal[g] EXCEPT !.pc = "listed", !.list = items]
  <1>1. /\ regFinal[g].pc = "checking" /\ reg[regFinal[g].source].tx = "success"
        /\ \/ regFinal' = [regFinal EXCEPT ![g] = job] /\ regFinal[g].inft \in Listed(items)
           \/ RegFinalOver(g)
        /\ UNCHANGED <<items, file, pending, confirmed>> /\ UnchangedByRegFinal
    BY DEF RegFinalListINFTs, RegTxAccepted
  <1>2. /\ regFinal[g] \in Job(RegPC, Registers) /\ RegisterJob(regFinal[g], reg)
        /\ items \in Slices(INFT) /\ Sound(items, pub, assets, Len(made))
    BY DEF INFTInv, RegFinalInv, SliceInv
  <1>3. /\ job \in Job(RegPC, Registers) /\ job.pc = "listed" /\ job.list = items
        /\ job.source = regFinal[g].source /\ job.inft = regFinal[g].inft
    BY <1>2 DEF Job, RegPC
  <1> HIDE DEF job
  <1>4. regFinal[g].inft \in Listed(items) => RegisterJobNow(job)
    BY <1>1, <1>2, <1>3 DEF RegisterJobNow, RegisterJob
  <1>5. SliceInv' /\ confirmed' \subseteq Ids
    BY <1>1, SliceStays DEF UnchangedByRegFinal, UnchangedByRegister, INFTInv, CountersInv
  <1> QED
    BY <1>1, <1>3, <1>4, <1>5, RegFinalStep, RegFinalOverStep

\* The asset that a call adds to its copy was registered for that iNFT.
LEMMA RegFinalUpdateStep ==
    ASSUME INFTInv, NEW g \in RegCalls, RegFinalUpdateINFTs(g)
    PROVE  INFTInv'
  <1> DEFINE job == [regFinal[g] EXCEPT !.pc = "recorded", !.list = NoItems]
  <1>1. PICK ok \in BOOLEAN :
            /\ Update(Registered(regFinal[g]), ok)
            /\ regFinal' = [regFinal EXCEPT ![g] = job] \/ RegFinalOver(g)
    BY DEF RegFinalUpdateINFTs
  <1>2. /\ regFinal[g].pc = "listed" /\ UNCHANGED <<pending, confirmed>> /\ UnchangedByRegFinal
    BY DEF RegFinalUpdateINFTs
  <1>3. /\ regFinal[g] \in Job(RegPC, Registers) /\ RegisterJob(regFinal[g], reg)
        /\ Sound(regFinal[g].list, pub, assets, Len(made)) /\ RegInv /\ SliceInv
        /\ Len(made) \in Nat
    BY NothingShrinks DEF INFTInv, RegFinalInv, MadeGrows
  <1>4. SliceInv'
    <2>1. regFinal[g].list \in Slices(INFT)
      BY <1>3 DEF Job
    <2>2. /\ Registered(regFinal[g]) \in Slices(INFT)
          /\ Sound(Registered(regFinal[g]), pub, assets, Len(made))
      BY <1>2, <1>3, <2>1, RegisteredSound
    <2>3. Sound(file, pub, assets, Len(made))
      BY <1>3 DEF SliceInv
    <2> QED
      BY <1>1, <1>2, <1>3, <2>2, <2>3, UpdateSlices
      DEF SliceInv, UnchangedByRegFinal, UnchangedByRegister
  <1>5. /\ job \in Job(RegPC, Registers) /\ job.pc = "recorded" /\ job.list = NoItems
        /\ job.source = regFinal[g].source /\ job.inft = regFinal[g].inft
    BY <1>3, NothingListed DEF Job, RegPC
  <1> HIDE DEF job
  <1>6. RegisterJobNow(job)
    BY <1>2, <1>3, <1>5, NothingListed DEF RegisterJobNow, RegisterJob
  <1>7. confirmed' \subseteq Ids
    BY <1>2 DEF INFTInv, CountersInv
  <1> QED
    BY <1>1, <1>2, <1>4, <1>5, <1>6, <1>7, RegFinalStep, RegFinalOverStep

\* Every action of a register_finalize.
LEMMA RegFinalizeStep ==
    ASSUME INFTInv, NEW g \in RegCalls, FinalizeINFTRegister(g)
    PROVE  INFTInv'
  <1>1. CASE RegFinalRejectTx(g)
    <2>1. /\ RegFinalOver(g) /\ UNCHANGED <<items, file, pending, confirmed>>
          /\ UnchangedByRegFinal
      BY <1>1 DEF RegFinalRejectTx
    <2>2. SliceInv' /\ confirmed' \subseteq Ids
      BY <2>1, SliceStays DEF UnchangedByRegFinal, UnchangedByRegister, INFTInv, CountersInv
    <2> QED
      BY <2>1, <2>2, RegFinalOverStep
  <1>2. CASE RegFinalDeleteSnapshot(g)
    <2>1. /\ RegFinalOver(g) /\ UNCHANGED <<items, file>> /\ UnchangedByRegFinal
          /\ pending' \subseteq pending
      BY <1>2 DEF RegFinalDeleteSnapshot
    <2>2. SliceInv'
      BY <2>1, SliceStays DEF UnchangedByRegFinal, UnchangedByRegister
    <2>3. confirmed' \subseteq Ids
      BY <1>2 DEF RegFinalDeleteSnapshot, INFTInv, CountersInv, RegFinalInv, RegisterJob
    <2> QED
      BY <2>1, <2>2, <2>3, RegFinalOverStep
  <1> QED
    BY <1>1, <1>2, RegFinalSnapshotStep, RegFinalListStep, RegFinalUpdateStep
    DEF FinalizeINFTRegister

-----------------------------------------------------------------------------
(***************************************************************************)
(* The list of a wallet's iNFTs                                            *)
(***************************************************************************)

\* A request changes nothing but itself, and shows what is so.
LEMMA OwnedStep ==
    ASSUME INFTInv, NEW v \in Viewers, UnchangedByList,
           NEW job \in [pc : {"idle", "asked"} \cup Over, assets : SUBSET AssetIds,
                        shown : SUBSET Entries],
           owned' = [owned EXCEPT ![v] = job],
           \A a \in job.assets : assets[a] # None,
           \A e \in job.shown :
               /\ assets[e.asset] # None
               /\ e.ref # None => e.ref.root = e.asset.content.ref.root
               /\ e.inft # 0 => e.inft = e.asset.content.ref.root
    PROVE  INFTInv'
  <1> USE DEF UnchangedByList
  <1>1. OwnedInv'
    <2>1. \A u \in Viewers : owned'[u] = IF u = v THEN job ELSE owned[u]
      BY DEF INFTInv, OwnedInv
    <2>2. owned' \in [Viewers -> [pc : {"idle", "asked"} \cup Over, assets : SUBSET AssetIds,
                                  shown : SUBSET Entries]]
      BY DEF INFTInv, OwnedInv
    <2> QED
      BY <2>1, <2>2 DEF INFTInv, OwnedInv, OwnedShowsOwnContent
  <1>2. StateGrows
    BY NothingShrinks DEF StateGrows
  <1>3. SliceInv' /\ FinalInv' /\ UploadInv' /\ RegFinalInv' /\ RegInv' /\ ChainInv' /\ DistillInv'
    BY <1>2, SlicesKept, FinalKept, UploadKept, RegFinalKept, RegKept, ChainKept, DistillKept
    DEF INFTInv
  <1>4. MadeInv' /\ PubInv' /\ CountersInv'
    BY DEF INFTInv, MadeInv, PubInv, CountersInv
  <1> QED
    BY <1>1, <1>3, <1>4 DEF INFTInv

\* A viewer asks the contract for assets, which are on the chain and stay there.
LEMMA OwnedQueryStep ==
    ASSUME INFTInv, NEW v \in Viewers, OwnedQueryChain(v)
    PROVE  INFTInv'
  <1>1. UnchangedByList
    BY DEF OwnedQueryChain
  <1>2. /\ owned[v] \in [pc : {"idle", "asked"} \cup Over, assets : SUBSET AssetIds,
                         shown : SUBSET Entries]
        /\ \A a \in owned[v].assets : assets[a] # None
        /\ \A e \in owned[v].shown :
               /\ assets[e.asset] # None
               /\ e.ref # None => e.ref.root = e.asset.content.ref.root
               /\ e.inft # 0 => e.inft = e.asset.content.ref.root
    BY DEF INFTInv, OwnedInv, OwnedShowsOwnContent
  <1>3. ASSUME NEW w \in Wallets,
               owned' = [owned EXCEPT
                   ![v] = [@ EXCEPT !.pc = "asked", !.assets = Range(ownerAssets[w])]]
        PROVE  INFTInv'
    <2> DEFINE R == Range(ownerAssets[w])
               job == [owned[v] EXCEPT !.pc = "asked", !.assets = R]
    <2>1. R \subseteq AssetIds /\ \A a \in R : assets[a] = w
      <3>1. ownerAssets[w] \in Seq(AssetIds)
        BY DEF INFTInv, ChainInv, Registry!TypeOK, Registry!AssetIds, AssetIds
      <3>2. R \subseteq AssetIds
        BY <3>1, ElementOfSeq DEF Range
      <3>3. \A a \in AssetIds : a \in R => assets[a] = w
        BY DEF INFTInv, ChainInv, Registry!IndexExact, Registry!Range, Range,
               Registry!AssetIds, AssetIds
      <3> QED
        BY <3>2, <3>3
    <2> HIDE DEF R
    <2>2. /\ job \in [pc : {"idle", "asked"} \cup Over, assets : SUBSET AssetIds,
                      shown : SUBSET Entries]
          /\ job.assets = R /\ job.shown = owned[v].shown
      BY <1>2, <2>1
    <2>3. owned' = [owned EXCEPT ![v] = job]
      BY <1>3 DEF R
    <2> HIDE DEF job
    <2> QED
      BY <1>1, <1>2, <2>1, <2>2, <2>3, OwnedStep
  <1>4. ASSUME owned' = [owned EXCEPT ![v].pc = "failed"]
        PROVE  INFTInv'
    <2> DEFINE job == [owned[v] EXCEPT !.pc = "failed"]
    <2>1. /\ job \in [pc : {"idle", "asked"} \cup Over, assets : SUBSET AssetIds,
                      shown : SUBSET Entries]
          /\ job.assets = owned[v].assets /\ job.shown = owned[v].shown
      BY <1>2 DEF Over
    <2>2. owned' = [owned EXCEPT ![v] = job]
      BY <1>4
    <2> HIDE DEF job
    <2> QED
      BY <1>1, <1>2, <2>1, <2>2, OwnedStep
  <1> QED
    BY <1>3, <1>4 DEF OwnedQueryChain

\* The iNFT that is shown with an asset is the one it was made from.
LEMMA EntryShowsOwn ==
    ASSUME INFTInv, NEW a \in AssetIds
    PROVE  LET e == OwnedEntry(a) IN
           /\ e \in Entries /\ e.asset = a
           /\ e.ref # None => e.ref.root = a.content.ref.root
           /\ e.inft # 0 => e.inft = a.content.ref.root
  <1> DEFINE local == {x \in Listed(items) : items[x].asset = a}
  <1>1. a.content.ref \in Refs
    BY DEF AssetIds, Contents
  <1>2. CASE local = {}
    <2>1. OwnedEntry(a) = [asset |-> a, inft |-> 0, ref |-> a.content.ref]
      BY <1>2 DEF OwnedEntry
    <2> QED
      BY <1>1, <2>1 DEF Entries
  <1>3. CASE local # {}
    <2>1. OwnedEntry(a) = [asset |-> a, inft |-> Max(local), ref |-> items[Max(local)].ref]
      BY <1>3 DEF OwnedEntry
    <2>2. Max(local) \in local
      <3>1. local \in SUBSET Ids
        OBVIOUS
      <3> HIDE DEF local
      <3> QED
        BY <1>3, <3>1, MaxIsMember
    <2>3. PICK x \in Listed(items) : x = Max(local) /\ items[x].asset = a
      BY <2>2
    <2> HIDE DEF local
    <2>4. a # None
      BY NoAssetAssumption
    <2>5. items[x] \in INFT
      BY DEF INFTInv, SliceInv
    <2>6. items[x].ref \in Refs \cup {None}
      BY <2>5 DEF INFT
    <2>7. /\ a.content.ref.root = x
          /\ items[x].ref # None => items[x].ref.root = x
      BY <2>3, <2>4 DEF INFTInv, SliceInv, Sound
    <2>8. OwnedEntry(a) = [asset |-> a, inft |-> x, ref |-> items[x].ref]
      BY <2>1, <2>3
    <2> QED
      BY <2>6, <2>7, <2>8 DEF Entries
  <1> QED
    BY <1>2, <1>3

\* A viewer is shown the entries that the slice has for those assets.
LEMMA OwnedListStep ==
    ASSUME INFTInv, NEW v \in Viewers, OwnedListINFTs(v)
    PROVE  INFTInv'
  <1> DEFINE shown == {OwnedEntry(a) : a \in owned[v].assets}
             job == [pc |-> "done", assets |-> {}, shown |-> shown]
  <1>1. owned' = [owned EXCEPT ![v] = job] /\ UnchangedByList
    BY DEF OwnedListINFTs
  <1>2. \A a \in owned[v].assets : a \in AssetIds /\ assets[a] # None
    BY DEF INFTInv, OwnedInv
  <1>3. \A e \in shown :
            /\ e \in Entries /\ assets[e.asset] # None
            /\ e.ref # None => e.ref.root = e.asset.content.ref.root
            /\ e.inft # 0 => e.inft = e.asset.content.ref.root
    BY <1>2, EntryShowsOwn
  <1> HIDE DEF shown
  <1>4. /\ job \in [pc : {"idle", "asked"} \cup Over, assets : SUBSET AssetIds,
                    shown : SUBSET Entries]
        /\ job.assets = {} /\ job.shown = shown
    BY <1>3 DEF Over
  <1> HIDE DEF job
  <1> QED
    BY <1>1, <1>3, <1>4, OwnedStep

-----------------------------------------------------------------------------
(***************************************************************************)
(* Crashes, and the other steps                                            *)
(***************************************************************************)

\* A crash ends the calls, and the slice is what the file says.
LEMMA CrashStep == ASSUME INFTInv, Crash PROVE INFTInv'
  <1>1. /\ crashes < MaxCrashes /\ crashes' = crashes + 1 /\ pending' = {}
        /\ items' \in {file, NoItems}
        /\ UNCHANGED <<file, made, pub, confirmed, assets, ownerAssets, transfers>>
        /\ reg' = [r \in Registers |->
               IF reg[r].tx # "reading" THEN reg[r]
               ELSE [reg[r] EXCEPT !.copy = Blank, !.tx = "refused"]]
        /\ final' = [f \in Calls |-> NoJob("idle")]
        /\ uploader' = [f \in Calls |-> NoJob("none")]
        /\ regFinal' = [g \in RegCalls |-> NoJob("idle")]
        /\ distill' = [d \in Distills |-> [distill[d] EXCEPT !.pc = Restarted(@)]]
        /\ owned' = [v \in Viewers |-> [owned[v] EXCEPT !.pc = Restarted(@), !.assets = {}]]
    BY DEF Crash, Reload, Loaded
  <1>2. SliceInv' /\ FinalInv' /\ UploadInv' /\ RegFinalInv'
    <2>1. SliceInv'
      <3>1. items' \in {file, NoItems} /\ UNCHANGED <<file, made, pub, assets>>
        BY <1>1
      <3>2. SliceInv
        BY DEF INFTInv
      <3> HIDE DEF Slices, NoItems
      <3> QED
        BY <3>1, <3>2, NothingListed DEF SliceInv
    <2>2. FinalInv' /\ UploadInv'
      BY <1>1, IdleJobs DEF FinalInv, UploadInv, PublishJobNow
    <2>3. RegFinalInv'
      <3>1. /\ regFinal' \in [RegCalls -> Job(RegPC, Registers)]
            /\ \A g \in RegCalls : regFinal'[g].pc = "idle" /\ regFinal'[g].list = NoItems
        BY <1>1, IdleJobs
      <3> QED
        BY <3>1, NothingListed DEF RegFinalInv, RegisterJob
    <2> QED
      BY <2>1, <2>2, <2>3
  <1>3. RegInv'
    <2> SUFFICES ASSUME NEW r \in Registers
                 PROVE  reg'[r] \in Reg /\ Registration(reg'[r], assets', made')
      BY <1>1 DEF RegInv
    <2>1. reg[r] \in Reg /\ Registration(reg[r], assets', made')
      BY <1>1 DEF INFTInv, RegInv
    <2> DEFINE refused == [reg[r] EXCEPT !.copy = Blank, !.tx = "refused"]
    <2>2. refused \in Reg /\ refused.tx = "refused"
      BY <2>1, NothingListed DEF Reg
    <2> HIDE DEF refused
    <2>3. Registration(refused, assets', made')
      BY <2>2 DEF Registration, Sent
    <2>4. reg'[r] = reg[r] \/ reg'[r] = refused
      BY <1>1 DEF refused
    <2> QED
      BY <2>1, <2>2, <2>3, <2>4
  <1>4. ChainInv'
    BY <1>1, ChainStays
  <1>5. \A pc \in {"idle", "asked", "ready"} \cup Over : Restarted(pc) \in {"idle"} \cup Over
    BY DEF Restarted, Over
  <1>6. DistillInv'
    <2>1. \A d \in Distills :
              /\ distill'[d] \in [pc : {"idle", "ready"} \cup Over, parent : Ids \cup {0}]
              /\ distill'[d].parent = distill[d].parent
      BY <1>1, <1>5 DEF INFTInv, DistillInv
    <2> QED
      BY <1>1, <2>1 DEF INFTInv, DistillInv
  <1>7. OwnedInv'
    <2>1. \A v \in Viewers :
              /\ owned'[v] \in [pc : {"idle", "asked"} \cup Over, assets : SUBSET AssetIds,
                                shown : SUBSET Entries]
              /\ owned'[v].assets = {} /\ owned'[v].shown = owned[v].shown
      BY <1>1, <1>5 DEF INFTInv, OwnedInv
    <2>2. owned' \in [Viewers -> [pc : {"idle", "asked"} \cup Over, assets : SUBSET AssetIds,
                                  shown : SUBSET Entries]]
      BY <1>1, <2>1
    <2>3. OwnedShowsOwnContent'
      BY <1>1, <2>1 DEF INFTInv, OwnedInv, OwnedShowsOwnContent
    <2> QED
      BY <2>1, <2>2, <2>3 DEF OwnedInv
  <1>8. MadeInv' /\ PubInv' /\ CountersInv'
    <2>1. MadeInv' /\ PubInv'
      BY <1>1 DEF INFTInv, MadeInv, PubInv
    <2>2. /\ crashes < MaxCrashes /\ crashes' = crashes + 1 /\ pending' = {}
          /\ confirmed' = confirmed /\ transfers' = transfers
      BY <1>1
    <2>3. CountersInv
      BY DEF INFTInv
    <2> QED
      BY <2>1, <2>2, <2>3 DEF CountersInv
  <1> QED
    BY <1>2, <1>3, <1>4, <1>6, <1>7, <1>8 DEF INFTInv

\* What changes none of the variables the parts rest on, and writes what is in memory.
LEMMA OtherStep ==
    ASSUME INFTInv, items' = items, file' \in {file, items}, pending' \subseteq pending,
           UNCHANGED <<made, pub, reg, final, uploader, regFinal, confirmed, distill, owned,
                       assets, ownerAssets, transfers, crashes>>
    PROVE  INFTInv'
  <1>1. StateGrows
    BY NothingShrinks DEF StateGrows
  <1>2. SliceInv'
    BY DEF INFTInv, SliceInv
  <1>3. FinalInv' /\ UploadInv' /\ RegFinalInv' /\ RegInv' /\ ChainInv' /\ DistillInv' /\ OwnedInv'
    BY <1>1, FinalKept, UploadKept, RegFinalKept, RegKept, ChainKept, DistillKept, OwnedKept
    DEF INFTInv
  <1>4. MadeInv' /\ PubInv' /\ CountersInv'
    BY DEF INFTInv, MadeInv, PubInv, CountersInv
  <1> QED
    BY <1>2, <1>3, <1>4 DEF INFTInv

\* The invariant holds in every state.
LEMMA INFTInvariant == Spec => []INFTInv
  <1>1. INFTInv /\ [Next]_vars => INFTInv'
    <2> SUFFICES ASSUME INFTInv, [Next]_vars PROVE INFTInv'
      OBVIOUS
    <2>1. CASE \E d \in Distills : CreateDistilledINFT(d)
      BY <2>1, DistillReadStep, DistillSaveStep DEF CreateDistilledINFT
    <2>2. ASSUME NEW p \in Publishes,
                 PrepareINFTPublish(p) \/ WalletSendsPublish(p) \/ ChainMinesPublish(p)
          PROVE  INFTInv'
      BY <2>2, PreparePublishStep, PublishTxStep
      DEF WalletSendsPublish, ChainMinesPublish, Sent
    <2>3. ASSUME NEW r \in Registers,
                 \/ RegisterGetINFT(r) \/ PrepareINFTRegister(r)
                 \/ WalletSendsRegister(r) \/ ChainMinesRegister(r)
          PROVE  INFTInv'
      BY <2>3, RegisterGetStep, PrepareRegisterStep, WalletSendsRegisterStep,
         ChainMinesRegisterStep
    <2>4. CASE \E v \in Viewers : ListOwnedINFTsByWallet(v)
      BY <2>4, OwnedQueryStep, OwnedListStep DEF ListOwnedINFTsByWallet
    <2>5. CASE SnapshotExpires \/ OtherWrite \/ UNCHANGED vars
      BY <2>5, OtherStep DEF SnapshotExpires, OtherWrite, FlushElsewhere, vars
    <2> QED
      BY <2>1, <2>2, <2>3, <2>4, <2>5, CreateTrainingStep, FinalizeStep, UploadStep,
         RegFinalizeStep, transferAssetStep, CrashStep DEF Next
  <1> QED
    BY <1>1, InitInv, PTL DEF Spec

-----------------------------------------------------------------------------

\* The slices, requests, snapshots and the contract keep their types: no asset names a
\* parent that has a parent itself.
THEOREM INFTTypeCorrect == Spec => []TypeOK
  <1>1. INFTInv => TypeOK
    BY DEF INFTInv, TypeOK, MadeInv, DistillInv, SliceInv, PubInv, FinalInv, UploadInv, RegInv,
           Reg, RegFinalInv, ChainInv, OwnedInv, CountersInv
  <1> QED
    BY <1>1, INFTInvariant, PTL

\* The reference on an iNFT has the root of this iNFT and the transaction of a publish
\* of it that was sent, although jobs of several iNFTs write whole old slices back.
THEOREM ProofsAreOfOwnContent == Spec => []ProofIsOfOwnContent
  <1>1. INFTInv => ProofIsOfOwnContent
    BY DEF INFTInv, SliceInv, Sound, ProofIsOfOwnContent
  <1> QED
    BY <1>1, INFTInvariant, PTL

\* An iNFT that the slice or the file says is registered has an asset on the chain that
\* was made from it.
THEOREM RegisteredAreOnChain == Spec => []RegisteredOnChain
  <1>1. INFTInv => RegisteredOnChain
    BY DEF INFTInv, SliceInv, Sound, RegisteredOnChain
  <1> QED
    BY <1>1, INFTInvariant, PTL

\* The parent an asset names is on the chain, and made from the iNFT the asset's iNFT
\* is distilled from.
THEOREM ProvenanceHolds == Spec => []ProvenanceChain
  <1>1. INFTInv => ProvenanceChain
    BY DEF INFTInv, ChainInv, Founded, ProvenanceChain
  <1> QED
    BY <1>1, INFTInvariant, PTL

\* Each entry of the list of a wallet's iNFTs has the data of the iNFT its asset was
\* made from.
THEOREM OwnedListIsRight == Spec => []OwnedShowsOwnContent
  <1>1. INFTInv => OwnedShowsOwnContent
    BY DEF INFTInv, OwnedInv
  <1> QED
    BY <1>1, INFTInvariant, PTL
=============================================================================
