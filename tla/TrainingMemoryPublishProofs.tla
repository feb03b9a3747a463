-------------------- MODULE TrainingMemoryPublishProofs --------------------
(***************************************************************************)
(* What a published sample says of itself is true: its root covers it, a   *)
(* completed sample is stored where its reference says, and a snapshot is  *)
(* used once.                                                              *)
(***************************************************************************)
EXTENDS TrainingMemoryProofs

\* The publishes that stored their payload: what a completed sample may refer to.
Backed ==
    {d \in Directs : Sim \/ d \in uploaded}
        \cup {p \in Publishes : p \in uploaded /\ tx[p] = "success"}

-----------------------------------------------------------------------------
(***************************************************************************)
(* The protocol of the wallet publish                                      *)
(***************************************************************************)

\* A publish is prepared once, with samples; its snapshot goes before its first
\* mark and its segments; and it is sent before it is finalized.
WalletInv ==
    /\ \A p \in Publishes :
          /\ tx[p] = "none" => payload[p] = {} /\ p \notin snapshots
          /\ tx[p] # "none" => payload[p] # {}
          /\ p \in uploaded => tx[p] = "success" /\ p \notin snapshots
    /\ \A f \in Calls :
          /\ final[f].pc # "idle" => tx[final[f].pub] \notin {"none", "unsent"}
          /\ final[f].pc \in {"accepted", "listed"} => final[f].pub \notin snapshots
          /\ uploader[f].pc \in {"waiting", "uploaded", "listed"} =>
                 final[f].pub \notin snapshots
          /\ uploader[f].pc \in {"uploaded", "listed"} => final[f].pub \in uploaded

\* A direct publish holds the samples of its payload until it has marked them.
DirectInv ==
    \A d \in Directs :
        /\ direct[d].pc = "idle" => payload[d] = {}
        /\ direct[d].pc \in {"storing", "stored"} => payload[d] = DOMAIN direct[d].list
        /\ direct[d].pc = "stored" => Sim \/ d \in uploaded

LEMMA FinalizeMoves ==
    ASSUME TypeInv, NEW f \in Calls, FinalizeStep(f)
    PROVE  /\ \A g \in Calls \ {f} : final'[g] = final[g] /\ uploader'[g] = uploader[g]
           /\ UNCHANGED <<payload, tx, uploaded, direct>>
           /\ \/ /\ final[f].pc = "idle" /\ final'[f].pc \in {"checking", "failed"}
                 /\ tx[final'[f].pub] \in {"pending", "success", "failed"}
                 /\ snapshots' \subseteq snapshots /\ uploader' = uploader
              \/ /\ final[f].pc = "checking" /\ final'[f].pc = "accepted"
                 /\ final'[f].pub = final[f].pub
                 /\ snapshots' = snapshots \ {final[f].pub}
                 /\ uploader'[f].pc = "waiting"
              \/ /\ final[f].pc # "idle" /\ final'[f].pub = final[f].pub
                 /\ final'[f].pc # "accepted"
                 /\ final'[f].pc = "listed" => final[f].pc = "accepted"
                 /\ UNCHANGED <<snapshots, uploader>>
  <1>0. /\ \A g \in Calls \ {f} : final'[g] = final[g] /\ uploader'[g] = uploader[g]
        /\ final[f].pc # "idle" => final'[f].pub = final[f].pub
    BY FinalizeEffect DEF FinalizeShape, TypeInv
  <1>1. UNCHANGED <<payload, tx, uploaded, direct>>
    BY DEF FinalizeStep, FinalizeGetSnapshot, FinalizeRejectTx, FinalizeAcceptTx,
           FinalizeListSamples, FinalizeUpdateSamples, FinalizeSaveLog,
           UnchangedByFinalize
  <1>2. CASE FinalizeGetSnapshot(f)
    <2>1. PICK p \in Publishes, pc \in {"checking", "failed"} :
              /\ final' = [final EXCEPT ![f].pc = pc, ![f].pub = p]
              /\ tx[p] \in {"pending", "success", "failed"}
      BY <1>2 DEF FinalizeGetSnapshot
    <2>2. final'[f].pc = pc /\ final'[f].pub = p
      BY <2>1 DEF TypeInv, TypeOK
    <2>3. final[f].pc = "idle" /\ snapshots' \subseteq snapshots /\ uploader' = uploader
      BY <1>2 DEF FinalizeGetSnapshot
    <2> QED
      BY <1>0, <1>1, <2>1, <2>2, <2>3
  <1>3. ASSUME NEW pc, FinalizeTo(f, pc)
        PROVE  final'[f].pc = pc
    <2>1. final \in [Calls -> FinalRecord]
      BY DEF TypeInv, TypeOK, FinalRecord
    <2> QED
      BY <1>3, <2>1 DEF FinalizeTo, FinalRecord
  <1>4. CASE FinalizeAcceptTx(f)
    <2>1. uploader'[f].pc = "waiting"
      BY <1>4 DEF FinalizeAcceptTx, TypeInv, TypeOK
    <2>2. /\ final[f].pc = "checking" /\ final'[f].pc = "accepted"
          /\ snapshots' = snapshots \ {final[f].pub}
      BY <1>3, <1>4 DEF FinalizeAcceptTx
    <2> QED
      BY <1>0, <1>1, <2>1, <2>2
  <1>5. CASE FinalizeRejectTx(f) \/ FinalizeUpdateSamples(f) \/ FinalizeSaveLog(f)
    <2>1. final'[f].pc \in {"failed", "logging", "done"}
      BY <1>3, <1>5
      DEF FinalizeRejectTx, FinalizeUpdateSamples, FinalizeSaveLog, Over
    <2>2. UNCHANGED <<snapshots, uploader>> /\ final[f].pc # "idle"
      BY <1>5 DEF FinalizeRejectTx, FinalizeUpdateSamples, FinalizeSaveLog
    <2> QED
      BY <1>0, <1>1, <2>1, <2>2
  <1>6. CASE FinalizeListSamples(f)
    <2>1. ASSUME final' = [final EXCEPT ![f].pc = "listed", ![f].list = store.dataset]
          PROVE  final'[f].pc = "listed"
      <3>1. final \in [Calls -> FinalRecord]
        BY DEF TypeInv, TypeOK, FinalRecord
      <3> QED
        BY <2>1, <3>1 DEF FinalRecord
    <2>2. /\ UNCHANGED <<snapshots, uploader>> /\ final[f].pc = "accepted"
          /\ final'[f].pc \in {"listed", "logging"}
      BY <1>3, <1>6, <2>1 DEF FinalizeListSamples
    <2> QED
      BY <1>0, <1>1, <2>2
  <1> QED
    BY <1>2, <1>4, <1>5, <1>6 DEF FinalizeStep

LEMMA UploadMoves ==
    ASSUME TypeInv, NEW f \in Calls, UploadStep(f)
    PROVE  /\ \A g \in Calls \ {f} : uploader'[g] = uploader[g]
           /\ UNCHANGED <<final, snapshots, payload, tx, direct>>
           /\ \/ /\ uploader[f].pc = "waiting" /\ uploader'[f].pc = "uploaded"
                 /\ tx[final[f].pub] = "success"
                 /\ uploaded' = uploaded \cup {final[f].pub}
              \/ /\ uploader'[f].pc = "listed" => uploader[f].pc = "uploaded"
                 /\ uploader'[f].pc \in {"listed", "ended"} /\ uploaded' = uploaded
  <1>0. uploader \in [Calls -> UploaderRecord]
    BY DEF TypeInv, TypeOK, UploaderRecord
  <1>1. ASSUME NEW pc, UploadTo(f, pc)
        PROVE  uploader'[f].pc = pc
    BY <1>0, <1>1 DEF UploadTo, UploaderRecord
  <1>2. ASSUME uploader' = [uploader EXCEPT ![f].pc = "listed", ![f].list = store.dataset]
        PROVE  uploader'[f].pc = "listed"
    BY <1>0, <1>2 DEF UploaderRecord
  <1>3. \A g \in Calls \ {f} : uploader'[g] = uploader[g]
    BY UploadListMoves DEF TypeInv
  <1>4. UNCHANGED <<final, snapshots, payload, tx, direct>>
    BY DEF UploadStep, UploadSegments, UploadGivesUp, UploadListSamples,
           UploadUpdateSamples, UnchangedByUpload
  <1>5. CASE UploadSegments(f)
    BY <1>1, <1>3, <1>4, <1>5 DEF UploadSegments
  <1>6. CASE UploadListSamples(f)
    BY <1>1, <1>2, <1>3, <1>4, <1>6 DEF UploadListSamples
  <1>7. CASE UploadGivesUp(f) \/ UploadUpdateSamples(f)
    BY <1>1, <1>3, <1>4, <1>7 DEF UploadGivesUp, UploadUpdateSamples
  <1> QED
    BY <1>5, <1>6, <1>7 DEF UploadStep

LEMMA WalletInvInit == Init => WalletInv /\ DirectInv
  BY DEF Init, WalletInv, DirectInv, Roots

LEMMA WalletInvStep ==
    ASSUME TypeInv, WalletInv, [Next]_vars
    PROVE  WalletInv'
  <1> USE DEF WalletInv
  <1>0. StoreAssumption /\ TypeOK /\ CallHasPublish
    BY StoreAssumption DEF TypeInv
  <1>1. CASE UNCHANGED <<tx, payload, snapshots, uploaded, final, uploader>>
    BY <1>1
  <1>2. ASSUME NEW p \in Publishes, PrepareWalletPublish(p)
        PROVE  WalletInv'
    <2>1. /\ p \in Roots /\ payload' = [payload EXCEPT ![p] = DOMAIN store.dataset]
          /\ tx' = [tx EXCEPT ![p] = "unsent"] /\ tx[p] = "none"
          /\ snapshots' = snapshots \cup {p} /\ DOMAIN store.dataset # {}
          /\ UNCHANGED <<uploaded, final, uploader>>
      BY <1>2 DEF PrepareWalletPublish, Roots
    <2>2. \A q \in Publishes \ {p} : tx'[q] = tx[q] /\ payload'[q] = payload[q]
      BY <1>0, <2>1 DEF TypeOK, Roots
    <2>3. tx'[p] = "unsent" /\ payload'[p] # {}
      BY <1>0, <2>1 DEF TypeOK
    <2>4. \A f \in Calls : final[f].pc # "idle" => final[f].pub \in Publishes \ {p}
      BY <1>0, <2>1 DEF CallHasPublish
    <2>5. \A f \in Calls : uploader[f].pc # "none" => final[f].pc # "idle"
      BY <1>0 DEF CallHasPublish
    <2> QED
      BY <2>1, <2>2, <2>3, <2>4, <2>5
  <1>3. ASSUME NEW p \in Publishes, WalletSendsTx(p) \/ ChainMinesTx(p)
        PROVE  WalletInv'
    <2>1. PICK status \in {"pending", "success", "failed"} :
              tx' = [tx EXCEPT ![p] = status]
      BY <1>3 DEF WalletSendsTx, ChainMinesTx, SetTx
    <2>2. /\ tx[p] \in {"unsent", "pending"}
          /\ UNCHANGED <<payload, snapshots, uploaded, final, uploader>>
      BY <1>3 DEF WalletSendsTx, ChainMinesTx, SetTx
    <2>3. tx'[p] = status /\ \A q \in Publishes \ {p} : tx'[q] = tx[q]
      BY <1>0, <2>1 DEF TypeOK
    <2>4. \A f \in Calls : final[f].pc # "idle" => final[f].pub \in Publishes
      BY <1>0 DEF CallHasPublish
    <2> QED
      BY <2>2, <2>3, <2>4
  <1>4. ASSUME NEW f \in Calls, FinalizeStep(f)
        PROVE  WalletInv'
    BY <1>0, <1>4, FinalizeMoves DEF CallHasPublish
  <1>5. ASSUME NEW f \in Calls, UploadStep(f)
        PROVE  WalletInv'
    BY <1>0, <1>5, UploadMoves DEF CallHasPublish
  <1>6. CASE Crash
    <2>1. UNCHANGED <<payload, tx, uploaded>> /\ snapshots' = {}
      BY <1>6 DEF Crash
    <2>2. \A f \in Calls :
              /\ final'[f].pub = final[f].pub
              /\ final'[f].pc = "idle" <=> final[f].pc = "idle"
              /\ uploader'[f].pc \in {"none", "ended"}
      BY <1>0, <1>6, CrashEffect
    <2> QED
      BY <2>1, <2>2
  <1>7. ASSUME NEW d \in Directs, DirectStep(d)
        PROVE  WalletInv'
    <2>1. UNCHANGED <<tx, snapshots, final, uploader>>
      BY <1>7 DEF DirectStep, DirectListSamples, DirectStorePayload,
                  DirectUpdateSamples, DirectSaveLog, UnchangedByDirect
    <2>2. uploaded' = uploaded \/ uploaded' = uploaded \cup {d}
      BY <1>7 DEF DirectStep, DirectListSamples, DirectStorePayload,
                  DirectUpdateSamples, DirectSaveLog
    <2>3. payload' = payload \/ payload' = [payload EXCEPT ![d] = DOMAIN store.dataset]
      BY <1>7 DEF DirectStep, DirectListSamples, DirectStorePayload,
                  DirectUpdateSamples, DirectSaveLog
    <2>4. d \notin Publishes /\ \A p \in Publishes : p \in Roots /\ p # d
      BY <1>0 DEF StoreAssumption, Roots
    <2>5. \A p \in Publishes : payload'[p] = payload[p]
      BY <1>0, <2>3, <2>4 DEF TypeOK
    <2> QED
      BY <2>1, <2>2, <2>4, <2>5
  <1>8. ASSUME \/ \E c \in Chats : ChatStep(c)
               \/ UpsertBot \/ WriteElsewhere
        PROVE  UNCHANGED <<tx, payload, snapshots, uploaded, final, uploader>>
    BY <1>8 DEF ChatStep, ChatGetBot, ChatAppendMemory, ChatSaveBot, ChatSaveSample,
                UnchangedByChat, UpsertBot, WriteElsewhere
  <1> QED
    BY <1>1, <1>2, <1>3, <1>4, <1>5, <1>6, <1>7, <1>8 DEF Next, vars

LEMMA DirectInvStep ==
    ASSUME TypeInv, DirectInv, [Next]_vars
    PROVE  DirectInv'
  <1> USE DEF DirectInv
  <1>0. StoreAssumption /\ TypeOK /\ Directs \subseteq Roots
    BY StoreAssumption DEF TypeInv, Roots
  <1>1. CASE UNCHANGED <<payload, uploaded, direct>>
    BY <1>1
  <1>2. ASSUME NEW d \in Directs, DirectStep(d)
        PROVE  DirectInv'
    <2>1. \A e \in Directs \ {d} : direct'[e] = direct[e]
      BY <1>0, <1>2, DirectListMoves
    <2>2. uploaded \subseteq uploaded'
      BY <1>2 DEF DirectStep, DirectListSamples, DirectStorePayload,
                  DirectUpdateSamples, DirectSaveLog
    <2>3. payload' = payload \/ payload' = [payload EXCEPT ![d] = DOMAIN store.dataset]
      BY <1>2 DEF DirectStep, DirectListSamples, DirectStorePayload,
                  DirectUpdateSamples, DirectSaveLog
    <2>4. \A e \in Directs \ {d} : payload'[e] = payload[e]
      BY <1>0, <2>3 DEF TypeOK
    <2>5. direct \in [Directs -> DirectRecord]
      BY <1>0 DEF TypeOK, DirectRecord
    <2>6. /\ direct'[d].pc # "idle"
          /\ direct'[d].pc \in {"storing", "stored"} => payload'[d] = DOMAIN direct'[d].list
          /\ direct'[d].pc = "stored" => Sim \/ d \in uploaded'
      <3>0. ASSUME NEW pc, DirectTo(d, pc)
            PROVE  direct'[d].pc = pc
        BY <2>5, <3>0 DEF DirectTo, DirectRecord
      <3>1. CASE DirectListSamples(d) /\ store.bot # None
        <4>1. direct'[d] = [pc |-> "storing", list |-> store.dataset]
          BY <2>5, <3>1 DEF DirectListSamples
        <4>2. payload'[d] = DOMAIN store.dataset
          BY <1>0, <3>1 DEF DirectListSamples, TypeOK
        <4> QED
          BY <4>1, <4>2
      <3>2. CASE DirectListSamples(d) /\ store.bot = None
        BY <3>0, <3>2 DEF DirectListSamples
      <3>3. ASSUME direct' = [direct EXCEPT ![d].pc = "stored"]
            PROVE  direct'[d].pc = "stored" /\ direct'[d].list = direct[d].list
        BY <2>5, <3>3 DEF DirectRecord
      <3>4. CASE DirectStorePayload(d)
        BY <3>0, <3>3, <3>4 DEF DirectStorePayload
      <3>5. CASE DirectUpdateSamples(d) \/ DirectSaveLog(d)
        BY <3>0, <3>5 DEF DirectUpdateSamples, DirectSaveLog, Over
      <3> QED
        BY <1>2, <3>1, <3>2, <3>4, <3>5 DEF DirectStep
    <2> QED
      BY <2>1, <2>2, <2>4, <2>6
  <1>3. ASSUME NEW p \in Publishes, PrepareWalletPublish(p)
        PROVE  DirectInv'
    <2>1. /\ payload' = [payload EXCEPT ![p] = DOMAIN store.dataset]
          /\ UNCHANGED <<uploaded, direct>>
      BY <1>3 DEF PrepareWalletPublish
    <2>2. \A d \in Directs : payload'[d] = payload[d]
      BY <1>0, <2>1 DEF TypeOK, StoreAssumption
    <2> QED
      BY <2>1, <2>2
  <1>4. ASSUME NEW f \in Calls, FinalizeStep(f)
        PROVE  UNCHANGED <<payload, uploaded, direct>>
    BY <1>4, FinalizeMoves
  <1>5. ASSUME NEW f \in Calls, UploadStep(f)
        PROVE  DirectInv'
    BY <1>5, UploadMoves
  <1>6. CASE Crash
    <2>1. UNCHANGED <<payload, uploaded>>
      BY <1>6 DEF Crash
    <2>2. \A d \in Directs : /\ direct'[d].pc = "idle" <=> direct[d].pc = "idle"
                             /\ direct'[d].pc \in {"idle", "done", "failed"}
      BY <1>0, <1>6, CrashEffect DEF Over
    <2> QED
      BY <2>1, <2>2
  <1>7. ASSUME \/ \E c \in Chats : ChatStep(c)
               \/ UpsertBot \/ WriteElsewhere
               \/ \E p \in Publishes : WalletSendsTx(p) \/ ChainMinesTx(p)
        PROVE  UNCHANGED <<payload, uploaded, direct>>
    BY <1>7 DEF ChatStep, ChatGetBot, ChatAppendMemory, ChatSaveBot, ChatSaveSample,
                UnchangedByChat, UpsertBot, WriteElsewhere, WalletSendsTx, ChainMinesTx, SetTx
  <1> QED
    BY <1>1, <1>2, <1>3, <1>4, <1>5, <1>6, <1>7 DEF Next, vars

-----------------------------------------------------------------------------
(***************************************************************************)
(* Sound lists of samples                                                  *)
(***************************************************************************)

\* The samples of ds are covered by the payload of their root, no snapshot is
\* left of it, and the completed ones refer to a publish of backed.
Sound(ds, pay, snaps, backed) ==
    \A c \in DOMAIN ds :
        /\ ds[c].root # None => c \in pay[ds[c].root]
        /\ ds[c].root \notin snaps
        /\ ds[c].completed => ds[c].ref \in backed

\* What a step may do to the payloads, the snapshots and the stored publishes.
WorldMoves ==
    /\ \A r \in Roots : payload[r] = {} \/ payload'[r] = payload[r]
    /\ \A p \in snapshots' : p \in snapshots \/ payload[p] = {}
    /\ Backed \subseteq Backed'

LEMMA SoundKept ==
    ASSUME NEW ds \in Dataset, Sound(ds, payload, snapshots, Backed),
           WorldMoves, snapshots' \subseteq Publishes
    PROVE  Sound(ds, payload', snapshots', Backed')
  <1> SUFFICES ASSUME NEW c \in DOMAIN ds
               PROVE  /\ ds[c].root # None => c \in payload'[ds[c].root]
                      /\ ds[c].root \notin snapshots'
                      /\ ds[c].completed => ds[c].ref \in Backed'
    BY DEF Sound
  <1>1. ds[c] \in Proof
    BY DatasetElim
  <1>2. ds[c].root \in Roots \cup {None} /\ None \notin Publishes
    BY <1>1, StoreAssumption DEF Proof
  <1>3. CASE ds[c].root = None
    BY <1>2, <1>3 DEF Sound, WorldMoves
  <1>4. CASE ds[c].root # None
    <2>1. ds[c].root \in Roots /\ c \in payload[ds[c].root]
      BY <1>2, <1>4 DEF Sound
    <2> QED
      BY <2>1 DEF Sound, WorldMoves
  <1> QED
    BY <1>3, <1>4

LEMMA NoSamplesSound ==
    ASSUME NEW pay, NEW snaps, NEW backed
    PROVE  Sound(NoSamples, pay, snaps, backed)
  BY NoSamplesType DEF Sound

LEMMA WithSampleSound ==
    ASSUME NEW ds \in Dataset, NEW c \in Chats, NEW pay, NEW snaps \in SUBSET Publishes,
           NEW backed, Sound(ds, pay, snaps, backed)
    PROVE  Sound(WithSample(ds, c), pay, snaps, backed)
  BY StoreAssumption DEF Sound, WithSample, NoProof

LEMMA MarkedSound ==
    ASSUME NEW ds \in Dataset, NEW ids, NEW ref \in Roots, NEW root \in Roots \cup {None},
           NEW done \in BOOLEAN, NEW pay, NEW snaps, NEW backed,
           Sound(ds, pay, snaps, backed),
           ids # {} \/ DOMAIN ds = {},
           root # None => ids \subseteq pay[root],
           root \notin snaps,
           done => ref \in backed
    PROVE  Sound(ApplyByID(ds, ids, Marked(ref, root, done)), pay, snaps, backed)
  <1> DEFINE new == ApplyByID(ds, ids, Marked(ref, root, done))
  <1>1. DOMAIN new = DOMAIN ds
    BY ApplyByIDType
  <1>2. ASSUME NEW c \in DOMAIN ds
        PROVE  /\ new[c].root # None => c \in pay[new[c].root]
               /\ new[c].root \notin snaps
               /\ new[c].completed => new[c].ref \in backed
    <2>1. CASE c \notin ids
      <3>1. new[c] = ds[c]
        BY <1>2, <2>1 DEF ApplyByID
      <3> QED
        BY <3>1 DEF Sound
    <2>2. CASE c \in ids
      <3>1. new[c] = ApplyPublishState(ds[c], Marked(ref, root, done))
        BY <1>2, <2>2 DEF ApplyByID
      <3>2. /\ new[c].root = IF root = None THEN ds[c].root ELSE root
            /\ new[c].ref = ref /\ new[c].completed = done
        <4>1. ref # None
          BY StoreAssumption DEF Roots
        <4> QED
          BY <3>1, <4>1 DEF ApplyPublishState, Marked, OrOld
      <3> HIDE DEF new
      <3> QED
        BY <2>2, <3>2 DEF Sound
    <2> QED
      BY <2>1, <2>2
  <1> QED
    BY <1>1, <1>2 DEF Sound

LEMMA WorldMovesStep ==
    ASSUME TypeInv, WalletInv, DirectInv, [Next]_vars
    PROVE  WorldMoves
  <1>0. StoreAssumption /\ TypeOK
    BY StoreAssumption DEF TypeInv
  <1>1. ASSUME UNCHANGED payload, snapshots' \subseteq snapshots,
               uploaded \subseteq uploaded',
               \A p \in Publishes : tx[p] = "success" => tx'[p] = "success"
        PROVE  WorldMoves
    BY <1>1 DEF WorldMoves, Backed
  <1>2. ASSUME NEW p \in Publishes, PrepareWalletPublish(p)
        PROVE  WorldMoves
    <2>1. /\ payload' = [payload EXCEPT ![p] = DOMAIN store.dataset]
          /\ tx' = [tx EXCEPT ![p] = "unsent"] /\ tx[p] = "none"
          /\ snapshots' = snapshots \cup {p} /\ uploaded' = uploaded
      BY <1>2 DEF PrepareWalletPublish
    <2>2. payload[p] = {}
      BY <2>1 DEF WalletInv
    <2>3. \A q \in Publishes : tx[q] = "success" => tx'[q] = "success"
      BY <1>0, <2>1 DEF TypeOK
    <2>4. \A r \in Roots : payload[r] = {} \/ payload'[r] = payload[r]
      BY <1>0, <2>1, <2>2 DEF TypeOK
    <2> QED
      BY <2>1, <2>2, <2>3, <2>4 DEF WorldMoves, Backed
  <1>3. ASSUME NEW p \in Publishes, WalletSendsTx(p) \/ ChainMinesTx(p)
        PROVE  WorldMoves
    <2>1. PICK status : tx' = [tx EXCEPT ![p] = status]
      BY <1>3 DEF WalletSendsTx, ChainMinesTx, SetTx
    <2>2. tx[p] # "success" /\ UNCHANGED <<payload, snapshots, uploaded>>
      BY <1>3 DEF WalletSendsTx, ChainMinesTx, SetTx
    <2>3. \A q \in Publishes : tx[q] = "success" => tx'[q] = "success"
      BY <1>0, <2>1, <2>2 DEF TypeOK
    <2> QED
      BY <1>1, <2>2, <2>3
  <1>4. ASSUME NEW f \in Calls, FinalizeStep(f)
        PROVE  WorldMoves
    BY <1>1, <1>4, FinalizeMoves
  <1>5. ASSUME NEW f \in Calls, UploadStep(f)
        PROVE  WorldMoves
    BY <1>1, <1>5, UploadMoves
  <1>6. ASSUME NEW d \in Directs, DirectStep(d)
        PROVE  WorldMoves
    <2>1. UNCHANGED <<tx, snapshots>> /\ uploaded \subseteq uploaded'
      BY <1>6 DEF DirectStep, DirectListSamples, DirectStorePayload,
                  DirectUpdateSamples, DirectSaveLog, UnchangedByDirect
    <2>2. \/ UNCHANGED payload
          \/ /\ payload' = [payload EXCEPT ![d] = DOMAIN store.dataset]
             /\ direct[d].pc = "idle"
      BY <1>6 DEF DirectStep, DirectListSamples, DirectStorePayload,
                  DirectUpdateSamples, DirectSaveLog
    <2>3. \A r \in Roots : payload[r] = {} \/ payload'[r] = payload[r]
      BY <1>0, <2>2 DEF TypeOK, DirectInv
    <2> QED
      BY <2>1, <2>3 DEF WorldMoves, Backed
  <1>7. CASE Crash
    <2>1. UNCHANGED <<payload, tx, uploaded>> /\ snapshots' = {}
      BY <1>7 DEF Crash
    <2> QED
      BY <1>1, <2>1
  <1>8. CASE \/ \E c \in Chats : ChatStep(c)
             \/ UpsertBot \/ WriteElsewhere
             \/ UNCHANGED vars
    <2>1. UNCHANGED <<payload, tx, uploaded, snapshots>>
      BY <1>8 DEF ChatStep, ChatGetBot, ChatAppendMemory, ChatSaveBot, ChatSaveSample,
                  UnchangedByChat, UpsertBot, WriteElsewhere, vars
    <2> QED
      BY <1>1, <2>1
  <1> QED
    BY <1>2, <1>3, <1>4, <1>5, <1>6, <1>7, <1>8 DEF Next

-----------------------------------------------------------------------------
(***************************************************************************)
(* Every copy of the samples is sound: the store's, the file's, and those  *)
(* the handlers hold between a list and its write back.                    *)
(***************************************************************************)

CopiesInv ==
    /\ \A s \in {store, disk} : Sound(s.dataset, payload, snapshots, Backed)
    /\ \A f \in Calls : /\ Sound(final[f].list, payload, snapshots, Backed)
                        /\ Sound(uploader[f].list, payload, snapshots, Backed)
    /\ \A d \in Directs : Sound(direct[d].list, payload, snapshots, Backed)

LEMMA CopiesInvInit == Init => CopiesInv
  <1> SUFFICES ASSUME Init PROVE CopiesInv
    OBVIOUS
  <1>1. Sound(NoSamples, payload, snapshots, Backed)
    BY NoSamplesSound
  <1>2. store.dataset = NoSamples /\ disk.dataset = NoSamples
    BY DEF Init, NewBot
  <1>3. /\ \A f \in Calls : final[f].list = NoSamples /\ uploader[f].list = NoSamples
        /\ \A d \in Directs : direct[d].list = NoSamples
    BY DEF Init
  <1> QED
    BY <1>1, <1>2, <1>3 DEF CopiesInv

LEMMA CommitSound ==
    ASSUME NEW s, NEW ok, NEW pay, NEW snaps, NEW backed, Commit(s, ok),
           Sound(s.dataset, pay, snaps, backed), Sound(disk.dataset, pay, snaps, backed)
    PROVE  \A t \in {store', disk'} : Sound(t.dataset, pay, snaps, backed)
  <1>1. store' = s /\ disk' \in {s, disk}
    BY DEF Commit, Rename, fileVars
  <1> QED
    BY <1>1

LEMMA WrittenSound ==
    ASSUME TypeOK, NEW ds, NEW ok, NEW pay, NEW snaps, NEW backed,
           UpdateTrainingSamples(ds, ok),
           Sound(ds, pay, snaps, backed), Sound(disk.dataset, pay, snaps, backed)
    PROVE  \A t \in {store', disk'} : Sound(t.dataset, pay, snaps, backed)
  <1>1. [store EXCEPT !.dataset = ds].dataset = ds
    BY DEF TypeOK, StoreState
  <1> QED
    BY <1>1, CommitSound DEF UpdateTrainingSamples

\* The chats and the edits: a sample is added unpublished, the others stay.
LEMMA ChatSound ==
    ASSUME TypeOK, NEW pay, NEW snaps \in SUBSET Publishes, NEW backed,
           \A s \in {store, disk} : Sound(s.dataset, pay, snaps, backed),
           UpsertBot \/ WriteElsewhere \/ \E c \in Chats : ChatStep(c)
    PROVE  \A t \in {store', disk'} : Sound(t.dataset, pay, snaps, backed)
  <1>1. ASSUME NEW b, NEW ok, SaveBot(b, ok)
        PROVE  \A t \in {store', disk'} : Sound(t.dataset, pay, snaps, backed)
    <2>1. [store EXCEPT !.bot = b].dataset = store.dataset
      BY DEF TypeOK, StoreState
    <2> QED
      BY <1>1, <2>1, CommitSound DEF SaveBot
  <1>2. ASSUME NEW c, NEW ok, AppendMemory(c, ok)
        PROVE  \A t \in {store', disk'} : Sound(t.dataset, pay, snaps, backed)
    <2>1. [store EXCEPT !.memories = Append(store.memories, c)].dataset = store.dataset
      BY DEF TypeOK, StoreState
    <2> QED
      BY <1>2, <2>1, CommitSound DEF AppendMemory
  <1>3. ASSUME NEW c \in Chats, NEW ok, SaveTrainingSample(c, ok)
        PROVE  \A t \in {store', disk'} : Sound(t.dataset, pay, snaps, backed)
    <2>1. /\ store.dataset \in Dataset
          /\ [store EXCEPT !.dataset = WithSample(store.dataset, c)].dataset
                 = WithSample(store.dataset, c)
      BY DEF TypeOK, StoreState
    <2>2. Sound(WithSample(store.dataset, c), pay, snaps, backed)
      BY <2>1, WithSampleSound
    <2> QED
      BY <1>3, <2>1, <2>2, CommitSound DEF SaveTrainingSample
  <1>4. CASE UpsertBot
    BY <1>1, <1>4 DEF UpsertBot
  <1>6. CASE WriteElsewhere
    BY <1>6, CommitSound DEF WriteElsewhere, FlushElsewhere
  <1>5. ASSUME NEW c \in Chats, ChatStep(c)
        PROVE  \A t \in {store', disk'} : Sound(t.dataset, pay, snaps, backed)
    <2>1. CASE ChatGetBot(c)
      BY <2>1 DEF ChatGetBot, storeVars, fileVars
    <2>2. CASE ChatAppendMemory(c)
      BY <1>2, <2>2 DEF ChatAppendMemory
    <2>3. CASE ChatSaveBot(c)
      BY <1>1, <2>3 DEF ChatSaveBot
    <2>4. CASE ChatSaveSample(c)
      BY <1>3, <2>4 DEF ChatSaveSample
    <2> QED
      BY <1>5, <2>1, <2>2, <2>3, <2>4 DEF ChatStep
  <1> QED
    BY <1>4, <1>5, <1>6

\* publish_finalize marks the payload of a used snapshot as pending.
LEMMA FinalizeSound ==
    ASSUME TypeInv, WalletInv, CopiesInv, NEW f \in Calls, FinalizeUpdateSamples(f)
    PROVE  \A t \in {store', disk'} : Sound(t.dataset, payload, snapshots, Backed)
  <1> DEFINE p == final[f].pub
             ds == final[f].list
             new == ApplyByID(ds, payload[p], Marked(p, p, FALSE))
  <1>1. PICK ok : UpdateTrainingSamples(new, ok)
    BY DEF FinalizeUpdateSamples
  <1>2. final[f].pc = "listed" /\ final[f] \in FinalRecord
    BY DEF FinalizeUpdateSamples, TypeInv, TypeOK, FinalRecord
  <1>3. ds \in Dataset /\ p \in Publishes /\ p \in Roots
    BY <1>2 DEF FinalRecord, TypeInv, CallHasPublish, Roots
  <1>4. payload[p] # {} /\ p \notin snapshots
    BY <1>2, <1>3 DEF WalletInv
  <1>5. Sound(ds, payload, snapshots, Backed) /\ Sound(disk.dataset, payload, snapshots, Backed)
    BY DEF CopiesInv
  <1> HIDE DEF p, ds
  <1>6. Sound(new, payload, snapshots, Backed)
    BY <1>3, <1>4, <1>5, MarkedSound
  <1> HIDE DEF new
  <1> QED
    BY <1>1, <1>5, <1>6, WrittenSound DEF TypeInv

\* The uploader marks the payload it uploaded as completed.
LEMMA UploadSound ==
    ASSUME TypeInv, WalletInv, CopiesInv, NEW f \in Calls, UploadUpdateSamples(f)
    PROVE  \A t \in {store', disk'} : Sound(t.dataset, payload, snapshots, Backed)
  <1> DEFINE p == final[f].pub
             ds == uploader[f].list
             new == ApplyByID(ds, payload[p], Marked(p, p, TRUE))
  <1>1. PICK ok : UpdateTrainingSamples(new, ok)
    BY DEF UploadUpdateSamples
  <1>2. uploader[f].pc = "listed" /\ uploader[f] \in UploaderRecord
    BY DEF UploadUpdateSamples, TypeInv, TypeOK, UploaderRecord
  <1>3. ds \in Dataset /\ p \in Publishes /\ p \in Roots
    BY <1>2 DEF UploaderRecord, TypeInv, CallHasPublish, Roots
  <1>4. payload[p] # {} /\ p \notin snapshots /\ p \in Backed
    BY <1>2, <1>3 DEF WalletInv, Backed
  <1>5. Sound(ds, payload, snapshots, Backed) /\ Sound(disk.dataset, payload, snapshots, Backed)
    BY DEF CopiesInv
  <1> HIDE DEF p, ds
  <1>6. Sound(new, payload, snapshots, Backed)
    BY <1>3, <1>4, <1>5, MarkedSound
  <1> HIDE DEF new
  <1> QED
    BY <1>1, <1>5, <1>6, WrittenSound DEF TypeInv

\* A direct publish marks exactly the samples it stored, or those it simulated.
LEMMA DirectSound ==
    ASSUME TypeInv, DirectInv, CopiesInv, NEW d \in Directs, DirectUpdateSamples(d)
    PROVE  \A t \in {store', disk'} : Sound(t.dataset, payload, snapshots, Backed)
  <1> DEFINE ds == direct[d].list
             root == IF Sim THEN None ELSE d
             new == ApplyByID(ds, DOMAIN ds, Marked(d, root, TRUE))
  <1>1. PICK ok : UpdateTrainingSamples(new, ok)
    BY DEF DirectUpdateSamples
  <1>2. direct[d].pc = "stored" /\ direct[d] \in DirectRecord
    BY DEF DirectUpdateSamples, TypeInv, TypeOK, DirectRecord
  <1>3. ds \in Dataset /\ d \in Roots /\ d \in Backed /\ payload[d] = DOMAIN ds
    BY <1>2 DEF DirectRecord, DirectInv, Roots, Backed
  <1>4. root \in Roots \cup {None} /\ root \notin snapshots
    BY <1>3, StoreAssumption DEF TypeInv, TypeOK
  <1>5. root # None => root = d
    OBVIOUS
  <1>6. Sound(ds, payload, snapshots, Backed) /\ Sound(disk.dataset, payload, snapshots, Backed)
    BY DEF CopiesInv
  <1> HIDE DEF ds, root
  <1>7. Sound(new, payload, snapshots, Backed)
    BY <1>3, <1>4, <1>5, <1>6, MarkedSound
  <1> HIDE DEF new
  <1> QED
    BY <1>1, <1>6, <1>7, WrittenSound DEF TypeInv

\* What is in the store and the file after a step.
LEMMA StoreSoundStep ==
    ASSUME TypeInv, WalletInv, DirectInv, CopiesInv, WorldMoves,
           snapshots' \subseteq Publishes, [Next]_vars
    PROVE  \A t \in {store', disk'} : Sound(t.dataset, payload', snapshots', Backed')
  <1> DEFINE Now(s) == Sound(s.dataset, payload, snapshots, Backed)
             Then(s) == Sound(s.dataset, payload', snapshots', Backed')
  <1>0. /\ TypeOK /\ Now(store) /\ Now(disk) /\ snapshots \in SUBSET Publishes
        /\ store.dataset \in Dataset /\ disk.dataset \in Dataset
    BY DEF TypeInv, TypeOK, StoreState, CopiesInv
  <1>1. Then(store) /\ Then(disk)
    BY <1>0, SoundKept
  <1>2. ASSUME UNCHANGED storeVars \/ Crash
        PROVE  \A t \in {store', disk'} : Then(t)
    <2>1. CASE UNCHANGED storeVars
      BY <1>1, <2>1 DEF storeVars, fileVars
    <2>2. CASE Crash
      <3>1. store' \in {disk, NoBot} /\ disk' = disk
        BY <2>2 DEF Crash, Reload
      <3>2. Then(NoBot)
        BY NoSamplesSound DEF NoBot
      <3> QED
        BY <1>1, <3>1, <3>2
    <2> QED
      BY <1>2, <2>1, <2>2
  <1>3. ASSUME UNCHANGED <<payload, tx, snapshots, uploaded>>,
               \A t \in {store', disk'} : Now(t)
        PROVE  \A t \in {store', disk'} : Then(t)
    <2>1. payload' = payload /\ snapshots' = snapshots /\ Backed' = Backed
      BY <1>3 DEF Backed
    <2> QED
      BY <1>3, <2>1
  <1>4. ASSUME UpsertBot \/ WriteElsewhere \/ \E c \in Chats : ChatStep(c)
        PROVE  \A t \in {store', disk'} : Then(t)
    <2>1. UNCHANGED <<payload, tx, uploaded, snapshots>>
      BY <1>4 DEF ChatStep, ChatGetBot, ChatAppendMemory, ChatSaveBot, ChatSaveSample,
                  UnchangedByChat, UpsertBot, WriteElsewhere
    <2>2. \A t \in {store', disk'} : Now(t)
      BY <1>0, <1>4, ChatSound
    <2> QED
      BY <1>3, <2>1, <2>2
  <1>5. ASSUME NEW f \in Calls, FinalizeUpdateSamples(f)
        PROVE  \A t \in {store', disk'} : Then(t)
    <2>1. UNCHANGED <<payload, tx, uploaded, snapshots>>
      BY <1>5 DEF FinalizeUpdateSamples, UnchangedByFinalize
    <2> QED
      BY <1>3, <1>5, <2>1, FinalizeSound
  <1>6. ASSUME NEW f \in Calls, UploadUpdateSamples(f)
        PROVE  \A t \in {store', disk'} : Then(t)
    <2>1. UNCHANGED <<payload, tx, uploaded, snapshots>>
      BY <1>6 DEF UploadUpdateSamples, UnchangedByUpload
    <2> QED
      BY <1>3, <1>6, <2>1, UploadSound
  <1>7. ASSUME NEW d \in Directs, DirectUpdateSamples(d)
        PROVE  \A t \in {store', disk'} : Then(t)
    <2>1. UNCHANGED <<payload, tx, uploaded, snapshots>>
      BY <1>7 DEF DirectUpdateSamples, UnchangedByDirect
    <2> QED
      BY <1>3, <1>7, <2>1, DirectSound
  <1>8. ASSUME \/ \E p \in Publishes :
                      PrepareWalletPublish(p) \/ WalletSendsTx(p) \/ ChainMinesTx(p)
               \/ UNCHANGED vars
        PROVE  UNCHANGED storeVars
    BY <1>8 DEF PrepareWalletPublish, WalletSendsTx, ChainMinesTx, SetTx, vars, storeVars
  <1>9. ASSUME NEW f \in Calls, FinalizeStep(f), ~FinalizeUpdateSamples(f)
        PROVE  UNCHANGED storeVars
    BY <1>9 DEF FinalizeStep, FinalizeGetSnapshot, FinalizeRejectTx, FinalizeAcceptTx,
                FinalizeListSamples, FinalizeSaveLog
  <1>10. ASSUME NEW f \in Calls, UploadStep(f), ~UploadUpdateSamples(f)
         PROVE  UNCHANGED storeVars
    BY <1>10 DEF UploadStep, UploadSegments, UploadGivesUp, UploadListSamples
  <1>11. ASSUME NEW d \in Directs, DirectStep(d), ~DirectUpdateSamples(d)
         PROVE  UNCHANGED storeVars
    BY <1>11 DEF DirectStep, DirectListSamples, DirectStorePayload, DirectSaveLog
  <1>12. \/ UNCHANGED storeVars \/ Crash
         \/ UpsertBot \/ WriteElsewhere \/ \E c \in Chats : ChatStep(c)
         \/ \E f \in Calls : FinalizeUpdateSamples(f) \/ UploadUpdateSamples(f)
         \/ \E d \in Directs : DirectUpdateSamples(d)
    BY <1>8, <1>9, <1>10, <1>11 DEF Next
  <1>13. CASE UNCHANGED storeVars \/ Crash
    BY <1>2, <1>13
  <1>14. CASE UpsertBot \/ WriteElsewhere \/ \E c \in Chats : ChatStep(c)
    BY <1>4, <1>14
  <1>15. CASE \E f \in Calls : FinalizeUpdateSamples(f) \/ UploadUpdateSamples(f)
    BY <1>5, <1>6, <1>15
  <1>16. CASE \E d \in Directs : DirectUpdateSamples(d)
    BY <1>7, <1>16
  <1> QED
    BY <1>12, <1>13, <1>14, <1>15, <1>16

LEMMA CopiesInvStep ==
    ASSUME TypeInv, TypeInv', TurnsInv, WalletInv, DirectInv, CopiesInv, [Next]_vars
    PROVE  CopiesInv'
  <1> DEFINE Now(ds) == Sound(ds, payload, snapshots, Backed)
             Then(ds) == Sound(ds, payload', snapshots', Backed')
  <1>0. TypeOK /\ CallHasPublish /\ SampleCopies
    BY DEF TypeInv, TurnsInv
  <1>1. WorldMoves /\ snapshots' \subseteq Publishes
    BY WorldMovesStep DEF TypeInv, TypeOK
  <1>2. \A ds \in Dataset : Now(ds) => Then(ds)
    BY <1>1, SoundKept
  <1>3. Then(NoSamples) /\ Then(store.dataset)
    <2>1. store.dataset \in Dataset /\ Now(store.dataset)
      BY <1>0 DEF TypeOK, StoreState, CopiesInv
    <2> QED
      BY <1>2, <2>1, NoSamplesSound
  <1>4. /\ \A f \in Calls : Then(final[f].list) /\ Then(uploader[f].list)
        /\ \A d \in Directs : Then(direct[d].list)
    <2>1. /\ final \in [Calls -> FinalRecord] /\ uploader \in [Calls -> UploaderRecord]
          /\ direct \in [Directs -> DirectRecord]
      BY <1>0 DEF TypeOK, FinalRecord, UploaderRecord, DirectRecord
    <2>2. /\ \A f \in Calls : final[f].list \in Dataset /\ uploader[f].list \in Dataset
          /\ \A d \in Directs : direct[d].list \in Dataset
      BY <2>1 DEF FinalRecord, UploaderRecord, DirectRecord
    <2> HIDE DEF Then
    <2> QED
      BY <1>2, <2>2 DEF CopiesInv
  <1>5. \A t \in {store', disk'} : Then(t.dataset)
    BY <1>1, StoreSoundStep
  <1> HIDE DEF Now, Then
  <1>6. /\ \A f \in Calls : Then(final'[f].list) /\ Then(uploader'[f].list)
        /\ \A d \in Directs : Then(direct'[d].list)
    <2>1. CASE Crash
      <3>1. /\ \A f \in Calls : /\ final'[f].list \in {final[f].list, NoSamples}
                                /\ uploader'[f].list \in {uploader[f].list, NoSamples}
            /\ \A d \in Directs : direct'[d].list \in {direct[d].list, NoSamples}
        BY <1>0, <2>1, CrashEffect
      <3> QED
        BY <1>3, <1>4, <3>1
    <2>2. CASE ~Crash
      BY <1>0, <1>3, <1>4, <2>2, ListsMove DEF ListMoves
    <2> QED
      BY <2>1, <2>2
  <1> QED
    BY <1>5, <1>6 DEF CopiesInv, Then

PublishInv == WalletInv /\ DirectInv /\ CopiesInv

LEMMA PublishInvariant == Spec => []PublishInv
  <1>1. Init => PublishInv
    BY WalletInvInit, CopiesInvInit DEF PublishInv
  <1>2. TypeInv /\ TypeInv' /\ TurnsInv /\ PublishInv /\ [Next]_vars => PublishInv'
    BY WalletInvStep, DirectInvStep, CopiesInvStep DEF PublishInv
  <1> QED
    BY <1>1, <1>2, LogInvariant, TurnsInvariant, PTL DEF Spec

\* The root a sample carries is always that of a payload with the sample in it,
\* whatever publishes, uploads and chats run at once: the slices a handler writes
\* back late may lose samples but never give one a proof of something else.
THEOREM ProofsCoverSamples == Spec => []ProofCoversSample
  <1>1. PublishInv => ProofCoversSample
    BY DEF PublishInv, CopiesInv, Sound, ProofCoversSample
  <1> QED
    BY <1>1, PublishInvariant, PTL

\* A completed sample is where its reference says, also when its upload raced
\* another publish of the same sample, or the server restarted in between.
THEOREM CompletedAreUploaded == Spec => []CompletedIsUploaded
  <1>1. PublishInv => CompletedIsUploaded
    BY DEF PublishInv, CopiesInv, Sound, Backed, CompletedIsUploaded
  <1> QED
    BY <1>1, PublishInvariant, PTL

\* A snapshot still held is of a publish that has had no effect yet, however many
\* finalize requests came for it.
THEOREM SnapshotsUnspent == Spec => []SnapshotUnspent
  <1>1. TypeInv /\ PublishInv => SnapshotUnspent
    <2> SUFFICES ASSUME TypeInv, PublishInv, NEW p \in snapshots
                 PROVE  /\ p \notin uploaded
                        /\ \A s \in {store, disk} : \A c \in DOMAIN s.dataset :
                               s.dataset[c].root # p
      BY DEF SnapshotUnspent
    <2>1. p \notin uploaded
      BY DEF TypeInv, TypeOK, PublishInv, WalletInv
    <2>2. \A s \in {store, disk} : \A c \in DOMAIN s.dataset : s.dataset[c].root # p
      BY DEF PublishInv, CopiesInv, Sound
    <2> QED
      BY <2>1, <2>2
  <1> QED
    BY <1>1, LogInvariant, PublishInvariant, PTL
=============================================================================
