------------------------ MODULE TrainingMemoryProofs ------------------------
(***************************************************************************)
(* Proofs about TrainingMemory for every set of requests and every bound.  *)
(* The long-term memory is a log: durable turns stay, the growth score and *)
(* the samples never run ahead of the remembered turns, and TrainingMemory *)
(* implements MemoryLog.                                                   *)
(***************************************************************************)
EXTENDS TrainingMemory, TLAPS

-----------------------------------------------------------------------------
(***************************************************************************)
(* Lists of samples                                                        *)
(***************************************************************************)

\* A list of samples maps some chats to their publish fields.
LEMMA DatasetElim ==
    ASSUME NEW ds \in Dataset
    PROVE  DOMAIN ds \subseteq Chats /\ ds \in [DOMAIN ds -> Proof]
  BY DEF Dataset

LEMMA DatasetIntro ==
    ASSUME NEW S \in SUBSET Chats, NEW ds \in [S -> Proof]
    PROVE  ds \in Dataset
  BY DEF Dataset

LEMMA NoSamplesType == NoSamples \in Dataset /\ DOMAIN NoSamples = {}
  <1>1. NoSamples \in [{} -> Proof]
    BY DEF NoSamples
  <1> QED
    BY <1>1, DatasetIntro DEF NoSamples

\* Saving a sample adds its chat to the list, not published.
LEMMA WithSampleType ==
    ASSUME NEW ds \in Dataset, NEW c \in Chats
    PROVE  /\ WithSample(ds, c) \in Dataset
           /\ DOMAIN WithSample(ds, c) = DOMAIN ds \cup {c}
  <1>1. NoProof \in Proof
    BY DEF NoProof, Proof
  <1>2. WithSample(ds, c) \in [DOMAIN ds \cup {c} -> Proof]
    BY <1>1, DatasetElim DEF WithSample
  <1> QED
    BY <1>2, DatasetElim, DatasetIntro DEF WithSample

\* Marking samples neither adds nor removes any.
LEMMA ApplyByIDType ==
    ASSUME NEW ds \in Dataset, NEW ids, NEW ref \in Roots,
           NEW root \in Roots \cup {None}, NEW done \in BOOLEAN
    PROVE  /\ ApplyByID(ds, ids, Marked(ref, root, done)) \in Dataset
           /\ DOMAIN ApplyByID(ds, ids, Marked(ref, root, done)) = DOMAIN ds
  <1>1. ASSUME NEW s \in Proof
        PROVE  ApplyPublishState(s, Marked(ref, root, done)) \in Proof
    BY DEF ApplyPublishState, Marked, OrOld, Proof
  <1>2. ApplyByID(ds, ids, Marked(ref, root, done)) \in [DOMAIN ds -> Proof]
    BY <1>1, DatasetElim DEF ApplyByID
  <1> QED
    BY <1>2, DatasetElim, DatasetIntro DEF ApplyByID

-----------------------------------------------------------------------------
(***************************************************************************)
(* Type correctness                                                        *)
(***************************************************************************)

\* The store, the file, and what is known of the file.
StoreType ==
    /\ store \in StoreState
    /\ disk \in StoreState
    /\ load \in {"read", "unread"}
    /\ lost \in SUBSET Chats

\* The turns that a state of the store remembers are of chats.
LEMMA TurnsType ==
    ASSUME NEW s \in StoreState
    PROVE  s.memories \in Seq(Chats) /\ Turns(s) \in SUBSET Chats
  BY DEF StoreState, Turns, Range

\* A call of the store leaves a state of the store in the maps and in the file.
LEMMA CommitType ==
    ASSUME TypeOK, NEW s \in StoreState, NEW ok, Commit(s, ok)
    PROVE  StoreType'
  <1>1. Turns(disk) \in SUBSET Chats
    BY TurnsType DEF TypeOK
  <1> QED
    BY <1>1 DEF TypeOK, StoreType, Commit, Rename, fileVars

LEMMA InitType == Init => TypeOK
  <1> SUFFICES ASSUME Init PROVE TypeOK
    OBVIOUS
  <1>1. NewBot \in StoreState
    BY NoSamplesType DEF NewBot, StoreState, Bot
  <1>2. NewBot.bot \in Bot
    BY DEF NewBot, Bot
  <1> QED
    BY <1>1, <1>2, NoSamplesType, TrainingAssumption
    DEF Init, TypeOK, ChatPC, FinalPC, UploadPC, DirectPC, TxStatus, Over

LEMMA ChatType ==
    ASSUME TypeOK, NEW c \in Chats, ChatStep(c)
    PROVE  TypeOK'
  <1> USE DEF Over, ChatPC
  <1>1. CASE ChatGetBot(c)
    <2>1. /\ store.bot # None => store.bot \in Bot
          /\ chat \in [Chats -> [pc : ChatPC, bot : Bot]]
      BY DEF TypeOK, StoreState
    <2>2. chat' \in [Chats -> [pc : ChatPC, bot : Bot]]
      BY <1>1, <2>1 DEF ChatGetBot
    <2>3. UNCHANGED storeVars /\ UnchangedByChat
      BY <1>1 DEF ChatGetBot
    <2> QED
      BY <2>2, <2>3 DEF TypeOK, UnchangedByChat, storeVars, fileVars
  <1>2. CASE ChatAppendMemory(c)
    <2>0. store.memories \in Seq(Chats) /\ store \in StoreState
      BY DEF TypeOK, StoreState
    <2>1. Append(store.memories, c) \in Seq(Chats)
      BY <2>0
    <2>2. [store EXCEPT !.memories = Append(@, c)] \in StoreState
      BY <2>0, <2>1 DEF StoreState
    <2> QED
      BY <1>2, <2>2, CommitType
      DEF TypeOK, StoreType, ChatAppendMemory, AppendMemory, UnchangedByChat
  <1>3. CASE ChatSaveBot(c)
    <2>1. chat[c].bot \in Bot /\ store \in StoreState
      BY DEF TypeOK
    <2>2. Grown(chat[c].bot) \in Bot
      BY <2>1 DEF Grown, Bot
    <2>3. [store EXCEPT !.bot = Grown(chat[c].bot)] \in StoreState
      BY <2>1, <2>2 DEF StoreState
    <2> QED
      BY <1>3, <2>3, CommitType DEF TypeOK, StoreType, ChatSaveBot, SaveBot, UnchangedByChat
  <1>4. CASE ChatSaveSample(c)
    <2>1. [store EXCEPT !.dataset = WithSample(@, c)] \in StoreState
      BY WithSampleType DEF TypeOK, StoreState
    <2> QED
      BY <1>4, <2>1, CommitType
      DEF TypeOK, StoreType, ChatSaveSample, SaveTrainingSample, UnchangedByChat
  <1> QED
    BY <1>1, <1>2, <1>3, <1>4 DEF ChatStep

\* The three writers of a marked list leave a state of the store.
LEMMA MarkedType ==
    ASSUME TypeOK, NEW list \in Dataset, NEW ids, NEW ref \in Roots,
           NEW root \in Roots \cup {None}, NEW done \in BOOLEAN, NEW ok,
           UpdateTrainingSamples(ApplyByID(list, ids, Marked(ref, root, done)), ok)
    PROVE  StoreType'
  <1>1. store \in StoreState
    BY DEF TypeOK
  <1>2. [store EXCEPT !.dataset = ApplyByID(list, ids, Marked(ref, root, done))]
            \in StoreState
    BY <1>1, ApplyByIDType DEF StoreState
  <1> QED
    BY <1>2, CommitType DEF UpdateTrainingSamples

LEMMA EnvironmentType ==
    ASSUME TypeOK,
           \/ UpsertBot
           \/ WriteElsewhere
           \/ \E p \in Publishes :
                  PrepareWalletPublish(p) \/ WalletSendsTx(p) \/ ChainMinesTx(p)
    PROVE  TypeOK'
  <1>1. CASE UpsertBot
    <2>1. PICK ok \in BOOLEAN : SaveBot([profile |-> edits + 1, growth |-> 0], ok)
      BY <1>1 DEF UpsertBot
    <2>2. [profile |-> edits + 1, growth |-> 0] \in Bot /\ store \in StoreState
      BY TrainingAssumption DEF TypeOK, Bot
    <2>3. [store EXCEPT !.bot = [profile |-> edits + 1, growth |-> 0]] \in StoreState
      BY <2>2 DEF StoreState
    <2>4. StoreType'
      BY <2>1, <2>3, CommitType DEF SaveBot
    <2>5. edits' \in 0..MaxEdits
      BY <1>1, TrainingAssumption DEF TypeOK, UpsertBot
    <2> QED
      BY <1>1, <2>4, <2>5 DEF TypeOK, StoreType, UpsertBot
  <1>2. ASSUME NEW p \in Publishes, PrepareWalletPublish(p)
        PROVE  TypeOK'
    <2>1. DOMAIN store.dataset \subseteq Chats
      BY DatasetElim DEF TypeOK, StoreState
    <2> QED
      BY <1>2, <2>1 DEF TypeOK, PrepareWalletPublish, TxStatus, Roots, storeVars, fileVars
  <1>3. ASSUME NEW p \in Publishes, WalletSendsTx(p) \/ ChainMinesTx(p)
        PROVE  TypeOK'
    BY <1>3 DEF TypeOK, WalletSendsTx, ChainMinesTx, SetTx, TxStatus, storeVars, fileVars
  <1>4. CASE WriteElsewhere
    <2>1. StoreType'
      BY <1>4, CommitType DEF TypeOK, WriteElsewhere, FlushElsewhere
    <2> QED
      BY <1>4, <2>1 DEF TypeOK, StoreType, WriteElsewhere
  <1> QED
    BY <1>1, <1>2, <1>3, <1>4

\* What a step that changes the position and the list of one request does.
FinalRecord == [pc : FinalPC, pub : Publishes \cup {None}, list : Dataset]
UploaderRecord == [pc : UploadPC, list : Dataset]
DirectRecord == [pc : DirectPC, list : Dataset]

LEMMA FinalEffect ==
    ASSUME TypeOK, NEW f \in Calls, NEW pc \in FinalPC, NEW list \in Dataset,
           final' = [final EXCEPT ![f].pc = pc, ![f].list = list]
    PROVE  /\ final' \in [Calls -> FinalRecord]
           /\ final'[f].pc = pc /\ final'[f].pub = final[f].pub
           /\ final'[f].list = list
           /\ \A g \in Calls \ {f} : final'[g] = final[g]
  BY DEF TypeOK, FinalRecord

LEMMA UploaderEffect ==
    ASSUME TypeOK, NEW f \in Calls, NEW pc \in UploadPC, NEW list \in Dataset,
           uploader' = [uploader EXCEPT ![f].pc = pc, ![f].list = list]
    PROVE  /\ uploader' \in [Calls -> UploaderRecord]
           /\ uploader'[f].pc = pc /\ uploader'[f].list = list
           /\ \A g \in Calls \ {f} : uploader'[g] = uploader[g]
  BY DEF TypeOK, UploaderRecord

LEMMA DirectEffect ==
    ASSUME TypeOK, NEW d \in Directs, NEW pc \in DirectPC, NEW list \in Dataset,
           direct' = [direct EXCEPT ![d].pc = pc, ![d].list = list]
    PROVE  /\ direct' \in [Directs -> DirectRecord]
           /\ direct'[d].pc = pc /\ direct'[d].list = list
           /\ \A e \in Directs \ {d} : direct'[e] = direct[e]
  BY DEF TypeOK, DirectRecord

\* A step of a finalize request names its publish for good, and the only step
\* that touches an uploader is the one that starts the request's own.
FinalizeShape(f) ==
    /\ final' \in [Calls -> FinalRecord]
    /\ final'[f].pc # "idle"
    /\ final[f].pc # "idle" => final'[f].pub = final[f].pub
    /\ \A g \in Calls \ {f} : final'[g] = final[g]
    /\ uploader' \in [Calls -> UploaderRecord]
    /\ \A g \in Calls \ {f} : uploader'[g] = uploader[g]
    /\ uploader'[f].list = uploader[f].list
    /\ final'[f].pc = "checking" => uploader' = uploader /\ final[f].pc = "idle"

LEMMA FinalizeEffect ==
    ASSUME TypeOK, NEW f \in Calls, FinalizeStep(f)
    PROVE  FinalizeShape(f) /\ (final[f].pc = "idle" => final'[f].pub \in Publishes)
  <1> USE NoSamplesType DEF FinalPC, Over
  <1>0. uploader \in [Calls -> UploaderRecord] /\ final \in [Calls -> FinalRecord]
    BY DEF TypeOK, UploaderRecord, FinalRecord
  <1>1. CASE FinalizeGetSnapshot(f)
    <2>1. PICK p \in Publishes, pc \in {"checking", "failed"} :
              final' = [final EXCEPT ![f].pc = pc, ![f].pub = p]
      BY <1>1 DEF FinalizeGetSnapshot
    <2>2. /\ final' \in [Calls -> FinalRecord]
          /\ final'[f].pc = pc /\ final'[f].pub = p
          /\ \A g \in Calls \ {f} : final'[g] = final[g]
      BY <1>0, <2>1 DEF FinalRecord
    <2>3. UNCHANGED uploader /\ final[f].pc = "idle"
      BY <1>1 DEF FinalizeGetSnapshot
    <2> QED
      BY <1>0, <2>2, <2>3 DEF FinalizeShape
  <1>2. CASE FinalizeAcceptTx(f)
    <2>1. final' = [final EXCEPT ![f].pc = "accepted", ![f].list = NoSamples]
      BY <1>2 DEF FinalizeAcceptTx, FinalizeTo
    <2>2. uploader' = [uploader EXCEPT ![f].pc = "waiting"]
      BY <1>2 DEF FinalizeAcceptTx
    <2>3. /\ uploader' \in [Calls -> UploaderRecord]
          /\ uploader'[f].list = uploader[f].list
          /\ \A g \in Calls \ {f} : uploader'[g] = uploader[g]
      BY <1>0, <2>2 DEF UploaderRecord, UploadPC
    <2>4. /\ final' \in [Calls -> FinalRecord]
          /\ final'[f].pc = "accepted" /\ final'[f].pub = final[f].pub
          /\ \A g \in Calls \ {f} : final'[g] = final[g]
      BY <2>1, FinalEffect
    <2>5. final[f].pc # "idle"
      BY <1>2 DEF FinalizeAcceptTx
    <2> QED
      BY <2>3, <2>4, <2>5 DEF FinalizeShape
  <1>3. ASSUME NEW pc \in {"listed", "logging", "done", "failed"},
               NEW list \in Dataset,
               final' = [final EXCEPT ![f].pc = pc, ![f].list = list],
               UNCHANGED uploader, final[f].pc # "idle"
        PROVE  FinalizeShape(f)
    BY <1>0, <1>3, FinalEffect DEF FinalizeShape
  <1>4. CASE FinalizeListSamples(f)
    <2>1. store.dataset \in Dataset
      BY DEF TypeOK, StoreState
    <2> QED
      BY <1>3, <1>4, <2>1 DEF FinalizeListSamples, FinalizeTo
  <1>5. CASE FinalizeRejectTx(f) \/ FinalizeUpdateSamples(f) \/ FinalizeSaveLog(f)
    BY <1>3, <1>5
    DEF FinalizeRejectTx, FinalizeUpdateSamples, FinalizeSaveLog, FinalizeTo
  <1> QED
    BY <1>1, <1>2, <1>4, <1>5 DEF FinalizeStep

\* A crash ends every request under way and keeps its publish.
LEMMA CrashEffect ==
    ASSUME TypeOK, Crash
    PROVE  /\ final' \in [Calls -> [pc : {"idle"} \cup Over, pub : Publishes \cup {None},
                                    list : Dataset]]
           /\ \A f \in Calls :
                 /\ final'[f].pub = final[f].pub
                 /\ final'[f].pc = "idle" <=> final[f].pc = "idle"
                 /\ final'[f].list = IF final[f].pc \in {"idle", "done"}
                                     THEN final[f].list ELSE NoSamples
           /\ uploader' \in [Calls -> [pc : {"none", "ended"}, list : Dataset]]
           /\ \A f \in Calls :
                 /\ uploader'[f].pc = "none" <=> uploader[f].pc = "none"
                 /\ uploader'[f].list = IF uploader[f].pc = "none"
                                        THEN uploader[f].list ELSE NoSamples
           /\ direct' \in [Directs -> [pc : {"idle"} \cup Over, list : Dataset]]
           /\ \A d \in Directs :
                 /\ direct'[d].pc = "idle" <=> direct[d].pc = "idle"
                 /\ direct'[d].list = IF direct[d].pc \in {"idle", "done"}
                                      THEN direct[d].list ELSE NoSamples
           /\ chat' \in [Chats -> [pc : {"idle"} \cup Over, bot : Bot]]
           /\ \A c \in Chats :
                 /\ chat'[c].pc = "idle" <=> chat[c].pc = "idle"
                 /\ chat'[c].pc = "done" <=> chat[c].pc = "done"
  <1> USE NoSamplesType DEF TypeOK, Over
  <1>1. ASSUME NEW f \in Calls
        PROVE  /\ final'[f] \in [pc : {"idle"} \cup Over, pub : Publishes \cup {None},
                                  list : Dataset]
               /\ final'[f].pub = final[f].pub
               /\ final'[f].pc = "idle" <=> final[f].pc = "idle"
               /\ final'[f].list = IF final[f].pc \in {"idle", "done"}
                                   THEN final[f].list ELSE NoSamples
    <2>1. CASE final[f].pc \in {"idle", "done"}
      BY <2>1 DEF Crash
    <2>2. CASE final[f].pc \notin {"idle", "done"}
      <3>1. final[f] \in FinalRecord
        BY DEF FinalRecord
      <3>2. final'[f] = [pc |-> "failed", pub |-> final[f].pub, list |-> NoSamples]
        BY <2>2, <3>1 DEF Crash, FinalRecord
      <3> QED
        BY <2>2, <3>1, <3>2 DEF FinalRecord
    <2> QED
      BY <2>1, <2>2
  <1>2. ASSUME NEW f \in Calls
        PROVE  /\ uploader'[f] \in [pc : {"none", "ended"}, list : Dataset]
               /\ uploader'[f].pc = "none" <=> uploader[f].pc = "none"
               /\ uploader'[f].list = IF uploader[f].pc = "none"
                                      THEN uploader[f].list ELSE NoSamples
    BY DEF Crash
  <1>3. ASSUME NEW d \in Directs
        PROVE  /\ direct'[d] \in [pc : {"idle"} \cup Over, list : Dataset]
               /\ direct'[d].pc = "idle" <=> direct[d].pc = "idle"
               /\ direct'[d].list = IF direct[d].pc \in {"idle", "done"}
                                    THEN direct[d].list ELSE NoSamples
    BY DEF Crash
  <1>4. ASSUME NEW c \in Chats
        PROVE  /\ chat'[c] \in [pc : {"idle"} \cup Over, bot : Bot]
               /\ chat'[c].pc = "idle" <=> chat[c].pc = "idle"
               /\ chat'[c].pc = "done" <=> chat[c].pc = "done"
    <2>1. CASE chat[c].pc \in {"idle", "done"}
      BY <2>1 DEF Crash
    <2>2. CASE chat[c].pc \notin {"idle", "done"}
      <3>1. chat'[c] = [chat[c] EXCEPT !.pc = "failed"]
        BY <2>2 DEF Crash
      <3> QED
        BY <2>2, <3>1
    <2> QED
      BY <2>1, <2>2
  <1>5. /\ DOMAIN final' = Calls /\ final' = [f \in Calls |-> final'[f]]
        /\ DOMAIN uploader' = Calls /\ uploader' = [f \in Calls |-> uploader'[f]]
        /\ DOMAIN direct' = Directs /\ direct' = [d \in Directs |-> direct'[d]]
        /\ DOMAIN chat' = Chats /\ chat' = [c \in Chats |-> chat'[c]]
    BY DEF Crash
  <1> QED
    BY <1>1, <1>2, <1>3, <1>4, <1>5

\* A finalize request past its first step has found a publish, and only a
\* request that accepted the transaction has an uploader.
CallHasPublish ==
    \A f \in Calls :
        /\ final[f].pc # "idle" => final[f].pub \in Publishes
        /\ final[f].pc \in {"idle", "checking"} => uploader[f].pc = "none"

LEMMA CallHasPublishStep ==
    ASSUME TypeOK, CallHasPublish, [Next]_vars
    PROVE  CallHasPublish'
  <1> USE DEF CallHasPublish
  <1>1. CASE UNCHANGED <<final, uploader>>
    BY <1>1
  <1>2. ASSUME NEW f \in Calls, FinalizeStep(f)
        PROVE  CallHasPublish'
    BY <1>2, FinalizeEffect DEF FinalizeShape
  <1>3. ASSUME NEW f \in Calls, UploadStep(f)
        PROVE  CallHasPublish'
    <2>1. uploader[f].pc # "none" /\ final' = final
      BY <1>3 DEF UploadStep, UploadSegments, UploadGivesUp, UploadListSamples,
                  UploadUpdateSamples, UnchangedByUpload
    <2>2. \A g \in Calls \ {f} : uploader'[g] = uploader[g]
      BY <1>3 DEF UploadStep, UploadSegments, UploadGivesUp, UploadListSamples,
                  UploadUpdateSamples, UploadTo, TypeOK
    <2> QED
      BY <2>1, <2>2
  <1>4. CASE Crash
    BY <1>4, CrashEffect DEF Over
  <1>5. ASSUME NEW c \in Chats, ChatStep(c)
        PROVE  UNCHANGED <<final, uploader>>
    BY <1>5 DEF ChatStep, ChatGetBot, ChatAppendMemory, ChatSaveBot,
                ChatSaveSample, UnchangedByChat
  <1>6. ASSUME NEW d \in Directs, DirectStep(d)
        PROVE  UNCHANGED <<final, uploader>>
    BY <1>6 DEF DirectStep, DirectListSamples, DirectStorePayload,
                DirectUpdateSamples, DirectSaveLog, UnchangedByDirect
  <1>7. ASSUME \/ UpsertBot
               \/ WriteElsewhere
               \/ \E p \in Publishes :
                      PrepareWalletPublish(p) \/ WalletSendsTx(p) \/ ChainMinesTx(p)
        PROVE  UNCHANGED <<final, uploader>>
    BY <1>7 DEF UpsertBot, WriteElsewhere, PrepareWalletPublish, WalletSendsTx, ChainMinesTx, SetTx
  <1> QED
    BY <1>1, <1>2, <1>3, <1>4, <1>5, <1>6, <1>7 DEF Next, vars

LEMMA FinalizeType ==
    ASSUME TypeOK, CallHasPublish, NEW f \in Calls, FinalizeStep(f)
    PROVE  TypeOK'
  <1>1. /\ final' \in [Calls -> FinalRecord]
        /\ uploader' \in [Calls -> UploaderRecord]
    BY FinalizeEffect DEF FinalizeShape
  <1>2. StoreType'
    <2>1. CASE UNCHANGED storeVars
      BY <2>1 DEF TypeOK, StoreType, storeVars, fileVars
    <2>2. CASE FinalizeUpdateSamples(f)
      <3>1. final[f].pub \in Publishes
        BY <2>2 DEF CallHasPublish, FinalizeUpdateSamples
      <3>2. final[f].list \in Dataset
        BY DEF TypeOK
      <3> QED
        BY <2>2, <3>1, <3>2, MarkedType DEF FinalizeUpdateSamples, Roots
    <2> QED
      BY <2>1, <2>2
      DEF FinalizeStep, FinalizeGetSnapshot, FinalizeRejectTx, FinalizeAcceptTx,
          FinalizeListSamples, FinalizeSaveLog
  <1>3. snapshots' \in SUBSET Publishes
    BY DEF FinalizeStep, FinalizeGetSnapshot, FinalizeRejectTx, FinalizeAcceptTx,
           FinalizeListSamples, FinalizeUpdateSamples, FinalizeSaveLog, TypeOK
  <1>4. UnchangedByFinalize
    BY DEF FinalizeStep, FinalizeGetSnapshot, FinalizeRejectTx, FinalizeAcceptTx,
           FinalizeListSamples, FinalizeUpdateSamples, FinalizeSaveLog
  <1> QED
    BY <1>1, <1>2, <1>3, <1>4
    DEF TypeOK, StoreType, UnchangedByFinalize, FinalRecord, UploaderRecord

LEMMA UploadType ==
    ASSUME TypeOK, CallHasPublish, NEW f \in Calls, UploadStep(f)
    PROVE  TypeOK'
  <1> USE NoSamplesType DEF UploadPC
  <1>1. uploader' \in [Calls -> UploaderRecord]
    <2>1. ASSUME NEW pc \in UploadPC, NEW list \in Dataset,
                 uploader' = [uploader EXCEPT ![f].pc = pc, ![f].list = list]
          PROVE  uploader' \in [Calls -> UploaderRecord]
      BY <2>1, UploaderEffect
    <2>2. store.dataset \in Dataset
      BY DEF TypeOK, StoreState
    <2> QED
      BY <2>1, <2>2 DEF UploadStep, UploadSegments, UploadGivesUp,
                        UploadListSamples, UploadUpdateSamples, UploadTo
  <1>2. StoreType'
    <2>1. CASE UNCHANGED storeVars
      BY <2>1 DEF TypeOK, StoreType, storeVars, fileVars
    <2>2. CASE UploadUpdateSamples(f)
      <3>1. final[f].pub \in Publishes
        BY <2>2 DEF CallHasPublish, UploadUpdateSamples
      <3>2. uploader[f].list \in Dataset
        BY DEF TypeOK
      <3> QED
        BY <2>2, <3>1, <3>2, MarkedType DEF UploadUpdateSamples, Roots
    <2> QED
      BY <2>1, <2>2 DEF UploadStep, UploadSegments, UploadGivesUp, UploadListSamples
  <1>3. uploaded' \in SUBSET Roots
    <2>1. CASE UploadSegments(f)
      <3>1. final[f].pub \in Publishes
        BY <2>1 DEF CallHasPublish, UploadSegments
      <3> QED
        BY <2>1, <3>1 DEF UploadSegments, TypeOK, Roots
    <2> QED
      BY <2>1 DEF UploadStep, UploadGivesUp, UploadListSamples,
                  UploadUpdateSamples, TypeOK
  <1>4. UnchangedByUpload
    BY DEF UploadStep, UploadSegments, UploadGivesUp, UploadListSamples,
           UploadUpdateSamples
  <1> QED
    BY <1>1, <1>2, <1>3, <1>4 DEF TypeOK, StoreType, UnchangedByUpload, UploaderRecord

LEMMA DirectType ==
    ASSUME TypeOK, NEW d \in Directs, DirectStep(d)
    PROVE  TypeOK'
  <1> USE NoSamplesType DEF DirectPC, Over
  <1>0. store.dataset \in Dataset /\ direct \in [Directs -> DirectRecord]
    BY DEF TypeOK, StoreState, DirectRecord
  <1>1. direct' \in [Directs -> DirectRecord]
    <2>1. ASSUME NEW pc \in DirectPC, NEW list \in Dataset,
                 direct' = [direct EXCEPT ![d].pc = pc, ![d].list = list]
          PROVE  direct' \in [Directs -> DirectRecord]
      BY <2>1, DirectEffect
    <2>2. CASE DirectListSamples(d)
      BY <1>0, <2>1, <2>2 DEF DirectListSamples, DirectTo, DirectRecord
    <2>3. CASE DirectStorePayload(d)
      BY <1>0, <2>1, <2>3 DEF DirectStorePayload, DirectTo, DirectRecord
    <2>4. CASE DirectUpdateSamples(d) \/ DirectSaveLog(d)
      BY <2>1, <2>4 DEF DirectUpdateSamples, DirectSaveLog, DirectTo
    <2> QED
      BY <2>2, <2>3, <2>4 DEF DirectStep
  <1>2. StoreType'
    <2>1. CASE UNCHANGED storeVars
      BY <2>1 DEF TypeOK, StoreType, storeVars, fileVars
    <2>2. CASE DirectUpdateSamples(d)
      <3>1. direct[d].list \in Dataset
        BY DEF TypeOK
      <3>2. d \in Roots /\ (IF Sim THEN None ELSE d) \in Roots \cup {None}
        BY DEF Roots
      <3> QED
        BY <2>2, <3>1, <3>2, MarkedType DEF DirectUpdateSamples
    <2> QED
      BY <2>1, <2>2 DEF DirectStep, DirectListSamples, DirectStorePayload, DirectSaveLog
  <1>3. payload' \in [Roots -> SUBSET Chats]
    <2>1. DOMAIN store.dataset \subseteq Chats
      BY <1>0, DatasetElim
    <2> QED
      BY <2>1 DEF DirectStep, DirectListSamples, DirectStorePayload,
                  DirectUpdateSamples, DirectSaveLog, TypeOK
  <1>4. uploaded' \in SUBSET Roots
    BY DEF DirectStep, DirectListSamples, DirectStorePayload,
           DirectUpdateSamples, DirectSaveLog, TypeOK, Roots
  <1>5. UnchangedByDirect
    BY DEF DirectStep, DirectListSamples, DirectStorePayload,
           DirectUpdateSamples, DirectSaveLog
  <1> QED
    BY <1>1, <1>2, <1>3, <1>4, <1>5 DEF TypeOK, StoreType, UnchangedByDirect, DirectRecord

LEMMA CrashType ==
    ASSUME TypeOK, Crash
    PROVE  TypeOK'
  <1>0. /\ store' \in {disk, NoBot} /\ disk' = disk /\ snapshots' = {}
        /\ load' \in {"read", "unread"} /\ lost' = lost
        /\ crashes < MaxCrashes /\ crashes' = crashes + 1
        /\ UNCHANGED <<edits, payload, tx, uploaded>>
    BY DEF Crash, Reload
  <1>3. NoBot \in StoreState
    BY NoSamplesType DEF NoBot, StoreState
  <1>1. /\ StoreType'
        /\ snapshots' \in SUBSET Publishes /\ crashes' \in 0..MaxCrashes
        /\ UNCHANGED <<edits, payload, tx, uploaded>>
    BY <1>0, <1>3, TrainingAssumption DEF TypeOK, StoreType
  <1>2. /\ final' \in [Calls -> FinalRecord]
        /\ uploader' \in [Calls -> UploaderRecord]
        /\ direct' \in [Directs -> DirectRecord]
        /\ chat' \in [Chats -> [pc : ChatPC, bot : Bot]]
    BY CrashEffect DEF FinalRecord, UploaderRecord, DirectRecord,
                       FinalPC, UploadPC, DirectPC, ChatPC, Over
  <1> QED
    BY <1>1, <1>2 DEF TypeOK, StoreType, FinalRecord, UploaderRecord, DirectRecord

\* The invariant the type of publish_finalize's marks rests on.
TypeInv == TypeOK /\ CallHasPublish

LEMMA TypeInvInit == Init => TypeInv
  BY InitType DEF TypeInv, CallHasPublish, Init

LEMMA TypeInvStep == TypeInv /\ [Next]_vars => TypeInv'
  <1> SUFFICES ASSUME TypeOK, CallHasPublish, [Next]_vars
               PROVE  TypeOK' /\ CallHasPublish'
    BY DEF TypeInv
  <1>1. CASE UNCHANGED vars
    BY <1>1 DEF TypeOK, CallHasPublish, vars, storeVars, fileVars
  <1> QED
    BY <1>1, CallHasPublishStep, ChatType, EnvironmentType, FinalizeType,
       UploadType, DirectType, CrashType DEF Next

\* Every reachable state of the service and of the file has its type, for every
\* number of requests of each kind, every bound and every mode of the server.
THEOREM TypeCorrect == Spec => []TypeOK
  <1>1. Spec => []TypeInv
    BY TypeInvInit, TypeInvStep, PTL DEF Spec
  <1>2. TypeInv => TypeOK
    BY DEF TypeInv
  <1> QED
    BY <1>1, <1>2, PTL

-----------------------------------------------------------------------------
(***************************************************************************)
(* Prefixes                                                                *)
(***************************************************************************)

LEMMA PrefixPointwise ==
    ASSUME NEW S, NEW s \in Seq(S), NEW t \in Seq(S)
    PROVE  IsPrefix(s, t) <=> /\ Len(s) <= Len(t)
                              /\ \A i \in 1..Len(s) : s[i] = t[i]
  <1>1. SubSeq(s, 1, Len(s)) = s
    OBVIOUS
  <1>2. ASSUME Len(s) <= Len(t)
        PROVE  /\ SubSeq(t, 1, Len(s)) \in Seq(S)
               /\ Len(SubSeq(t, 1, Len(s))) = Len(s)
               /\ \A i \in 1..Len(s) : SubSeq(t, 1, Len(s))[i] = t[i]
    BY <1>2
  <1>3. ASSUME Len(s) <= Len(t), \A i \in 1..Len(s) : s[i] = t[i]
        PROVE  s = SubSeq(t, 1, Len(s))
    BY <1>2, <1>3
  <1> QED
    BY <1>1, <1>2, <1>3 DEF IsPrefix

\* A log extended by a turn it does not have.
LEMMA AppendedTurn ==
    ASSUME NEW S, NEW s \in Seq(S), NEW x \in S
    PROVE  /\ Append(s, x) \in Seq(S)
           /\ Range(Append(s, x)) = Range(s) \cup {x}
           /\ IsPrefix(s, Append(s, x))
           /\ IsInjective(s) /\ x \notin Range(s) => IsInjective(Append(s, x))
  <1>1. /\ Append(s, x) \in Seq(S) /\ Len(Append(s, x)) = Len(s) + 1
        /\ \A i \in 1..Len(s) : Append(s, x)[i] = s[i]
        /\ Append(s, x)[Len(s) + 1] = x
    OBVIOUS
  <1>2. IsPrefix(s, Append(s, x))
    <2>1. Len(s) <= Len(Append(s, x))
      BY <1>1
    <2> QED
      BY <1>1, <2>1, PrefixPointwise
  <1>3. DOMAIN s = 1..Len(s) /\ DOMAIN Append(s, x) = 1..Len(s) + 1
    BY <1>1
  <1>4. 1..Len(s) + 1 = (1..Len(s)) \cup {Len(s) + 1}
    OBVIOUS
  <1>5. Range(Append(s, x)) = Range(s) \cup {x}
    BY <1>1, <1>3, <1>4 DEF Range
  <1>6. ASSUME IsInjective(s), x \notin Range(s)
        PROVE  IsInjective(Append(s, x))
    BY <1>1, <1>3, <1>4, <1>6 DEF Range, IsInjective
  <1> QED
    BY <1>1, <1>2, <1>5, <1>6

\* What holds of a log holds of its prefixes.
LEMMA PrefixOfLog ==
    ASSUME NEW S, NEW s \in Seq(S), NEW t \in Seq(S), IsPrefix(s, t)
    PROVE  /\ Range(s) \subseteq Range(t)
           /\ IsInjective(t) => IsInjective(s)
           /\ \A x \in S : IsPrefix(s, Append(t, x))
  <1>1. /\ Len(s) <= Len(t) /\ \A i \in 1..Len(s) : s[i] = t[i]
        /\ DOMAIN s = 1..Len(s) /\ DOMAIN t = 1..Len(t)
        /\ Len(s) \in Nat /\ Len(t) \in Nat
    BY PrefixPointwise
  <1>2. 1..Len(s) \subseteq 1..Len(t)
    BY <1>1
  <1>3. Range(s) \subseteq Range(t)
    BY <1>1, <1>2 DEF Range
  <1>4. IsInjective(t) => IsInjective(s)
    BY <1>1, <1>2 DEF IsInjective
  <1>5. ASSUME NEW x \in S
        PROVE  IsPrefix(s, Append(t, x))
    <2>1. /\ Append(t, x) \in Seq(S) /\ Len(Append(t, x)) = Len(t) + 1
          /\ \A i \in 1..Len(t) : Append(t, x)[i] = t[i]
      OBVIOUS
    <2>2. Len(s) <= Len(t) + 1
      BY <1>1
    <2> QED
      BY <1>1, <1>2, <2>1, <2>2, PrefixPointwise
  <1> QED
    BY <1>3, <1>4, <1>5

LEMMA PrefixItself ==
    ASSUME NEW S, NEW s \in Seq(S)
    PROVE  IsPrefix(s, s)
  BY PrefixPointwise

-----------------------------------------------------------------------------
(***************************************************************************)
(* How the turns of the store and of the file move                         *)
(***************************************************************************)

\* A chat past AppendMemory, and one not there yet.
Underway == {"remembered", "grown"}
Unrecorded == {"idle", "replying"}

\* No chat gets past AppendMemory, or before it, by this step.
NoChatRecorded ==
    \A c \in Chats :
        /\ chat'[c].pc \in Underway => chat[c].pc \in Underway
        /\ chat'[c].pc = "done" => chat[c].pc \in Underway \cup {"done"}
        /\ chat'[c].pc \in Unrecorded => chat[c].pc \in Unrecorded

\* The file as it was, and the file replaced by the turns of the store.
FileKept == disk'.memories = disk.memories /\ UNCHANGED <<load, lost>>

FileReplaced ==
    /\ disk'.memories = store'.memories
    /\ load' = "read"
    /\ lost' = IF load = "unread" THEN lost \cup Turns(disk) ELSE lost

KeepsTurns ==
    /\ store'.memories = store.memories
    /\ FileKept \/ FileReplaced
    /\ NoChatRecorded

AddsTurn(c) ==
    /\ chat[c].pc = "replying"
    /\ store'.memories = Append(store.memories, c)
    /\ FileKept \/ FileReplaced
    /\ chat'[c].pc \in {"remembered", "failed"}
    /\ chat'[c].pc = "remembered" => FileReplaced
    /\ \A e \in Chats \ {c} : chat'[e] = chat[e]

Restarts ==
    /\ Crash
    /\ \/ store'.memories = disk.memories /\ load' = "read"
       \/ LoadMayFail /\ store'.memories = << >> /\ load' = "unread"
    /\ disk'.memories = disk.memories /\ lost' = lost
    /\ NoChatRecorded
    /\ \A c \in Chats : chat'[c].pc \notin Underway

\* A commit that keeps the turns of the store can only bring the file up to it.
LEMMA CommitKeepsTurns ==
    ASSUME NEW s, s.memories = store.memories, NEW ok, Commit(s, ok)
    PROVE  /\ store'.memories = store.memories
           /\ FileKept \/ FileReplaced
  BY DEF Commit, Rename, fileVars, FileKept, FileReplaced

\* Every call of the store but AppendMemory keeps the turns.
LEMMA WritersKeepTurns ==
    ASSUME TypeOK, NEW ok,
           \/ \E b : SaveBot(b, ok)
           \/ \E c : SaveTrainingSample(c, ok)
           \/ \E ds : UpdateTrainingSamples(ds, ok)
           \/ FlushElsewhere
    PROVE  /\ store'.memories = store.memories
           /\ FileKept \/ FileReplaced
  <1>1. ASSUME NEW b, SaveBot(b, ok)
        PROVE  /\ store'.memories = store.memories
               /\ FileKept \/ FileReplaced
    <2>1. [store EXCEPT !.bot = b].memories = store.memories
      BY DEF TypeOK, StoreState
    <2> QED
      BY <1>1, <2>1, CommitKeepsTurns DEF SaveBot
  <1>2. ASSUME NEW c, SaveTrainingSample(c, ok)
        PROVE  /\ store'.memories = store.memories
               /\ FileKept \/ FileReplaced
    <2>1. [store EXCEPT !.dataset = WithSample(@, c)].memories = store.memories
      BY DEF TypeOK, StoreState
    <2> QED
      BY <1>2, <2>1, CommitKeepsTurns DEF SaveTrainingSample
  <1>3. ASSUME NEW ds, UpdateTrainingSamples(ds, ok)
        PROVE  /\ store'.memories = store.memories
               /\ FileKept \/ FileReplaced
    <2>1. [store EXCEPT !.dataset = ds].memories = store.memories
      BY DEF TypeOK, StoreState
    <2> QED
      BY <1>3, <2>1, CommitKeepsTurns DEF UpdateTrainingSamples
  <1>4. ASSUME FlushElsewhere
        PROVE  /\ store'.memories = store.memories
               /\ FileKept \/ FileReplaced
    BY <1>4, CommitKeepsTurns DEF FlushElsewhere
  <1> QED
    BY <1>1, <1>2, <1>3, <1>4

LEMMA ChatMoves ==
    ASSUME TypeOK, NEW c \in Chats, ChatStep(c)
    PROVE  /\ KeepsTurns \/ AddsTurn(c)
           /\ \A e \in Chats \ {c} : chat'[e] = chat[e]
  <1> USE DEF Underway, Unrecorded, KeepsTurns, NoChatRecorded
  <1>1. CASE ChatGetBot(c)
    BY <1>1 DEF ChatGetBot, storeVars, fileVars, FileKept, TypeOK
  <1>2. CASE ChatAppendMemory(c)
    <2>1. PICK ok \in BOOLEAN :
              /\ AppendMemory(c, ok)
              /\ chat' = [chat EXCEPT ![c].pc = IF ok THEN "remembered" ELSE "failed"]
      BY <1>2 DEF ChatAppendMemory
    <2>2. /\ store'.memories = Append(store.memories, c)
          /\ FileKept \/ FileReplaced
          /\ ok => FileReplaced
      BY <2>1 DEF AppendMemory, Commit, Rename, FileKept, FileReplaced, fileVars,
                  TypeOK, StoreState
    <2>3. /\ chat'[c].pc = IF ok THEN "remembered" ELSE "failed"
          /\ \A e \in Chats \ {c} : chat'[e] = chat[e]
      BY <2>1 DEF TypeOK
    <2> QED
      BY <1>2, <2>2, <2>3 DEF AddsTurn, ChatAppendMemory
  <1>3. CASE ChatSaveBot(c) \/ ChatSaveSample(c)
    <2>1. /\ store'.memories = store.memories
          /\ FileKept \/ FileReplaced
      BY <1>3, WritersKeepTurns DEF ChatSaveBot, ChatSaveSample
    <2>2. PICK pc \in {"grown", "done", "failed"} : chat' = [chat EXCEPT ![c].pc = pc]
      BY <1>3 DEF ChatSaveBot, ChatSaveSample
    <2>3. chat'[c].pc = pc /\ \A e \in Chats \ {c} : chat'[e] = chat[e]
      BY <2>2 DEF TypeOK
    <2>4. chat[c].pc \in Underway
      BY <1>3 DEF ChatSaveBot, ChatSaveSample
    <2> QED
      BY <2>1, <2>3, <2>4
  <1> QED
    BY <1>1, <1>2, <1>3 DEF ChatStep

\* After a crash the turns are those of the file, or none.
LEMMA CrashLoads ==
    ASSUME Crash
    PROVE  /\ \/ store'.memories = disk.memories /\ load' = "read"
              \/ LoadMayFail /\ store'.memories = << >> /\ load' = "unread"
           /\ disk' = disk /\ lost' = lost
  <1>1. Reload
    BY DEF Crash
  <1>2. NoBot.memories = << >>
    BY DEF NoBot
  <1> QED
    BY <1>1, <1>2, Zenon DEF Reload

\* What each kind of step does to the chats and to the turns.
LEMMA TurnsMove ==
    ASSUME TypeOK, [Next]_vars
    PROVE  KeepsTurns \/ Restarts \/ \E c \in Chats : AddsTurn(c)
  <1> USE DEF KeepsTurns, NoChatRecorded, FileKept, storeVars, fileVars
  <1>1. CASE UNCHANGED vars
    BY <1>1 DEF vars
  <1>2. CASE \E c \in Chats : ChatStep(c)
    BY <1>2, ChatMoves
  <1>3. CASE UpsertBot
    BY <1>3, WritersKeepTurns DEF UpsertBot
  <1>9. CASE WriteElsewhere
    BY <1>9, WritersKeepTurns DEF WriteElsewhere
  <1>4. CASE \E p \in Publishes :
                 PrepareWalletPublish(p) \/ WalletSendsTx(p) \/ ChainMinesTx(p)
    BY <1>4 DEF PrepareWalletPublish, WalletSendsTx, ChainMinesTx, SetTx
  <1>5. ASSUME NEW f \in Calls, FinalizeStep(f)
        PROVE  KeepsTurns
    <2>1. CASE FinalizeUpdateSamples(f)
      BY <2>1, WritersKeepTurns DEF FinalizeUpdateSamples, UnchangedByFinalize
    <2> QED
      BY <1>5, <2>1
      DEF FinalizeStep, FinalizeGetSnapshot, FinalizeRejectTx, FinalizeAcceptTx,
          FinalizeListSamples, FinalizeSaveLog, UnchangedByFinalize
  <1>6. ASSUME NEW f \in Calls, UploadStep(f)
        PROVE  KeepsTurns
    <2>1. CASE UploadUpdateSamples(f)
      BY <2>1, WritersKeepTurns DEF UploadUpdateSamples, UnchangedByUpload
    <2> QED
      BY <1>6, <2>1
      DEF UploadStep, UploadSegments, UploadGivesUp, UploadListSamples,
          UnchangedByUpload
  <1>7. ASSUME NEW d \in Directs, DirectStep(d)
        PROVE  KeepsTurns
    <2>1. CASE DirectUpdateSamples(d)
      BY <2>1, WritersKeepTurns DEF DirectUpdateSamples, UnchangedByDirect
    <2> QED
      BY <1>7, <2>1
      DEF DirectStep, DirectListSamples, DirectStorePayload, DirectSaveLog,
          UnchangedByDirect
  <1>8. CASE Crash
    <2>1. /\ \/ store'.memories = disk.memories /\ load' = "read"
             \/ LoadMayFail /\ store'.memories = << >> /\ load' = "unread"
          /\ disk' = disk /\ lost' = lost
      BY <1>8, CrashLoads
    <2>2. /\ chat' \in [Chats -> [pc : {"idle"} \cup Over, bot : Bot]]
          /\ \A c \in Chats : /\ chat'[c].pc = "idle" <=> chat[c].pc = "idle"
                              /\ chat'[c].pc = "done" <=> chat[c].pc = "done"
      BY <1>8, CrashEffect
    <2> QED
      BY <1>8, <2>1, <2>2 DEF Restarts, Underway, Unrecorded, Over
  <1> QED
    BY <1>1, <1>2, <1>3, <1>4, <1>5, <1>6, <1>7, <1>8, <1>9 DEF Next

-----------------------------------------------------------------------------
(***************************************************************************)
(* Durability                                                              *)
(***************************************************************************)

\* The file holds a prefix of the turns in memory; a file this run could not read
\* holds others.  No turn is repeated, and none that was lost returns.
FilesInv ==
    /\ load = "read" => IsPrefix(disk.memories, store.memories)
    /\ load = "unread" => Turns(disk) \cap Turns(store) = {}
    /\ IsInjective(store.memories) /\ IsInjective(disk.memories)
    /\ lost \cap (Turns(store) \cup Turns(disk)) = {}

\* A chat's turn is in the file from the moment its AppendMemory succeeds, and
\* nowhere before.
ChatsInv ==
    \A c \in Chats :
        /\ chat[c].pc \in Underway => load = "read" /\ c \in Turns(disk)
        /\ chat[c].pc = "done" => c \in Turns(disk) \cup lost
        /\ chat[c].pc \in Unrecorded => c \notin Turns(store) \cup Turns(disk) \cup lost

LogInv == FilesInv /\ ChatsInv

LEMMA EmptyLog ==
    /\ << >> \in Seq(Chats) /\ IsPrefix(<< >>, << >>)
    /\ IsInjective(<< >>) /\ Range(<< >>) = {}
  <1>1. << >> \in Seq(Chats)
    OBVIOUS
  <1>2. IsPrefix(<< >>, << >>)
    BY <1>1, PrefixItself
  <1>3. IsInjective(<< >>) /\ Range(<< >>) = {}
    BY DEF IsInjective, Range
  <1> QED
    BY <1>1, <1>2, <1>3

LEMMA LogInvInit == Init => LogInv
  <1> SUFFICES ASSUME Init PROVE LogInv
    OBVIOUS
  <1>1. /\ store.memories = << >> /\ disk.memories = << >>
        /\ load = "read" /\ lost = {}
        /\ \A c \in Chats : chat[c].pc = "idle"
    BY DEF Init, NewBot
  <1> QED
    BY <1>1, EmptyLog
    DEF LogInv, FilesInv, ChatsInv, Underway, Unrecorded, Turns

\* The turns of the file stay in it, unless this run could not read it.
LEMMA ReplacedTurns ==
    ASSUME TypeOK, LogInv, FileKept \/ FileReplaced,
           Turns(store) \subseteq Turns(store')
    PROVE  /\ Turns(disk) \cup lost \subseteq Turns(disk') \cup lost'
           /\ Turns(disk') \cup lost' \subseteq Turns(disk) \cup lost \cup Turns(store')
           /\ load = "read" => Turns(disk) \subseteq Turns(disk') /\ load' = "read"
  <1>1. load = "read" => Turns(disk) \subseteq Turns(store)
    BY PrefixOfLog, TurnsType DEF LogInv, FilesInv, TypeOK, Turns
  <1>2. CASE FileKept
    BY <1>2 DEF FileKept, Turns
  <1>3. CASE FileReplaced
    <2>1. Turns(disk') = Turns(store')
      BY <1>3 DEF FileReplaced, Turns
    <2>2. lost' = lost \cup Turns(disk) \/ (lost' = lost /\ load # "unread")
      BY <1>3 DEF FileReplaced
    <2>3. load' = "read"
      BY <1>3 DEF FileReplaced
    <2>4. load = "read" \/ load = "unread"
      BY DEF TypeOK
    <2> QED
      BY <1>1, <2>1, <2>2, <2>3, <2>4
  <1> QED
    BY <1>2, <1>3

\* Whether it writes the file or not, a step that adds at most one new turn to the
\* store keeps what is known of the file.
LEMMA FilesStep ==
    ASSUME TypeOK, TypeOK', LogInv, FileKept \/ FileReplaced,
           \/ store'.memories = store.memories
           \/ \E c \in Chats : /\ store'.memories = Append(store.memories, c)
                               /\ c \notin Turns(store) \cup Turns(disk) \cup lost
    PROVE  FilesInv' /\ Turns(store) \subseteq Turns(store')
  <1>0. /\ store.memories \in Seq(Chats) /\ disk.memories \in Seq(Chats)
        /\ store'.memories \in Seq(Chats) /\ disk'.memories \in Seq(Chats)
    BY DEF TypeOK, StoreState
  <1>1. /\ IsInjective(store'.memories)
        /\ load = "read" => IsPrefix(disk.memories, store'.memories)
        /\ Turns(store) \subseteq Turns(store')
        /\ Turns(store') \cap lost = {}
        /\ load = "unread" => Turns(store') \cap Turns(disk) = {}
    <2>1. CASE store'.memories = store.memories
      BY <2>1 DEF LogInv, FilesInv, Turns
    <2>2. ASSUME NEW c \in Chats, store'.memories = Append(store.memories, c),
                 c \notin Turns(store) \cup Turns(disk) \cup lost
          PROVE  <1>1
      <3>1. /\ Range(store'.memories) = Range(store.memories) \cup {c}
            /\ IsInjective(store'.memories)
        BY <1>0, <2>2, AppendedTurn DEF LogInv, FilesInv, Turns
      <3>2. load = "read" => IsPrefix(disk.memories, store'.memories)
        BY <1>0, <2>2, PrefixOfLog DEF LogInv, FilesInv
      <3> QED
        BY <2>2, <3>1, <3>2 DEF LogInv, FilesInv, Turns
    <2> QED
      BY <2>1, <2>2
  <1>2. CASE FileKept
    <2>1. FilesInv
      BY DEF LogInv
    <2> QED
      BY <1>1, <1>2, <2>1 DEF FileKept, FilesInv, Turns
  <1>3. CASE FileReplaced
    <2>1. IsPrefix(store'.memories, store'.memories)
      BY <1>0, PrefixItself
    <2> QED
      BY <1>1, <1>3, <2>1 DEF FileReplaced, FilesInv, Turns
  <1> QED
    BY <1>1, <1>2, <1>3

LEMMA LogInvStep ==
    ASSUME TypeOK, TypeOK', LogInv, [Next]_vars
    PROVE  LogInv'
  <1>1. CASE KeepsTurns
    <2>1. FilesInv'
      BY <1>1, FilesStep DEF KeepsTurns
    <2>2. /\ Turns(disk) \cup lost \subseteq Turns(disk') \cup lost'
          /\ Turns(disk') \cup lost' \subseteq Turns(disk) \cup lost \cup Turns(store')
          /\ load = "read" => Turns(disk) \subseteq Turns(disk') /\ load' = "read"
          /\ Turns(store') = Turns(store)
      BY <1>1, ReplacedTurns DEF KeepsTurns, Turns
    <2>3. ChatsInv
      BY DEF LogInv
    <2>4. ChatsInv'
      BY <1>1, <2>2, <2>3 DEF KeepsTurns, NoChatRecorded, ChatsInv
    <2> QED
      BY <2>1, <2>4 DEF LogInv
  <1>2. ASSUME NEW c \in Chats, AddsTurn(c)
        PROVE  LogInv'
    <2>1. c \notin Turns(store) \cup Turns(disk) \cup lost
      BY <1>2 DEF AddsTurn, LogInv, ChatsInv, Unrecorded
    <2>2. FilesInv' /\ Turns(store) \subseteq Turns(store')
      BY <1>2, <2>1, FilesStep DEF AddsTurn
    <2>3. /\ Turns(disk) \cup lost \subseteq Turns(disk') \cup lost'
          /\ Turns(disk') \cup lost' \subseteq Turns(disk) \cup lost \cup Turns(store')
          /\ load = "read" => Turns(disk) \subseteq Turns(disk') /\ load' = "read"
      BY <1>2, <2>2, ReplacedTurns DEF AddsTurn
    <2>4. Turns(store') = Turns(store) \cup {c}
      BY <1>2, AppendedTurn DEF AddsTurn, Turns, TypeOK, StoreState
    <2>5. ChatsInv
      BY DEF LogInv
    <2>6. ASSUME NEW e \in Chats \ {c}
          PROVE  /\ chat'[e].pc \in Underway => load' = "read" /\ e \in Turns(disk')
                 /\ chat'[e].pc = "done" => e \in Turns(disk') \cup lost'
                 /\ chat'[e].pc \in Unrecorded =>
                        e \notin Turns(store') \cup Turns(disk') \cup lost'
      BY <1>2, <2>3, <2>4, <2>5 DEF AddsTurn, ChatsInv
    <2>7. /\ chat'[c].pc \in Underway => load' = "read" /\ c \in Turns(disk')
          /\ chat'[c].pc # "done" /\ chat'[c].pc \notin Unrecorded
      BY <1>2, <2>4 DEF AddsTurn, FileReplaced, Underway, Unrecorded, Turns
    <2>8. ChatsInv'
      BY <2>6, <2>7 DEF ChatsInv
    <2> QED
      BY <2>2, <2>8 DEF LogInv
  <1>3. CASE Restarts
    <2>1. disk.memories \in Seq(Chats) /\ IsPrefix(disk.memories, disk.memories)
      BY PrefixItself DEF TypeOK, StoreState
    <2>2. FilesInv'
      BY <1>3, <2>1, EmptyLog DEF Restarts, LogInv, FilesInv, Turns
    <2>3. /\ Turns(disk') = Turns(disk) /\ lost' = lost
          /\ Turns(store') \subseteq Turns(disk)
      BY <1>3, EmptyLog DEF Restarts, Turns
    <2>4. ChatsInv
      BY DEF LogInv
    <2>6. \A c \in Chats : c \in Turns(disk) => c \in Turns(disk) \cup lost
      OBVIOUS
    <2>5. ChatsInv'
      BY <1>3, <2>3, <2>4, <2>6 DEF Restarts, NoChatRecorded, ChatsInv
    <2> QED
      BY <2>2, <2>5 DEF LogInv
  <1> QED
    BY <1>1, <1>2, <1>3, TurnsMove

LEMMA LogInvariant == Spec => [](TypeInv /\ LogInv)
  <1>1. Init => TypeInv /\ LogInv
    BY TypeInvInit, LogInvInit
  <1>2. TypeInv /\ LogInv /\ [Next]_vars => (TypeInv /\ LogInv)'
    BY TypeInvStep, LogInvStep DEF TypeInv
  <1> QED
    BY <1>1, <1>2, PTL DEF Spec

\* The turn of a chat answered without an error is in the file at once and stays
\* there through every later write, failed write and crash, unless a run that
\* could not read the file replaces it.
THEOREM AnsweredDurable == Spec => []AnsweredTurnDurable
  <1>1. LogInv => AnsweredTurnDurable
    BY DEF LogInv, ChatsInv, AnsweredTurnDurable
  <1> QED
    BY <1>1, LogInvariant, PTL

-----------------------------------------------------------------------------
(***************************************************************************)
(* Refinement                                                              *)
(***************************************************************************)

\* At most one chat is answered by a step, one whose turn was in the file that this
\* run has read; and none is taken back.
LEMMA AnsweredMoves ==
    ASSUME TypeOK, [Next]_vars
    PROVE  LET Answered == {c \in Chats : chat[c].pc = "done"} IN
           \/ Answered' = Answered
           \/ \E c \in Chats : /\ chat[c].pc \in Underway /\ ~Crash
                               /\ Answered' = Answered \cup {c}
  <1> DEFINE Answered == {c \in Chats : chat[c].pc = "done"}
  <1>1. CASE chat' = chat
    BY <1>1
  <1>2. ASSUME NEW c \in Chats, ChatStep(c)
        PROVE  \/ Answered' = Answered
               \/ /\ chat[c].pc \in Underway /\ ~Crash
                  /\ Answered' = Answered \cup {c}
    <2>1. \A e \in Chats \ {c} : chat'[e] = chat[e]
      BY <1>2, ChatMoves
    <2>2. chat[c].pc # "done" /\ crashes' = crashes
      BY <1>2 DEF ChatStep, ChatGetBot, ChatAppendMemory, ChatSaveBot, ChatSaveSample,
                  UnchangedByChat
    <2>5. crashes \in Nat
      BY DEF TypeOK
    <2>6. Crash => crashes' = crashes + 1
      BY Zenon DEF Crash
    <2>3. ~Crash
      BY <2>2, <2>5, <2>6
    <2>4. chat'[c].pc = "done" => chat[c].pc \in Underway
      BY <1>2 DEF ChatStep, ChatGetBot, ChatAppendMemory, ChatSaveBot, ChatSaveSample,
                  TypeOK, Underway
    <2> QED
      BY <2>1, <2>2, <2>3, <2>4
  <1>3. CASE Crash
    BY <1>3, CrashEffect
  <1>4. CASE UpsertBot \/ WriteElsewhere \/ \E p \in Publishes :
                 PrepareWalletPublish(p) \/ WalletSendsTx(p) \/ ChainMinesTx(p)
    BY <1>1, <1>4
    DEF UpsertBot, WriteElsewhere, PrepareWalletPublish, WalletSendsTx, ChainMinesTx, SetTx
  <1>5. ASSUME NEW f \in Calls, FinalizeStep(f) \/ UploadStep(f)
        PROVE  chat' = chat
    BY <1>5
    DEF FinalizeStep, FinalizeGetSnapshot, FinalizeRejectTx, FinalizeAcceptTx,
        FinalizeListSamples, FinalizeUpdateSamples, FinalizeSaveLog,
        UnchangedByFinalize, UploadStep, UploadSegments, UploadGivesUp,
        UploadListSamples, UploadUpdateSamples, UnchangedByUpload
  <1>6. ASSUME NEW d \in Directs, DirectStep(d)
        PROVE  chat' = chat
    BY <1>6 DEF DirectStep, DirectListSamples, DirectStorePayload,
                DirectUpdateSamples, DirectSaveLog, UnchangedByDirect
  <1> QED
    BY <1>1, <1>2, <1>3, <1>4, <1>5, <1>6 DEF Next, vars

\* What the operators of the two modules have in common.
LEMMA LogOperators ==
    ASSUME NEW s, NEW t
    PROVE  /\ Log!Range(s) = Turns([memories |-> s]) /\ Range(s) = Log!Range(s)
           /\ Log!IsInjective(s) <=> IsInjective(s)
           /\ Log!IsPrefix(s, t) <=> IsPrefix(s, t)
  BY DEF Turns, Range, Log!Range, IsInjective, Log!IsInjective, IsPrefix, Log!IsPrefix

LEMMA LogStep ==
    ASSUME TypeOK, TypeOK', LogInv, LogInv', [Next]_vars
    PROVE  Log!Next \/ UNCHANGED <<disk.memories, {c \in Chats : chat[c].pc = "done"},
                                   load, lost>>
  <1> DEFINE Answered == {c \in Chats : chat[c].pc = "done"}
  <1>0. /\ store.memories \in Seq(Chats) /\ disk.memories \in Seq(Chats)
        /\ load \in {"read", "unread"} /\ load' \in {"read", "unread"}
    BY DEF TypeOK, StoreState
  <1>1. CASE Crash
    <2>1. Restarts
      BY <1>1, CrashLoads, CrashEffect
      DEF Restarts, NoChatRecorded, Underway, Unrecorded, Over
    <2>2. Answered' = Answered
      BY <1>1, CrashEffect
    <2>3. Log!Restart
      BY <2>1, <2>2, StoreAssumption DEF Log!Restart, Restarts
    <2> QED
      BY <2>3 DEF Log!Next
  <1>2. CASE ~Crash
    <2>1. /\ FileKept \/ FileReplaced
          /\ load = "read" => IsPrefix(disk.memories, disk'.memories)
      <3>1. FileKept \/ FileReplaced
        BY <1>2, TurnsMove DEF KeepsTurns, AddsTurn, Restarts
      <3>2. CASE FileKept
        BY <1>0, <3>2, PrefixItself DEF FileKept
      <3>3. ASSUME FileReplaced, load = "read"
            PROVE  IsPrefix(disk.memories, disk'.memories)
        <4>1. IsPrefix(disk.memories, store.memories)
          BY <3>3 DEF LogInv, FilesInv
        <4>2. \A c \in Chats : IsPrefix(disk.memories, Append(store.memories, c))
          BY <1>0, <4>1, PrefixOfLog
        <4> QED
          BY <1>2, <3>3, <4>1, <4>2, TurnsMove
          DEF KeepsTurns, AddsTurn, Restarts, FileReplaced
      <3> QED
        BY <3>1, <3>2, <3>3
    <2>2. IsInjective(disk'.memories) /\ Turns(disk') \cap lost' = {}
      BY DEF LogInv, FilesInv
    <2>3. \/ Answered' = Answered
          \/ \E c \in Turns(disk') : load = "read" /\ Answered' = Answered \cup {c}
      <3>1. ASSUME NEW c \in Chats, chat[c].pc \in Underway
            PROVE  load = "read" /\ c \in Turns(disk')
        <4>1. load = "read" /\ c \in Turns(disk)
          BY <3>1 DEF LogInv, ChatsInv
        <4>2. disk'.memories \in Seq(Chats)
          BY DEF TypeOK, StoreState
        <4> QED
          BY <1>0, <2>1, <4>1, <4>2, PrefixOfLog DEF Turns
      <3> QED
        BY <3>1, AnsweredMoves
    <2>4. Turns(disk) = Range(disk.memories) /\ Turns(disk') = Range(disk'.memories)
      BY DEF Turns
    <2>5. CASE load = "read"
      <3>1. UNCHANGED <<load, lost>>
        BY <1>0, <2>1, <2>5 DEF FileKept, FileReplaced
      <3>2. Log!Extend
        BY <2>1, <2>5, <3>1, LogOperators DEF Log!Extend
      <3>3. Log!Write
        BY <2>2, <2>3, <2>4, <3>2, LogOperators DEF Log!Write
      <3> QED
        BY <3>3 DEF Log!Next
    <2>6. CASE load = "unread"
      <3>1. Answered' = Answered
        BY <2>3, <2>6
      <3>2. CASE FileKept
        BY <3>1, <3>2 DEF FileKept
      <3>3. CASE FileReplaced
        <4>1. Log!Replace
          <5>1. lost' = lost \cup Turns(disk) /\ load' = "read"
            BY <2>6, <3>3 DEF FileReplaced
          <5> QED
            BY <2>4, <2>6, <5>1, LogOperators DEF Log!Replace
        <4>2. Log!Write
          BY <2>2, <2>4, <3>1, <4>1, LogOperators DEF Log!Write
        <4> QED
          BY <4>2 DEF Log!Next
      <3> QED
        BY <2>1, <3>2, <3>3
    <2> QED
      BY <1>0, <2>5, <2>6
  <1> QED
    BY <1>1, <1>2

\* Chats over the store implement the log of module MemoryLog: every step of the
\* service extends it, answers a chat that is in it, or leaves it alone; and only a
\* run that could not read it replaces it.
THEOREM MemoryIsLog == Spec => ImplementsMemoryLog
  <1>1. Init => Log!Init
    BY DEF Init, Log!Init, NewBot
  <1>2. TypeInv /\ LogInv /\ TypeInv' /\ LogInv' /\ [Next]_vars =>
            [Log!Next]_<<disk.memories, {c \in Chats : chat[c].pc = "done"}, load, lost>>
    BY LogStep DEF TypeInv
  <1> QED
    BY <1>1, <1>2, LogInvariant, PTL DEF Spec, ImplementsMemoryLog, Log!Spec

-----------------------------------------------------------------------------
(***************************************************************************)
(* Growth and samples stay within the turns                                *)
(***************************************************************************)

WithinTurns(s) ==
    /\ s.bot # None => s.bot.growth <= Len(s.memories)
    /\ DOMAIN s.dataset \subseteq Turns(s)

\* The copies of the bot that chats hold still have room to grow.
BotCopies ==
    \A c \in Chats :
        /\ chat[c].pc = "replying" => chat[c].bot.growth <= Len(store.memories)
        /\ chat[c].pc = "remembered" => chat[c].bot.growth + 1 <= Len(store.memories)

\* The copies of the samples that publishes hold are of remembered turns, and a
\* request that survives a crash holds none.
SampleCopies ==
    /\ \A f \in Calls :
          /\ DOMAIN final[f].list \subseteq Turns(store)
          /\ DOMAIN uploader[f].list \subseteq Turns(store)
          /\ final[f].pc # "listed" => final[f].list = NoSamples
          /\ uploader[f].pc # "listed" => uploader[f].list = NoSamples
    /\ \A d \in Directs :
          /\ DOMAIN direct[d].list \subseteq Turns(store)
          /\ direct[d].pc \notin {"storing", "stored"} => direct[d].list = NoSamples

TurnsInv == WithinTurns(store) /\ WithinTurns(disk) /\ BotCopies /\ SampleCopies

LEMMA TurnsInvInit == Init => TurnsInv
  <1> SUFFICES ASSUME Init PROVE TurnsInv
    OBVIOUS
  <1>1. WithinTurns(NewBot)
    BY NoSamplesType DEF WithinTurns, NewBot, Turns
  <1> QED
    BY <1>1, NoSamplesType DEF Init, TurnsInv, BotCopies, SampleCopies

LEMMA CommitWithinTurns ==
    ASSUME NEW s, WithinTurns(s), WithinTurns(disk), NEW ok, Commit(s, ok)
    PROVE  WithinTurns(store') /\ WithinTurns(disk')
  BY DEF Commit, Rename, fileVars, WithinTurns, Turns

\* A slice written back holds only samples of the list it was made from.
LEMMA MarkedWithinTurns ==
    ASSUME TypeOK, TurnsInv, NEW list \in Dataset, DOMAIN list \subseteq Turns(store),
           NEW ids, NEW ref \in Roots, NEW root \in Roots \cup {None},
           NEW done \in BOOLEAN, NEW ok,
           UpdateTrainingSamples(ApplyByID(list, ids, Marked(ref, root, done)), ok)
    PROVE  WithinTurns(store') /\ WithinTurns(disk')
  <1> DEFINE ds == ApplyByID(list, ids, Marked(ref, root, done))
             s == [store EXCEPT !.dataset = ds]
  <1>1. DOMAIN ds \subseteq Turns(store)
    BY ApplyByIDType
  <1> HIDE DEF ds
  <1>2. s.bot = store.bot /\ s.memories = store.memories /\ s.dataset = ds
    BY DEF TypeOK, StoreState
  <1>3. WithinTurns(s)
    BY <1>1, <1>2 DEF WithinTurns, TurnsInv, Turns
  <1> HIDE DEF s
  <1>4. Commit(s, ok)
    BY DEF UpdateTrainingSamples, s, ds
  <1> QED
    BY <1>3, <1>4, CommitWithinTurns DEF TurnsInv

LEMMA ChatWithinTurns ==
    ASSUME TypeOK, LogInv, TurnsInv, NEW c \in Chats, ChatStep(c)
    PROVE  WithinTurns(store') /\ WithinTurns(disk')
  <1>0. /\ store \in StoreState /\ store.memories \in Seq(Chats)
        /\ store.dataset \in Dataset /\ Len(store.memories) \in Nat
        /\ store.bot # None => store.bot.growth \in Nat
        /\ chat[c].bot \in Bot
    BY DEF TypeOK, StoreState, Bot
  <1>1. CASE ChatGetBot(c)
    BY <1>1 DEF ChatGetBot, storeVars, fileVars, TurnsInv, WithinTurns, Turns
  <1>2. CASE ChatAppendMemory(c)
    <2> DEFINE s == [store EXCEPT !.memories = Append(@, c)]
    <2>1. /\ s.bot = store.bot /\ s.dataset = store.dataset
          /\ s.memories = Append(store.memories, c)
      BY <1>0 DEF StoreState
    <2>2. /\ Len(Append(store.memories, c)) = Len(store.memories) + 1
          /\ Range(Append(store.memories, c)) = Range(store.memories) \cup {c}
      BY <1>0, AppendedTurn
    <2>3. WithinTurns(s)
      BY <1>0, <2>1, <2>2 DEF WithinTurns, TurnsInv, Turns
    <2> HIDE DEF s
    <2>4. PICK ok : Commit(s, ok)
      BY <1>2 DEF ChatAppendMemory, AppendMemory, s
    <2> QED
      BY <2>3, <2>4, CommitWithinTurns DEF TurnsInv
  <1>3. CASE ChatSaveBot(c)
    <2> DEFINE b == Grown(chat[c].bot)
               s == [store EXCEPT !.bot = b]
    <2>1. b.growth = chat[c].bot.growth + 1
      BY <1>0 DEF Grown, Bot
    <2> HIDE DEF b
    <2>2. s.bot = b /\ s.memories = store.memories /\ s.dataset = store.dataset
      BY <1>0 DEF StoreState
    <2>3. WithinTurns(s)
      BY <1>3, <2>1, <2>2 DEF ChatSaveBot, WithinTurns, TurnsInv, BotCopies, Turns
    <2> HIDE DEF s
    <2>4. PICK ok : Commit(s, ok)
      BY <1>3 DEF ChatSaveBot, SaveBot, s, b
    <2> QED
      BY <2>3, <2>4, CommitWithinTurns DEF TurnsInv
  <1>4. CASE ChatSaveSample(c)
    <2> DEFINE ds == WithSample(store.dataset, c)
               s == [store EXCEPT !.dataset = ds]
    <2>1. c \in Turns(disk) /\ Turns(disk) \subseteq Turns(store)
      <3>1. load = "read" /\ c \in Turns(disk)
        BY <1>4 DEF ChatSaveSample, LogInv, ChatsInv, Underway
      <3> QED
        BY <1>0, <3>1, PrefixOfLog DEF LogInv, FilesInv, Turns, TypeOK, StoreState
    <2>2. DOMAIN ds = DOMAIN store.dataset \cup {c}
      BY <1>0, WithSampleType
    <2> HIDE DEF ds
    <2>3. s.bot = store.bot /\ s.memories = store.memories /\ s.dataset = ds
      BY <1>0 DEF StoreState
    <2>4. WithinTurns(s)
      BY <2>1, <2>2, <2>3 DEF WithinTurns, TurnsInv, Turns
    <2> HIDE DEF s
    <2>5. PICK ok : Commit(s, ok)
      BY <1>4 DEF ChatSaveSample, SaveTrainingSample, s, ds
    <2> QED
      BY <2>4, <2>5, CommitWithinTurns DEF TurnsInv
  <1> QED
    BY <1>1, <1>2, <1>3, <1>4 DEF ChatStep

LEMMA StoreWithinTurns ==
    ASSUME TypeInv, LogInv, TurnsInv, [Next]_vars
    PROVE  WithinTurns(store') /\ WithinTurns(disk')
  <1> USE DEF TypeInv
  <1>1. CASE UNCHANGED storeVars
    BY <1>1 DEF storeVars, fileVars, TurnsInv, WithinTurns, Turns
  <1>12. CASE WriteElsewhere
    BY <1>12, CommitWithinTurns DEF WriteElsewhere, FlushElsewhere, TurnsInv
  <1>2. CASE UpsertBot
    <2> DEFINE b == [profile |-> edits + 1, growth |-> 0]
               s == [store EXCEPT !.bot = b]
    <2>1. /\ s.bot.growth = 0 /\ s.memories = store.memories
          /\ s.dataset = store.dataset /\ Len(store.memories) \in Nat
      BY DEF TypeOK, StoreState
    <2>2. WithinTurns(s)
      BY <2>1 DEF WithinTurns, TurnsInv, Turns
    <2> HIDE DEF s
    <2>3. PICK ok : Commit(s, ok)
      BY <1>2 DEF UpsertBot, SaveBot, s
    <2> QED
      BY <2>2, <2>3, CommitWithinTurns DEF TurnsInv
  <1>3. ASSUME NEW f \in Calls, FinalizeUpdateSamples(f)
        PROVE  WithinTurns(store') /\ WithinTurns(disk')
    <2>1. final[f].pub \in Publishes /\ final[f].list \in Dataset
      BY <1>3 DEF CallHasPublish, FinalizeUpdateSamples, TypeOK
    <2> QED
      BY <1>3, <2>1, MarkedWithinTurns
      DEF FinalizeUpdateSamples, Roots, TurnsInv, SampleCopies
  <1>4. ASSUME NEW f \in Calls, UploadUpdateSamples(f)
        PROVE  WithinTurns(store') /\ WithinTurns(disk')
    <2>1. final[f].pub \in Publishes /\ uploader[f].list \in Dataset
      BY <1>4 DEF CallHasPublish, UploadUpdateSamples, TypeOK
    <2> QED
      BY <1>4, <2>1, MarkedWithinTurns
      DEF UploadUpdateSamples, Roots, TurnsInv, SampleCopies
  <1>5. ASSUME NEW d \in Directs, DirectUpdateSamples(d)
        PROVE  WithinTurns(store') /\ WithinTurns(disk')
    <2>1. /\ direct[d].list \in Dataset /\ d \in Roots
          /\ (IF Sim THEN None ELSE d) \in Roots \cup {None}
      BY DEF TypeOK, Roots
    <2> QED
      BY <1>5, <2>1, MarkedWithinTurns DEF DirectUpdateSamples, TurnsInv, SampleCopies
  <1>6. CASE Crash
    <2>1. WithinTurns(NoBot)
      BY NoSamplesType DEF WithinTurns, NoBot
    <2>2. store' \in {disk, NoBot} /\ disk' = disk
      BY <1>6 DEF Crash, Reload
    <2> QED
      BY <2>1, <2>2 DEF TurnsInv, WithinTurns, Turns
  <1>7. ASSUME NEW f \in Calls, FinalizeStep(f)
        PROVE  UNCHANGED storeVars \/ FinalizeUpdateSamples(f)
    BY <1>7 DEF FinalizeStep, FinalizeGetSnapshot, FinalizeRejectTx,
                FinalizeAcceptTx, FinalizeListSamples, FinalizeSaveLog
  <1>8. ASSUME NEW f \in Calls, UploadStep(f)
        PROVE  UNCHANGED storeVars \/ UploadUpdateSamples(f)
    BY <1>8 DEF UploadStep, UploadSegments, UploadGivesUp, UploadListSamples
  <1>9. ASSUME NEW d \in Directs, DirectStep(d)
        PROVE  UNCHANGED storeVars \/ DirectUpdateSamples(d)
    BY <1>9 DEF DirectStep, DirectListSamples, DirectStorePayload, DirectSaveLog
  <1>10. CASE \E p \in Publishes :
                  PrepareWalletPublish(p) \/ WalletSendsTx(p) \/ ChainMinesTx(p)
    BY <1>1, <1>10
    DEF PrepareWalletPublish, WalletSendsTx, ChainMinesTx, SetTx, storeVars
  <1>11. CASE UNCHANGED vars
    BY <1>1, <1>11 DEF vars
  <1> QED
    BY <1>1, <1>2, <1>3, <1>4, <1>5, <1>6, <1>7, <1>8, <1>9, <1>10, <1>11,
       <1>12, ChatWithinTurns DEF Next

LEMMA TurnsGrow ==
    ASSUME TypeOK, [Next]_vars, ~Crash
    PROVE  /\ Turns(store) \subseteq Turns(store')
           /\ Len(store.memories) <= Len(store'.memories)
  <1>0. store.memories \in Seq(Chats) /\ Len(store.memories) \in Nat
    BY DEF TypeOK, StoreState
  <1>1. CASE KeepsTurns
    BY <1>0, <1>1 DEF KeepsTurns, Turns
  <1>2. ASSUME NEW c \in Chats, AddsTurn(c)
        PROVE  /\ Turns(store) \subseteq Turns(store')
               /\ Len(store.memories) <= Len(store'.memories)
    <2>1. Len(Append(store.memories, c)) = Len(store.memories) + 1
      BY <1>0
    <2>2. Range(Append(store.memories, c)) = Range(store.memories) \cup {c}
      BY <1>0, AppendedTurn
    <2> QED
      BY <1>0, <1>2, <2>1, <2>2 DEF AddsTurn, Turns
  <1> QED
    BY <1>1, <1>2, TurnsMove DEF Restarts

\* What a step other than a chat's or a crash leaves of the chats.
LEMMA OthersKeepChat ==
    ASSUME [Next]_vars, ~Crash, \A c \in Chats : ~ChatStep(c)
    PROVE  chat' = chat
  <1>1. ASSUME NEW f \in Calls, FinalizeStep(f)
        PROVE  chat' = chat
    BY <1>1
    DEF FinalizeStep, FinalizeGetSnapshot, FinalizeRejectTx, FinalizeAcceptTx,
        FinalizeListSamples, FinalizeUpdateSamples, FinalizeSaveLog,
        UnchangedByFinalize
  <1>2. ASSUME NEW f \in Calls, UploadStep(f)
        PROVE  chat' = chat
    BY <1>2 DEF UploadStep, UploadSegments, UploadGivesUp, UploadListSamples,
                UploadUpdateSamples, UnchangedByUpload
  <1>3. ASSUME NEW d \in Directs, DirectStep(d)
        PROVE  chat' = chat
    BY <1>3 DEF DirectStep, DirectListSamples, DirectStorePayload,
                DirectUpdateSamples, DirectSaveLog, UnchangedByDirect
  <1>4. CASE UpsertBot \/ WriteElsewhere \/ \E p \in Publishes :
                 PrepareWalletPublish(p) \/ WalletSendsTx(p) \/ ChainMinesTx(p)
    BY <1>4 DEF UpsertBot, WriteElsewhere, PrepareWalletPublish, WalletSendsTx, ChainMinesTx, SetTx
  <1> QED
    BY <1>1, <1>2, <1>3, <1>4 DEF Next, vars

LEMMA BotCopiesStep ==
    ASSUME TypeOK, TypeOK', TurnsInv, [Next]_vars
    PROVE  BotCopies'
  <1>0. /\ Len(store.memories) \in Nat /\ Len(store'.memories) \in Nat
        /\ store.bot # None => store.bot.growth \in Nat
        /\ \A c \in Chats : chat[c].bot.growth \in Nat /\ chat'[c].bot.growth \in Nat
    <2>1. store.memories \in Seq(Chats) /\ store'.memories \in Seq(Chats)
      BY DEF TypeOK, StoreState
    <2>2. /\ store.bot # None => store.bot \in Bot
          /\ \A c \in Chats : chat[c].bot \in Bot /\ chat'[c].bot \in Bot
      BY DEF TypeOK, StoreState
    <2> QED
      BY <2>1, <2>2 DEF Bot
  <1>1. CASE Crash
    <2>1. \A c \in Chats : chat'[c].pc \in {"idle"} \cup Over
      BY <1>1, CrashEffect
    <2> QED
      BY <2>1 DEF BotCopies, Over
  <1>2. ASSUME NEW c \in Chats, ChatStep(c), ~Crash
        PROVE  BotCopies'
    <2>1. /\ Len(store.memories) <= Len(store'.memories)
          /\ \A e \in Chats \ {c} : chat'[e] = chat[e]
      BY <1>2, TurnsGrow, ChatMoves
    <2>2. ASSUME NEW e \in Chats \ {c}
          PROVE  /\ chat'[e].pc = "replying" => chat'[e].bot.growth <= Len(store'.memories)
                 /\ chat'[e].pc = "remembered" =>
                        chat'[e].bot.growth + 1 <= Len(store'.memories)
      BY <1>0, <2>1 DEF TurnsInv, BotCopies
    <2>3. /\ chat'[c].pc = "replying" => chat'[c].bot.growth <= Len(store'.memories)
          /\ chat'[c].pc = "remembered" => chat'[c].bot.growth + 1 <= Len(store'.memories)
      <3>1. CASE ChatGetBot(c)
        <4>1. \/ chat'[c].bot = store.bot /\ store.bot # None /\ chat'[c].pc = "replying"
              \/ chat'[c].pc = "failed"
          BY <3>1 DEF ChatGetBot, TypeOK
        <4> QED
          BY <1>0, <2>1, <4>1 DEF TurnsInv, WithinTurns
      <3>2. CASE ChatAppendMemory(c)
        <4>1. chat'[c].bot = chat[c].bot /\ chat'[c].pc \in {"remembered", "failed"}
          BY <3>2 DEF ChatAppendMemory, TypeOK
        <4>2. store'.memories = Append(store.memories, c)
          BY <3>2 DEF ChatAppendMemory, AppendMemory, Commit, TypeOK, StoreState
        <4>3. Len(store'.memories) = Len(store.memories) + 1
          BY <4>2 DEF TypeOK, StoreState
        <4> QED
          BY <1>0, <3>2, <4>1, <4>3 DEF ChatAppendMemory, TurnsInv, BotCopies
      <3>3. CASE ChatSaveBot(c) \/ ChatSaveSample(c)
        <4>1. chat'[c].pc \in {"grown", "done", "failed"}
          BY <3>3 DEF ChatSaveBot, ChatSaveSample, TypeOK
        <4> QED
          BY <4>1
      <3> QED
        BY <1>2, <3>1, <3>2, <3>3 DEF ChatStep
    <2> QED
      BY <2>2, <2>3 DEF BotCopies
  <1>3. ASSUME ~Crash, \A c \in Chats : ~ChatStep(c)
        PROVE  BotCopies'
    <2>1. Len(store.memories) <= Len(store'.memories)
      BY <1>3, TurnsGrow
    <2>2. chat' = chat
      BY <1>3, OthersKeepChat
    <2> QED
      BY <1>0, <2>1, <2>2 DEF TurnsInv, BotCopies
  <1> QED
    BY <1>1, <1>2, <1>3

\* The list of a request is kept, dropped, or read from the store.
ListMoves(new, old, reading) ==
    \/ new = old
    \/ new.list = NoSamples
    \/ new.list = store.dataset /\ new.pc = reading

LEMMA FinalListMoves ==
    ASSUME TypeOK, CallHasPublish, SampleCopies, NEW f \in Calls, FinalizeStep(f)
    PROVE  /\ ListMoves(final'[f], final[f], "listed")
           /\ uploader' = uploader \/ uploader'[f].list = NoSamples
           /\ direct' = direct
  <1>1. CASE FinalizeGetSnapshot(f)
    <2>1. PICK p \in Publishes, pc \in {"checking", "failed"} :
              final' = [final EXCEPT ![f].pc = pc, ![f].pub = p]
      BY <1>1 DEF FinalizeGetSnapshot
    <2>2. final'[f].list = final[f].list
      BY <2>1 DEF TypeOK
    <2>3. final[f].list = NoSamples
      BY <1>1 DEF FinalizeGetSnapshot, SampleCopies
    <2> QED
      BY <1>1, <2>2, <2>3 DEF FinalizeGetSnapshot, UnchangedByFinalize, ListMoves
  <1>2. ASSUME NEW pc \in FinalPC, FinalizeTo(f, pc)
        PROVE  ListMoves(final'[f], final[f], "listed")
    <2>0. PICK list \in Dataset :
              /\ list = NoSamples
              /\ final' = [final EXCEPT ![f].pc = pc, ![f].list = list]
      BY <1>2, NoSamplesType DEF FinalizeTo
    <2>1. final'[f].list = list
      BY <2>0 DEF TypeOK
    <2> QED
      BY <2>0, <2>1 DEF ListMoves
  <1>3. CASE FinalizeListSamples(f)
    <2>1. ASSUME final' = [final EXCEPT ![f].pc = "listed", ![f].list = store.dataset]
          PROVE  ListMoves(final'[f], final[f], "listed")
      <3>1. final \in [Calls -> FinalRecord]
        BY DEF TypeOK, FinalRecord
      <3>2. final'[f].pc = "listed" /\ final'[f].list = store.dataset
        BY <2>1, <3>1 DEF FinalRecord
      <3> QED
        BY <3>2 DEF ListMoves
    <2>2. "logging" \in FinalPC
      BY DEF FinalPC
    <2> QED
      BY <1>2, <1>3, <2>1, <2>2 DEF FinalizeListSamples, UnchangedByFinalize
  <1>4. CASE FinalizeAcceptTx(f)
    <2>1. uploader[f].list = NoSamples
      BY <1>4 DEF FinalizeAcceptTx, CallHasPublish, SampleCopies
    <2>2. uploader'[f].list = uploader[f].list
      BY FinalizeEffect DEF FinalizeShape
    <2>3. "accepted" \in FinalPC
      BY DEF FinalPC
    <2> QED
      BY <1>2, <1>4, <2>1, <2>2, <2>3 DEF FinalizeAcceptTx, UnchangedByFinalize
  <1>5. CASE FinalizeRejectTx(f) \/ FinalizeUpdateSamples(f) \/ FinalizeSaveLog(f)
    <2>1. \E pc \in FinalPC : FinalizeTo(f, pc)
      BY <1>5 DEF FinalizeRejectTx, FinalizeUpdateSamples, FinalizeSaveLog, FinalPC, Over
    <2>2. uploader' = uploader /\ direct' = direct
      BY <1>5 DEF FinalizeRejectTx, FinalizeUpdateSamples, FinalizeSaveLog,
                  UnchangedByFinalize
    <2> QED
      BY <1>2, <2>1, <2>2
  <1> QED
    BY <1>1, <1>3, <1>4, <1>5 DEF FinalizeStep

LEMMA UploadListMoves ==
    ASSUME TypeOK, NEW f \in Calls, UploadStep(f)
    PROVE  /\ ListMoves(uploader'[f], uploader[f], "listed")
           /\ \A g \in Calls \ {f} : uploader'[g] = uploader[g]
           /\ final' = final /\ direct' = direct
  <1>0. /\ store.dataset \in Dataset
        /\ "uploaded" \in UploadPC /\ "listed" \in UploadPC /\ "ended" \in UploadPC
    BY DEF TypeOK, StoreState, UploadPC
  <1>1. final' = final /\ direct' = direct
    BY DEF UploadStep, UploadSegments, UploadGivesUp, UploadListSamples,
           UploadUpdateSamples, UnchangedByUpload
  <1>2. CASE uploader' = [uploader EXCEPT ![f].pc = "listed", ![f].list = store.dataset]
    <2>1. uploader \in [Calls -> UploaderRecord]
      BY DEF TypeOK, UploaderRecord
    <2>2. /\ uploader'[f].pc = "listed" /\ uploader'[f].list = store.dataset
          /\ \A g \in Calls \ {f} : uploader'[g] = uploader[g]
      BY <1>2, <2>1 DEF UploaderRecord
    <2> QED
      BY <1>1, <2>1, <2>2 DEF ListMoves
  <1>3. ASSUME NEW pc \in UploadPC, UploadTo(f, pc)
        PROVE  /\ ListMoves(uploader'[f], uploader[f], "listed")
               /\ \A g \in Calls \ {f} : uploader'[g] = uploader[g]
    <2>1. /\ uploader'[f].list = NoSamples
          /\ \A g \in Calls \ {f} : uploader'[g] = uploader[g]
      BY <1>3, NoSamplesType, UploaderEffect DEF UploadTo
    <2> QED
      BY <2>1 DEF ListMoves
  <1> QED
    BY <1>0, <1>1, <1>2, <1>3
    DEF UploadStep, UploadSegments, UploadGivesUp, UploadListSamples,
        UploadUpdateSamples

LEMMA DirectListMoves ==
    ASSUME TypeOK, NEW d \in Directs, DirectStep(d)
    PROVE  /\ \/ ListMoves(direct'[d], direct[d], "storing")
              \/ /\ direct'[d].list = direct[d].list
                 /\ direct[d].pc = "storing" /\ direct'[d].pc = "stored"
           /\ \A e \in Directs \ {d} : direct'[e] = direct[e]
           /\ final' = final /\ uploader' = uploader
  <1>0. direct \in [Directs -> DirectRecord]
    BY DEF TypeOK, DirectRecord
  <1>1. final' = final /\ uploader' = uploader
    BY DEF DirectStep, DirectListSamples, DirectStorePayload, DirectUpdateSamples,
           DirectSaveLog, UnchangedByDirect
  <1>2. ASSUME NEW pc \in DirectPC, DirectTo(d, pc)
        PROVE  /\ ListMoves(direct'[d], direct[d], "storing")
               /\ \A e \in Directs \ {d} : direct'[e] = direct[e]
    <2>1. /\ direct'[d].list = NoSamples
          /\ \A e \in Directs \ {d} : direct'[e] = direct[e]
      BY <1>2, NoSamplesType, DirectEffect DEF DirectTo
    <2> QED
      BY <2>1 DEF ListMoves
  <1>3. CASE DirectListSamples(d)
    <2>1. CASE direct' = [direct EXCEPT ![d] = [pc |-> "storing", list |-> store.dataset]]
      <3>1. /\ direct'[d] = [pc |-> "storing", list |-> store.dataset]
            /\ \A e \in Directs \ {d} : direct'[e] = direct[e]
        BY <1>0, <2>1
      <3> QED
        BY <1>1, <3>1 DEF ListMoves
    <2>2. CASE DirectTo(d, "failed")
      BY <1>1, <1>2, <2>2 DEF DirectPC, Over
    <2> QED
      BY <1>3, <2>1, <2>2 DEF DirectListSamples
  <1>4. ASSUME direct' = [direct EXCEPT ![d].pc = "stored"]
        PROVE  /\ direct'[d].list = direct[d].list /\ direct'[d].pc = "stored"
               /\ \A e \in Directs \ {d} : direct'[e] = direct[e]
    BY <1>0, <1>4 DEF DirectRecord
  <1>5. "failed" \in DirectPC /\ "logging" \in DirectPC /\ "done" \in DirectPC
    BY DEF DirectPC, Over
  <1>6. CASE DirectStorePayload(d)
    BY <1>1, <1>2, <1>4, <1>5, <1>6 DEF DirectStorePayload
  <1>7. CASE DirectUpdateSamples(d) \/ DirectSaveLog(d)
    <2>1. \E pc \in DirectPC : DirectTo(d, pc)
      BY <1>5, <1>7 DEF DirectUpdateSamples, DirectSaveLog, Over
    <2> QED
      BY <1>1, <1>2, <2>1
  <1> QED
    BY <1>3, <1>6, <1>7 DEF DirectStep

\* Steps that touch no list.
ListsKept == UNCHANGED <<final, uploader, direct>>

LEMMA OthersKeepLists ==
    ASSUME \/ \E c \in Chats : ChatStep(c)
           \/ UpsertBot
           \/ WriteElsewhere
           \/ \E p \in Publishes :
                  PrepareWalletPublish(p) \/ WalletSendsTx(p) \/ ChainMinesTx(p)
           \/ UNCHANGED vars
    PROVE  ListsKept
  BY DEF ChatStep, ChatGetBot, ChatAppendMemory, ChatSaveBot, ChatSaveSample,
         UnchangedByChat, UpsertBot, WriteElsewhere, PrepareWalletPublish, WalletSendsTx,
         ChainMinesTx, SetTx, vars, ListsKept

LEMMA ListsMove ==
    ASSUME TypeOK, CallHasPublish, SampleCopies, [Next]_vars, ~Crash
    PROVE  /\ \A f \in Calls : /\ ListMoves(final'[f], final[f], "listed")
                               /\ ListMoves(uploader'[f], uploader[f], "listed")
           /\ \A d \in Directs : \/ ListMoves(direct'[d], direct[d], "storing")
                                 \/ /\ direct'[d].list = direct[d].list
                                    /\ direct[d].pc = "storing"
                                    /\ direct'[d].pc = "stored"
  <1>1. ASSUME NEW f \in Calls, FinalizeStep(f)
        PROVE  /\ \A g \in Calls : /\ ListMoves(final'[g], final[g], "listed")
                                   /\ ListMoves(uploader'[g], uploader[g], "listed")
               /\ direct' = direct
    <2>1. \A g \in Calls \ {f} : final'[g] = final[g] /\ uploader'[g] = uploader[g]
      BY <1>1, FinalizeEffect DEF FinalizeShape
    <2>2. /\ ListMoves(final'[f], final[f], "listed")
          /\ ListMoves(uploader'[f], uploader[f], "listed")
          /\ direct' = direct
      BY <1>1, FinalListMoves DEF ListMoves
    <2> QED
      BY <2>1, <2>2 DEF ListMoves
  <1>2. ASSUME NEW f \in Calls, UploadStep(f)
        PROVE  /\ \A g \in Calls : /\ ListMoves(final'[g], final[g], "listed")
                                   /\ ListMoves(uploader'[g], uploader[g], "listed")
               /\ direct' = direct
    BY <1>2, UploadListMoves DEF ListMoves
  <1>3. ASSUME NEW d \in Directs, DirectStep(d)
        PROVE  /\ \A e \in Directs : \/ ListMoves(direct'[e], direct[e], "storing")
                                     \/ /\ direct'[e].list = direct[e].list
                                        /\ direct[e].pc = "storing"
                                        /\ direct'[e].pc = "stored"
               /\ final' = final /\ uploader' = uploader
    BY <1>3, DirectListMoves DEF ListMoves
  <1>4. ASSUME ListsKept
        PROVE  /\ \A f \in Calls : /\ ListMoves(final'[f], final[f], "listed")
                                   /\ ListMoves(uploader'[f], uploader[f], "listed")
               /\ \A d \in Directs : ListMoves(direct'[d], direct[d], "storing")
    BY <1>4 DEF ListMoves, ListsKept
  <1>5. ASSUME direct' = direct
        PROVE  \A d \in Directs : ListMoves(direct'[d], direct[d], "storing")
    BY <1>5 DEF ListMoves
  <1>6. ASSUME final' = final, uploader' = uploader
        PROVE  \A f \in Calls : /\ ListMoves(final'[f], final[f], "listed")
                                /\ ListMoves(uploader'[f], uploader[f], "listed")
    BY <1>6 DEF ListMoves
  <1> QED
    BY <1>1, <1>2, <1>3, <1>4, <1>5, <1>6, OthersKeepLists DEF Next

LEMMA SampleCopiesStep ==
    ASSUME TypeInv, TypeOK', TurnsInv, [Next]_vars
    PROVE  SampleCopies'
  <1> USE DEF TypeInv, TurnsInv
  <1>1. CASE Crash
    <2>1. ASSUME NEW f \in Calls
          PROVE  final'[f].list = NoSamples /\ uploader'[f].list = NoSamples
      BY <1>1, CrashEffect DEF SampleCopies
    <2>2. ASSUME NEW d \in Directs
          PROVE  direct'[d].list = NoSamples
      BY <1>1, CrashEffect DEF SampleCopies
    <2> QED
      BY <2>1, <2>2, NoSamplesType DEF SampleCopies
  <1>2. CASE ~Crash
    <2>1. /\ Turns(store) \subseteq Turns(store')
          /\ DOMAIN store.dataset \subseteq Turns(store)
      BY <1>2, TurnsGrow DEF WithinTurns
    <2>2. ASSUME NEW f \in Calls
          PROVE  /\ DOMAIN final'[f].list \subseteq Turns(store')
                 /\ DOMAIN uploader'[f].list \subseteq Turns(store')
                 /\ final'[f].pc # "listed" => final'[f].list = NoSamples
                 /\ uploader'[f].pc # "listed" => uploader'[f].list = NoSamples
      <3>1. /\ ListMoves(final'[f], final[f], "listed")
            /\ ListMoves(uploader'[f], uploader[f], "listed")
        BY <1>2, ListsMove
      <3> QED
        BY <2>1, <3>1, NoSamplesType DEF ListMoves, SampleCopies
    <2>3. ASSUME NEW d \in Directs
          PROVE  /\ DOMAIN direct'[d].list \subseteq Turns(store')
                 /\ direct'[d].pc \notin {"storing", "stored"} => direct'[d].list = NoSamples
      <3>1. \/ ListMoves(direct'[d], direct[d], "storing")
            \/ direct'[d].list = direct[d].list /\ direct'[d].pc = "stored"
        BY <1>2, ListsMove
      <3> QED
        BY <2>1, <3>1, NoSamplesType DEF ListMoves, SampleCopies
    <2> QED
      BY <2>2, <2>3 DEF SampleCopies
  <1> QED
    BY <1>1, <1>2

LEMMA TurnsInvariant == Spec => []TurnsInv
  <1>1. Init => TurnsInv
    BY TurnsInvInit
  <1>2. TypeInv /\ LogInv /\ TypeInv' /\ LogInv' /\ TurnsInv /\ [Next]_vars => TurnsInv'
    <2> SUFFICES ASSUME TypeInv, LogInv, TypeInv', TurnsInv, [Next]_vars
                 PROVE  TurnsInv'
      OBVIOUS
    <2>1. TypeOK /\ TypeOK'
      BY DEF TypeInv
    <2> QED
      BY <2>1, StoreWithinTurns, BotCopiesStep, SampleCopiesStep DEF TurnsInv
  <1> QED
    BY <1>1, <1>2, LogInvariant, PTL DEF Spec

\* A bot never has more growth than turns, in memory or in the file, however its
\* chats, edits and crashes interleave.
THEOREM GrowthBounded == Spec => []GrowthWithinMemories
  <1>1. TurnsInv => GrowthWithinMemories
    BY DEF TurnsInv, WithinTurns, GrowthWithinMemories
  <1> QED
    BY <1>1, TurnsInvariant, PTL

\* No publish, of any number running at once, saves a sample whose turn the bot
\* does not remember, not even across a crash.
THEOREM SamplesHaveTurns == Spec => []SampleHasTurn
  <1>1. TurnsInv => SampleHasTurn
    BY DEF TurnsInv, WithinTurns, SampleHasTurn
  <1> QED
    BY <1>1, TurnsInvariant, PTL
=============================================================================
