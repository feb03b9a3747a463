--------------------------- MODULE TrainingMemory ---------------------------
(***************************************************************************)
(* A bot's long-term memory: chats that grow it, the ways its samples are  *)
(* published to 0G, the goroutines that upload published segments, and a   *)
(* server that may crash between any two calls of the store.               *)
(*                                                                         *)
(* Every HTTP handler runs in a goroutine of its own and the services take *)
(* no lock across store calls, so a handler is a sequence of actions, one  *)
(* per store call, and the handlers of the same bot interleave freely.     *)
(* What a handler has read stays in its record until it writes it back.    *)
(***************************************************************************)
EXTENDS BotStore, FiniteSets, SequencesExt

CONSTANTS
    Calls,          \* publish_finalize requests
    Sim,            \* TRUE when ZERO_G_PRIVATE_KEY is empty (zerog mode "sim")
    PgLog,          \* TRUE when the publish log is PostgreSQL, FALSE for the no-op log
    NetworkMayFail, \* TRUE when RPC nodes, storage nodes and PostgreSQL may fail
    MaxEdits,       \* bound on the POST /api/bots requests for the bot
    MaxCrashes      \* bound on the crashes of the server

ASSUME TrainingAssumption ==
    /\ Sim \in BOOLEAN /\ PgLog \in BOOLEAN /\ NetworkMayFail \in BOOLEAN
    /\ MaxEdits \in Nat /\ MaxCrashes \in Nat

VARIABLES
    chat,       \* chat requests: position and the copy of the bot read first
    edits,      \* POST /api/bots requests served so far
    snapshots,  \* keys of the map `pending` (pending_publish.go)
    payload,    \* samples in the payload of each root
    tx,         \* the publish transaction, as the EVM RPC node reports it
    uploaded,   \* roots whose segments the storage nodes hold
    final,      \* publish_finalize requests
    uploader,   \* the goroutine each of them may have started
    direct,     \* POST /publish requests
    crashes

vars == <<storeVars, chat, edits, snapshots, payload, tx, uploaded, final,
          uploader, direct, crashes>>

\* Handler positions.  A request is over at "done" (answered 2xx) or "failed".
Over == {"done", "failed"}
ChatPC   == {"idle", "replying", "remembered", "grown"} \cup Over
FinalPC  == {"idle", "checking", "accepted", "listed", "logging"} \cup Over
UploadPC == {"none", "waiting", "uploaded", "listed", "ended"}
DirectPC == {"idle", "storing", "stored", "logging"} \cup Over

\* "none": no publish_prepare yet; "unsent": prepared, not sent by the wallet.
TxStatus == {"none", "unsent", "pending", "success", "failed"}

TypeOK ==
    /\ store \in StoreState
    /\ disk \in StoreState
    /\ load \in {"read", "unread"}
    /\ lost \in SUBSET Chats
    /\ chat \in [Chats -> [pc : ChatPC, bot : Bot]]
    /\ edits \in 0..MaxEdits
    /\ snapshots \in SUBSET Publishes
    /\ payload \in [Roots -> SUBSET Chats]
    /\ tx \in [Publishes -> TxStatus]
    /\ uploaded \in SUBSET Roots
    /\ final \in [Calls -> [pc : FinalPC, pub : Publishes \cup {None}, list : Dataset]]
    /\ uploader \in [Calls -> [pc : UploadPC, list : Dataset]]
    /\ direct \in [Directs -> [pc : DirectPC, list : Dataset]]
    /\ crashes \in 0..MaxCrashes

Init ==
    /\ store = NewBot
    /\ disk = NewBot
    /\ load = "read" /\ lost = {}
    /\ chat = [c \in Chats |-> [pc |-> "idle", bot |-> NewBot.bot]]
    /\ edits = 0
    /\ snapshots = {}
    /\ payload = [r \in Roots |-> {}]
    /\ tx = [p \in Publishes |-> "none"]
    /\ uploaded = {}
    /\ final = [f \in Calls |-> [pc |-> "idle", pub |-> None, list |-> NoSamples]]
    /\ uploader = [f \in Calls |-> [pc |-> "none", list |-> NoSamples]]
    /\ direct = [d \in Directs |-> [pc |-> "idle", list |-> NoSamples]]
    /\ crashes = 0

-----------------------------------------------------------------------------
(***************************************************************************)
(* POST /api/bots/:id/chat (ChatService.Chat)                              *)
(***************************************************************************)

UnchangedByChat ==
    UNCHANGED <<edits, snapshots, payload, tx, uploaded, final, uploader,
                direct, crashes>>

\* A faulty variant of ChatGetBot: ErrBotNotFound is ignored, as the error of load is.
ChatGetsAnyBot(c) ==
    /\ chat[c].pc = "idle"
    /\ \/ chat' = [chat EXCEPT ![c].pc = "failed"]
       \/ chat' = [chat EXCEPT ![c] = [pc |-> "replying", bot |-> store.bot]]
    /\ UNCHANGED storeVars
    /\ UnchangedByChat

\* GetBot returns a copy.  The request ends here when there is no bot, or when a
\* selected skill is gone.
ChatGetBot(c) ==
    /\ chat[c].pc = "idle"
    /\ \/ chat' = [chat EXCEPT ![c].pc = "failed"]
       \/ /\ store.bot # None
          /\ chat' = [chat EXCEPT ![c] = [pc |-> "replying", bot |-> store.bot]]
    /\ UNCHANGED storeVars
    /\ UnchangedByChat

\* A faulty variant of ChatAppendMemory: a canned reply is not remembered.
ChatRemembersModelReplies(c) ==
    /\ chat[c].pc = "replying"
    /\ \E ok \in BOOLEAN :
           /\ AppendMemory(c, ok) \/ (ok /\ UNCHANGED storeVars)
           /\ chat' = [chat EXCEPT ![c].pc = IF ok THEN "remembered" ELSE "failed"]
    /\ UnchangedByChat

\* generateReply answers from the model or, when it errs, with a canned text;
\* then the turn is appended.
ChatAppendMemory(c) ==
    /\ chat[c].pc = "replying"
    /\ \E ok \in BOOLEAN :
           /\ AppendMemory(c, ok)
           /\ chat' = [chat EXCEPT ![c].pc = IF ok THEN "remembered" ELSE "failed"]
    /\ UnchangedByChat

\* A faulty variant of Grown: one point for each of the two messages of a turn.
GrownByMessages(b) == [b EXCEPT !.growth = @ + 2]

\* The bot copied before the reply, with one more point of growth.
Grown(b) == [b EXCEPT !.growth = @ + 1]

ChatSaveBot(c) ==
    /\ chat[c].pc = "remembered"
    /\ \E ok \in BOOLEAN :
           /\ SaveBot(Grown(chat[c].bot), ok)
           /\ chat' = [chat EXCEPT ![c].pc = IF ok THEN "grown" ELSE "failed"]
    /\ UnchangedByChat

ChatSaveSample(c) ==
    /\ chat[c].pc = "grown"
    /\ \E ok \in BOOLEAN :
           /\ SaveTrainingSample(c, ok)
           /\ chat' = [chat EXCEPT ![c].pc = IF ok THEN "done" ELSE "failed"]
    /\ UnchangedByChat

ChatStep(c) ==
    \/ ChatGetBot(c) \/ ChatAppendMemory(c) \/ ChatSaveBot(c) \/ ChatSaveSample(c)

\* POST /api/bots: handleBots fills a new profile from the form, which has no
\* growthScore, and UpsertBot saves it as it is, whether there is such a bot or not.
UpsertBot ==
    /\ edits < MaxEdits
    /\ edits' = edits + 1
    /\ \E ok \in BOOLEAN : SaveBot([profile |-> edits + 1, growth |-> 0], ok)
    /\ UNCHANGED <<chat, snapshots, payload, tx, uploaded, final, uploader,
                   direct, crashes>>

\* The write of a call that does not concern the bot's profile, turns and samples.
WriteElsewhere ==
    /\ FlushElsewhere
    /\ UNCHANGED <<chat, edits, snapshots, payload, tx, uploaded, final, uploader,
                   direct, crashes>>

-----------------------------------------------------------------------------
(***************************************************************************)
(* Marking samples (training_sample_publish.go)                            *)
(***************************************************************************)

\* An empty field of the new state leaves the field of the sample as it was.
OrOld(new, old) == IF new = None THEN old ELSE new

ApplyPublishState(s, st) ==
    [stored |-> st.stored, ref |-> OrOld(st.ref, s.ref),
     root |-> OrOld(st.root, s.root),
     pending |-> st.pending, completed |-> st.completed]

\* The state a handler gives the samples of root r: stored, and either still
\* to be uploaded or uploaded.
Marked(ref, root, done) ==
    [stored |-> TRUE, ref |-> ref, root |-> root,
     pending |-> ~done, completed |-> done]

\* The list ds with the samples of ids, or all of them if there are no ids, in
\* state st.
ApplyByID(ds, ids, st) ==
    [c \in DOMAIN ds |->
        IF ids # {} /\ c \notin ids THEN ds[c] ELSE ApplyPublishState(ds[c], st)]

-----------------------------------------------------------------------------
(***************************************************************************)
(* Wallet publish: publish_prepare, the transaction the browser sends, and *)
(* publish_finalize (wallet_publish.go)                                    *)
(***************************************************************************)

\* A faulty variant of PrepareWalletPublish: an empty training set is published.
PrepareWhateverIsThere(p) ==
    /\ tx[p] = "none"
    /\ payload' = [payload EXCEPT ![p] = DOMAIN store.dataset]
    /\ snapshots' = snapshots \cup {p}
    /\ tx' = [tx EXCEPT ![p] = "unsent"]
    /\ UNCHANGED <<storeVars, chat, edits, uploaded, final, uploader, direct, crashes>>

\* PrepareWalletPublish: the payload is the samples listed at the start, and the
\* snapshot keeps it with the ids.  Any error of the network returns before, and a
\* bot that does not exist has no samples.
PrepareWalletPublish(p) ==
    /\ tx[p] = "none"
    /\ DOMAIN store.dataset # {}
    /\ payload' = [payload EXCEPT ![p] = DOMAIN store.dataset]
    /\ snapshots' = snapshots \cup {p}
    /\ tx' = [tx EXCEPT ![p] = "unsent"]
    /\ UNCHANGED <<storeVars, chat, edits, uploaded, final, uploader, direct, crashes>>

\* eth_sendTransaction in the browser, and the chain executing the transaction.
SetTx(p, status) ==
    /\ tx' = [tx EXCEPT ![p] = status]
    /\ UNCHANGED <<storeVars, chat, edits, snapshots, payload, uploaded, final,
                   uploader, direct, crashes>>

WalletSendsTx(p) == tx[p] = "unsent" /\ SetTx(p, "pending")

ChainMinesTx(p) ==
    /\ tx[p] = "pending"
    /\ \E status \in {"success", "failed"} : SetTx(p, status)

UnchangedByFinalize == UNCHANGED <<chat, edits, payload, tx, uploaded, direct, crashes>>

FinalizeTo(f, pc) == final' = [final EXCEPT ![f].pc = pc, ![f].list = NoSamples]

\* The browser calls publish_finalize with the hash of the transaction it sent;
\* it may call again for the same snapshot.  getSnapshot refuses a snapshot that
\* is gone, and removes one older than 15 minutes.
FinalizeGetSnapshot(f) ==
    /\ final[f].pc = "idle"
    /\ \E p \in Publishes :
        /\ tx[p] \in {"pending", "success", "failed"}
        /\ \/ /\ p \in snapshots
              /\ final' = [final EXCEPT ![f].pc = "checking", ![f].pub = p]
              /\ UNCHANGED snapshots
           \/ /\ snapshots' = snapshots \ {p}
              /\ final' = [final EXCEPT ![f].pc = "failed", ![f].pub = p]
    /\ UNCHANGED <<storeVars, uploader>>
    /\ UnchangedByFinalize

\* checkTxReceipt reports a failed transaction, or the RPC call errs.  The
\* snapshot stays, the browser may try again.
FinalizeRejectTx(f) ==
    /\ final[f].pc = "checking"
    /\ tx[final[f].pub] = "failed" \/ NetworkMayFail
    /\ FinalizeTo(f, "failed")
    /\ UNCHANGED <<storeVars, snapshots, uploader>>
    /\ UnchangedByFinalize

\* A faulty variant of FinalizeAcceptTx: the snapshot is left for its expiry.
FinalizeKeepsSnapshot(f) ==
    /\ final[f].pc = "checking"
    /\ tx[final[f].pub] # "failed"
    /\ uploader' = [uploader EXCEPT ![f].pc = "waiting"]
    /\ FinalizeTo(f, "accepted")
    /\ UNCHANGED <<storeVars, snapshots>>
    /\ UnchangedByFinalize

\* checkTxReceipt reports success, or no receipt within 18 seconds.  The
\* snapshot is deleted and the uploader started before any sample is marked.
FinalizeAcceptTx(f) ==
    /\ final[f].pc = "checking"
    /\ tx[final[f].pub] # "failed"
    /\ snapshots' = snapshots \ {final[f].pub}
    /\ uploader' = [uploader EXCEPT ![f].pc = "waiting"]
    /\ FinalizeTo(f, "accepted")
    /\ UNCHANGED storeVars
    /\ UnchangedByFinalize

\* updateTrainingSamplesByID: list, ...
FinalizeListSamples(f) ==
    /\ final[f].pc = "accepted"
    /\ IF DOMAIN store.dataset = {}
       THEN FinalizeTo(f, "logging")
       ELSE final' = [final EXCEPT ![f].pc = "listed", ![f].list = store.dataset]
    /\ UNCHANGED <<storeVars, snapshots, uploader>>
    /\ UnchangedByFinalize

\* ... mark the samples of the payload in the copy, and write the copy back.
FinalizeUpdateSamples(f) ==
    LET p == final[f].pub IN
    /\ final[f].pc = "listed"
    /\ \E ok \in BOOLEAN :
           /\ UpdateTrainingSamples(
                  ApplyByID(final[f].list, payload[p], Marked(p, p, FALSE)), ok)
           /\ FinalizeTo(f, IF ok THEN "logging" ELSE "failed")
    /\ UNCHANGED <<snapshots, uploader>>
    /\ UnchangedByFinalize

\* SaveTrainingPublish: the no-op log never errs, PostgreSQL may.
FinalizeSaveLog(f) ==
    /\ final[f].pc = "logging"
    /\ \E next \in IF PgLog /\ NetworkMayFail THEN Over ELSE {"done"} : FinalizeTo(f, next)
    /\ UNCHANGED <<storeVars, snapshots, uploader>>
    /\ UnchangedByFinalize

FinalizeStep(f) ==
    \/ FinalizeGetSnapshot(f) \/ FinalizeRejectTx(f) \/ FinalizeAcceptTx(f)
    \/ FinalizeListSamples(f) \/ FinalizeUpdateSamples(f) \/ FinalizeSaveLog(f)

-----------------------------------------------------------------------------
(***************************************************************************)
(* The goroutine completeWalletTrainingUpload                              *)
(***************************************************************************)

UnchangedByUpload ==
    UNCHANGED <<chat, edits, snapshots, payload, tx, final, direct, crashes>>

UploadTo(f, pc) == uploader' = [uploader EXCEPT ![f].pc = pc, ![f].list = NoSamples]

\* waitFileInfo finds the file once the nodes have read a successful transaction
\* from the chain; then all segments are uploaded.
UploadSegments(f) ==
    /\ uploader[f].pc = "waiting"
    /\ tx[final[f].pub] = "success"
    /\ uploaded' = uploaded \cup {final[f].pub}
    /\ UploadTo(f, "uploaded")
    /\ UNCHANGED storeVars
    /\ UnchangedByUpload

\* Faulty variants of UploadGivesUp: the error is only logged; there is no deadline.
UploadIgnoresError(f) ==
    /\ uploader[f].pc = "waiting"
    /\ NetworkMayFail \/ tx[final[f].pub] # "success"
    /\ UploadTo(f, "uploaded")
    /\ UNCHANGED <<storeVars, uploaded>>
    /\ UnchangedByUpload

UploadHasNoDeadline(f) ==
    /\ uploader[f].pc = "waiting"
    /\ NetworkMayFail /\ tx[final[f].pub] = "success"
    /\ UploadTo(f, "ended")
    /\ UNCHANGED <<storeVars, uploaded>>
    /\ UnchangedByUpload

\* No reachable node, no file within 8 minutes, a failed upload, or the deadline
\* of 12 minutes: the goroutine logs a warning and returns.
UploadGivesUp(f) ==
    /\ uploader[f].pc = "waiting"
    /\ NetworkMayFail \/ tx[final[f].pub] # "success"
    /\ UploadTo(f, "ended")
    /\ UNCHANGED <<storeVars, uploaded>>
    /\ UnchangedByUpload

UploadListSamples(f) ==
    /\ uploader[f].pc = "uploaded"
    /\ IF DOMAIN store.dataset = {}
       THEN UploadTo(f, "ended")
       ELSE uploader' = [uploader EXCEPT ![f].pc = "listed", ![f].list = store.dataset]
    /\ UNCHANGED <<storeVars, uploaded>>
    /\ UnchangedByUpload

UploadUpdateSamples(f) ==
    LET p == final[f].pub IN
    /\ uploader[f].pc = "listed"
    /\ \E ok \in BOOLEAN : UpdateTrainingSamples(
           ApplyByID(uploader[f].list, payload[p], Marked(p, p, TRUE)), ok)
    /\ UploadTo(f, "ended")
    /\ UNCHANGED uploaded
    /\ UnchangedByUpload

UploadStep(f) ==
    \/ UploadSegments(f) \/ UploadGivesUp(f)
    \/ UploadListSamples(f) \/ UploadUpdateSamples(f)

-----------------------------------------------------------------------------
(***************************************************************************)
(* POST /api/bots/:id/publish (ChatService.PublishTrainingData)            *)
(***************************************************************************)

UnchangedByDirect ==
    UNCHANGED <<chat, edits, snapshots, tx, final, uploader, crashes>>

DirectTo(d, pc) == direct' = [direct EXCEPT ![d].pc = pc, ![d].list = NoSamples]

\* The bot and its samples; there may be none of either.
DirectListSamples(d) ==
    /\ direct[d].pc = "idle"
    /\ IF store.bot = None
       THEN DirectTo(d, "failed") /\ UNCHANGED payload
       ELSE /\ direct' = [direct EXCEPT ![d] = [pc |-> "storing", list |-> store.dataset]]
            /\ payload' = [payload EXCEPT ![d] = DOMAIN store.dataset]
    /\ UNCHANGED <<storeVars, uploaded>>
    /\ UnchangedByDirect

\* StoreTrainingPayload: the SDK returns once the file is final on the nodes;
\* the simulation only computes a reference.
DirectStorePayload(d) ==
    /\ direct[d].pc = "storing"
    /\ \/ /\ direct' = [direct EXCEPT ![d].pc = "stored"]
          /\ uploaded' = IF Sim THEN uploaded ELSE uploaded \cup {d}
       \/ /\ ~Sim /\ NetworkMayFail
          /\ DirectTo(d, "failed")
          /\ UNCHANGED uploaded
    /\ UNCHANGED <<storeVars, payload>>
    /\ UnchangedByDirect

\* A faulty variant of DirectUpdateSamples: the samples are listed again after the
\* upload, and all of them marked.
DirectMarksNewSamples(d) ==
    /\ direct[d].pc = "stored"
    /\ \E ok \in BOOLEAN :
           /\ UpdateTrainingSamples(
                  ApplyByID(store.dataset, {}, Marked(d, IF Sim THEN None ELSE d, TRUE)), ok)
           /\ DirectTo(d, IF ok THEN "logging" ELSE "failed")
    /\ UNCHANGED <<payload, uploaded>>
    /\ UnchangedByDirect

\* Every sample of the list read before the upload is marked, and the list
\* written back.  The simulation has no root hash.
DirectUpdateSamples(d) ==
    /\ direct[d].pc = "stored"
    /\ \E ok \in BOOLEAN :
           /\ UpdateTrainingSamples(
                  ApplyByID(direct[d].list, DOMAIN direct[d].list,
                            Marked(d, IF Sim THEN None ELSE d, TRUE)), ok)
           /\ DirectTo(d, IF ok THEN "logging" ELSE "failed")
    /\ UNCHANGED <<payload, uploaded>>
    /\ UnchangedByDirect

\* SaveTrainingPublish refuses a publish without a transaction hash, which the
\* simulation does not have.
DirectSaveLog(d) ==
    /\ direct[d].pc = "logging"
    /\ \E next \in IF PgLog /\ Sim THEN {"failed"}
                   ELSE IF PgLog /\ NetworkMayFail THEN Over ELSE {"done"} : DirectTo(d, next)
    /\ UNCHANGED <<storeVars, payload, uploaded>>
    /\ UnchangedByDirect

DirectStep(d) ==
    \/ DirectListSamples(d) \/ DirectStorePayload(d)
    \/ DirectUpdateSamples(d) \/ DirectSaveLog(d)

-----------------------------------------------------------------------------
(***************************************************************************)
(* A crash and restart: the requests, the goroutines and the snapshots are *)
(* gone, the store is what load reads.  Chain and nodes are unaffected.    *)
(***************************************************************************)

Crash ==
    /\ crashes < MaxCrashes
    /\ crashes' = crashes + 1
    /\ Reload
    /\ snapshots' = {}
    /\ chat' = [c \in Chats |->
           IF chat[c].pc \in {"idle", "done"} THEN chat[c]
           ELSE [chat[c] EXCEPT !.pc = "failed"]]
    /\ final' = [f \in Calls |->
           IF final[f].pc \in {"idle", "done"} THEN final[f]
           ELSE [final[f] EXCEPT !.pc = "failed", !.list = NoSamples]]
    /\ uploader' = [f \in Calls |->
           IF uploader[f].pc = "none" THEN uploader[f]
           ELSE [pc |-> "ended", list |-> NoSamples]]
    /\ direct' = [d \in Directs |->
           IF direct[d].pc \in {"idle", "done"} THEN direct[d]
           ELSE [pc |-> "failed", list |-> NoSamples]]
    /\ UNCHANGED <<edits, payload, tx, uploaded>>

Next ==
    \/ \E c \in Chats : ChatStep(c)
    \/ UpsertBot
    \/ WriteElsewhere
    \/ \E p \in Publishes :
           PrepareWalletPublish(p) \/ WalletSendsTx(p) \/ ChainMinesTx(p)
    \/ \E f \in Calls : FinalizeStep(f) \/ UploadStep(f)
    \/ \E d \in Directs : DirectStep(d)
    \/ Crash

Spec == Init /\ [][Next]_vars

(***************************************************************************)
(* A chat and a publish_finalize run in goroutines of their own, and each  *)
(* wait in them has a deadline: the model's client gives up after 45 s     *)
(* (llm/openai_compat.go), a receipt is waited for 18 s, the goroutine of  *)
(* an upload for 8 and in all 12 minutes.  So each keeps taking steps.  A  *)
(* direct publish has none: the SDK waits until the file is final, with    *)
(* the context of a request that nothing cancels.  Nothing obliges a user  *)
(* to start a request, a wallet to send, the chain to mine or the server   *)
(* to crash.                                                               *)
(***************************************************************************)
ChatRuns(c) == chat[c].pc # "idle" /\ ChatStep(c)
FinalizeRuns(f) == final[f].pc # "idle" /\ FinalizeStep(f)

FairSpec ==
    /\ Spec
    /\ \A c \in Chats : WF_vars(ChatRuns(c))
    /\ \A f \in Calls : WF_vars(FinalizeRuns(f)) /\ WF_vars(UploadStep(f))

-----------------------------------------------------------------------------
(***************************************************************************)
(* Properties                                                              *)
(***************************************************************************)

\* The growth score never exceeds the number of remembered turns, in memory or
\* in the file: Chat appends the turn before it saves the score it earned, and
\* a score read before a crash is never saved after it.
GrowthWithinMemories ==
    \A s \in {store, disk} : s.bot # None => s.bot.growth <= Len(s.memories)

\* Every training sample stands for a turn the bot remembers, also in the file
\* a crash leaves behind: publishes write whole slices back, and none brings
\* back a sample whose turn is lost.
SampleHasTurn ==
    \A s \in {store, disk} : DOMAIN s.dataset \subseteq Turns(s)

\* The turn of a chat that was answered without an error is in the file from then on,
\* whichever writes failed before or since and however often the server crashed.  There
\* is one exception: a run that could not read the file replaces it with its first
\* write.  As long as it writes nothing, the next restart finds the turn again.
AnsweredTurnDurable ==
    \A c \in Chats : chat[c].pc = "done" => c \in Turns(disk) \cup lost

\* The root hash on a sample is the hash of a payload that contains the sample:
\* a sample saved after a publish was prepared is never marked by it.
ProofCoversSample ==
    \A s \in {store, disk} : \A c \in DOMAIN s.dataset :
        LET r == s.dataset[c].root IN r # None => c \in payload[r]

\* A sample marked completed was stored by the publish its reference names: the
\* nodes hold the segments, and the wallet's transaction succeeded.  Only the
\* simulation marks samples completed without storing them anywhere.
CompletedIsUploaded ==
    \A s \in {store, disk} : \A c \in DOMAIN s.dataset :
        LET r == s.dataset[c].ref IN
        s.dataset[c].completed =>
            \/ r \in Directs /\ (Sim \/ r \in uploaded)
            \/ r \in Publishes /\ r \in uploaded /\ tx[r] = "success"

\* A snapshot that publish_finalize would still take has not been used: nothing
\* was uploaded for it and no sample carries its root, even when two finalize
\* requests for it run at once or the server restarted.
SnapshotUnspent ==
    \A p \in snapshots :
        /\ p \notin uploaded
        /\ \A s \in {store, disk} : \A c \in DOMAIN s.dataset : s.dataset[c].root # p

\* The long-term memory is the log of module MemoryLog: turns that became durable
\* are never dropped, reordered or repeated by a write, a failed write or a
\* restart, and the answered chats are all among them.  Only a run that could not
\* read the log begins another one, in which no turn of the old one returns.
Log == INSTANCE MemoryLog
    WITH log <- disk.memories, answered <- {c \in Chats : chat[c].pc = "done"}

ImplementsMemoryLog == Log!Spec

\* A chat or a finalize request that started ends, and so does the goroutine it
\* started, whatever the chain and the nodes do.
EveryRequestEnds ==
    /\ \A c \in Chats : chat[c].pc # "idle" ~> chat[c].pc \in Over
    /\ \A f \in Calls : /\ final[f].pc # "idle" ~> final[f].pc \in Over
                        /\ uploader[f].pc # "none" ~> uploader[f].pc = "ended"

-----------------------------------------------------------------------------
(***************************************************************************)
(* What the documentation says, and the code does not do.                  *)
(***************************************************************************)

\* README.md:64: every turn of a chat becomes a sample of the long-term memory.
EveryTurnBecomesSample ==
    \A c \in Chats : chat[c].pc = "done" => c \in DOMAIN store.dataset
=============================================================================
