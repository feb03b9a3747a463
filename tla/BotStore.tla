------------------------------ MODULE BotStore ------------------------------
(***************************************************************************)
(* What backend/internal/store keeps of one bot, and the calls of the      *)
(* FileStore on it.  Every call holds the store's mutex from its first to  *)
(* its last line, so a call is one atomic step; what is NOT atomic is a    *)
(* handler that makes several calls (module TrainingMemory).               *)
(*                                                                         *)
(* A mutating call changes the maps in memory first and then writes the    *)
(* whole state to path.tmp and renames it over path.  When the write fails *)
(* the call returns an error but the change stays in memory, and becomes   *)
(* durable with the next write that succeeds.                              *)
(*                                                                         *)
(* NewFileStore ignores an error of load: the maps are then empty, the bot *)
(* does not exist until a POST /api/bots saves it under its id again, and  *)
(* the first write of the run replaces the file it could not read.  No     *)
(* handler deletes a bot, and every call on one that does not exist        *)
(* returns ErrBotNotFound before any change.                               *)
(***************************************************************************)
EXTENDS Naturals, Sequences, Functions

CONSTANTS
    Chats,         \* chat requests; the turn and the sample of a chat carry its name
    Publishes,     \* wallet publishes: each has one payload, Merkle root and transaction
    Directs,       \* publishes by the server's own key (POST /publish)
    None,          \* an empty string field, or no bot
    FlushMayFail,  \* TRUE when writing the file may fail
    LoadMayFail    \* TRUE when reading it may fail

ASSUME StoreAssumption ==
    /\ Publishes \cap Directs = {}
    /\ None \notin Publishes \cup Directs
    /\ FlushMayFail \in BOOLEAN /\ LoadMayFail \in BOOLEAN

VARIABLES
    store,         \* the FileStore's maps, restricted to the bot
    disk,          \* the content of STORE_PATH
    load,          \* "unread" when this run could not load the file, and has not replaced it
    lost           \* the turns in the files that such runs replaced

fileVars == <<disk, load, lost>>
storeVars == <<store, fileVars>>

\* A root names the payload it is the hash of; payloads carry the time of
\* their export, so that no two publishes have the same root.
Roots == Publishes \cup Directs

\* BotProfile: profile stands for the fields a user edits (name, model, prompt),
\* as the number of the edit that wrote them.
Bot == [profile : Nat, growth : Nat]

\* The publish fields of a TrainingSample.  txHash is set and kept together with
\* rootHash, so root stands for both.
Proof == [stored : BOOLEAN, ref : Roots \cup {None}, root : Roots \cup {None},
          pending : BOOLEAN, completed : BOOLEAN]

NoProof == [stored |-> FALSE, ref |-> None, root |-> None,
            pending |-> FALSE, completed |-> FALSE]

\* The samples of the bot by the chat that made them; a copy of them, as
\* ListTrainingSamples returns it, has the same type.
Dataset == UNION {[S -> Proof] : S \in SUBSET Chats}

NoSamples == [c \in {} |-> NoProof]

StoreState == [bot : Bot \cup {None}, memories : Seq(Chats), dataset : Dataset]

NewBot == [bot |-> [profile |-> 0, growth |-> 0], memories |-> << >>,
           dataset |-> NoSamples]

NoBot == [bot |-> None, memories |-> << >>, dataset |-> NoSamples]

\* The turns a state of the store remembers.
Turns(s) == Range(s.memories)

-----------------------------------------------------------------------------

\* What flushLocked may return.
FlushOutcomes == IF FlushMayFail THEN BOOLEAN ELSE {TRUE}

\* The rename of flushLocked: the file is replaced, which this run may not have read.
Rename(s) ==
    /\ disk' = s
    /\ load' = "read"
    /\ lost' = IF load = "unread" THEN lost \cup Turns(disk) ELSE lost

\* A faulty variant of Commit: the file is written behind the caller's back.
CommitBehind(s, ok) ==
    /\ ok \in FlushOutcomes
    /\ store' = s
    /\ Rename(s) \/ UNCHANGED fileVars

\* The end of every mutating call: the maps are s, and the file is too if the
\* write succeeds.  ok is whether the call returns without an error.
Commit(s, ok) ==
    /\ ok \in FlushOutcomes
    /\ store' = s
    /\ IF ok THEN Rename(s) ELSE UNCHANGED fileVars

SaveBot(b, ok) == Commit([store EXCEPT !.bot = b], ok)

\* A faulty variant of AppendMemory: when the write fails the call is made again.
AppendMemoryRetried(turn, ok) ==
    \/ Commit([store EXCEPT !.memories = Append(@, turn)], ok)
    \/ FlushMayFail /\ Commit([store EXCEPT !.memories = @ \o <<turn, turn>>], ok)

AppendMemory(turn, ok) == Commit([store EXCEPT !.memories = Append(@, turn)], ok)

\* The dataset with the sample of chat c appended, not published yet.
WithSample(ds, c) ==
    [x \in DOMAIN ds \cup {c} |-> IF x = c THEN NoProof ELSE ds[x]]

SaveTrainingSample(c, ok) ==
    Commit([store EXCEPT !.dataset = WithSample(@, c)], ok)

\* Replaces the WHOLE slice of the bot, whatever was saved since it was listed.
UpdateTrainingSamples(ds, ok) == Commit([store EXCEPT !.dataset = ds], ok)

\* A call on another bot, or on its skills or iNFTs, writes these maps with its own.
FlushElsewhere == Commit(store, TRUE)

\* NewFileStore after a crash: load() reads what the last rename left, or errs.
Reload ==
    /\ \/ store' = disk /\ load' = "read"
       \/ LoadMayFail /\ store' = NoBot /\ load' = "unread"
    /\ UNCHANGED <<disk, lost>>
=============================================================================
