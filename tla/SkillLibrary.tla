---------------------------- MODULE SkillLibrary ----------------------------
(***************************************************************************)
(* The skills of a bot: uploaded, imported from GitHub or saved from a     *)
(* distillation, deleted, and published to 0G one by one or as a bundle.   *)
(*                                                                         *)
(* As in INFTLifecycle a handler is a sequence of store calls without a    *)
(* lock around them, and the list it read stays in its record.  What an    *)
(* item of the slice is made of is the filename of the skill and, which    *)
(* the properties need, the request that created it: its kind, which of    *)
(* those at work it was, and how many skills were made when it began.      *)
(***************************************************************************)
EXTENDS SliceStore, FiniteSetsExt, Functions

CONSTANTS
    Bases,          \* base names of the files
    Kinds,          \* the requests that create skills
    Batches,        \* lists of files that such a request may carry
    Creators,       \* bound on the requests that create skills at once
    Deleters,       \* bound on the delete requests at once
    Publishes,      \* publish_prepare answers: one snapshot and one transaction each
    Calls,          \* bound on the publish_finalize requests that run at once
    NetworkMayFail, \* TRUE when RPC nodes, storage nodes and transactions may fail
    MayExpire,      \* TRUE when 15 minutes may pass before a snapshot is used
    MaxCrashes      \* bound on the crashes of the server

\* A filename is its base and the numbers appended to that: a, a-2, a-2-2.
Filenames == [base : Bases, suffix : Seq(Nat)]

\* A file of a request: a skill, one without content, or one of another type.
Files == [filename : Filenames, content : {"skill", "blank", "unsupported"}]

ASSUME SkillAssumption ==
    /\ Kinds \subseteq {"upload", "import_github", "save_skills"}
    /\ \A batch \in Batches : batch \in Seq(Files)
    /\ None \notin Publishes
    /\ NetworkMayFail \in BOOLEAN /\ MayExpire \in BOOLEAN
    /\ MaxCrashes \in Nat

VARIABLES
    create,     \* the requests that create skills, idle when over
    delete,     \* the delete requests, idle when over
    pub,        \* the publishes: what is in the payload, and the transaction
    pending,    \* keys of the snapshot map
    final,      \* publish_finalize requests, idle when over
    uploader,   \* the goroutine each of them may have started
    uploaded,   \* publishes whose payload is on the storage nodes
    deleted,    \* skills that a delete request was answered for without an error
    contested,  \* history: skills that left the slice while a copy of it had them
    crashes

vars == <<items, file, made, create, delete, pub, pending, final, uploader, uploaded, deleted,
          contested, crashes>>

\* storedOn0G, storageRef, txHash and rootHash are set together, from a publish:
\* every payload has the time in it, so its root is its own.
Skill == [ref : Publishes \cup {None}]

Blank == [ref |-> None]

TxStatus == {"none", "unsent", "pending", "success", "failed"}
Sent == {"pending", "success", "failed"}

Makings == [filename : Filenames, by : Kinds, request : Creators, after : 0..MaxItems]

\* existing and batch are existingFilenames and seenFilenames; after is the number of
\* skills made before the request.
CreateJobs == [pc : {"idle"} \cup Kinds, files : Seq(Files), existing : SUBSET Filenames,
               batch : SUBSET Filenames, after : 0..MaxItems]

NoCreate == [pc |-> "idle", files |-> << >>, existing |-> {}, batch |-> {}, after |-> 0]

DeleteJobs == [ids : SUBSET Ids, list : Slices(Skill)]

NoDelete == [ids |-> {}, list |-> NoItems]

FinalPC == {"idle", "checking", "listing", "listed", "marked"}
UploadPC == {"none", "waiting", "uploaded", "listed"}

\* A publish_finalize and its goroutine work on a publish.
Job(PCs) == [pc : PCs, source : Publishes \cup {None}, list : Slices(Skill)]

NoJob(pc) == [pc |-> pc, source |-> None, list |-> NoItems]

TypeOK ==
    /\ items \in Slices(Skill) /\ file \in Slices(Skill)
    /\ made \in Seq(Makings) /\ Len(made) <= MaxItems
    /\ create \in [Creators -> CreateJobs]
    /\ delete \in [Deleters -> DeleteJobs]
    /\ pub \in [Publishes -> [kind : {"none", "skill", "skills_bundle"}, skills : SUBSET Ids,
                              tx : TxStatus]]
    /\ pending \subseteq Publishes
    /\ final \in [Calls -> Job(FinalPC)]
    /\ uploader \in [Calls -> Job(UploadPC)]
    /\ uploaded \subseteq Publishes
    /\ deleted \subseteq Ids /\ contested \subseteq Ids
    /\ crashes \in 0..MaxCrashes

Init ==
    /\ items = NoItems /\ file = NoItems /\ made = << >>
    /\ create = [c \in Creators |-> NoCreate]
    /\ delete = [d \in Deleters |-> NoDelete]
    /\ pub = [p \in Publishes |-> [kind |-> "none", skills |-> {}, tx |-> "none"]]
    /\ pending = {}
    /\ final = [f \in Calls |-> NoJob("idle")]
    /\ uploader = [f \in Calls |-> NoJob("none")]
    /\ uploaded = {}
    /\ deleted = {} /\ contested = {}
    /\ crashes = 0

-----------------------------------------------------------------------------
(***************************************************************************)
(* POST skills/upload, skills/import_github and datasets/distill/save      *)
(***************************************************************************)

UnchangedByCreate ==
    UNCHANGED <<delete, pub, pending, final, uploader, uploaded, deleted, crashes>>

\* The filenames of the skills in the slice.
FilenamesOf(s) == {made[x].filename : x \in Listed(s)}

\* An upload and a save list the skills once, before the first file; an import
\* reads nothing of the store.
StartCreate(c) ==
    /\ create[c].pc = "idle"
    /\ \E kind \in Kinds, files \in Batches :
           create' = [create EXCEPT ![c] =
               [pc |-> kind, files |-> files, batch |-> {}, after |-> Len(made),
                existing |-> IF kind = "import_github" THEN {} ELSE FilenamesOf(items)]]
    /\ UNCHANGED sliceVars
    /\ UnchangedByCreate

\* The request goes on with its next file.
NextFile(c, batch) ==
    create' = [create EXCEPT ![c].files = Tail(@), ![c].batch = batch]

\* It is answered, or ends in an error; what it created stays.
CreateOver(c) == create' = [create EXCEPT ![c] = NoCreate]

\* What a skill of this request is made of.
Making(c, filename) ==
    [filename |-> filename, by |-> create[c].pc, request |-> c, after |-> create[c].after]

\* CreateSkill.  An error of the store ends the request.
CreateSkill(c, filename, batch) ==
    \E ok \in BOOLEAN :
        /\ Save(Making(c, filename), Blank, ok)
        /\ IF ok THEN NextFile(c, batch) ELSE CreateOver(c)

\* A faulty variant of Refused: what the upload itself carries is not compared.
RefusedExisting(f, existing, batch) ==
    f.content = "unsupported" \/ f.filename \in existing

\* A file an upload stops at.
Refused(f, existing, batch) ==
    f.content = "unsupported" \/ f.filename \in existing \cup batch

\* handleSkillUpload: the filename of an empty file counts as seen, too.
UploadFile(c) ==
    LET f == Head(create[c].files)
        batch == create[c].batch \cup {f.filename} IN
    IF Refused(f, create[c].existing, create[c].batch)
    THEN CreateOver(c) /\ UNCHANGED sliceVars
    ELSE IF f.content = "blank"
    THEN NextFile(c, batch) /\ UNCHANGED sliceVars
    ELSE CreateSkill(c, f.filename, batch)

\* importSkillsFromZip: no filename is compared with anything.
ImportFile(c) ==
    LET f == Head(create[c].files) IN
    IF f.content # "skill"
    THEN NextFile(c, {}) /\ UNCHANGED sliceVars
    ELSE CreateSkill(c, f.filename, {})

\* The n-th candidate for a filename: a, a-2, a-3, and so on.
Candidate(filename, n) ==
    IF n = 1 THEN filename ELSE [filename EXCEPT !.suffix = Append(@, n)]

\* A faulty variant of makeUniqueDistilledSkillFilename: the filenames of the drafts
\* saved before are left out of account.
UniqueAmongExisting(filename, existing, batch) ==
    Candidate(filename, Min({n \in 1..Cardinality(existing) + 1 :
                                 Candidate(filename, n) \notin existing}))

\* The first candidate that neither exists nor is one of the batch.  Some candidate
\* of so many is neither.
makeUniqueDistilledSkillFilename(filename, existing, batch) ==
    Candidate(filename, Min({n \in 1..Cardinality(existing \cup batch) + 1 :
                                 Candidate(filename, n) \notin existing \cup batch}))

\* SaveDistilledSkills.  The filename of a draft is made to end in a known type.
SaveDraft(c) ==
    LET f == Head(create[c].files)
        filename == makeUniqueDistilledSkillFilename(f.filename, create[c].existing,
                                                     create[c].batch) IN
    IF f.content = "blank"
    THEN NextFile(c, create[c].batch) /\ UNCHANGED sliceVars
    ELSE CreateSkill(c, filename, create[c].batch \cup {filename})

CreateNext(c) ==
    /\ create[c].pc # "idle"
    /\ IF create[c].files = << >> THEN CreateOver(c) /\ UNCHANGED sliceVars
       ELSE \/ create[c].pc = "upload" /\ UploadFile(c)
            \/ create[c].pc = "import_github" /\ ImportFile(c)
            \/ create[c].pc = "save_skills" /\ SaveDraft(c)
    /\ UnchangedByCreate

-----------------------------------------------------------------------------
(***************************************************************************)
(* POST skills/delete                                                      *)
(***************************************************************************)

UnchangedByDelete ==
    UNCHANGED <<made, create, pub, pending, final, uploader, uploaded, crashes>>

\* A request none of whose ids is listed is answered at once.
DeleteList(d) ==
    /\ delete[d].ids = {}
    /\ \E ids \in (SUBSET Listed(items)) \ {{}} :
           delete' = [delete EXCEPT ![d] = [ids |-> ids, list |-> items]]
    /\ UNCHANGED <<items, file, deleted>>
    /\ UnchangedByDelete

\* The slice a delete request writes back.
Remaining(job) == [x \in Ids |-> IF x \in job.ids THEN None ELSE job.list[x]]

\* A faulty variant of Answered: the error of UpdateSkills is not looked at.
AnsweredAlways(ok) == TRUE

\* Whether the request is answered without an error.
Answered(ok) == ok

DeleteUpdate(d) ==
    /\ delete[d].ids # {}
    /\ \E ok \in BOOLEAN :
           /\ Update(Remaining(delete[d]), ok)
           /\ deleted' = IF Answered(ok) THEN deleted \cup delete[d].ids ELSE deleted
    /\ delete' = [delete EXCEPT ![d] = NoDelete]
    /\ UnchangedByDelete

DeleteSkills(d) == DeleteList(d) \/ DeleteUpdate(d)

-----------------------------------------------------------------------------
(***************************************************************************)
(* Publish one skill (skill_publish.go), or those not published yet as a   *)
(* bundle (wallet_skills_bundle_publish.go)                                *)
(***************************************************************************)

UnchangedByPublish == UNCHANGED <<made, create, delete, deleted, crashes>>

Prepare(p, kind, skills) ==
    /\ pub[p].tx = "none"
    /\ pub' = [pub EXCEPT ![p] = [kind |-> kind, skills |-> skills, tx |-> "unsent"]]
    /\ pending' = pending \cup {p}
    /\ UNCHANGED <<items, file, final, uploader, uploaded>>
    /\ UnchangedByPublish

\* Any skill may be published by itself, also one that is published already.
PrepareSkillPublish(p) == \E x \in Listed(items) : Prepare(p, "skill", {x})

\* The browser names some skills or none, for all of them; those that are published
\* are left out.
PrepareSkillsBundlePublish(p) ==
    \E skills \in SUBSET {x \in Listed(items) : items[x].ref = None} :
        skills # {} /\ Prepare(p, "skills_bundle", skills)

SetPublishTx(p, status) ==
    /\ pub' = [pub EXCEPT ![p].tx = status]
    /\ UNCHANGED <<items, file, pending, final, uploader, uploaded>>
    /\ UnchangedByPublish

WalletSendsPublish(p) == pub[p].tx = "unsent" /\ SetPublishTx(p, "pending")

ChainMinesPublish(p) ==
    /\ pub[p].tx = "pending"
    /\ \E status \in IF NetworkMayFail THEN {"success", "failed"} ELSE {"success"} :
           SetPublishTx(p, status)

FinalizeOver(f) == final' = [final EXCEPT ![f] = NoJob("idle")]

\* The browser has sent the transaction of the snapshot it names.
FinalizeGetSnapshot(f) ==
    /\ final[f].pc = "idle"
    /\ uploader[f].pc = "none"
    /\ \E p \in pending :
        /\ pub[p].tx \in Sent
        /\ final' = [final EXCEPT ![f] = [@ EXCEPT !.pc = "checking", !.source = p]]
    /\ UNCHANGED <<items, file, pub, pending, uploader, uploaded>>
    /\ UnchangedByPublish

\* A failed transaction, for one skill no file on the nodes within 2 minutes, or an
\* error of the network.
FinalizeRejectTx(f) ==
    LET p == final[f].source IN
    /\ final[f].pc = "checking"
    /\ pub[p].tx # "success" \/ NetworkMayFail
    /\ pub[p].tx = "pending" /\ pub[p].kind = "skills_bundle" => NetworkMayFail
    /\ FinalizeOver(f)
    /\ UNCHANGED <<items, file, pub, pending, uploader, uploaded>>
    /\ UnchangedByPublish

\* A faulty variant of OnStorage: one skill is treated as a bundle is.
TxNotFailed(p) == pub[p].tx # "failed"

\* waitFileInfo and Upload have an effect only when the transaction is on the chain.
OnStorage(p) == pub[p].tx = "success"

\* FinalizeSkillPublish uploads the payload before it marks the skill.
FinalizeUploadSkill(f) ==
    LET p == final[f].source IN
    /\ final[f].pc = "checking"
    /\ pub[p].kind = "skill"
    /\ OnStorage(p)
    /\ uploaded' = IF pub[p].tx = "success" THEN uploaded \cup {p} ELSE uploaded
    /\ final' = [final EXCEPT ![f].pc = "listing"]
    /\ UNCHANGED <<items, file, pub, pending, uploader>>
    /\ UnchangedByPublish

\* FinalizeSkillsBundlePublish leaves the upload to its goroutine: checkTxReceipt
\* reports success, or no receipt yet.
FinalizeAcceptBundleTx(f) ==
    LET p == final[f].source IN
    /\ final[f].pc = "checking"
    /\ pub[p].kind = "skills_bundle"
    /\ pub[p].tx # "failed"
    /\ pending' = pending \ {p}
    /\ uploader' = [uploader EXCEPT ![f] = [final[f] EXCEPT !.pc = "waiting"]]
    /\ final' = [final EXCEPT ![f].pc = "listing"]
    /\ UNCHANGED <<items, file, pub, uploaded>>
    /\ UnchangedByPublish

\* A request ends here when none of its skills is listed any more.
FinalizeListSkills(f) ==
    /\ final[f].pc = "listing"
    /\ IF pub[final[f].source].skills \cap Listed(items) # {}
       THEN final' = [final EXCEPT ![f] = [@ EXCEPT !.pc = "listed", !.list = items]]
       ELSE FinalizeOver(f)
    /\ UNCHANGED <<items, file, pub, pending, uploader, uploaded>>
    /\ UnchangedByPublish

\* A faulty variant of Marked: every skill that is not published gets the reference.
MarkedPending(job) ==
    [x \in Ids |-> IF x \in Listed(job.list) /\ job.list[x].ref = None
                   THEN [ref |-> job.source] ELSE job.list[x]]

\* A faulty variant of Marked: the kind of the snapshot is stored for its reference.
MarkedKind(job) ==
    [x \in Ids |-> IF x \in Listed(job.list) /\ x \in pub[job.source].skills
                   THEN [ref |-> pub[job.source].kind] ELSE job.list[x]]

\* The slice a job listed, with the reference on the skills of its snapshot.
Marked(job) ==
    [x \in Ids |-> IF x \in Listed(job.list) /\ x \in pub[job.source].skills
                   THEN [ref |-> job.source] ELSE job.list[x]]

\* An error of UpdateSkills is not looked at.
FinalizeUpdateSkills(f) ==
    /\ final[f].pc = "listed"
    /\ \E ok \in BOOLEAN : Update(Marked(final[f]), ok)
    /\ IF pub[final[f].source].kind = "skill"
       THEN final' = [final EXCEPT ![f] = [@ EXCEPT !.pc = "marked", !.list = NoItems]]
       ELSE FinalizeOver(f)
    /\ UNCHANGED <<pub, pending, uploader, uploaded>>
    /\ UnchangedByPublish

FinalizeDeleteSnapshot(f) ==
    /\ final[f].pc = "marked"
    /\ pending' = pending \ {final[f].source}
    /\ FinalizeOver(f)
    /\ UNCHANGED <<items, file, pub, uploader, uploaded>>
    /\ UnchangedByPublish

FinalizePublish(f) ==
    \/ FinalizeGetSnapshot(f) \/ FinalizeRejectTx(f) \/ FinalizeUploadSkill(f)
    \/ FinalizeAcceptBundleTx(f) \/ FinalizeListSkills(f) \/ FinalizeUpdateSkills(f)
    \/ FinalizeDeleteSnapshot(f)

UploadOver(f) == uploader' = [uploader EXCEPT ![f] = NoJob("none")]

\* As OnStorage says; or something errs, or the 12 minutes are over.
UploadSegments(f) ==
    LET p == uploader[f].source IN
    /\ uploader[f].pc = "waiting"
    /\ \/ /\ pub[p].tx = "success"
          /\ uploaded' = uploaded \cup {p}
          /\ uploader' = [uploader EXCEPT ![f].pc = "uploaded"]
       \/ /\ NetworkMayFail \/ pub[p].tx # "success"
          /\ UploadOver(f)
          /\ UNCHANGED uploaded
    /\ UNCHANGED <<items, file, pub, pending, final>>
    /\ UnchangedByPublish

UploadListSkills(f) ==
    /\ uploader[f].pc = "uploaded"
    /\ uploader' = [uploader EXCEPT ![f] = [@ EXCEPT !.pc = "listed", !.list = items]]
    /\ UNCHANGED <<items, file, pub, pending, final, uploaded>>
    /\ UnchangedByPublish

\* The list is written back also when none of the skills is in it.
UploadUpdateSkills(f) ==
    /\ uploader[f].pc = "listed"
    /\ \E ok \in BOOLEAN : Update(Marked(uploader[f]), ok)
    /\ UploadOver(f)
    /\ UNCHANGED <<pub, pending, final, uploaded>>
    /\ UnchangedByPublish

completeWalletSkillsBundleUpload(f) ==
    UploadSegments(f) \/ UploadListSkills(f) \/ UploadUpdateSkills(f)

-----------------------------------------------------------------------------

\* Requests, goroutines and snapshots are gone, the slice is what the file holds.
Crash ==
    /\ crashes < MaxCrashes
    /\ crashes' = crashes + 1
    /\ Reload
    /\ create' = [c \in Creators |-> NoCreate]
    /\ delete' = [d \in Deleters |-> NoDelete]
    /\ pending' = {}
    /\ final' = [f \in Calls |-> NoJob("idle")]
    /\ uploader' = [f \in Calls |-> NoJob("none")]
    /\ UNCHANGED <<pub, uploaded, deleted>>

\* getSnapshot removes a snapshot that is older than 15 minutes.
SnapshotExpires ==
    /\ MayExpire
    /\ \E p \in pending : pending' = pending \ {p}
    /\ UNCHANGED <<sliceVars, create, delete, pub, final, uploader, uploaded, deleted, crashes>>

OtherWrite ==
    /\ FlushElsewhere
    /\ UNCHANGED <<create, delete, pub, pending, final, uploader, uploaded, deleted, crashes>>

Step ==
    \/ \E c \in Creators : StartCreate(c) \/ CreateNext(c)
    \/ \E d \in Deleters : DeleteSkills(d)
    \/ \E p \in Publishes :
           \/ PrepareSkillPublish(p) \/ PrepareSkillsBundlePublish(p)
           \/ WalletSendsPublish(p) \/ ChainMinesPublish(p)
    \/ \E f \in Calls : FinalizePublish(f) \/ completeWalletSkillsBundleUpload(f)
    \/ SnapshotExpires
    \/ OtherWrite
    \/ Crash

\* The skills that some request or goroutine is going to write back.
Held ==
    (UNION {Listed(Remaining(job)) : job \in Range(delete)})
    \cup (UNION {Listed(job.list) : job \in Range(final) \cup Range(uploader)})

\* The history of the skills that were taken out of the slice too early.
Contest == contested' = contested \cup ((Listed(items) \ Listed(items')) \cap Held')

Next == Step /\ Contest

Spec == Init /\ [][Next]_vars

-----------------------------------------------------------------------------
(***************************************************************************)
(* Properties                                                              *)
(***************************************************************************)

\* The reference on a skill is one of a publish whose payload has this skill, and
\* which the wallet sent; a bundle never marks what was uploaded meanwhile, however
\* many slices are written back late, and neither does a restart.
ProofCoversSkill ==
    \A s \in {items, file} : \A x \in Listed(s) :
        LET p == s[x].ref IN p # None => x \in pub[p].skills /\ pub[p].tx \in Sent

\* A skill that was published by itself is on the storage nodes: that call waits
\* for the upload, and no other call marks the skill before.
SingleIsUploaded ==
    \A s \in {items, file} : \A x \in Listed(s) :
        LET p == s[x].ref IN p # None /\ pub[p].kind = "skill" => p \in uploaded

\* An upload refuses a file the bot has ("Skills 文件已存在", app/skills.go:263), and
\* a save of distilled skills renames it, whatever is created, deleted and published at
\* the same time, and across failed writes and restarts.  So of two skills with one
\* filename the later is an import, which compares nothing; or another request created
\* the earlier one after that of the later one had listed the skills; or the earlier one
\* had left the slice, and a copy that still had it brought it back.
FilenamesUnique ==
    \A s \in {items, file} : \A x, y \in Listed(s) :
        x < y /\ made[x].filename = made[y].filename =>
            \/ made[y].by = "import_github"
            \/ x > made[y].after /\ made[x].request # made[y].request
            \/ x \in contested

\* A deletion that was answered cannot be undone ("此操作不可撤销", frontend/app.js:2019):
\* unless a copy of the slice that has the skill is already under way, nothing brings it
\* back, no creation, publish or other deletion of later, no failed write and no restart.
DeletedStaysDeleted == (deleted \ contested) \cap (Listed(items) \cup Listed(file)) = {}
=============================================================================
